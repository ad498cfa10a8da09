------------------------- MODULE HistoricalAnalytics -------------------------
(* A book's past over a window of the frozen panel: what it would have been   *)
(* worth day after day, how far it fell, its best and worst stretch, the VaR  *)
(* of the window, and the same of a holding of SPY worth as much. The panel   *)
(* has a day for every row. Returns and wealth are in basis points, of the    *)
(* book and of the wealth at the start; a variance is n(n-1) times itself.    *)
EXTENDS HistoricalVaR

WAVE_A_BENCHMARK_FACTOR == Spot("SPY")
Unit == 10000

Part(x, whole) == IF whole > 0 THEN x \div whole ELSE (-x) \div (-whole)
Variance(xs) == Covariance(xs, xs)

\* Saturdays and Sundays are not missed.
weekdays_inclusive(start, end) == {d \in start..end : d % 7 < 5}

\* The rows of some days, or nothing.
RowsOn(panel, days, wanted) ==
    LET in == SelectSeq(Positions(panel), LAMBDA i : days[i] \in wanted)
    IN  IF in = <<>> THEN {}
        ELSE {[days |-> [k \in DOMAIN in |-> days[in[k]]], rows |-> [k \in DOMAIN in |-> panel[in[k]]]]}
\* Fault: the first day is left out.
slice_half_open(panel, days, start, end) ==
    IF start > end THEN {} ELSE RowsOn(panel, days, start + 1..end)
slice_panel(panel, days, start, end) == IF start > end THEN {} ELSE RowsOn(panel, days, start..end)

\* The wealth at the end of each day, from 1 the day before.
cumprod(returns) ==
    Tail(FoldLeft(LAMBDA w, r : Append(w, (Last(w) * (Unit + r)) \div Unit), <<Unit>>, returns))
window_compound(returns, i, length) == Last(cumprod(SubSeq(returns, i, i + length - 1))) - Unit

\* Below the highest so far, the start included.
Drawdown(wealth) ==
    LET peak(i) == CHOOSE p \in {Unit} \cup {wealth[k] : k \in 1..i} :
                      p >= Unit /\ \A k \in 1..i : p >= wealth[k]
    IN  [i \in DOMAIN wealth |-> (Unit * wealth[i]) \div peak(i) - Unit]
Least(xs) == CHOOSE x \in Range(xs) : \A y \in Range(xs) : x <= y

\* The first of the windows with the largest, or the smallest, return.
Scored(days, returns, length) ==
    [i \in 1..Len(returns) - length + 1 |->
        [start |-> days[i], end |-> days[i + length - 1], gain |-> window_compound(returns, i, length)]]
FirstBest(scored, better(_, _)) ==
    scored[CHOOSE i \in DOMAIN scored : /\ \A j \in DOMAIN scored : ~better(scored[j].gain, scored[i].gain)
                                        /\ \A j \in 1..i - 1 : scored[j].gain # scored[i].gain]

\* Two dated series on the days they share.
align_dated_series(left_days, left, right_days, right) ==
    LET distinct(days) == Cardinality(Range(days)) = Len(days)
        both == SortSeq(SetToSeq(Range(left_days) \cap Range(right_days)), <)
        on(days, xs) == [k \in DOMAIN both |-> xs[CHOOSE i \in DOMAIN days : days[i] = both[k]]]
    IN  IF ~distinct(left_days) \/ ~distinct(right_days) \/ Len(both) < 2 THEN {}
        ELSE {[days |-> both, left |-> on(left_days, left), right |-> on(right_days, right)]}

\* As many shares as the book is worth, in whole shares here.
spy_benchmark_book(market_value, spot) ==
    <<[type |-> "equity", id |-> "spy-benchmark", symbol |-> "SPY", quantity |-> Part(market_value, spot),
       desk |-> None, strategy |-> None, book |-> None]>>

\* A panel without SPY, a benchmark that does not move or loses all, a book
\* that does not move and a market without SPY have no comparison.
Relative(sliced, returns, market_value, methodology, m) ==
    LET spy == [k \in DOMAIN sliced.rows |-> 100 * change(sliced.rows[k], WAVE_A_BENCHMARK_FACTOR)]
        report(aligned, spot) ==
            LET p == cumprod(aligned.left)
                b == cumprod(aligned.right)
                ratio == [k \in DOMAIN p |-> (Unit * p[k]) \div b[k]]
            IN  {[days |-> aligned.days, wealth |-> b, cumulative |-> Last(b) - Unit, excess |-> Last(p) - Last(b),
                  covariance |-> Covariance(aligned.left, aligned.right), variance |-> Variance(aligned.right),
                  tracking |-> Variance([k \in DOMAIN p |-> aligned.left[k] - aligned.right[k]]),
                  drawdown |-> Drawdown(ratio), var_99 |-> risk.var_99, var_95 |-> risk.var_95,
                  expected_shortfall_99 |-> risk.expected_shortfall_99] :
                 risk \in UNION {calculate(Engine(methodology, <<>>, on.rows), methodology,
                                           spy_benchmark_book(market_value, spot), m) :
                                 on \in RowsOn(sliced.rows, sliced.days, Range(aligned.days))}}
        defined(aligned) ==
            /\ Variance(aligned.left) # 0 /\ Variance(aligned.right) # 0
            /\ \A w \in Range(cumprod(aligned.right)) : w > 0
    IN  IF panel_factor_identity(WAVE_A_BENCHMARK_FACTOR) \notin Columns(sliced.rows[1]) THEN {}
        ELSE UNION {UNION {report(aligned, spot) : spot \in Mark(m.equity_spots, "SPY") \ {0}} :
                    aligned \in {a \in align_dated_series(sliced.days, returns, sliced.days, spy) : defined(a)}}

\* Over a window of the panel. Annualized numbers are left out, but for when a
\* Sharpe ratio is undefined.
Analytics(panel, days, q, methodology, positions, m) ==
    LET missing(sliced) == weekdays_inclusive(q.start, q.end) \ Range(sliced.days)
        report(sliced, market_value, pnl) ==
            LET returns == [k \in DOMAIN pnl |-> Part(50 * pnl[k], market_value)]
                n       == Len(returns)
                wealth  == cumprod(returns)
                window  == IF q.period_window < n THEN q.period_window ELSE n
                scored  == Scored(sliced.days, returns, window)
                rolling == IF n < q.rolling_window THEN <<>>
                           ELSE [i \in 1..n - q.rolling_window + 1 |->
                                    Variance(SubSeq(returns, i, i + q.rolling_window - 1))]
            IN  IF Last(wealth) <= 0 THEN {}
                ELSE {[market_value |-> market_value, returns |-> returns, wealth |-> wealth,
                       cumulative |-> Last(wealth) - Unit, drawdown |-> Drawdown(wealth),
                       max_drawdown |-> Least(Drawdown(wealth)), variance |-> Variance(returns),
                       sharpe_defined |-> n > 1 /\ Variance(returns) # 0, rolling |-> rolling,
                       best |-> FirstBest(scored, >), worst |-> FirstBest(scored, <), days |-> sliced.days,
                       dropped |-> missing(sliced), var_95 |-> risk.var_95, var_99 |-> risk.var_99,
                       expected_shortfall_99 |-> risk.expected_shortfall_99, benchmark |-> benchmark] :
                      risk \in calculate(Engine(methodology, <<>>, sliced.rows), methodology, positions, m),
                      benchmark \in IF q.include_benchmark
                                    THEN Relative(sliced, returns, market_value, methodology, m) ELSE {None}}
    IN  UNION {UNION {report(sliced, mv, pnl) :
                  mv \in PortfolioPV(positions, m) \ {0},
                  pnl \in PortfolioPnl(Engine(methodology, <<>>, sliced.rows), methodology, positions, m)} :
               sliced \in {s \in slice_panel(panel, days, q.start, q.end) :
                              q.fail_closed => missing(s) = {}}}
==============================================================================
