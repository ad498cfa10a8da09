----------------------------- MODULE Attribution -----------------------------
(* Where a change came from: the P&L explain between two books and markets,   *)
(* the bridge of a risk number between them, and the bridge between two       *)
(* completed runs. A bridge is a sequence of stages, each a book and a market; *)
(* what a driver explains is the difference of the number at two stages.      *)
EXTENDS Hierarchy

CONSTANT DemoDt      \* the business day of the illustrative explain, in quarters
ASSUME DemoDtAssumption == DemoDt \in Nat

Get(d, n, default) == IF n \in DOMAIN d THEN d[n] ELSE default
Ids(positions)     == {p.id : p \in Range(positions)}
ById(positions, id) == positions[At(positions, id)]

-----------------------------------------------------------------------------
(* P&L explain.                                                               *)

Drivers == {"Delta", "Gamma", "Vega", "Rates", "FX", "Theta", "New trades", "Closed trades"}

\* A relative move of a spot as a pair: the change, and what it is relative to.
Move(previous, current, spots, n) ==
    LET s0 == Get(previous[spots], n, 0)
    IN  [by |-> IF s0 = 0 THEN 0 ELSE Get(current[spots], n, s0) - s0,
         of |-> IF s0 = 0 THEN 1 ELSE s0]
Times(greek, move)    == (greek * move.by) \div move.of
HalfSquare(greek, move) == Times(Times(greek, move), move) \div 2
VolPoints(previous, current, vols, n) ==
    LET v0 == Get(previous[vols], n, 0) IN DecimalVolToPoints(Get(current[vols], n, v0) - v0)

\* The position repriced at the previous marks with its maturity shortened,
\* never to nothing; a swaption and a cash equity have no such field.
Theta(p, v, m, dt) ==
    IF dt <= 0 \/ "maturity" \notin DOMAIN p THEN {0}
    ELSE {x.market_value - v.market_value : x \in value([p EXCEPT !.maturity = Nonneg(@ - dt)], m)}

NoMove == [by |-> 0, of |-> 1]
\* A rate move needs a DV01: the families that report none have no rate driver.
GreekBuckets(p, v, previous, current, dt) ==
    LET equity == p.type \in {"equity", "equity_future", "european_option"}
        fx     == p.type \in {"fx_forward", "fx_option"}
        spot   == IF equity THEN Move(previous, current, "equity_spots", p.symbol) ELSE NoMove
        pair   == IF fx THEN Move(previous, current, "fx_spots", p.pair) ELSE NoMove
        points == CASE p.type = "european_option" -> VolPoints(previous, current, "equity_vols", p.symbol)
                    [] p.type = "fx_option"       -> VolPoints(previous, current, "fx_vols", p.pair)
                    [] OTHER                      -> 0
        rated  == p.type \in {"bond", "swap", "ir_future", "european_option", "equity_future"} \/ fx
        ccy    == IF fx THEN Domestic[p.pair] ELSE p.currency
        bps    == LET r0 == Get(previous.rates, ccy, 0)
                  IN  DecimalRateToBps(Get(current.rates, ccy, r0) - r0)
    IN  {[Delta |-> Times(v.delta, spot), FX |-> Times(v.fx_delta, pair),
          Gamma |-> HalfSquare(v.gamma, IF fx THEN pair ELSE spot), Vega |-> v.vega * points,
          Rates |-> IF rated /\ v.dv01 # 0 THEN v.dv01 * bps ELSE 0, Theta |-> t] :
         t \in Theta(p, v, previous, dt)}

\* Fault: resized trades are left out.
TradeFlowUnresized(previous, current, m) ==
    {[new    |-> SumOver({i \in DOMAIN current : ~Has(previous, current[i].id)}, LAMBDA i : news[i].market_value),
      closed |-> SumOver({i \in DOMAIN previous : ~Has(current, previous[i].id)}, LAMBDA i : -olds[i].market_value)] :
     olds \in value_portfolio(previous, m), news \in value_portfolio(current, m)}

\* New, closed and resized trades at one market. A resized trade that is worth
\* more counts as new, one worth less as closed.
TradeFlow(previous, current, m) ==
    {LET was == [id \in Ids(previous) |-> olds[At(previous, id)].market_value]
         is  == [id \in Ids(current) |-> news[At(current, id)].market_value]
         change1(id) == Get(is, id, 0) - Get(was, id, 0)
         gains(id)  == \/ id \notin DOMAIN was
                       \/ id \in DOMAIN is /\ change1(id) > 0
         all == DOMAIN was \cup DOMAIN is
     IN  [new |-> SumOver({id \in all : gains(id)}, change1),
          closed |-> SumOver({id \in all : ~gains(id)}, change1)] :
     olds \in value_portfolio(previous, m), news \in value_portfolio(current, m)}

explain(previous, current, pm, cm, dt) ==
    {LET total == pv1 - Total(vs, "market_value")
         item(d) == CASE d = "New trades" -> flow.new [] d = "Closed trades" -> flow.closed
                      [] OTHER -> SumOver(DOMAIN parts, LAMBDA i : parts[i][d])
         items == [d \in Drivers |-> item(d)]
     IN  [total |-> total, items |-> items, residual |-> total - SumOf(items)] :
     vs \in value_portfolio(previous, pm), pv1 \in PortfolioPV(current, cm),
     flow \in TradeFlow(previous, current, cm),
     parts \in UNION {Each(LAMBDA i : GreekBuckets(previous[i], x[i], pm, cm, dt), Positions(previous)) :
                         x \in value_portfolio(previous, pm)}}

\* The dashboard's explain: the same book against a market a little lower.
Scaled(d, permille) == [n \in DOMAIN d |-> (d[n] * permille) \div 1000]
Lower(d)            == [n \in DOMAIN d |-> d[n] - 1000]
IllustrativePrevious(m) ==
    [m EXCEPT !.id = <<"illustrative_previous">>,
              !.equity_spots = Scaled(@, 990), !.equity_vols = Scaled(@, 950),
              !.fx_spots = Scaled(@, 995), !.fx_vols = Scaled(@, 950),
              !.rates = Lower(@), !.projection_rates = Lower(@),
              !.key_rates = [c \in DOMAIN @ |-> Lower(@[c])]]
demo_attribution(positions, m) == explain(positions, positions, IllustrativePrevious(m), m, DemoDt)

-----------------------------------------------------------------------------
(* Risk change between two books and markets.                                 *)

Stage(driver, positions, m) == [driver |-> driver, positions |-> positions, market |-> m]
Bridge(stages, metric(_, _)) ==
    Each(LAMBDA s : metric(s.positions, s.market), stages)
Explained(stages, numbers) ==
    [i \in 1..Len(stages) - 1 |-> [driver |-> stages[i + 1].driver, delta |-> numbers[i + 1] - numbers[i]]]

MarketSteps ==
    << [label |-> "Equity moves", fields |-> {"equity_spots"}],
       [label |-> "Volatility moves", fields |-> {"equity_vols", "vol_surfaces"}],
       [label |-> "Rates moves", fields |-> {"rates", "key_rates", "curves", "projection_rates"}],
       [label |-> "FX moves", fields |-> {"fx_spots", "fx_vols"}] >>

\* The market with the fields of the first k steps taken from the current one.
Updated(pm, cm, k) ==
    LET taken == UNION {MarketSteps[j].fields : j \in 1..k}
    IN  [n \in DOMAIN pm |-> CASE n = "id" -> pm.id \o [j \in 1..k |-> <<MarketSteps[j].label>>]
                               [] n # "id" /\ n \in taken -> cm[n] [] OTHER -> pm[n]]

Common(old, new)  == SelectSeq(old, LAMBDA p : Has(new, p.id))
ChangeStages(old, new, pm, cm) ==
    << Stage("Previous", old, pm), Stage("Closed trades", Common(old, new), pm),
       Stage("Position changes", Common(new, old), pm), Stage("New trades", new, pm) >>
    \o [k \in DOMAIN MarketSteps |-> Stage(MarketSteps[k].label, new, Updated(pm, cm, k))]
    \o << Stage("Correlation / residual", new, cm) >>

Bridged(stages, numbers) ==
    [previous |-> Head(numbers), current |-> Last(numbers), items |-> Explained(stages, numbers)]
RiskChange(engine, methodology, metric, old, new, pm, cm) ==
    LET number(positions, m) == {s[metric] : s \in calculate(engine, methodology, positions, m)}
        stages == ChangeStages(old, new, pm, cm)
    IN  {Bridged(stages, ns) : ns \in Bridge(stages, number)}

-----------------------------------------------------------------------------
(* Risk change between two completed runs.                                    *)

\* The factors whose mark differs, in the order they are aligned.
DifferingNames(was, now) ==
    SetToSeq({n \in DOMAIN was \cup DOMAIN now : Get(was, n, None) # Get(now, n, None)})
Pillar(m, c, t) == Get(Get(m.key_rates, c, <<>>), t, None)
changed_factors(t0, t1) ==
    LET named(field, factor(_)) ==
            [i \in DOMAIN DifferingNames(t0[field], t1[field]) |->
                factor(DifferingNames(t0[field], t1[field])[i])]
        pillars(m) == UNION {{c} \X DOMAIN m.key_rates[c] : c \in DOMAIN m.key_rates}
        moved == SetToSeq({x \in pillars(t0) \cup pillars(t1) :
                              Pillar(t0, x[1], x[2]) # Pillar(t1, x[1], x[2])})
    IN  named("equity_spots", Spot) \o named("equity_vols", EquityVol)
        \o named("fx_spots", FXSpot) \o named("fx_vols", FXVol)
        \o named("rates", LAMBDA c : RateZero(c, "PARALLEL"))
        \o [i \in DOMAIN moved |-> RateZero(moved[i][1], moved[i][2])]

\* One mark set to the target's. What the target has not is dropped for an
\* equity spot and a scalar rate, and kept for every other factor.
Without(d, n) == [x \in DOMAIN d \ {n} |-> d[x]]
SetMark(running, field, n, to, drop) ==
    [running EXCEPT ![field] = CASE to # None -> Put(@, n, to)
                                 [] to = None /\ drop -> Without(@, n) [] OTHER -> @]
AlignNamed(running, target, field, f, drop) ==
    LET base == Get(running[field], f.name, 0)
        to   == Get(target[field], f.name, None)
    IN  IF base # 0 /\ to # None THEN Bump(running, f, (100 * (to - base)) \div base)
        ELSE {SetMark(running, field, f.name, to, drop)}
\* Fault: a parallel rate is aligned by a bump, as the others are.
AlignRateByBump(running, target, f) ==
    LET parallel == f.tenor \in ParallelTenors
        mark(m)  == IF parallel THEN Get(m.rates, f.name, None) ELSE Pillar(m, f.name, f.tenor)
    IN  IF mark(running) = None \/ mark(target) = None THEN {running}
        ELSE Bump(running, f, mark(target) - mark(running))

\* A parallel rate copies the scalar only; a bump of it would move the pillars.
AlignRate(running, target, f) ==
    LET base == Pillar(running, f.name, f.tenor)
        to   == Pillar(target, f.name, f.tenor)
        own  == Get(running.key_rates, f.name, <<>>)
    IN  CASE f.tenor \in ParallelTenors ->
                {SetMark(running, "rates", f.name, Get(target.rates, f.name, None), TRUE)}
          [] f.tenor \notin ParallelTenors /\ base # None /\ to # None -> Bump(running, f, to - base)
          [] OTHER -> {[running EXCEPT !.key_rates =
                          Put(@, f.name, IF to = None THEN own ELSE Put(own, f.tenor, to))]}
align_factor(running, target, f) ==
    CASE f.kind = "EquitySpot" -> AlignNamed(running, target, "equity_spots", f, TRUE)
      [] f.kind = "EquityVol"  -> AlignNamed(running, target, "equity_vols", f, FALSE)
      [] f.kind = "FXSpot"     -> AlignNamed(running, target, "fx_spots", f, FALSE)
      [] f.kind = "FXVol"      -> AlignNamed(running, target, "fx_vols", f, FALSE)
      [] f.kind = "RateZero"   -> AlignRate(running, target, f)

\* Two markets that name the same factors, and what aligning those reaches.
SameNames(m, n) ==
    /\ \A k \in {"equity_spots", "equity_vols", "fx_spots", "fx_vols", "rates", "key_rates"} :
          DOMAIN m[k] = DOMAIN n[k]
    /\ \A c \in DOMAIN m.key_rates : DOMAIN m.key_rates[c] = DOMAIN n.key_rates[c]
Aligned == {"equity_spots", "equity_vols", "vol_surfaces", "fx_spots", "fx_vols", "rates", "key_rates"}

\* One stage per closed, changed and new trade, at the first run's market.
TradeStages(old, new, m) ==
    LET closed  == Ids(old) \ Ids(new)
        changed == {id \in Ids(old) \cap Ids(new) : ById(old, id) # ById(new, id)}
        ids     == SetToSeq(closed) \o SetToSeq(changed) \o SetToSeq(Ids(new) \ Ids(old))
        after(k) ==
            LET done == {ids[j] : j \in 1..k}
                kept == SelectSeq(old, LAMBDA p : p.id \notin done \cap closed)
                added == SelectSeq(ids, LAMBDA id : id \in done \ Ids(old))
            IN  [i \in DOMAIN kept |-> IF kept[i].id \in done THEN ById(new, kept[i].id) ELSE kept[i]]
                \o [i \in DOMAIN added |-> ById(new, added[i])]
    IN  [k \in DOMAIN ids |-> Stage(ids[k], after(k), m)]

\* The markets after each factor, the whole bridge, or nothing.
AlignedMarkets(t0, t1) ==
    FoldLeft(LAMBDA acc, f : UNION {{Append(ms, x) : x \in align_factor(Last(ms), t1, f)} : ms \in acc},
             {<<t0>>}, changed_factors(t0, t1))

RunStages(old, new, t0, t1) ==
    LET trades == TradeStages(old, new, t0)
        book   == IF trades = <<>> THEN old ELSE Last(trades).positions
        factors == changed_factors(t0, t1)
    IN  {<<Stage("Previous", old, t0)>> \o trades
         \o [k \in DOMAIN factors |-> Stage(factors[k], book, ms[k + 1])] : ms \in AlignedMarkets(t0, t1)}

\* One row for every trade of either book, those that did not change with
\* nothing, under the desk and the book of the portfolio it was last in.
ChangeTree(pf0, pf1, items) ==
    LET both == Ids(pf0.positions) \cup Ids(pf1.positions)
        of(id) == IF id \in Ids(pf1.positions) THEN pf1 ELSE pf0
        desk(id) == resolve_desk(ById(of(id).positions, id), of(id))
        book(id) == ById(of(id).positions, id).book
        by(id) == SumOver({i \in DOMAIN items : items[i].driver = id}, LAMBDA i : items[i].delta)
        row(level, label, ids) ==
            [level |-> level, label |-> label, trades |-> ids, delta |-> SumOver(ids, by)]
        trade(id) == row("trade", <<desk(id), book(id), id>>, {id})
    IN  {trade(id) : id \in both}
        \cup {row("book", <<desk(x), book(x)>>, {id \in both : desk(id) = desk(x) /\ book(id) = book(x)}) : x \in both}
        \cup {row("desk", <<desk(x)>>, {id \in both : desk(id) = desk(x)}) : x \in both}
        \cup {row("firm", <<>>, both)}

\* A number a result has kept is taken over the one computed.
Headline(persisted, computed) == IF persisted # None THEN persisted ELSE computed

\* What a run's own engine and methodology make of a book and a market.
ValueOf(run, metric, positions, m) ==
    {s[metric] : s \in calculate(run.engine, run.methodology, positions, m)}
OwnValue(run, metric) == ValueOf(run, metric, run.book.positions, run.market)
StageValues(run, metric, stages) ==
    Bridge(stages, LAMBDA positions, m : ValueOf(run, metric, positions, m))

\* The stages are the first run's; what the second run's number has beyond the
\* last of them is the residual.
Report(r0, r1, stages, numbers, previous, current) ==
    LET items  == Explained(stages, numbers)
        trades == SubSeq(items, 1, Len(TradeStages(r0.book.positions, r1.book.positions, r0.market)))
    IN  [previous |-> previous, current |-> current, total |-> current - previous, items |-> items,
         tree |-> ChangeTree(r0.book, r1.book, trades), aligned |-> Last(stages).market,
         residual |-> current - previous - SumOf([i \in DOMAIN items |-> items[i].delta])]
explain_risk_runs(r0, r1, metric, persisted) ==
    UNION {{Report(r0, r1, stages, <<previous>> \o ns,
                   Headline(persisted[1], previous), Headline(persisted[2], current)) :
               previous \in OwnValue(r0, metric), current \in OwnValue(r1, metric),
               ns \in StageValues(r0, metric, Tail(stages))} :
           stages \in RunStages(r0.book.positions, r1.book.positions, r0.market, r1.market)}
==============================================================================
