---------------------------- MODULE HistoricalVaR ----------------------------
(* Historical simulation: the factor panel, one P&L series for every position *)
(* of a book, the quantile and tail statistics of their sum, and the          *)
(* allocations of the tail loss.                                              *)
(*                                                                            *)
(* P&L is in half-cents (200 to the unit of money). Quantiles and expected    *)
(* shortfalls are a hundred times that, so that numpy's interpolation between *)
(* two losses is exact. A series is a sequence; a map of series is a function *)
(* from the indices of the positions.                                         *)
EXTENDS Placement

\* A run of the engine: a methodology, and either a four-macro dataset (a
\* sequence of aggregate rows) or a panel (a sequence of typed rows).
Engine(methodology, dataset, panel) ==
    [methodology |-> methodology, dataset |-> dataset, panel |-> panel]

Indices(engine) == IF engine.panel # None THEN DOMAIN engine.panel ELSE DOMAIN engine.dataset

-----------------------------------------------------------------------------
(* The factor panel.                                                          *)

\* The tenor is part of it, the bucket of a volatility is not.
panel_factor_identity(f) == <<Key(f), FactorType(f), Bucket(f)>>
Columns(row) == {panel_factor_identity(row[i][1]) : i \in DOMAIN row}

\* Every row has the columns of the first, once each, and there is a row.
from_pairs(rows) ==
    IF /\ rows # <<>> /\ rows[1] # <<>>
       /\ \A i \in DOMAIN rows : /\ Cardinality(Columns(rows[i])) = Len(rows[i])
                                 /\ Columns(rows[i]) = Columns(rows[1])
    THEN {rows} ELSE {}

change(row, f) ==
    row[CHOOSE i \in DOMAIN row : panel_factor_identity(row[i][1]) = panel_factor_identity(f)][2]

truncate_factor_panel(panel, observations) ==
    IF observations \in 1..Len(panel) THEN {SubSeq(panel, 1, observations)} ELSE {}

\* A four-macro dataset is broadcast by family; a per-factor file's columns
\* are the panel's, and must hold the factors that are asked for.
SeriesForFactor(row, f) ==
    CASE f.kind = "EquitySpot" -> row.equity [] f.kind \in VolKinds -> row.vol
      [] f.kind = "RateZero" -> row.rates   [] f.kind = "FXSpot" -> row.fx
Truncated(rows, n) == IF n = None THEN {rows} ELSE truncate_factor_panel(rows, n)
factor_panel_from_dataset(dataset, factors, observations) ==
    UNION {from_pairs([i \in DOMAIN rows |->
                          [j \in DOMAIN factors |-> <<factors[j], SeriesForFactor(rows[i], factors[j])>>]]) :
              rows \in Truncated(dataset, observations)}
panel_from_per_factor_dataset(file, factors, observations) ==
    LET has(f)  == panel_factor_identity(f) \in Columns(file[1])
        kept(r) == IF factors = None THEN r
                   ELSE [j \in DOMAIN factors |-> <<factors[j], change(r, factors[j])>>]
    IN  IF factors # None /\ \E j \in DOMAIN factors : ~has(factors[j]) THEN {}
        ELSE UNION {from_pairs([i \in DOMAIN rows |-> kept(rows[i])]) :
                       rows \in Truncated(file, observations)}

required_panel_factors(positions) == UNION {Range(named_risk_factors(p)) : p \in Range(positions)}

\* A factor without a column is refused, not taken as unmoved.
PanelCovers(positions, panel) ==
    \A f \in required_panel_factors(positions) : panel_factor_identity(f) \in Columns(panel[1])

-----------------------------------------------------------------------------
(* The P&L of one valuation.                                                  *)

SpotPnl(delta, pct)      == 2 * delta * pct
GammaPnl(gamma, pct)     == (gamma * pct * pct) \div 100
VolPnl(vega, base, pct)  == (vega * base * pct) \div 5000
RatePnl(dv01, bps)       == 200 * dv01 * bps

\* The first volatility that is not zero, equities before pairs.
representative_base_vol(m) ==
    LET nonzero(d) == SelectSeq([i \in 1..Cardinality(DOMAIN d) |-> d[Ordered(d)[i]]], LAMBDA v : v # 0)
        vols == nonzero(m.equity_vols) \o nonzero(m.fx_vols)
    IN  IF vols = <<>> THEN 0 ELSE vols[1]

base_vol_for_factor(m, f) == Mark(IF f.kind = "EquityVol" THEN m.equity_vols ELSE m.fx_vols, f.name)

\* LINEAR leaves the gamma out.
EffectiveGamma(v, methodology) == IF methodology = "DELTA_GAMMA" THEN v.gamma ELSE 0

\* The families of a row and what each adds. The same split is the total of
\* approximate_pnl_series and the factor contributions of the report.
Families == {"equity", "vol", "rate", "fx"}
FamilyPnl(family, v, row, methodology, base_vol) ==
    CASE family = "equity" -> SpotPnl(v.delta, row.equity)
                              + GammaPnl(EffectiveGamma(v, methodology), row.equity)
      [] family = "vol"    -> VolPnl(v.vega, base_vol, row.vol)
      [] family = "rate"   -> RatePnl(v.dv01, row.rates)
      [] family = "fx"     -> SpotPnl(v.fx_delta, row.fx)

SumOver(S, f(_)) == FoldSet(LAMBDA x, s : s + f(x), 0, S)

approximate_pnl_series(v, rows, methodology, base_vol) ==
    [i \in DOMAIN rows |->
        SumOver(Families, LAMBDA k : FamilyPnl(k, v, rows[i], methodology, base_vol))]

\* A typed column moves only its own factor; gamma goes with equity spots.
PanelContribution(f, v, move, m, methodology) ==
    CASE f.kind = "EquitySpot" -> {SpotPnl(v.delta, move) + GammaPnl(EffectiveGamma(v, methodology), move)}
      [] f.kind = "FXSpot"     -> {SpotPnl(v.fx_delta, move)}
      [] f.kind \in VolKinds   -> {VolPnl(v.vega, b, move) : b \in base_vol_for_factor(m, f)}
      [] f.kind = "RateZero"   -> {RatePnl(v.dv01, move)}

\* What the factors of one family add to one position's row.
PanelFamily(family, p, v, row, m, methodology) ==
    LET fs == {f \in Range(named_risk_factors(p)) : FactorType(f) = family}
        part(f) == PanelContribution(f, v, change(row, f), m, methodology)
    IN  IF \E f \in fs : part(f) = {} THEN {}
        ELSE {SumOver(fs, LAMBDA f : CHOOSE x \in part(f) : TRUE)}

-----------------------------------------------------------------------------
(* A series for every position of a book.                                     *)

\* The snapshots of a full revaluation: each row applied to the base.
Shocked(engine, m) ==
    IF engine.panel # None
    THEN shocked_snapshots(m, historical_market_scenarios_from_panel(engine.panel))
    ELSE shocked_snapshots(m, historical_market_scenarios(m, engine.dataset))

FullRevaluation(engine, positions, m) ==
    {[i \in DOMAIN positions |->
        Mapped(LAMBDA vs : 200 * (vs[i].market_value - base[i].market_value), moved)] :
      base \in value_portfolio(positions, m),
      moved \in UNION {Each(LAMBDA x : value_portfolio(positions, x), snaps) : snaps \in Shocked(engine, m)}}

\* The additive split of the greek methodologies: by position and family.
\* LINEAR and DELTA_GAMMA series are its sums over the families.
Split(engine, methodology, positions, m) ==
    LET vol == representative_base_vol(m)
        row(p, v, k, r) == IF engine.panel # None THEN PanelFamily(k, p, v, r, m, methodology)
                           ELSE {FamilyPnl(k, v, r, methodology, vol)}
        series(p, v, k) == Each(LAMBDA r : row(p, v, k, r),
                                IF engine.panel # None THEN engine.panel ELSE engine.dataset)
        split(p, v) == {[equity |-> e, vol |-> w, rate |-> r, fx |-> x] :
                           e \in series(p, v, "equity"), w \in series(p, v, "vol"),
                           r \in series(p, v, "rate"), x \in series(p, v, "fx")}
    IN  UNION {Each(LAMBDA i : split(positions[i], vs[i]), Positions(positions)) :
               vs \in value_portfolio(positions, m)}

Covered(engine, positions) == engine.panel = None \/ PanelCovers(positions, engine.panel)

PositionPnls(engine, methodology, positions, m) ==
    CASE ~Covered(engine, positions) -> {}
      [] Covered(engine, positions) /\ methodology = "FULL_REVALUATION" ->
            FullRevaluation(engine, positions, m)
      [] OTHER ->
            {Mapped(LAMBDA s : [n \in Indices(engine) |-> s.equity[n] + s.vol[n] + s.rate[n] + s.fx[n]],
                    split) :
             split \in Split(engine, methodology, positions, m)}

TotalPnl(engine, pnls) ==
    Mapped(LAMBDA n : SumOver(DOMAIN pnls, LAMBDA i : pnls[i][n]), [n \in Indices(engine) |-> n])

\* The engine's own total: from the sum of the greeks when there is no panel.
PortfolioPnl(engine, methodology, positions, m) ==
    IF engine.panel = None /\ methodology # "FULL_REVALUATION"
    THEN {approximate_pnl_series([g \in DOMAIN Greeks |-> Total(vs, g)], engine.dataset, methodology,
                                 representative_base_vol(m)) :
          vs \in value_portfolio(positions, m)}
    ELSE {TotalPnl(engine, pnls) : pnls \in PositionPnls(engine, methodology, positions, m)}

\* The series a trade's artifact carries: greeks only, and no panel.
historical_pnl_for_valuation(engine, v, m) ==
    IF engine.methodology = "FULL_REVALUATION" \/ engine.panel # None \/ engine.dataset = <<>> THEN None
    ELSE approximate_pnl_series(v, engine.dataset, engine.methodology, representative_base_vol(m))

-----------------------------------------------------------------------------
(* Quantile, tail, summary.                                                   *)

Nonneg(x) == IF x > 0 THEN x ELSE 0
Losses(pnl) == [n \in DOMAIN pnl |-> -pnl[n]]

\* numpy's linear quantile of a sequence, times 100.
Quantile100(xs, confidence) ==
    LET sorted == SortSeq(xs, <)
        h == (Len(xs) - 1) * confidence
        k == h \div 100
        f == h % 100
    IN  IF f = 0 THEN 100 * sorted[k + 1]
        ELSE 100 * sorted[k + 1] + f * (sorted[k + 2] - sorted[k + 1])

Var(losses, confidence) == Nonneg(Quantile100(losses, confidence))
TailOf(losses, var)       == {n \in DOMAIN losses : 100 * losses[n] >= var}
MeanOver(S, xs)         == (100 * SumOver(S, LAMBDA n : xs[n])) \div Cardinality(S)

calculate(engine, methodology, positions, m) ==
    {LET losses == Losses(pnl)
         var99  == Var(losses, 99)
         tail   == TailOf(losses, var99)
     IN  [g \in DOMAIN Greeks \cup {"market_value"} |-> Total(vs, g)]
         @@ [var_95 |-> Var(losses, 95), var_99 |-> var99,
             expected_shortfall_99 |-> Nonneg(IF tail # {} THEN MeanOver(tail, losses) ELSE var99),
             methodology |-> methodology] :
     vs \in value_portfolio(positions, m), pnl \in PortfolioPnl(engine, methodology, positions, m)}

compare_methodologies(engine, positions, m) ==
    LET each == [k \in {"LINEAR", "DELTA_GAMMA", "FULL_REVALUATION"} |-> calculate(engine, k, positions, m)]
    IN  IF \E k \in DOMAIN each : each[k] = {} THEN {}
        ELSE {[k \in DOMAIN each |-> CHOOSE s \in each[k] : TRUE]}

-----------------------------------------------------------------------------
(* The VaR report: historical VaR and ES, Euler components of the parametric  *)
(* VaR. A component is given by its covariance with the total: the variance   *)
(* of the total stands for the parametric VaR they add up to. Both are times  *)
(* n(n-1); the marginal VaR is the same number in another unit.               *)

Covariance(xs, ys) ==
    LET all(f(_)) == SumOver(DOMAIN xs, f)
    IN  Len(xs) * all(LAMBDA n : xs[n] * ys[n]) - all(LAMBDA n : xs[n]) * all(LAMBDA n : ys[n])

TailMask(losses, var) == IF TailOf(losses, var) = {} THEN DOMAIN losses ELSE TailOf(losses, var)

VarReport(engine, methodology, positions, m, confidence) ==
    {LET total  == TotalPnl(engine, pnls)
         losses == Losses(total)
         var    == Var(losses, confidence)
         mask   == TailMask(losses, var)
         mean   == IF TailOf(losses, var) = {} THEN var ELSE MeanOver(mask, losses)
     IN  [var |-> var, es |-> IF mean > var THEN mean ELSE var, variance |-> Covariance(total, total),
          contributions |->
              [i \in DOMAIN pnls |->
                  [component_var |-> Covariance(pnls[i], total),
                   component_es  |-> MeanOver(mask, Losses(pnls[i]))]]] :
     pnls \in PositionPnls(engine, methodology, positions, m)}

-----------------------------------------------------------------------------
(* Expected-shortfall contributions, along five dimensions.                   *)

ByKey(pnls, keys, key(_), mask) ==
    [k \in keys |-> MeanOver(mask, [n \in mask |->
                        SumOver({i \in DOMAIN pnls : key(i) = k}, LAMBDA i : -pnls[i][n])])]

\* Fault: the families of a full revaluation without the interaction.
FactorPnlsGreeksOnly(engine, methodology, positions, m, total) ==
    {[k \in Families |-> [n \in DOMAIN total |-> SumOver(DOMAIN positions, LAMBDA i : split[i][k][n])]] :
     split \in Split(engine, IF methodology = "LINEAR" THEN "LINEAR" ELSE "DELTA_GAMMA", positions, m)}

\* A full revaluation's families are the delta-gamma split of the base, and
\* what they leave of the joint P&L is the interaction.
FactorPnls(engine, methodology, positions, m, total) ==
    LET full == methodology = "FULL_REVALUATION"
        how  == IF full THEN "DELTA_GAMMA" ELSE methodology
    IN  {LET family(k, n) == SumOver(DOMAIN positions, LAMBDA i : split[i][k][n])
             rest(n)      == total[n] - SumOver(Families, LAMBDA k : family(k, n))
         IN  [k \in IF full THEN Families \cup {"interaction"} ELSE Families |->
                [n \in DOMAIN total |-> IF k = "interaction" THEN rest(n) ELSE family(k, n)]] :
         split \in Split(engine, how, positions, m)}

EsContributions(engine, methodology, pf, m, confidence) ==
    LET positions == pf.positions IN
    {LET total  == TotalPnl(engine, pnls)
         losses == Losses(total)
         var    == Var(losses, confidence)
         mask   == TailMask(losses, var)
         mean   == MeanOver(mask, losses)
         by(key(_)) == ByKey(pnls, {key(i) : i \in DOMAIN pnls}, key, mask)
     IN  [portfolio_var |-> var, portfolio_es |-> IF mean > var THEN mean ELSE var,
          by_position    |-> by(LAMBDA i : positions[i].id),
          by_book        |-> by(LAMBDA i : positions[i].book),
          by_strategy    |-> by(LAMBDA i : resolve_strategy(positions[i], pf)),
          by_desk        |-> by(LAMBDA i : resolve_desk(positions[i], pf)),
          by_risk_factor |-> [k \in DOMAIN fp |-> MeanOver(mask, Losses(fp[k]))]] :
     pnls \in PositionPnls(engine, methodology, positions, m),
     fp \in UNION {FactorPnls(engine, methodology, positions, m, TotalPnl(engine, x)) :
                      x \in PositionPnls(engine, methodology, positions, m)}}
==============================================================================
