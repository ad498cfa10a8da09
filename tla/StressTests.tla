----------------------------- MODULE StressTests -----------------------------
(* Stress P&L of a book under scenarios, its evaluation against thresholds,   *)
(* its attribution to hierarchy and factors, and before/after comparisons.    *)
(*                                                                            *)
(* Applying a scenario goes through the process-wide memo and is a step of    *)
(* its own; what is here takes the shocked snapshots, in the order of the     *)
(* scenarios, and does what the engines do with them. A stressed book that    *)
(* cannot be priced makes the result empty.                                   *)
EXTENDS HistoricalVaR

to_canonical_scenarios(scenarios, m) ==
    [k \in DOMAIN scenarios |-> to_canonical_scenario(scenarios[k], m)]

Loss(pnl) == Nonneg(-pnl)
SumOf(xs) == SumOver(DOMAIN xs, LAMBDA i : xs[i])
Worst(S)  == CHOOSE x \in S : \A y \in S : y <= x

\* The P&L of every position under one snapshot.
ByPosition(positions, m, snap) ==
    {[i \in DOMAIN positions |-> vs[i].market_value - base[i].market_value] :
        base \in value_portfolio(positions, m), vs \in value_portfolio(positions, snap)}

\* StressEngine.run
StressRows(positions, m, scenarios, snaps) ==
    Each(LAMBDA k : {[scenario |-> scenarios[k].id, pnl |-> SumOf(by), by_position |-> by] :
                        by \in ByPosition(positions, m, snaps[k])},
         Positions(scenarios))

\* What the limits slice and the artifact tree take as the stress loss.
stress_loss(rows) == Nonneg(IF rows = <<>> THEN 0 ELSE Worst({-r.pnl : r \in Range(rows)}))

-----------------------------------------------------------------------------
(* Attribution of one scenario.                                               *)

Grouped(pnls, key(_)) ==
    [k \in {key(i) : i \in DOMAIN pnls} |->
        SumOver({i \in DOMAIN pnls : key(i) = k}, LAMBDA i : pnls[i])]

FactorKeys(p) == {Key(f) : f \in Range(named_risk_factors(p))}

\* The delta-gamma value of one shock, in half-cents.
linear_shock_pnl(v, s, m) ==
    LET move == IF s.factor.kind = "RateZero" THEN DecimalRateToBps(s.amount) ELSE s.amount
    IN  PanelContribution(s.factor, v, move, m, "DELTA_GAMMA")

\* By factor key: each shock moves the positions that name its key, whatever
\* its tenor; the rest of the joint P&L is the interaction.
factor_isolated_pnl(positions, vs, shocks, total, m) ==
    LET live == {k \in DOMAIN shocks : shocks[k].amount # 0}
        key(k) == Key(shocks[k].factor)
        hit(k) == {i \in DOMAIN positions : key(k) \in FactorKeys(positions[i])}
        pairs(key0) == {x \in live \X DOMAIN positions : key(x[1]) = key0 /\ x[2] \in hit(x[1])}
        value1(x) == linear_shock_pnl(vs[x[2]], shocks[x[1]], m)
        keys == {key(k) : k \in live}
        isolated(key0) == SumOver(pairs(key0), LAMBDA x : CHOOSE y \in value1(x) : TRUE)
    IN  CASE keys = {} -> {<<>>}
          [] keys # {} /\ \E key0 \in keys : \E x \in pairs(key0) : value1(x) = {} -> {}
          [] OTHER -> {[k \in keys \cup {<<"interaction">>} |->
                          IF k \in keys THEN isolated(k)
                          ELSE 200 * total - SumOver(keys, isolated)]}

\* The factor part is in half-cents, the others in money.
decompose(pf, m, shocks, by_trade) ==
    LET ps == pf.positions
        split(key(_)) == Grouped(by_trade, key)
    IN  IF ps = <<>>
        THEN {[portfolio_pnl |-> 0, by_portfolio |-> <<>>, by_desk |-> <<>>, by_strategy |-> <<>>,
               by_book |-> <<>>, by_trade |-> <<>>, by_risk_factor |-> <<>>]}
        ELSE {[portfolio_pnl |-> SumOf(by_trade),
               by_portfolio  |-> split(LAMBDA i : pf.id),
               by_desk       |-> split(LAMBDA i : resolve_desk(ps[i], pf)),
               by_strategy   |-> split(LAMBDA i : resolve_strategy(ps[i], pf)),
               by_book       |-> split(LAMBDA i : ps[i].book),
               by_trade      |-> split(LAMBDA i : ps[i].id),
               by_risk_factor |-> factors] :
              factors \in UNION {factor_isolated_pnl(ps, vs, shocks, SumOf(by_trade), m) :
                                    vs \in value_portfolio(ps, m)}}

-----------------------------------------------------------------------------
(* Threat evaluation.                                                         *)

\* Ordered by loss, the worst first; the five worst positions contribute.
EvaluationOf(pf, m, s, snap) ==
    LET n(v) == IF v = 0 THEN 1 ELSE IF v < 0 THEN -v ELSE v IN
    {LET base == Total(vs, "market_value")
         pnl  == SumOf(by)
         nav  == n(base)
         losers == SelectSeq(Positions(by), LAMBDA i : by[i] < 0)
         gross  == SumOver(Range(losers), LAMBDA i : -by[i])
         ranked == SortSeq(losers, LAMBDA i, j : by[i] < by[j])
     IN  [scenario |-> s.id, kind |-> category_to_kind(s.category), base |-> base,
          stressed |-> base + pnl, pnl |-> pnl, loss |-> Loss(pnl), nav |-> nav,
          threat_level |-> classify_severity(Loss(pnl), nav),
          breached |-> threshold_breached(Loss(pnl), nav, s.max_loss_pct),
          by_position |-> by, gross |-> gross,
          top |-> SubSeq(ranked, 1, IF Len(ranked) < 5 THEN Len(ranked) ELSE 5),
          contributions |-> c] :
     vs \in value_portfolio(pf.positions, m), by \in ByPosition(pf.positions, m, snap),
     c \in UNION {decompose(pf, m, s.shocks, x) : x \in ByPosition(pf.positions, m, snap)}}

Evaluate(pf, m, scenarios, snaps) ==
    {LET ranked == SortSeq(es, LAMBDA a, b : a.loss > b.loss)
         number(P(_)) == Cardinality({k \in DOMAIN es : P(es[k])})
     IN  [worst_scenario |-> IF es = <<>> THEN None ELSE ranked[1].scenario,
          worst_loss     |-> IF es = <<>> THEN 0 ELSE ranked[1].loss,
          severe_count   |-> number(LAMBDA e : e.threat_level = "SEVERE"),
          breach_count   |-> number(LAMBDA e : e.breached),
          evaluations    |-> ranked] :
     es \in Each(LAMBDA k : EvaluationOf(pf, m, scenarios[k], snaps[k]), Positions(scenarios))}

-----------------------------------------------------------------------------
(* Differences of exposures, hedge comparison, what-if.                       *)

\* A dictionary by the factor's key: of the tenors of one currency one stays.
RowMap(rows) == [k \in {r.factor : r \in rows} |-> (CHOOSE r \in rows : r.factor = k).exposure]
diff_exposures(before, after) ==
    LET b == RowMap(before)
        a == RowMap(after)
        at(d, k) == IF k \in DOMAIN d THEN d[k] ELSE 0
    IN  {[factor |-> k, before |-> at(b, k), after |-> at(a, k), delta |-> at(a, k) - at(b, k)] :
            k \in {x \in DOMAIN a \cup DOMAIN b : at(a, x) # at(b, x)}}

\* Fault: the improvement has the base's sign.
ScenarioRowBack(x, y) ==
    [scenario |-> x.scenario, base_pnl |-> x.pnl, hedged_pnl |-> y.pnl,
     improvement |-> x.pnl - y.pnl, loss_improvement |-> Loss(x.pnl) - Loss(y.pnl)]

ScenarioRow(x, y) ==
    [scenario |-> x.scenario, base_pnl |-> x.pnl, hedged_pnl |-> y.pnl,
     improvement |-> y.pnl - x.pnl, loss_improvement |-> Loss(x.pnl) - Loss(y.pnl)]

\* Both books under the same snapshots: the base book's.
Compare(engine, methodology, base, hedged, m, scenarios, snaps) ==
    {[hedge_cost |-> r2.market_value - r1.market_value,
      var_improvement |-> r1.var_99 - r2.var_99,
      es_improvement |-> r1.expected_shortfall_99 - r2.expected_shortfall_99,
      factor_exposure_changes |-> diff_exposures(FactorRows(e1), FactorRows(e2)),
      scenarios |-> [k \in DOMAIN s1 |-> ScenarioRow(s1[k], s2[k])]] :
     s1 \in StressRows(base.positions, m, scenarios, snaps),
     s2 \in StressRows(hedged.positions, m, scenarios, snaps),
     r1 \in calculate(engine, methodology, base.positions, m),
     r2 \in calculate(engine, methodology, hedged.positions, m),
     e1 \in calculate_typed(base.positions, m), e2 \in calculate_typed(hedged.positions, m)}

\* Fault: the difference is taken the other way round.
IncrementalBack(before, after) ==
    [k \in DOMAIN after \ {"methodology"} |-> before[k] - after[k]]

Incremental(before, after) ==
    [k \in DOMAIN after \ {"methodology"} |-> after[k] - before[k]]

\* A scenario's name is the key, so of two results of one name the later stays.
StressByName(rows) ==
    [n \in {r.scenario : r \in Range(rows)} |->
        rows[CHOOSE k \in DOMAIN rows : rows[k].scenario = n /\
                                        \A j \in DOMAIN rows : rows[j].scenario = n => j <= k].pnl]
diff_stress(before, after) ==
    LET b == StressByName(before)
        a == StressByName(after)
        at(d, n) == IF n \in DOMAIN d THEN d[n] ELSE 0
    IN  [n \in DOMAIN a \cup DOMAIN b |-> at(a, n) - at(b, n)]

WhatIf(engine, methodology, pf, changes, m, scenarios, snaps) ==
    UNION {{[before |-> r1, after |-> r2, incremental |-> Incremental(r1, r2),
             changed_factor_exposures |-> diff_exposures(FactorRows(e1), FactorRows(e2)),
             changed_stress_losses |-> diff_stress(s1, s2), book |-> after] :
            r1 \in calculate(engine, methodology, pf.positions, m),
            r2 \in calculate(engine, methodology, after.positions, m),
            e1 \in calculate_typed(pf.positions, m), e2 \in calculate_typed(after.positions, m),
            s1 \in StressRows(pf.positions, m, scenarios, snaps),
            s2 \in StressRows(after.positions, m, scenarios, snaps)} :
        after \in apply_what_if_changes(pf, changes)}
==============================================================================
