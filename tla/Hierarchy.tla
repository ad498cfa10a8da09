------------------------------ MODULE Hierarchy ------------------------------
(* Limits, the firm-to-trade tree built from one artifact per trade, and the  *)
(* drill-down from a limit to the positions that use it.                      *)
(*                                                                            *)
(* A tree is the set of its nodes. A node's trades are the positions whose    *)
(* labels begin with the node's, so nesting is by construction; what is not   *)
(* is that a node's numbers, summed from artifacts, are those of its book.    *)
EXTENDS ReverseStress

CONSTANTS DEFAULT_LIMITS,     \* from a metric to its limit
          WarningPct          \* the utilization, in percent, that warns
ASSUME LimitAssumption ==
    /\ \A k \in DOMAIN DEFAULT_LIMITS : DEFAULT_LIMITS[k] \in Int
    /\ WarningPct \in 0..100

Abs(x) == IF x < 0 THEN -x ELSE x

-----------------------------------------------------------------------------
(* Limits.                                                                    *)

\* A breach is strict; a limit that is not positive is breached by any use.
classify_limit_status(value1, limit) ==
    CASE limit <= 0 -> IF value1 > 0 THEN "BREACH" ELSE "OK"
      [] limit > 0 /\ value1 > limit -> "BREACH"
      [] limit > 0 /\ value1 <= limit /\ 100 * value1 >= WarningPct * limit -> "WARNING"
      [] OTHER -> "OK"

concentration_pct(values) ==
    LET gross == SumOver(DOMAIN values, LAMBDA i : Abs(values[i]))
    IN  IF values = <<>> THEN 0
        ELSE (100 * Worst({Abs(v) : v \in Range(values)})) \div (IF gross = 0 THEN 1 ELSE gross)

KeyRates(positions, m) == {r \in SensitivityRows(positions, m) : r.name = "key_rate_dv01"}
\* The largest pillar, or the parallel DV01 when no pillar is measured.
key_rate_dv01(positions, m, risk) ==
    LET rows == KeyRates(positions, m)
    IN  IF rows = {} THEN Abs(risk.dv01) ELSE Worst({Abs(r.value) : r \in rows})

\* What the caller has already is taken over what would be computed.
Metric(name, positions, m, risk, extra) ==
    CASE name \in DOMAIN extra -> {Abs(extra[name])}
      [] name \notin DOMAIN extra /\ name = "single_position_pct" ->
            {concentration_pct([i \in DOMAIN vs |-> vs[i].market_value]) :
                vs \in value_portfolio(positions, m)}
      [] name \notin DOMAIN extra /\ name = "key_rate_dv01" -> {key_rate_dv01(positions, m, risk)}
      [] OTHER -> {Abs(risk[name])}

EvaluateLimits(limits, positions, m, risk, extra) ==
    LET each == [k \in DOMAIN limits |-> Metric(k, positions, m, risk, extra)]
    IN  IF \E k \in DOMAIN each : each[k] = {} THEN {}
        ELSE {[k \in DOMAIN limits |->
                 LET v == CHOOSE x \in each[k] : TRUE
                 IN  [value |-> v, limit |-> limits[k], status |-> classify_limit_status(v, limits[k])]]}

-----------------------------------------------------------------------------
(* Artifacts: each trade is valued once, under the base and every scenario.   *)

\* Of two scenarios of one id the later is kept.
LastOf(scenarios, id) ==
    CHOOSE k \in DOMAIN scenarios : /\ scenarios[k].id = id
                                    /\ \A j \in DOMAIN scenarios : scenarios[j].id = id => j <= k
ScenarioIds(scenarios) == {scenarios[k].id : k \in DOMAIN scenarios}

\* The historical series come from the panel or from the artifact's greeks.
Histories(engine, positions, vs, m) ==
    IF engine.panel # None /\ engine.methodology # "FULL_REVALUATION"
    THEN PositionPnls(engine, engine.methodology, positions, m)
    ELSE {Mapped(LAMBDA v : historical_pnl_for_valuation(engine, v, m), vs)}

TradeArtifacts(engine, positions, m, scenarios, snaps) ==
    {Mapped(LAMBDA i :
                [g \in DOMAIN Greeks |-> vs[i][g]]
                @@ [pv |-> vs[i].market_value, historical |-> hist[i],
                    stress |-> [id \in ScenarioIds(scenarios) |-> moved[LastOf(scenarios, id)][i]]],
            Positions(positions)) :
     vs \in value_portfolio(positions, m),
     moved \in Each(LAMBDA k : ByPosition(positions, m, snaps[k]), Positions(scenarios)),
     hist \in UNION {Histories(engine, positions, x, m) : x \in value_portfolio(positions, m)}}

AddHistorical(a, b) == IF a = None THEN b ELSE [n \in DOMAIN a |-> a[n] + b[n]]
SumArtifacts(arts) ==
    LET total(f(_)) == SumOver(DOMAIN arts, LAMBDA i : f(arts[i]))
    IN  [g \in DOMAIN Greeks |-> total(LAMBDA a : a[g])]
        @@ [pv |-> total(LAMBDA a : a.pv),
            historical |-> FoldLeft(LAMBDA acc, a : AddHistorical(acc, a.historical), None, arts),
            stress |-> [id \in UNION {DOMAIN a.stress : a \in Range(arts)} |->
                           total(LAMBDA a : a.stress[id])]]

var_es_from_historical_pnl(pnl) ==
    IF pnl = None THEN [var_95 |-> 0, var_99 |-> 0, expected_shortfall_99 |-> 0]
    ELSE LET losses == Losses(pnl)
             var99  == Var(losses, 99)
             tail   == TailOf(losses, var99)
         IN  [var_95 |-> Var(losses, 95), var_99 |-> var99,
              expected_shortfall_99 |-> Nonneg(IF tail # {} THEN MeanOver(tail, losses) ELSE var99)]

-----------------------------------------------------------------------------
(* Nodes and trees.                                                           *)

\* The limits of a node take the stress loss of its own rows, its artifacts'
\* concentration, and the parallel DV01 for the key-rate one.
NodeOf(id, level, trades, arts, m) ==
    LET sum  == SumArtifacts(arts)
        risk == [g \in DOMAIN Greeks |-> sum[g]] @@ [market_value |-> sum.pv]
                @@ var_es_from_historical_pnl(sum.historical)
        losses == {-sum.stress[s] : s \in DOMAIN sum.stress}
        extra == [single_position_pct |-> concentration_pct([i \in DOMAIN arts |-> arts[i].pv]),
                  key_rate_dv01 |-> Abs(risk.dv01),
                  stress_loss |-> Nonneg(IF losses = {} THEN 0 ELSE Worst(losses))]
    IN  {[id |-> id, level |-> level, trades |-> trades, risk |-> risk, stress |-> sum.stress,
          limits |-> limits] : limits \in EvaluateLimits(DEFAULT_LIMITS, <<>>, m, risk, extra)}

\* The distinct prefixes of the trades' labels, one node for each.
LabelPrefixes(pf, level) ==
    {SubSeq(Labels(p, pf), 1, Nonneg(Depth(level) - 2)) : p \in Range(pf.positions)}
    \cup (IF level \in {"firm", "portfolio"} THEN {<<>>} ELSE {})

BuildTree(engine, pf, m, scenarios, snaps) ==
    UNION {LET trades(prefix) == SelectSeq(Positions(pf.positions),
                                    LAMBDA i : SubSeq(Labels(pf.positions[i], pf), 1, Len(prefix)) = prefix)
               node(level, prefix) ==
                   NodeOf(hierarchy_node_id(level, pf, prefix), level,
                          {pf.positions[i].id : i \in Range(trades(prefix))},
                          Mapped(LAMBDA i : arts[i], trades(prefix)), m)
           IN  {UNION {UNION {node(level, prefix) : prefix \in LabelPrefixes(pf, level)} :
                          level \in Range(Levels)}} :
           arts \in TradeArtifacts(engine, pf.positions, m, scenarios, snaps)}

\* One node on its own, its part of the book valued on the whole's market.
risk_at(engine, pf, ref, m, scenarios, snaps) ==
    UNION {UNION {NodeOf(sub.id, ref.level, {p.id : p \in Range(sub.positions)}, arts, m) :
                     arts \in TradeArtifacts(engine, sub.positions, m, scenarios, snaps)} :
              sub \in portfolio_at(pf, ref)}

-----------------------------------------------------------------------------
(* Drill-down.                                                                *)

\* The pillar with the largest value, and each position's on that pillar.
BindingPillar(rows) == CHOOSE r \in rows : \A x \in rows : Abs(x.value) <= Abs(r.value)
KeyRateAmounts(positions, m, vs) ==
    LET rows == KeyRates(positions, m)
        f == BindingPillar(rows).factor
        moved(p, bps) == CHOOSE v \in value(p, BumpKeyRate(m, f.name, f.tenor, bps)) : TRUE
    IN  IF rows = {} THEN [i \in DOMAIN vs |-> Abs(vs[i].dv01)]
        ELSE [i \in DOMAIN vs |-> Abs((moved(positions[i], 1).market_value
                                       - moved(positions[i], -1).market_value) \div 2)]

\* Each position's loss under the scenario that is worst for the node.
StressAmounts(rows) ==
    LET worst == CHOOSE k \in DOMAIN rows : \A j \in DOMAIN rows : Loss(rows[j].pnl) <= Loss(rows[k].pnl)
    IN  [i \in DOMAIN rows[worst].by_position |-> Loss(rows[worst].by_position[i])]

\* The VaR report behind a drill-down is the service's, delta-gamma.
contributors_for_metric(metric, engine, positions, m, rows) ==
    UNION {CASE metric = "single_position_pct" -> {[i \in DOMAIN vs |-> Abs(vs[i].market_value)]}
             [] metric = "key_rate_dv01"       -> {KeyRateAmounts(positions, m, vs)}
             [] metric \in {"dv01", "vega", "fx_delta"} -> {[i \in DOMAIN vs |-> Abs(vs[i][metric])]}
             [] metric \in {"var_95", "var_99", "expected_shortfall_99"} ->
                   {[i \in DOMAIN vs |-> IF metric = "expected_shortfall_99"
                                         THEN r.contributions[i].component_es
                                         ELSE r.contributions[i].component_var] :
                       r \in VarReport(engine, "DELTA_GAMMA", positions, m, 99)}
             [] metric = "stress_loss"         -> {StressAmounts(rows)}
             [] OTHER -> {<<>>} : vs \in value_portfolio(positions, m)}

\* Fault: one contributor short.
TopButOne(amounts, n) ==
    LET ranked == SortSeq(Positions(amounts), LAMBDA i, j : Abs(amounts[i]) > Abs(amounts[j]))
    IN  SubSeq(ranked, 1, IF n < Len(ranked) THEN n - 1 ELSE Len(ranked) - 1)

Top(amounts, n) ==
    LET ranked == SortSeq(Positions(amounts), LAMBDA i, j : Abs(amounts[i]) > Abs(amounts[j]))
    IN  SubSeq(ranked, 1, IF n < Len(ranked) THEN n ELSE Len(ranked))

Drilldown(engine, pf, ref, limits, m, scenarios, snaps, top_n, breaches_only) ==
    UNION {UNION {LET shown == {k \in DOMAIN results : breaches_only => results[k].status = "BREACH"}
                      amounts(k) == contributors_for_metric(k, engine, sub.positions, m, rows)
                  IN  {[node |-> sub.id, items |->
                          [k \in shown |-> results[k] @@
                              [contributors |-> IF sub.positions = <<>> THEN <<>>
                                                ELSE Top(CHOOSE a \in amounts(k) : TRUE, top_n)]]]} :
                  results \in UNION {EvaluateLimits(limits, sub.positions, m, risk,
                                                    [stress_loss |-> stress_loss(rows)]) :
                                        risk \in calculate(engine, engine.methodology, sub.positions, m)}} :
           sub \in portfolio_at(pf, ref),
           rows \in UNION {StressRows(s.positions, m, scenarios, snaps) : s \in portfolio_at(pf, ref)}}
==============================================================================
