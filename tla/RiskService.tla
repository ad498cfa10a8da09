----------------------------- MODULE RiskService -----------------------------
(* The synchronous analytics service: requests on several threads, each with  *)
(* the snapshot it resolved when it began, sharing one process-wide memo of   *)
(* shocked snapshots. Applying a scenario is two steps, the look-up and, after *)
(* a miss, the store: between them other threads run. What a request computes *)
(* from the shocked snapshots has no further effect, and is one step.         *)
EXTENDS Attribution, HistoricalAnalytics, ScenarioMemo

CONSTANTS
    Threads,           \* one request each
    Requests,          \* from a thread to the requests it may be given
    Markets,           \* the snapshots a provider may resolve
    Risk               \* the historical engine the service is built with
ASSUME ServiceAssumption ==
    /\ DOMAIN Requests = Threads
    /\ \A t \in Threads : \A r \in Requests[t] : "op" \in DOMAIN r

VARIABLES
    memo,              \* the scenario memo
    call,              \* the request in progress on each thread, or None
    answer             \* the answer of each thread, or None
vars == <<memo, call, answer>>

Own(scenarios, default) == IF scenarios = None THEN default ELSE scenarios

-----------------------------------------------------------------------------
(* What each operation applies, in order.                                     *)

Twice(xs) == xs \o xs

\* A stress limit is evaluated once and its contributors are a run of their
\* own; requests here ask for every metric, breached or not.
Plan(r) ==
    CASE r.op = "stresses"          -> Own(r.scenarios, DEFAULT_SCENARIOS)
      [] r.op = "threat_evaluation" -> Own(r.scenarios, THREAT_SCENARIOS)
      [] r.op = "compare_scenarios" -> Twice(r.scenarios)
      [] r.op = "what_if"           -> Twice(Own(r.scenarios, DEFAULT_SCENARIOS))
      [] r.op \in {"limits", "hierarchy"} -> DEFAULT_SCENARIOS
      [] r.op = "limit_drilldown"   ->
            IF "stress_loss" \in DOMAIN r.limits THEN Twice(DEFAULT_SCENARIOS) ELSE <<>>
      [] r.op = "dashboard"         ->
            Own(r.scenarios, DEFAULT_SCENARIOS) \o Own(r.threats, THREAT_SCENARIOS) \o Twice(DEFAULT_SCENARIOS)
      [] OTHER                      -> <<>>

\* A list of scenarios is of the shapes there are.
ASSUME PlanAssumption ==
    \A t \in Threads : \A r \in Requests[t] :
        /\ Plan(r) \in Seq(Range(Plan(r)))
        /\ \A k \in DOMAIN Plan(r) : Plan(r)[k].shape \in {"formal", "broadcast", "stress"}

Solves(r) == r.op \in {"reverse_stress", "reverse_stress_multi"}

\* Bounds and weights are numbers, and every family has a weight.
ASSUME SearchAssumption ==
    \A t \in Threads : \A r \in {q \in Requests[t] : Solves(q)} :
        /\ r.max_shock \in Int
        /\ r.op = "reverse_stress_multi" =>
              /\ r.families \in Seq(Range(r.families))
              /\ Range(r.families) \subseteq DOMAIN r.weights /\ \A f \in DOMAIN r.weights : r.weights[f] \in Int
              /\ \A f \in DOMAIN r.max_shocks : r.max_shocks[f] \in Int
StartSolver(r) ==
    CASE r.op = "reverse_stress"       -> StartSingle(r.target, r.families[1], r.max_shock)
      [] r.op = "reverse_stress_multi" ->
            StartMulti(r.target, r.families, r.weights, r.max_shock, r.max_shocks)
      [] OTHER -> {None}

-----------------------------------------------------------------------------
(* The operations, given their snapshots.                                     *)

\* A request that names a dataset has an engine of its own.
RiskOf(r) == IF "risk" \in DOMAIN r THEN r.risk ELSE Risk

summary(r, m) == calculate(RiskOf(r), "DELTA_GAMMA", r.book.positions, m)
var_report(r, m) == VarReport(RiskOf(r), "DELTA_GAMMA", r.book.positions, m, 99)
Exposures(r, m) == {FactorRows(e) : e \in calculate_typed(r.book.positions, m)}

\* Ranked by component, whatever its sign.
contributors(r, m) ==
    {SortSeq(Positions(v.contributions),
             LAMBDA i, j : Abs(v.contributions[i].component_var) > Abs(v.contributions[j].component_var)) :
     v \in var_report(r, m)}

stresses(r, m, list, snaps) == StressRows(r.book.positions, m, to_canonical_scenarios(list, m), snaps)
threat_evaluation(r, m, list, snaps) == Evaluate(r.book, m, to_canonical_scenarios(list, m), snaps)

\* Fault: the limits are of a linear VaR.
limits_linear(r, m, snaps) ==
    UNION {UNION {EvaluateLimits(DEFAULT_LIMITS, r.book.positions, m, risk, [stress_loss |-> stress_loss(rows)]) :
                     risk \in calculate(RiskOf(r), "LINEAR", r.book.positions, m)} :
           rows \in stresses(r, m, DEFAULT_SCENARIOS, snaps)}

\* The limits use the engine's methodology, the report and the summary the
\* request's default.
limits(r, m, snaps) ==
    UNION {UNION {EvaluateLimits(DEFAULT_LIMITS, r.book.positions, m, risk, [stress_loss |-> stress_loss(rows)]) :
                     risk \in calculate(RiskOf(r), RiskOf(r).methodology, r.book.positions, m)} :
           rows \in stresses(r, m, DEFAULT_SCENARIOS, snaps)}
hierarchy(r, m, snaps) ==
    BuildTree(RiskOf(r), r.book, m, to_canonical_scenarios(DEFAULT_SCENARIOS, m), snaps)

\* Every slice of one pass is of one snapshot; the last run's snapshots are the
\* hierarchy's.
dashboard(r, m, snaps) ==
    LET shown  == Own(r.scenarios, DEFAULT_SCENARIOS)
        threat == Own(r.threats, THREAT_SCENARIOS)
        from(xs, n) == SubSeq(xs, n + 1, Len(xs))
        rest   == from(snaps, Len(shown) + Len(threat))
    IN  {[summary |-> s, stress |-> st, threats |-> th, contributors |-> c, limits |-> l, factors |-> f,
          varReport |-> v, hierarchy |-> h, attribution |-> a] :
         s \in summary(r, m), st \in stresses(r, m, shown, snaps),
         th \in threat_evaluation(r, m, threat, from(snaps, Len(shown))),
         c \in contributors(r, m), l \in limits(r, m, rest), f \in Exposures(r, m), v \in var_report(r, m),
         h \in hierarchy(r, m, from(rest, Len(DEFAULT_SCENARIOS))),
         a \in demo_attribution(r.book.positions, m)}

\* Two books on two markets, as if each were a run of the service's engine.
explain_risk_change(r) ==
    LET bound(run) == [engine |-> RiskOf(r)] @@ run
    IN  explain_risk_runs(bound(r.t0), bound(r.t1), r.metric, r.persisted)

\* On the engine's panel; a request may insist on a snapshot.
historical_analytics(r, m) ==
    IF r.market_snapshot_id \notin {None, m.id} THEN {}
    ELSE Analytics(RiskOf(r).panel, r.days, r, r.methodology, r.book.positions, m)

Result(r, m, snaps) ==
    CASE r.op = "summary"           -> summary(r, m)
      [] r.op = "var_report"        -> var_report(r, m)
      [] r.op = "factors"           -> Exposures(r, m)
      [] r.op = "sensitivities"     -> {SensitivityRows(r.book.positions, m)}
      [] r.op = "es_contributions"  -> EsContributions(RiskOf(r), r.methodology, r.book, m, r.confidence)
      [] r.op = "compare_var_methodologies" -> compare_methodologies(RiskOf(r), r.book.positions, m)
      [] r.op = "stresses"          -> stresses(r, m, Plan(r), snaps)
      [] r.op = "threat_evaluation" -> threat_evaluation(r, m, Plan(r), snaps)
      [] r.op = "compare_scenarios" ->
            Compare(RiskOf(r), r.methodology, r.book, r.hedged, m, to_canonical_scenarios(r.scenarios, m), snaps)
      [] r.op = "what_if"           ->
            WhatIf(RiskOf(r), r.methodology, r.book, r.changes, m,
                   to_canonical_scenarios(Own(r.scenarios, DEFAULT_SCENARIOS), m), snaps)
      [] r.op = "limits"            -> limits(r, m, snaps)
      [] r.op = "hierarchy"         -> hierarchy(r, m, snaps)
      [] r.op = "limit_drilldown"   ->
            Drilldown(RiskOf(r), r.book, r.ref, r.limits, m, to_canonical_scenarios(DEFAULT_SCENARIOS, m), snaps,
                      r.top_n, FALSE)
      [] r.op = "attribution"       -> explain(r.previous.positions, r.book.positions, r.previous_market, m, r.dt)
      [] r.op = "risk_change_attribution" ->
            RiskChange(RiskOf(r), r.methodology, r.metric, r.previous.positions, r.book.positions,
                       r.previous_market, m)
      [] r.op = "explain_risk_change" -> explain_risk_change(r)
      [] r.op = "historical_analytics" -> historical_analytics(r, m)
      [] r.op = "dashboard"         -> dashboard(r, m, snaps)

-----------------------------------------------------------------------------
(* The machine.                                                               *)

Init == memo = <<>> /\ call = [t \in Threads |-> None] /\ answer = [t \in Threads |-> None]

\* The answer is kept as what it is computed from; a failed request computes
\* nothing.
Answered(t, c, failed) ==
    /\ call' = [call EXCEPT ![t] = None]
    /\ answer' = [answer EXCEPT ![t] = [request |-> c.request, market |-> c.market, snaps |-> c.snaps,
                                        solver |-> c.solver, failed |-> failed]]

\* What is sent, or nothing when the request fails.
Value(a) ==
    IF a.failed THEN {} ELSE IF a.solver # None THEN {a.solver} ELSE Result(a.request, a.market, a.snaps)

\* The endpoint resolves the snapshot once; a search it refuses is a 422.
Start(t) ==
    /\ call[t] = None /\ answer[t] = None
    /\ \E r \in Requests[t], m \in Markets :
          LET begun(s) == [request |-> r, market |-> m, at |-> "get", snaps |-> <<>>, solver |-> s]
          IN  IF StartSolver(r) = {} THEN Answered(t, begun(None), TRUE)
              ELSE /\ \E s \in StartSolver(r) : call' = [call EXCEPT ![t] = begun(s)]
                   /\ UNCHANGED answer
    /\ UNCHANGED memo

\* Done with its scenarios, or with its search.
Exhausted(c) == IF Solves(c.request) THEN c.solver.at = "done"
                ELSE Len(c.snaps) = Len(Plan(c.request))
Next1(c) ==
    IF Solves(c.request)
    THEN build_reverse_scenario(c.solver.id, c.solver.families, Ask(c.solver), c.market)
    ELSE to_canonical_scenario(Plan(c.request)[Len(c.snaps) + 1], c.market)
KeyOf(c) == scenario_memo_key(c.market, Next1(c).shocks, Next1(c).id)

\* What a request does with the snapshot it asked for: a search prices its
\* book under it, a run keeps it for the end.
Hand(t, snap) ==
    LET c == call[t]
    IN  /\ call' = [call EXCEPT ![t] = IF Solves(c.request) THEN [c EXCEPT !.at = "price", !.snaps = <<snap>>]
                                       ELSE [c EXCEPT !.at = "get", !.snaps = Append(c.snaps, snap)]]
        /\ UNCHANGED answer

\* The look-up, under the memo's lock.
Look(t) ==
    /\ call[t] # None /\ call[t].at = "get" /\ ~Exhausted(call[t])
    /\ \E got \in {MemoGet(memo, KeyOf(call[t]))} :
          /\ memo' = got.lru
          /\ IF got.hit # {} THEN \E snap \in got.hit : Hand(t, snap)
             ELSE call' = [call EXCEPT ![t].at = "put"] /\ UNCHANGED answer

\* The scenario is applied with no lock and the result stored under it; a mark
\* the snapshot has not fails the request and stores nothing.
Store(t) ==
    /\ call[t] # None /\ call[t].at = "put"
    /\ \E out \in {ApplyUncached(call[t].market, Next1(call[t]), None)} :
          \/ out = {} /\ Answered(t, call[t], TRUE) /\ UNCHANGED memo
          \/ \E snap \in out : \E put \in {MemoPut(memo, KeyOf(call[t]), snap, MemoSize)} :
                memo' = put.lru /\ Hand(t, put.value)

\* The book's value under the shock tells the search where to look next.
Price(t) ==
    /\ call[t] # None /\ call[t].at = "price"
    /\ \E pv \in {[m \in {call[t].market, call[t].snaps[1]} |-> PortfolioPV(call[t].request.book.positions, m)]} :
          \/ {} \in Range(pv) /\ Answered(t, call[t], TRUE)
          \/ \E base \in pv[call[t].market], now \in pv[call[t].snaps[1]] :
                /\ call' = [call EXCEPT ![t].at = "get", ![t].snaps = <<>>,
                               ![t].solver = Told(@, AtLeast(Loss(now - base), IF base = 0 THEN 1 ELSE Abs(base),
                                                             @.target), now - base)]
                /\ UNCHANGED answer
    /\ UNCHANGED memo

Answer(t) ==
    /\ call[t] # None /\ call[t].at = "get" /\ Exhausted(call[t])
    /\ Answered(t, call[t], FALSE)
    /\ UNCHANGED memo

Step(t) == Look(t) \/ Store(t) \/ Price(t) \/ Answer(t)
Next == \E t \in Threads : Start(t) \/ Step(t)

Spec == Init /\ [][Next]_vars

-----------------------------------------------------------------------------
(* Properties.                                                                *)

\* Two calls never share a thread; the memo's keys are distinct, and it keeps
\* no more snapshots than it was told to, whatever threads store between
\* another's look-up and its store.
TypeOK ==
    /\ Len(memo) <= MemoSize
    /\ \A i, j \in DOMAIN memo : i # j => memo[i].key # memo[j].key
    /\ \A t \in Threads : call[t] # None =>
          answer[t] = None /\ call[t].at \in {"get", "put"} \cup (IF Solves(call[t].request) THEN {"price"} ELSE {})

\* The answers a step gives; the properties below are about them, and an answer
\* once given does not change.
Given == {answer'[t] : t \in {u \in Threads : answer[u] = None /\ answer'[u] # None}}
GivenTo(op) == {a \in Given : a.request.op = op}
ScenarioOf(a, k) == to_canonical_scenario(Plan(a.request)[k], a.market)

\* What a request was served from the memo is what applying the scenario to its
\* own snapshot gives (it gives one or fails), whatever the other requests put
\* there: two snapshots of one id, two scenarios of one id, an eviction between
\* look-up and store.
AnswersAreFresh ==
    [][ \A a \in Given : ~Solves(a.request) =>
            \A k \in DOMAIN a.snaps :
                a.snaps[k] \in ApplyUncached(a.market, ScenarioOf(a, k), None) ]_vars

\* Does the book of a search lose its target at these magnitudes?
Misses(a, mags) ==
    LET s == build_reverse_scenario(a.solver.id, a.solver.families, mags, a.market)
        ps == a.request.book.positions
    IN  \A base \in PortfolioPV(ps, a.market), snap \in ApplyUncached(a.market, s, None) :
            \A now \in PortfolioPV(ps, snap) :
                ~AtLeast(Loss(now - base), IF base = 0 THEN 1 ELSE Abs(base), a.solver.target)

\* The shock a search reports reaches the target, and no family's part of it
\* can be a percent less. With one family, or with equal weights, a target that
\* the largest permitted shock reaches is found. (For books whose loss grows
\* with every family; with unequal weights the ray may end short of the bounds
\* that were found to reach the target, and the search gives up.)
ReverseIsMinimal ==
    [][ \A a \in GivenTo("reverse_stress") \cup GivenTo("reverse_stress_multi") :
            \A s \in Value(a) :
                /\ s.converged =>
                      /\ ~Misses(a, s.shocks)
                      /\ \A f \in DOMAIN s.shocks : s.shocks[f] > 0 => Misses(a, [s.shocks EXCEPT ![f] = @ - 1])
                /\ (~s.converged /\ Range(s.weights) = {100}) => Misses(a, s.bounds) ]_vars

\* The slices of one dashboard speak of one book on one market: the summary,
\* the VaR report, the limits and the root of the tree have one VaR, one value
\* and one stress loss. (The limits and the tree use the engine's methodology,
\* the others the request's: equal when the engine's is the default.)
SlicesAgree ==
    [][ \A a \in GivenTo("dashboard") : \A v \in Value(a) :
            LET root == CHOOSE n \in v.hierarchy : n.level = "firm"
            IN  (a.request.scenarios = None /\ RiskOf(a.request).methodology = "DELTA_GAMMA") =>
                /\ v.varReport.var = v.summary.var_99
                /\ \A k \in {"market_value", "var_95", "var_99", "expected_shortfall_99", "vega", "dv01"} :
                      root.risk[k] = v.summary[k]
                /\ v.limits["var_99"].value = v.summary.var_99
                /\ v.limits["stress_loss"] = root.limits["stress_loss"]
                /\ root.stress = [id \in ScenarioIds(Plan(a.request)) \cap DOMAIN root.stress |->
                                     StressByName(v.stress)[id]]
                /\ \A e \in Range(v.threats.evaluations) : e.base = v.summary.market_value ]_vars

\* Every node of the tree, summed from the artifacts of its trades, is what the
\* node's own sub-portfolio gives when it is priced by itself on the same
\* market; and its value is its trades' values.
NodeIsItsBook ==
    [][ \A a \in GivenTo("hierarchy") : \A tree \in Value(a) : \A n \in tree :
            LET label(i) == IF Depth(n.level) > 2 /\ i < Len(n.id) THEN n.id[i + 1] ELSE None
                ref  == Ref(n.level, [i \in 1..4 |-> label(i)])
                base == value_portfolio(a.request.book.positions, a.market)
                mine == {i \in DOMAIN a.request.book.positions : a.request.book.positions[i].id \in n.trades}
            IN  /\ risk_at(RiskOf(a.request), a.request.book, ref, a.market,
                           to_canonical_scenarios(DEFAULT_SCENARIOS, a.market), a.snaps) = {n}
                /\ \A vs \in base : n.risk.market_value = SumOver(mine, LAMBDA i : vs[i].market_value) ]_vars

\* An allocation gives out all of what it allocates and no more: by position,
\* book, strategy, desk and factor the contributions add up to one mean tail
\* loss, which is the shortfall unless that is its floor, the VaR; component
\* variances add up to the variance.
AllocationsReconcile ==
    [][ /\ \A a \in GivenTo("es_contributions") : \A v \in Value(a) :
              LET sums == {SumOf(v[k]) : k \in {"by_position", "by_book", "by_strategy", "by_desk", "by_risk_factor"}}
              IN  /\ Cardinality(sums) = 1
                  /\ v.portfolio_es > v.portfolio_var => sums = {v.portfolio_es}
        /\ \A a \in GivenTo("var_report") : \A v \in Value(a) :
              /\ SumOver(DOMAIN v.contributions, LAMBDA i : v.contributions[i].component_var) = v.variance
              /\ v.es > v.var =>
                    SumOver(DOMAIN v.contributions, LAMBDA i : v.contributions[i].component_es) = v.es ]_vars

\* The value a trade is worth by itself.
Worth(p, m) == (CHOOSE v \in value(p, m) : TRUE).market_value

\* What an additive measure changes by is the changed trades' own: the value
\* now and under every scenario. Changes that undo each other change nothing.
WhatIfIsTheTrade ==
    [][ \A a \in GivenTo("what_if") : \A v \in Value(a) :
            LET old == a.request.book.positions
                new == v.book.positions
                gone == {p \in Range(old) : p \notin Range(new)}
                come == {p \in Range(new) : p \notin Range(old)}
                worth(S, m) == SumOver(S, LAMBDA p : Worth(p, m))
                own(m) == worth(come, m) - worth(gone, m)
            IN  /\ v.incremental.market_value = own(a.market)
                /\ \A k \in 1..Len(a.snaps) \div 2 :
                      v.changed_stress_losses[Plan(a.request)[k].id] = own(a.snaps[k]) - own(a.market)
                /\ Range(old) = Range(new) => /\ v.incremental.var_99 = 0
                                              /\ v.changed_factor_exposures = {} ]_vars

\* Hedging is a what-if: the comparison of a book with a hedged one reports the
\* changes the what-if to that book does, with the opposite sign for the risk.
HedgeIsWhatIf ==
    [][ \A a \in GivenTo("compare_scenarios") :
            \A x \in Value(a), y \in Value([a EXCEPT !.request.op = "what_if"]) :
                a.request.hedged.positions = y.book.positions =>
                /\ x.hedge_cost = y.incremental.market_value
                /\ x.var_improvement = -y.incremental.var_99
                /\ x.es_improvement = -y.incremental.expected_shortfall_99
                /\ x.factor_exposure_changes = y.changed_factor_exposures
                /\ \A k \in DOMAIN x.scenarios :
                      x.scenarios[k].improvement = y.changed_stress_losses[x.scenarios[k].scenario] ]_vars

Stepped == Aligned \cup {"curves", "projection_rates"}

\* A bridge ends where it was going. Between two markets with the same names
\* the aligned factors make the first run's market the second's, so with one
\* methodology and no persisted number nothing is left over, and the tree of
\* trades adds up to the second book in place of the first; the risk change
\* leaves nothing when no mark outside its steps has moved.
BridgesClose ==
    [][ /\ \A a \in GivenTo("explain_risk_change") : \A v \in Value(a) :
              LET r == a.request IN
              SameNames(r.t0.market, r.t1.market) =>
                  /\ \A k \in Aligned : v.aligned[k] = r.t1.market[k]
                  /\ (/\ r.persisted = <<None, None>> /\ r.t0.methodology = r.t1.methodology
                      /\ Marks(v.aligned) = Marks(r.t1.market)) => v.residual = 0
                  /\ {row.delta : row \in {x \in v.tree : x.level = "firm"}} =
                        {n[r.metric] - o[r.metric] :
                            n \in calculate(RiskOf(r), r.t0.methodology, r.t1.book.positions, r.t0.market),
                            o \in calculate(RiskOf(r), r.t0.methodology, r.t0.book.positions, r.t0.market)}
        /\ \A a \in GivenTo("risk_change_attribution") : \A v \in Value(a) :
              (\A k \in DOMAIN a.market \ (Stepped \cup {"id", "as_of"}) :
                  a.request.previous_market[k] = a.market[k]) => Last(v.items).delta = 0 ]_vars

\* Two adjoining windows are the days of the window they make up: no day is in
\* both or in neither, the wealth and the fall of the first are not changed by
\* what comes after, and the whole window as one period gains what it gains. A
\* holding of SPY, long or short, is its own benchmark over every window.
WindowsJoin ==
    [][ \A a \in GivenTo("historical_analytics") : \A v \in Value(a) :
            LET r == a.request
                over(s, e) == historical_analytics([r EXCEPT !.start = s, !.end = e, !.include_benchmark = FALSE],
                                                   a.market)
                holding == \A p \in Range(r.book.positions) : p.type = "equity" /\ p.symbol = "SPY"
                past(s, e, k) == IF over(s, e) = {} THEN <<>> ELSE (CHOOSE x \in over(s, e) : TRUE)[k]
            IN  /\ \A d \in r.start..r.end - 1 :
                      /\ \A k \in {"days", "returns"} : v[k] = past(r.start, d, k) \o past(d + 1, r.end, k)
                      /\ \A x \in over(r.start, d) :
                            IsPrefix(x.wealth, v.wealth) /\ v.max_drawdown <= x.max_drawdown
                /\ r.period_window >= Len(v.returns) => {v.best.gain, v.worst.gain} = {v.cumulative}
                /\ (holding /\ v.benchmark # None) =>
                      /\ v.benchmark.wealth = v.wealth /\ v.benchmark.excess = 0 /\ v.benchmark.tracking = 0
                      /\ {v.benchmark.covariance, v.benchmark.variance} = {v.variance}
                      /\ Range(v.benchmark.drawdown) = {0}
                      /\ \A k \in {"var_95", "var_99", "expected_shortfall_99"} : v.benchmark[k] = v[k] ]_vars

IsLinear(positions) == \A p \in Range(positions) : p.type = "equity"

\* A book of cash equities has no curvature and no decay: its P&L is explained
\* to the last unit, whatever trades were opened, closed or resized meanwhile,
\* a scenario's factors leave no interaction, and the three ways to a VaR, linear,
\* delta-gamma and full revaluation, give one number.
LinearBooksExplained ==
    [][ /\ \A a \in GivenTo("attribution") : \A v \in Value(a) :
              IsLinear(a.request.previous.positions \o a.request.book.positions) => v.residual = 0
        /\ \A a \in GivenTo("threat_evaluation") : \A v \in Value(a) :
              IsLinear(a.request.book.positions) =>
                  \A e \in Range(v.evaluations) :
                      \A k \in DOMAIN e.contributions.by_risk_factor :
                          k = <<"interaction">> => e.contributions.by_risk_factor[k] = 0
        /\ \A a \in GivenTo("compare_var_methodologies") : \A v \in Value(a) :
              IsLinear(a.request.book.positions) => Cardinality({v[k].var_99 : k \in DOMAIN v}) = 1 ]_vars

\* Drilled into at the whole portfolio, a limit has the value and status that
\* the limits themselves show, and its contributors are the book's, largest
\* first.
DrilldownIsLimits ==
    [][ \A a \in GivenTo("limit_drilldown") : \A v \in Value(a) :
            a.request.ref.level = "portfolio" =>
                \A shown \in limits([a.request EXCEPT !.op = "limits"], a.market, a.snaps) :
                    \A k \in DOMAIN v.items :
                        /\ v.items[k].value = shown[k].value
                        /\ v.items[k].status = shown[k].status
                        /\ Len(v.items[k].contributors) =
                              Min({a.request.top_n, Len(a.request.book.positions)}) ]_vars


\* Does a shock name the mark a row of a difference is about?
Names(m, row, f) ==
    LET what == row[1]  rate(ccy) == f.kind = "RateZero" /\ f.name = ccy IN
    CASE what = "equity_spots" -> f.kind = "EquitySpot" /\ f.name = row[2]
      [] what = "fx_spots"     -> f.kind = "FXSpot" /\ f.name = row[2]
      [] what = "equity_vols"  -> f.kind = "EquityVol" /\ f.name = row[2]
      [] what = "fx_vols"      -> f.kind = "FXVol" /\ f.name = row[2]
      [] what = "vol_surfaces" -> f.kind \in VolKinds /\ f.name = row[2][1]
      [] what = "atm_vol"      -> f.kind \in VolKinds /\ f.name = row[2]
      [] what = "rates"        -> rate(row[2]) /\ f.tenor \in ParallelTenors
      [] what = "key_rates"    -> rate(row[2][1]) /\ f.tenor \in ParallelTenors \cup {row[2][2]}
      [] what = "curves"       -> /\ rate(m.curves[row[2][1]].currency)
                                  /\ f.tenor \in ParallelTenors \cup {row[2][2]}
      [] OTHER                 -> FALSE

Amounted == {"equity_spots", "fx_spots", "rates", "key_rates", "curves"}

\* A snapshot a request was served differs from its own in the marks its
\* scenario names and in no others, and a spot, rate, pillar or curve node that
\* one shock names by the amount of that shock.
OnlyNamedMarksMove ==
    [][ \A a \in Given : ~Solves(a.request) => \A k \in DOMAIN a.snaps :
            LET shocks == ScenarioOf(a, k).shocks IN
            \A row \in Diff(a.market, a.snaps[k]) :
                LET by == {i \in DOMAIN shocks : Names(a.market, row, shocks[i].factor)}
                IN  /\ by # {}
                    /\ (row[1] \in Amounted /\ Cardinality(by) = 1) => \A i \in by : row[3] = shocks[i].amount ]_vars

\* Dictionaries by name keep a scenario when no tenor and no second shock of a
\* name is lost in them.
Flat(s) ==
    /\ \A i \in DOMAIN s.shocks :
          s.shocks[i].factor.kind = "RateZero" => s.shocks[i].factor.tenor \in ParallelTenors
    /\ \A i, j \in DOMAIN s.shocks : i # j => s.shocks[i].factor # s.shocks[j].factor

\* One scenario has one effect in all its shapes: formal, market scenario,
\* legacy stress, and for a crisis the library's template and its expansion;
\* and its label does not call an approximation a replay.
ShapesAgree ==
    [][ \A a \in Given : ~Solves(a.request) => \A k \in DOMAIN a.snaps :
            LET s == ScenarioOf(a, k)
                shapes == {s, scenario_to_market_scenario(s)}
                          \cup (IF Flat(s) THEN {scenario_to_stress(s), to_stress_scenario(s)} ELSE {})
                          \cup {crisis_scenario(d, a.market) : d \in {c \in Range(CRISIS_LIBRARY) : c.id = s.id}}
            IN  /\ HonestLabel(s)
                /\ \A x \in shapes : ApplyFormal(a.market, to_formal(a.market, x)) = {a.snaps[k]} ]_vars

\* Two snapshots with one entry in the curve cache have one curve, whatever
\* shocks made the one of the other.
CurveCacheIsSound ==
    [][ \A a \in Given : \A x, y \in {a.market} \cup Range(a.snaps) : \A ccy \in DOMAIN a.market.rates :
            curve_market_fingerprint(x, ccy) = curve_market_fingerprint(y, ccy) =>
                \A p \in BOOLEAN : SelectYieldCurveUncached(x, ccy, p) = SelectYieldCurveUncached(y, ccy, p) ]_vars

\* What is left of a search, the weightiest first: its phase, the passes and the
\* families still to refine, whether this one is still to be dropped, the width
\* of its bracket.
Width(s) == s.hi - s.lo
Remaining(s) ==
    LET turn(drop, width) == <<2, CoordinatePasses - s.pass, Len(s.families) - s.coordinate, drop, width>>
    IN  CASE s.at = "zero"   -> <<5, 0, 0, 0, 0>>
          [] s.at = "corner" -> <<4, 0, 0, 0, 0>>
          [] s.at = "ray"    -> <<3, 0, 0, 0, Width(s)>>
          [] s.at = "drop"   -> turn(1, 0)
          [] s.at = "shrink" -> turn(0, Width(s))
          [] s.at = "final"  -> <<1, 0, 0, 0, 0>>
          [] s.at = "done"   -> <<0, 0, 0, 0, 0>>

\* Lists of five natural numbers in lexicographic order: none goes down for ever.
Counts == [1..5 -> Nat]
Less(x, y) == \E k \in 1..5 : x[k] < y[k] /\ \A j \in 1..k - 1 : x[j] = y[j]

\* A search ends: every evaluation it hears of leaves less of it.
SearchesNarrow ==
    [][\A t \in Threads :
          (call[t] # None /\ call'[t] # None /\ Solves(call[t].request) /\ call'[t].at = "get") =>
              \/ call'[t] = call[t]
              \/ /\ Remaining(call'[t].solver) \in Counts
                 /\ Less(Remaining(call'[t].solver), Remaining(call[t].solver))]_vars

-----------------------------------------------------------------------------
(* The inductive invariant behind TypeOK and AnswersAreFresh.                 *)

\* The scenarios that requests name, as they are on a snapshot, and the names
\* of those that searches make.
Planned(m) ==
    {to_canonical_scenario(x[1][x[2]], m) :
        x \in UNION {{Plan(r)} \X DOMAIN Plan(r) : r \in {q \in UNION {Requests[t] : t \in Threads} : ~Solves(q)}}}
SearchIds == {"reverse", "reverse_multi"}

\* A key stands for one snapshot and one scenario: marks that agree are of one
\* snapshot, scenarios of one name differ in more than a tenor or a vol bucket,
\* and none is named as a search is. Nothing in the code sees to it.
KeysTellApart ==
    /\ \A m, n \in Markets : m.id = n.id /\ Marks(m) = Marks(n) => m = n
    /\ \A m \in Markets : \A s, u \in Planned(m) :
          s.id = u.id /\ shock_fingerprint(s.shocks) = shock_fingerprint(u.shocks) => s.shocks = u.shocks
    /\ \A m \in Markets : \A s \in Planned(m) : s.id \notin SearchIds

\* What an entry holds is what its key asks for.
MemoInv ==
    /\ memo \in Seq(Range(memo)) /\ Len(memo) <= MemoSize
    /\ \A i, j \in DOMAIN memo : i # j => memo[i].key # memo[j].key
EntryFresh(e) ==
    \A m \in Markets : \A s \in Planned(m) :
        e.key = scenario_memo_key(m, s.shocks, s.id) => e.value \in ApplyUncached(m, s, None)
MemoFresh == \A i \in DOMAIN memo : EntryFresh(memo[i])

SolverPhases == {"zero", "corner", "ray", "drop", "shrink", "final"}
SolverFields == {"id", "at", "target", "families", "weights", "bounds", "lo", "hi", "iterations", "mags",
                 "coordinate", "pass", "before"}

\* A search is at a point within its bounds, has a family and a pass to go on
\* with, and its bracket is the right way round.
Searching(s) ==
    /\ DOMAIN s = SolverFields /\ s.id \in SearchIds
    /\ s.families \in Seq(DOMAIN s.bounds) /\ s.coordinate \in 1..Len(s.families)
    /\ s.bounds \in [DOMAIN s.bounds -> Nat] /\ s.mags \in [DOMAIN s.bounds -> Nat]
    /\ Multi(s) => s.weights \in [DOMAIN s.bounds -> Nat]
    /\ s.lo \in Nat /\ s.hi \in Nat /\ s.lo <= s.hi
    /\ s.at \in {"zero", "corner"} => s.lo = 0
    /\ s.pass \in Nat \ {0}
    /\ s.at \in {"zero", "corner", "ray"} => s.pass = 1
    /\ s.at \in {"drop", "shrink"} => s.pass <= CoordinatePasses
SolverInv(s) == s.at \in SolverPhases \cup {"done"} /\ (s.at # "done" => Searching(s))

\* Between its steps a request has the snapshots of the scenarios it has come
\* to, and applies another only when there is one.
Served(c) ==
    /\ c.snaps \in Seq(Range(c.snaps)) /\ Len(c.snaps) <= Len(Plan(c.request))
    /\ \A k \in DOMAIN c.snaps : c.snaps[k] \in ApplyUncached(c.market, ScenarioOf(c, k), None)
CallInv(t, c) ==
    /\ DOMAIN c = {"request", "market", "at", "snaps", "solver"}
    /\ c.request \in Requests[t] /\ c.market \in Markets
    /\ c.at \in {"get", "put"} \cup (IF Solves(c.request) THEN {"price"} ELSE {})
    /\ c.at # "get" => ~Exhausted(c)
    /\ Solves(c.request) => SolverInv(c.solver)
CallsInv ==
    /\ DOMAIN call = Threads /\ DOMAIN answer = Threads
    /\ \A t \in Threads : call[t] # None => answer[t] = None /\ CallInv(t, call[t])

ServiceInv == MemoInv /\ CallsInv
FreshInv ==
    /\ MemoFresh
    /\ \A t \in Threads : (call[t] # None /\ ~Solves(call[t].request)) => Served(call[t])
==============================================================================
