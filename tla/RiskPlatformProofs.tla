-------------------------- MODULE RiskPlatformProofs --------------------------
(* Theorems of the platform: each half keeps its invariant, and the other is  *)
(* as it began.                                                               *)
EXTENDS RiskPlatform, RunReplayProofs, RiskServiceProofs

Halves == session \in {"analytics", "runs"}
PlatformInv ==
    /\ Halves
    /\ session = "analytics" => ServiceInv /\ runs = <<>> /\ freezing = None
    /\ session = "runs" => ReplayInv
PlatformFresh == session = "analytics" => FreshInv

LEMMA PlatformInit1 ==
    ASSUME PlatformInit
    PROVE  PlatformInv /\ PlatformFresh
<1>1. CASE session = "analytics" /\ Init /\ NoRuns
  BY <1>1, ServiceInit, FreshInit DEF PlatformInv, PlatformFresh, Halves, NoRuns
<1>2. CASE session = "runs" /\ ComparisonInit
  BY <1>2, ReplayInit DEF PlatformInv, PlatformFresh, Halves, ComparisonInit
<1> QED BY <1>1, <1>2 DEF PlatformInit

\* A comparison changes none of what the runs are.
LEMMA ComparisonKeeps ==
    ASSUME ComparisonNext
    PROVE  [RunsNext]_runsVars
BY DEF ComparisonNext, AnswerComparison

LEMMA PlatformStep ==
    ASSUME PlatformInv, [PlatformNext]_platformVars
    PROVE  PlatformInv'
<1>1. CASE Analyse
  <2>1. session = "analytics" /\ session' = session /\ [Next]_vars /\ runs' = runs /\ freezing' = freezing
    BY <1>1 DEF Analyse, runVars, runsVars
  <2> QED BY <2>1, ServiceStep DEF PlatformInv, Halves
<1>2. CASE Run1
  <2>1. session = "runs" /\ session' = session /\ ComparisonNext
    BY <1>2 DEF Run1
  <2> QED BY <2>1, ComparisonKeeps, ReplayStep DEF PlatformInv, Halves
<1>3. CASE UNCHANGED platformVars
  <2>1. session' = session /\ [Next]_vars /\ [RunsNext]_runsVars /\ runs' = runs /\ freezing' = freezing
    BY <1>3 DEF platformVars, runVars, runsVars
  <2> QED BY <2>1, ServiceStep, ReplayStep DEF PlatformInv, Halves
<1> QED BY <1>1, <1>2, <1>3 DEF PlatformNext

LEMMA PlatformFreshStep ==
    ASSUME KeysTellApart, PlatformInv, PlatformFresh, [PlatformNext]_platformVars
    PROVE  PlatformFresh'
<1>1. session' = session
  BY DEF PlatformNext, Analyse, Run1, platformVars
<1>2. session = "analytics" => [Next]_vars
  BY DEF PlatformNext, Analyse, Run1, platformVars
<1> QED BY <1>1, <1>2, FreshStep DEF PlatformInv, PlatformFresh

-----------------------------------------------------------------------------
(* What a comparison is of.                                                   *)

\* A run bound to what it was executed on.
AsRan(i) == Bound(runs[i], runs[i].ran.book, runs[i].ran.market, runs[i].ran.engine)

\* Only the history of an engine reaches a number.
LEMMA SameCalculator ==
    ASSUME NEW e, NEW f, SameHistory(e, f)
    PROVE  Calculator(e) = Calculator(f)
BY DEF SameHistory, Calculator

\* The engines a comparison has of two runs have the histories they ran on, and
\* there are some when both histories can be read.
LEMMA PairOfEngines ==
    ASSUME ReplayInv, NEW i \in DOMAIN runs, NEW j \in DOMAIN runs, Completed(i), Completed(j)
    PROVE  /\ EnginePairs(i, j) \subseteq {<<runs[i].chosen, runs[j].chosen>>}
           /\ Readable(i) /\ Readable(j) => EnginePairs(i, j) # {}
<1> DEFINE spec(k) == SpecOf(runs[k])
           resolved(k) == resolve_execute_spec(disk, env, runs[k], None)
           engines(x) == build_historical_risk_engine_for_spec(disk, env, x)
           pairs(x) == IF SameEngine(x[1], x[2]) THEN {<<e, e>> : e \in engines(x[1])}
                       ELSE engines(x[1]) \X engines(x[2])
           one == <<spec(i), spec(j)>>
           pair == <<runs[i].chosen, runs[j].chosen>>
<1>1. ASSUME NEW k \in {i, j}
      PROVE  /\ resolved(k) \subseteq {spec(k)} /\ engines(spec(k)) \subseteq {runs[k].chosen}
             /\ Readable(k) => resolved(k) = {spec(k)} /\ engines(spec(k)) = {runs[k].chosen}
             /\ build_historical_risk_engine(Mended(disk), env, runs[k].id, runs[k].version,
                                             runs[k].config.seed, runs[k].config.observations) = {runs[k].chosen}
  <2> DEFINE run == runs[k]
  <2>1. /\ service \in Services /\ FilesInv(service, Mended(disk))
        /\ Pinned(run) /\ Reproduces(service, Mended(disk), run)
    BY <1>1, Current DEF Completed, RunInv
  <2> HIDE DEF run
  <2>2. /\ resolve_execute_spec(disk, service.env, run, None) \subseteq {SpecOf(run)}
        /\ build_historical_risk_engine_for_spec(disk, service.env, SpecOf(run)) \subseteq {run.chosen}
        /\ ~SidecarTorn(disk, run.version) =>
              /\ resolve_execute_spec(disk, service.env, run, None) = {SpecOf(run)}
              /\ build_historical_risk_engine_for_spec(disk, service.env, SpecOf(run)) = {run.chosen}
    BY <2>1, Bindable
  <2>3. build_historical_risk_engine(Mended(disk), service.env, run.id, run.version, run.config.seed,
                                     run.config.observations) = {run.chosen}
    BY <2>1 DEF Reproduces
  <2> QED BY <2>2, <2>3 DEF env, run, Readable
<1>2. EnginePairs(i, j) = UNION {pairs(x) : x \in resolved(i) \X resolved(j)}
  BY DEF EnginePairs
<1>3. pairs(one) = IF SameEngine(spec(i), spec(j)) THEN {<<e, e>> : e \in engines(spec(i))}
                   ELSE engines(spec(i)) \X engines(spec(j))
  OBVIOUS
<1>4. SameEngine(spec(i), spec(j)) => runs[i].chosen = runs[j].chosen
  <2> HIDE DEF engines, resolved
  <2>1. /\ build_historical_risk_engine(Mended(disk), env, runs[i].id, runs[i].version,
                                       runs[i].config.seed, runs[i].config.observations) = {runs[i].chosen}
        /\ build_historical_risk_engine(Mended(disk), env, runs[j].id, runs[j].version,
                                       runs[j].config.seed, runs[j].config.observations) = {runs[j].chosen}
    BY <1>1
  <2>2. SameEngine(spec(i), spec(j)) =>
           runs[i].id = runs[j].id /\ runs[i].version = runs[j].version /\ runs[i].config = runs[j].config
    BY DEF SameEngine, SpecOf
  <2> HIDE DEF spec
  <2> QED BY <2>1, <2>2
<1> HIDE DEF spec, engines, resolved
<1>5. pairs(one) \subseteq {pair} /\ (Readable(i) /\ Readable(j) => pair \in pairs(one))
  <2>1. CASE SameEngine(spec(i), spec(j))
    BY <1>1, <1>3, <1>4, <2>1
  <2>2. CASE ~SameEngine(spec(i), spec(j))
    BY <1>1, <1>3, <2>2
  <2> QED BY <2>1, <2>2
<1>6. resolved(i) \X resolved(j) \subseteq {one} /\ (Readable(i) /\ Readable(j) => one \in resolved(i) \X resolved(j))
  BY <1>1
<1> HIDE DEF pairs, one, pair
<1> QED BY <1>2, <1>5, <1>6 DEF pair

\* Each of two completed runs is bound to its own book, market and history, and
\* is bound when the process remembers it and its history can be read.
LEMMA BoundAsRan ==
    ASSUME ReplayInv, heavy_inline_allowed, NEW i \in DOMAIN runs, NEW j \in DOMAIN runs,
           Completed(i), Completed(j)
    PROVE  /\ bound_runs(i, j) \subseteq {<<AsRan(i), AsRan(j)>>}
           /\ (\A k \in {i, j} : kept[k].book # None /\ Readable(k)) => bound_runs(i, j) # {}
<1> DEFINE bind(b0, m0, b1, m1) == <<Bound(runs[i], b0, m0, runs[i].chosen), Bound(runs[j], b1, m1, runs[j].chosen)>>
           bound == {bind(b0, m0, b1, m1) : b0 \in bound_portfolio(i), b1 \in bound_portfolio(j),
                                           m0 \in bound_market(i), m1 \in bound_market(j)}
<1>1. bound_runs(i, j) \subseteq bound /\ (Readable(i) /\ Readable(j) => bound_runs(i, j) = bound)
  <2>1. {runs[i].status, runs[j].status} = {"COMPLETED"}
    BY DEF Completed
  <2> DEFINE pair == <<runs[i].chosen, runs[j].chosen>>
             bindings(x) == {<<Bound(runs[i], b0, m0, x[1]), Bound(runs[j], b1, m1, x[2])>> :
                                b0 \in bound_portfolio(i), b1 \in bound_portfolio(j),
                                m0 \in bound_market(i), m1 \in bound_market(j)}
  <2>2. bound_runs(i, j) = UNION {bindings(x) : x \in EnginePairs(i, j)}
    BY <2>1 DEF bound_runs
  <2>3. bindings(pair) = bound
    OBVIOUS
  <2>4. EnginePairs(i, j) \subseteq {pair} /\ (Readable(i) /\ Readable(j) => EnginePairs(i, j) # {})
    BY PairOfEngines
  <2> HIDE DEF bindings, pair, bound
  <2> QED BY <2>2, <2>3, <2>4
<1>2. ASSUME NEW k \in {i, j}
      PROVE  /\ SameHistory(runs[k].ran.engine, runs[k].chosen)
             /\ bound_market(k) = {runs[k].ran.market} /\ bound_portfolio(k) \subseteq {runs[k].ran.book}
             /\ kept[k].book # None => bound_portfolio(k) # {}
  BY <1>2, ReplayMeans DEF RunsReplay, ReplaysAs, Completed, heavy_inline_allowed, bound_portfolio
<1>3. bind(runs[i].ran.book, runs[i].ran.market, runs[j].ran.book, runs[j].ran.market) = <<AsRan(i), AsRan(j)>>
  <2>1. \A k \in {i, j} : Calculator(runs[k].ran.engine) = Calculator(runs[k].chosen)
    BY <1>2, SameCalculator
  <2> QED BY <2>1 DEF AsRan, Bound
<1> HIDE DEF bind
<1>4. bound_runs(i, j) \subseteq {<<AsRan(i), AsRan(j)>>}
  BY <1>1, <1>2, <1>3
<1>5. ASSUME \A k \in {i, j} : kept[k].book # None /\ Readable(k) PROVE bound_runs(i, j) # {}
  <2>1. PICK b0 \in bound_portfolio(i), b1 \in bound_portfolio(j) : TRUE
    BY <1>2, <1>5
  <2>2. bind(b0, runs[i].ran.market, b1, runs[j].ran.market) \in bound
    BY <1>2, <2>1
  <2> HIDE DEF bound
  <2> QED BY <1>1, <1>5, <2>2
<1> QED BY <1>4, <1>5

\* A report is from one run's number to the other's.
LEMMA EndsOfReport ==
    ASSUME NEW r0, NEW r1, NEW metric, NEW persisted, NEW v \in explain_risk_runs(r0, r1, metric, persisted)
    PROVE  /\ \E s \in calculate(r0.engine, r0.methodology, r0.book.positions, r0.market) :
                 v.previous = Headline(persisted[1], s[metric])
           /\ \E s \in calculate(r1.engine, r1.methodology, r1.book.positions, r1.market) :
                 v.current = Headline(persisted[2], s[metric])
<1> DEFINE end0(x) == Headline(persisted[1], x)
           end1(x) == Headline(persisted[2], x)
           explained(stages, x, y, ns) == Report(r0, r1, stages, <<x>> \o ns, end0(x), end1(y))
           reports(stages) == {explained(stages, x, y, ns) :
                                  x \in OwnValue(r0, metric), y \in OwnValue(r1, metric),
                                  ns \in StageValues(r0, metric, Tail(stages))}
           all == RunStages(r0.book.positions, r1.book.positions, r0.market, r1.market)
<1>1. explain_risk_runs(r0, r1, metric, persisted) = UNION {reports(stages) : stages \in all}
  BY DEF explain_risk_runs
<1>2. \A stages, x, y, ns : /\ explained(stages, x, y, ns).previous = end0(x)
                             /\ explained(stages, x, y, ns).current = end1(y)
  BY DEF Report
<1>3. \E x \in OwnValue(r0, metric), y \in OwnValue(r1, metric) : v.previous = end0(x) /\ v.current = end1(y)
  <2> HIDE DEF explained, end0, end1, all
  <2>1. PICK stages \in all : v \in reports(stages)
    <3> HIDE DEF reports
    <3> QED BY <1>1
  <2> QED BY <1>2, <2>1
<1> QED BY <1>3 DEF OwnValue, ValueOf

\* The number a run is given is its result's, kept or computed anew.
LEMMA NumberOfRun ==
    ASSUME NEW i, NEW metric \in Headlines, None \notin NumbersOf(runs[i], metric),
           NEW p \in persisted_metrics(runs[i]),
           NEW s \in calculate(AsRan(i).engine, AsRan(i).methodology, AsRan(i).book.positions, AsRan(i).market)
    PROVE  Headline(p[metric], s[metric]) \in NumbersOf(runs[i], metric)
<1>1. CASE runs[i].request.type \in {"summary", "hierarchy"}
  <2>1. p[metric] \in NumbersOf(runs[i], metric)
    BY <1>1 DEF persisted_metrics, NumbersOf
  <2> QED BY <2>1 DEF Headline
<1>2. CASE runs[i].request.type \notin {"summary", "hierarchy"}
  <2>1. p[metric] = None
    BY <1>2 DEF persisted_metrics
  <2>2. s \in ResultOf(runs[i])
    BY <1>2 DEF ResultOf, Methodical, AsRan, Bound
  <2> QED BY <2>1, <2>2 DEF Headline, NumbersOf
<1> QED BY <1>1, <1>2

\* A comparison answered in a step reads what its runs were executed on.
LEMMA ComparisonReads ==
    ASSUME ReplayInv, ComparisonNext, Compared,
           \A i \in {report'.t0, report'.t1} : Completed(i)
    PROVE  /\ (\A i \in {report'.t0, report'.t1} : kept[i].book # None /\ Readable(i)) => report'.bound # {}
           /\ \A metric \in Headlines :
                 None \notin NumbersOf(T0, metric) \cup NumbersOf(T1, metric) =>
                 \A v \in GivenReports(metric) :
                     v.previous \in NumbersOf(T0, metric) /\ v.current \in NumbersOf(T1, metric)
<1>1. PICK i \in DOMAIN runs, j \in DOMAIN runs :
          heavy_inline_allowed /\ report' = [t0 |-> i, t1 |-> j, bound |-> bound_runs(i, j)]
  BY DEF ComparisonNext, AnswerComparison, Compared
<1>2. report'.t0 = i /\ report'.t1 = j /\ report'.bound = bound_runs(i, j)
  BY <1>1
<1>3. /\ report'.bound \subseteq {<<AsRan(i), AsRan(j)>>}
      /\ (\A k \in {i, j} : kept[k].book # None /\ Readable(k)) => report'.bound # {}
  BY <1>1, <1>2, BoundAsRan
<1>4. ASSUME NEW metric \in Headlines, None \notin NumbersOf(T0, metric) \cup NumbersOf(T1, metric),
             NEW v \in GivenReports(metric)
      PROVE  v.previous \in NumbersOf(T0, metric) /\ v.current \in NumbersOf(T1, metric)
  <2>1. v \in compare_runs(<<AsRan(i), AsRan(j)>>, metric)
    BY <1>3, <1>4 DEF GivenReports
  <2>2. PICK p \in persisted_metrics(AsRan(i).run), q \in persisted_metrics(AsRan(j).run) :
            v \in explain_risk_runs(AsRan(i), AsRan(j), metric, <<p[metric], q[metric]>>)
    BY <2>1 DEF compare_runs
  <2>3. AsRan(i).run = runs[i] /\ AsRan(j).run = runs[j]
    BY DEF AsRan, Bound
  <2>4. /\ \E s \in calculate(AsRan(i).engine, AsRan(i).methodology, AsRan(i).book.positions, AsRan(i).market) :
               v.previous = Headline(p[metric], s[metric])
        /\ \E s \in calculate(AsRan(j).engine, AsRan(j).methodology, AsRan(j).book.positions, AsRan(j).market) :
               v.current = Headline(q[metric], s[metric])
    BY <2>2, EndsOfReport
  <2>5. T0 = runs[i] /\ T1 = runs[j]
    BY <1>2 DEF T0, T1
  <2> QED BY <1>4, <2>2, <2>3, <2>4, <2>5, NumberOfRun
<1> QED BY <1>2, <1>3, <1>4

-----------------------------------------------------------------------------
(* The theorems.                                                              *)

\* The platform's type invariant: a request in progress has not been answered,
\* the scenario memo has distinct keys and no more entries than it is sized for,
\* a run has what the process keeps of it, and the public-history order file
\* names the frozen files there are.
THEOREM PlatformTypes == PlatformSpec => []PlatformTypeOK
<1>1. PlatformInv => PlatformTypeOK
  BY ServiceTypes, ReplayTypes DEF PlatformInv, Halves, PlatformTypeOK
<1> QED BY <1>1, PlatformInit1, PlatformStep, PTL DEF PlatformSpec

\* A run whose header names a content, or a data set of the program's own, is
\* explained from what it was executed on: resolve_execute_spec finds the same
\* data set, build_historical_risk_engine_for_spec the same history, and the
\* market and the book bound to it are the run's, whatever was frozen, edited,
\* stored, replaced or restarted in between. While the sidecar of its history is
\* half-written, because the same content is being frozen again or the process
\* that froze it has died in write_sidecar, the run is refused with the decoder's
\* error or cannot be bound; it is never given other data.
THEOREM RunsAreReplayed == PlatformSpec => []RunsReplay
<1>1. PlatformInv => RunsReplay
  <2>1. CASE session = "analytics"
    <3>1. PlatformInv => DOMAIN runs = {}
      BY <2>1 DEF PlatformInv
    <3> QED BY <3>1 DEF RunsReplay
  <2>2. CASE session = "runs"
    BY <2>2, ReplayMeans DEF PlatformInv
  <2> QED BY <2>1, <2>2 DEF PlatformInv, Halves
<1> QED BY <1>1, PlatformInit1, PlatformStep, PTL DEF PlatformSpec

\* A comparison of two completed runs, asked at any time after them, is of what
\* each was executed on: bound_runs gives it the runs' own books, markets and
\* histories or refuses, never another's, and the two ends of what
\* explain_risk_runs reports are numbers of the two results, kept or computed
\* anew. What the process remembers it does not refuse, if the sidecars of the
\* two histories are not half-written.
THEOREM ComparisonsReadRuns == PlatformSpec => ReadsWhatRan
<1>1. PlatformInv /\ [PlatformNext]_platformVars => PlatformInv'
  BY PlatformStep
<1>2. PlatformInv /\ [PlatformNext]_platformVars
      => [Compared =>
            LET both == {report'.t0, report'.t1} IN
            (\A i \in both : Completed(i)) =>
                /\ (\A i \in both : kept[i].book # None /\ Readable(i)) => report'.bound # {}
                /\ \A metric \in Headlines :
                      None \notin NumbersOf(T0, metric) \cup NumbersOf(T1, metric) =>
                      \A v \in GivenReports(metric) :
                          v.previous \in NumbersOf(T0, metric) /\ v.current \in NumbersOf(T1, metric)]_report
  <2> SUFFICES ASSUME PlatformInv, [PlatformNext]_platformVars, report' # report, Compared,
                      \A i \in {report'.t0, report'.t1} : Completed(i)
               PROVE  /\ (\A i \in {report'.t0, report'.t1} : kept[i].book # None /\ Readable(i)) => report'.bound # {}
                      /\ \A metric \in Headlines :
                            None \notin NumbersOf(T0, metric) \cup NumbersOf(T1, metric) =>
                            \A v \in GivenReports(metric) :
                                v.previous \in NumbersOf(T0, metric) /\ v.current \in NumbersOf(T1, metric)
    OBVIOUS
  <2>1. session = "runs" /\ ComparisonNext
    BY DEF PlatformNext, Analyse, Run1, platformVars, runVars
  <2> QED BY <2>1, ComparisonReads DEF PlatformInv
<1> QED BY <1>1, <1>2, PlatformInit1, PTL DEF PlatformSpec, ReadsWhatRan

\* Where the memo's keys tell the requests' scenarios apart, what a request is
\* served from ScenarioMemo is what apply_scenario makes of its own snapshot,
\* for any number of threads, any interleaving of their look-ups and stores,
\* and any size of the memo.
THEOREM AnswersStayFresh ==
    ASSUME KeysTellApart
    PROVE  PlatformSpec => AnswersAreFresh
<1>1. PlatformInv /\ PlatformFresh /\ [PlatformNext]_platformVars
      => PlatformInv' /\ PlatformFresh'
  BY PlatformStep, PlatformFreshStep
<1>2. PlatformInv /\ PlatformFresh /\ [PlatformNext]_platformVars
      => [\A a \in Given : ~Solves(a.request) =>
             \A k \in DOMAIN a.snaps :
                 a.snaps[k] \in ApplyUncached(a.market, ScenarioOf(a, k), None)]_vars
  <2> SUFFICES ASSUME PlatformInv, PlatformFresh, [PlatformNext]_platformVars, ~UNCHANGED vars
               PROVE  GivenFresh
    BY DEF GivenFresh
  <2>1. session = "analytics" /\ Next
    BY DEF PlatformNext, Analyse, Run1, platformVars, vars
  <2> QED BY <2>1, AnswersFresh DEF PlatformInv, PlatformFresh
<1> QED BY <1>1, <1>2, PlatformInit1, PTL DEF PlatformSpec, AnswersAreFresh

\* Where the providers' prices move by whole percents, the moves that
\* freeze_public_history writes are those of the levels it aligned: taken one
\* after another from the first common day they give every series back, whatever
\* gaps, repeats and ends the calendars have. The rows of a frozen file are no
\* more and no fewer than the moves between common days.
THEOREM HistoriesRebuild ==
    ASSUME WholeMoves
    PROVE  PlatformSpec => []MovesRebuildLevels
<1>1. PlatformInv => MovesRebuildLevels
  <2>1. CASE session = "analytics"
    BY <2>1 DEF PlatformInv, MovesRebuildLevels
  <2>2. CASE session = "runs"
    BY <2>2, LevelsRebuild DEF PlatformInv
  <2> QED BY <2>1, <2>2 DEF PlatformInv, Halves
<1> QED BY <1>1, PlatformInit1, PlatformStep, PTL DEF PlatformSpec

\* A search ends: whatever the families, bounds and weights, the iterations of a
\* bisection and the passes of a refinement it is allowed, each evaluation that
\* the reverse-stress solvers hear of leaves less of the search, in an order in
\* which nothing goes down for ever.
THEOREM SearchesEnd == PlatformSpec => SearchesNarrow
<1>1. PlatformInv /\ [PlatformNext]_platformVars => PlatformInv'
  BY PlatformStep
<1>2. PlatformInv /\ [PlatformNext]_platformVars
      => [\A t \in Threads :
            (call[t] # None /\ call'[t] # None /\ Solves(call[t].request) /\ call'[t].at = "get") =>
                \/ call'[t] = call[t]
                \/ /\ Remaining(call'[t].solver) \in Counts
                   /\ Less(Remaining(call'[t].solver), Remaining(call[t].solver))]_vars
  <2> SUFFICES ASSUME PlatformInv, [PlatformNext]_platformVars, ~UNCHANGED vars, NEW t \in Threads
               PROVE  SearchNarrows(t)
    BY DEF SearchNarrows
  <2>1. session = "analytics" /\ Next
    BY DEF PlatformNext, Analyse, Run1, platformVars, vars
  <2> QED BY <2>1, NarrowStep DEF PlatformInv
<1> QED BY <1>1, <1>2, PlatformInit1, PTL DEF PlatformSpec, SearchesNarrow
==============================================================================
