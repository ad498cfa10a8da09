---------------------------- MODULE RunComparison ----------------------------
(* The comparison of two completed runs, asked of the API process at any time *)
(* after: each run is bound to a book, a market and an engine again, its      *)
(* number is the one its result kept or is computed anew, and the change from *)
(* one to the other is explained. A comparison changes nothing but what its   *)
(* client is told.                                                            *)
EXTENDS RunReplay, Attribution

VARIABLE report        \* the comparison just answered, or None

\* Fault: another configuration does not count.
SameDataset(spec0, spec1) == spec0.id = spec1.id /\ spec0.version = spec1.version

\* The same data set and the same configuration share one engine.
SameEngine(spec0, spec1) ==
    spec0.id = spec1.id /\ spec0.version = spec1.version /\ spec0.config = spec1.config

\* An engine for each of two runs, from what they resolve to.
EnginePairs(i, j) ==
    LET engines(spec) == build_historical_risk_engine_for_spec(disk, env, spec)
    IN  UNION {IF SameEngine(specs[1], specs[2]) THEN {<<e, e>> : e \in engines(specs[1])}
               ELSE engines(specs[1]) \X engines(specs[2]) :
               specs \in resolve_execute_spec(disk, env, runs[i], None)
                         \X resolve_execute_spec(disk, env, runs[j], None)}

Bound(run, book, market, engine) ==
    [run |-> run, book |-> book, market |-> market, engine |-> Calculator(engine),
     methodology |-> MethodologyOf(run)]

\* Runs that are not both completed, or cannot be bound, are refused.
bound_runs(i, j) ==
    IF {runs[i].status, runs[j].status} # {"COMPLETED"} THEN {}
    ELSE UNION {{<<Bound(runs[i], b0, m0, pair[1]), Bound(runs[j], b1, m1, pair[2])>> :
                    b0 \in bound_portfolio(i), b1 \in bound_portfolio(j),
                    m0 \in bound_market(i), m1 \in bound_market(j)} : pair \in EnginePairs(i, j)}

\* The numbers at the top of a result's payload: a summary and the root of a
\* tree have them, and a tree is of the engine's methodology, whatever the
\* header says. (A node's numbers are its book's: NodeIsItsBook.)
Headlines == {"var_95", "var_99", "expected_shortfall_99", "dv01", "vega"}
Methodical(run) == run.request.type # "hierarchy" \/ MethodologyOf(run) = "DELTA_GAMMA"
ResultOf(run) ==
    calculate(Calculator(run.ran.engine), IF Methodical(run) THEN MethodologyOf(run) ELSE "DELTA_GAMMA",
              run.ran.book.positions, run.ran.market)
persisted_metrics(run) ==
    IF run.request.type \in {"summary", "hierarchy"}
    THEN {[k \in Headlines |-> s[k]] : s \in ResultOf(run)} ELSE {[k \in Headlines |-> None]}

\* (The scenarios of a run are never set: its stress is no number of it.)
compare_runs(bound, metric) ==
    UNION {explain_risk_runs(bound[1], bound[2], metric, <<p[metric], q[metric]>>) :
              p \in persisted_metrics(bound[1].run), q \in persisted_metrics(bound[2].run)}

\* What the headers say differs, and of that what a residual may come from.
identity_diff(r0, r1) ==
    LET identity(r) == [portfolio_version |-> r.book_version, market_snapshot_id |-> r.market,
                        historical_dataset_id |-> r.id, historical_dataset_version |-> r.version,
                        methodology |-> r.request.methodology, calculation_config |-> r.config]
    IN  {f \in DOMAIN identity(r0) : identity(r0)[f] # identity(r1)[f]}
\* Fault: the methodology is not among them.
disclosed_datasets(r0, r1) ==
    identity_diff(r0, r1) \cap {"calculation_config", "historical_dataset_id", "historical_dataset_version"}
disclosed_changes(r0, r1) ==
    identity_diff(r0, r1) \cap {"methodology", "calculation_config", "historical_dataset_id",
                                "historical_dataset_version"}

\* An API with a worker beside it computes nothing on a request's thread: the
\* route and the query tool both refuse.
heavy_inline_allowed == ~env.external

\* One comparison at a time, kept as what is compared.
AnswerComparison ==
    \E i, j \in DOMAIN runs :
        /\ i # j /\ report = None /\ heavy_inline_allowed /\ base.api # None
        /\ report' = [t0 |-> i, t1 |-> j, bound |-> bound_runs(i, j)]
        /\ UNCHANGED runsVars

ComparisonInit == RunsInit /\ report = None
ComparisonNext == AnswerComparison \/ (RunsNext /\ report' = None)

-----------------------------------------------------------------------------
(* Properties.                                                                *)

\* The comparison a step answers, if its metric is one of these, the runs it
\* is of and the reports it gives.
GivenReports(metric) == UNION {compare_runs(b, metric) : b \in report'.bound}
Compared == report' # None
T0 == runs[report'.t0]
T1 == runs[report'.t1]
Completed(i) == runs[i].status = "COMPLETED" /\ Pinned(runs[i])
NumbersOf(run, metric) == {s[metric] : s \in ResultOf(run)}

\* A comparison is between what the two runs computed, whichever is the first:
\* whether a result kept its number or it is computed anew, after a freeze, a
\* restart and another book, and for runs of two configurations. In one process
\* that has forgotten nothing no comparison is refused, but for a sidecar that is
\* half-written.
Readable(i) == ~SidecarTorn(disk, runs[i].version)
ComparesWhatRan ==
    [][ Compared =>
        LET ends == {<<report'.t0, "previous">>, <<report'.t1, "current">>}
        IN  (\A x \in ends : Completed(x[1])) =>
            \A given \in {GivenReports("var_99")} :
                /\ (\A x \in ends : kept[x[1]].book # None /\ Readable(x[1])) => given # {}
                /\ \A v \in given, x \in ends : {v[x[2]]} = NumbersOf(runs[x[1]], "var_99") ]_report

\* What of that holds whatever the computations give: for every metric, the two
\* ends of a report are numbers of the runs' own results, and what the API
\* process remembers can be bound, if its history can be read.
ReadsWhatRan ==
    [][ Compared =>
        LET both == {report'.t0, report'.t1} IN
        (\A i \in both : Completed(i)) =>
            /\ (\A i \in both : kept[i].book # None /\ Readable(i)) => report'.bound # {}
            /\ \A metric \in Headlines :
                  None \notin NumbersOf(T0, metric) \cup NumbersOf(T1, metric) =>
                  \A v \in GivenReports(metric) :
                      v.previous \in NumbersOf(T0, metric) /\ v.current \in NumbersOf(T1, metric) ]_report

\* Markets with the same names, the same in all that no factor moves.
Explainable(m, n) ==
    /\ SameNames(m, n)
    /\ \A k \in DOMAIN m \ (Aligned \cup {"id"}) : m[k] = n[k]

\* What the stages do not explain is owed to something the report discloses:
\* two runs with one methodology, configuration and data set have none, when
\* their markets differ only in what is aligned. Excepted are runs whose header
\* names a methodology they were not computed with, as a hierarchy's may: no
\* identity field of the report shows it.
ResidualIsDisclosed ==
    [][ Compared =>
        \A v \in GivenReports("var_99") :
            \/ v.residual = 0
            \/ disclosed_changes(T0, T1) # {}
            \/ ~Explainable(T0.ran.market, T1.ran.market)
            \/ \E i \in {report'.t0, report'.t1} : ~Methodical(runs[i]) ]_report
==============================================================================
