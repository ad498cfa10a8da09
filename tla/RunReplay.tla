------------------------------ MODULE RunReplay ------------------------------
(* Risk runs and the data they are computed on, over time: a run is submitted *)
(* against the history of the moment, executed later, by another process or   *)
(* the same one, and explained later still, while histories are frozen, files *)
(* are edited, books are replaced and processes restart. The queue, claims,   *)
(* transactions and retries of a run are RiskRunWorker's; here a run is       *)
(* executed in two steps, its specification resolved and its engine built.    *)
EXTENDS RunSpec

CONSTANTS
    Services           \* the deployments followed, each with what may happen to it and with
                       \* bounds: "max_runs" submitted and "max_events" of every other kind

\* The frozen files of a disk, and the histories a deployment may freeze.
IsFrozenPath(path) == path = versioned_csv_path(Stem(path))
Freezes(s) == UNION {freeze_public_history(s.vintages[w], s.start, s.end) : w \in DOMAIN s.vintages}
FrozenVersions(s) ==
    {f.version : f \in Freezes(s)} \cup {Stem(p) : p \in {q \in DOMAIN s.disk.files : IsFrozenPath(q)}}
FrozenIdentity(version) == [id |-> WAVE_A_DATASET_ID, version |-> version]

\* A file, when a path is not the name of anything else and only the freezer
\* writes into its directory.
FileOK(path, file) ==
    /\ path \notin OwnNames \cup {WAVE_A_DATASET_ID} /\ PathOf(path) = path
    /\ None \notin {path, file_csv_dataset_id(path)}
    /\ DOMAIN file = {"kind", "rows", "sidecar"}
    /\ IsFrozenPath(path) =>
          is_content_hash(Stem(path)) /\ file.kind = "per_factor" /\ file.rows \in Seq(Range(file.rows))
    /\ file.sidecar # None => IsFrozenPath(path) /\ file.sidecar = FrozenIdentity(Stem(path))
OrderOK(d) ==
    /\ d.order \in Seq(Range(d.order))
    /\ \A v \in Range(d.order) : versioned_csv_path(v) \in DOMAIN d.files

\* A disk as it would be if every sidecar that was begun were written.
MendedFile(path, file) ==
    IF file.sidecar = Torn THEN [file EXCEPT !.sidecar = FrozenIdentity(Stem(path))] ELSE file
Mended(d) == [files |-> [p \in DOMAIN d.files |-> MendedFile(p, d.files[p])], order |-> d.order]

\* A deployment begins with frozen files as the freezer leaves them, and files
\* of one's own, the only ones that are edited.
ASSUME FilesAssumption ==
    \A s \in Services :
        /\ s.disk = [files |-> s.disk.files, order |-> s.disk.order] /\ OrderOK(s.disk)
        /\ Range(s.disk.order) = {v \in {Stem(p) : p \in DOMAIN s.disk.files} : is_content_hash(v)}
        /\ \A p \in DOMAIN s.disk.files : FileOK(p, Mended(s.disk).files[p])
        /\ \A p \in DOMAIN s.edits : ~IsFrozenPath(p) /\ FileOK(p, s.edits[p])
        /\ \A v \in FrozenVersions(s) :
              LET path == versioned_csv_path(v)
              IN  /\ None \notin {v, path, file_csv_dataset_id(path), FrozenIdentity(v)}
                  /\ Torn # FrozenIdentity(v)
\* What a provider answers is a list of days and whole amounts, or gaps.
ASSUME VintagesAssumption ==
    \A s \in Services : \A w \in DOMAIN s.vintages :
        \A i \in DOMAIN WAVE_A_FACTOR_MAPPINGS :
            LET attempts == s.vintages[w].answers[WAVE_A_FACTOR_MAPPINGS[i].source_symbol]
            IN  \A n \in DOMAIN attempts :
                    /\ attempts[n].rows \in Seq(Range(attempts[n].rows))
                    /\ \A row \in Range(attempts[n].rows) : row[1] \in Int /\ (row[2] # None => row[2] \in Int)
\* The snapshot of the moment has a name of its own: it is not stored with other
\* marks, and is not called as the public ones are.
IsPublicId(id) == Len(id) = 3 /\ id[1] = WAVE_A_DATASET_ID
ASSUME SnapshotsAssumption ==
    \A s \in Services :
        /\ \A id \in DOMAIN s.stored : s.stored[id].id = id
        /\ s.market.id \in DOMAIN s.stored => s.stored[s.market.id] = s.market
        /\ ~IsPublicId(s.market.id)
Failures == {"specification", "market", "engine", "computation", "sidecar"}
ASSUME RequestsAssumption ==
    /\ None \notin Failures
    /\ \A s \in Services :
          /\ s.books \in Seq(Range(s.books)) /\ s.books # <<>>
          /\ \A r \in s.requests : r.config \in Configs \cup {None}

VARIABLES
    service,           \* the deployment: environment, contents, requests, books
    disk,              \* the history files
    freezing,          \* a freeze that has written its first file, or None
    stored,            \* the market snapshots of the database
    live,              \* the version of the book
    base,              \* the engine each process was started with, or None
    runs,              \* the headers, and what became of them
    kept,              \* what the API process remembers of each run
    events             \* how much has happened
runsVars == <<service, disk, freezing, stored, live, base, runs, kept, events>>

env == service.env
Executor == IF env.external THEN "worker" ELSE "api"
UnknownSnapshot == <<"unknown">>
Forgotten == [book |-> None, market |-> None]

\* A process starts with the engine of its environment, or does not start.
Started(s, files) ==
    LET first(built) == IF built = {} THEN None ELSE CHOOSE e \in built : TRUE
    IN  first(build_historical_risk_engine(files, s.env, None, None, None, None))

RunsInit ==
    /\ service \in Services
    /\ disk = service.disk /\ freezing = None /\ stored = service.stored /\ live = 1
    /\ base = [p \in {"api", "worker"} |-> Started(service, disk)]
    /\ runs = <<>> /\ kept = <<>> /\ events = 0

Event == events < service.max_events /\ events' = events + 1

-----------------------------------------------------------------------------
(* What happens around a run.                                                 *)

\* What a process kept is gone, and so are the runs it was executing: their
\* rows stay as they are, if there is a database.
Restart(p) ==
    /\ Event
    /\ base' = [base EXCEPT ![p] = Started(service, disk)]
    /\ IF env.database
       THEN /\ kept' = IF p = "api" THEN [i \in DOMAIN kept |-> Forgotten] ELSE kept
            /\ runs' = [i \in DOMAIN runs |-> IF p = Executor /\ runs[i].status = "RUNNING"
                                              THEN [runs[i] EXCEPT !.status = "LOST"] ELSE runs[i]]
            /\ stored' = stored
       ELSE kept' = <<>> /\ runs' = <<>> /\ stored' = <<>>
    /\ UNCHANGED <<service, disk, freezing, live>>

\* The file goes out first, under the name of its content; a file of that name
\* with other bytes is not replaced. Its sidecar, if it has one, stays.
WriteCsv ==
    /\ freezing = None /\ Event
    /\ \E w \in DOMAIN service.vintages :
          \E frozen \in freeze_public_history(service.vintages[w], service.start, service.end) :
              LET path == versioned_csv_path(frozen.version)
                  old  == IF path \in DOMAIN disk.files THEN {disk.files[path]} ELSE {}
                  file == [kind |-> "per_factor", rows |-> frozen.rows,
                           sidecar |-> IF old = {} THEN None ELSE disk.files[path].sidecar]
              IN  /\ \A f \in old : f.rows = frozen.rows
                  /\ disk' = [files |-> Put(disk.files, path, file),
                              order |-> Append(RemoveFirst(disk.order, frozen.version), frozen.version)]
                  /\ freezing' = frozen
    /\ UNCHANGED <<service, stored, live, base, runs, kept>>

\* The sidecar is opened under its own name, which empties the one there was,
\* and written after: it is not put in place whole, as the first file is.
SidecarOf(version) == disk.files[versioned_csv_path(version)].sidecar
PutSidecar(sidecar) == disk' = [disk EXCEPT !.files[versioned_csv_path(freezing.version)].sidecar = sidecar]
TruncateSidecar ==
    /\ freezing # None /\ SidecarOf(freezing.version) # Torn
    /\ PutSidecar(Torn)
    /\ UNCHANGED <<service, freezing, stored, live, base, runs, kept, events>>
WriteSidecar ==
    /\ freezing # None /\ SidecarOf(freezing.version) = Torn
    /\ PutSidecar([id |-> WAVE_A_DATASET_ID, version |-> freezing.version])
    /\ freezing' = None
    /\ UNCHANGED <<service, stored, live, base, runs, kept, events>>

\* The process that freezes dies before its sidecar is written, or half-way.
FreezeDies ==
    /\ freezing # None /\ Event
    /\ freezing' = None
    /\ UNCHANGED <<service, disk, stored, live, base, runs, kept>>

\* A file of one's own has other contents from now on.
EditFile ==
    /\ Event
    /\ \E path \in DOMAIN service.edits :
          disk.files[path] # service.edits[path]
          /\ disk' = [disk EXCEPT !.files[path] = service.edits[path]]
    /\ UNCHANGED <<service, freezing, stored, live, base, runs, kept>>

TakeSnapshot ==
    /\ Event
    /\ \E w \in DOMAIN service.vintages, as_of \in service.days :
          \E snapshot \in build_public_snapshot(service.vintages[w], as_of) :
              \E after \in persist_public_snapshot(stored, snapshot) : after # stored /\ stored' = after
    /\ UNCHANGED <<service, disk, freezing, live, base, runs, kept>>

ReplaceBook ==
    /\ live < Len(service.books) /\ Event
    /\ live' = live + 1
    /\ UNCHANGED <<service, disk, freezing, stored, base, runs, kept>>

-----------------------------------------------------------------------------
(* A run.                                                                     *)

\* The header keeps the identity the request resolved to and a configuration;
\* a request that resolves to nothing leaves nothing. The book is the stored
\* one. "chosen" is the engine the client was told of. The database refuses a
\* snapshot it does not have; without one any name is kept.
Nameable == DOMAIN stored \cup IF env.database THEN {} ELSE {UnknownSnapshot}
SubmitRun ==
    /\ base.api # None /\ Len(runs) < service.max_runs
    /\ \E request \in service.requests, market \in {None} \cup Nameable :
          \E spec \in resolve_run_spec(disk, env, request, base.api) :
              runs' = Append(runs, [request |-> request, id |-> spec.id, version |-> spec.version,
                                    config |-> spec.config, market |-> market, book_version |-> live,
                                    status |-> "QUEUED", failed |-> None, chosen |-> spec.engine,
                                    spec |-> None, ran |-> None])
    /\ kept' = Append(kept, [book |-> service.books[live], market |-> None])
    /\ UNCHANGED <<service, disk, freezing, stored, live, base, events>>

Refused(i, why) == [runs EXCEPT ![i].status = "FAILED", ![i].failed = why]

\* The snapshot the header names, or the market of the moment.
MarketOf(run) ==
    IF run.market = None THEN {service.market} ELSE {stored[id] : id \in {run.market} \cap DOMAIN stored}

\* A worker reads the stored book; the API has the one it was given, if it has
\* not been restarted. A market the header did not name is stored and named.
BookOf(i) == IF env.external THEN service.books[live] ELSE kept[i].book
Assign(i, spec, market) ==
    /\ stored' = IF market.id \in DOMAIN stored THEN stored ELSE Put(stored, market.id, market)
    /\ runs' = [runs EXCEPT ![i].status = "RUNNING", ![i].market = market.id,
                   ![i].spec = [id |-> spec.id, version |-> spec.version, config |-> spec.config],
                   ![i].ran = [book |-> BookOf(i), market |-> market]]
    /\ kept' = IF env.external THEN kept ELSE [kept EXCEPT ![i] = [book |-> BookOf(i), market |-> market]]
Reject(i, why) == runs' = Refused(i, why) /\ UNCHANGED <<stored, kept>>

\* The sidecar of the history a header names cannot be read. The load is the
\* first thing to fail: the row's error is then the JSON decoder's.
SidecarTorn(d, version) ==
    /\ is_content_hash(version) /\ versioned_csv_path(version) \in DOMAIN d.files
    /\ d.files[versioned_csv_path(version)].sidecar = Torn
DataError(i, why) == IF SidecarTorn(disk, runs[i].version) THEN "sidecar" ELSE why

Resolve(i) ==
    /\ runs[i].status = "QUEUED" /\ base[Executor] # None
    /\ env.external \/ kept[i].book # None
    /\ \E specs \in {resolve_execute_spec(disk, env, runs[i], base[Executor])} :
          \/ specs = {} /\ Reject(i, DataError(i, "specification"))
          \/ specs # {} /\ MarketOf(runs[i]) = {} /\ Reject(i, "market")
          \/ \E spec \in specs, market \in MarketOf(runs[i]) : Assign(i, spec, market)
    /\ UNCHANGED <<service, disk, freezing, live, base, events>>

\* A comparison of methodologies may ask for a length of its own.
EngineOf(run, engine) ==
    IF run.request.type # "var_compare" \/ run.request.observations = None THEN {engine}
    ELSE resize_historical_risk_engine(engine, run.request.observations)

Calculator(engine) == Engine("DELTA_GAMMA", <<>>, engine.panel)
MethodologyOf(run) == Or(run.request.methodology, "DELTA_GAMMA")

\* Can the run be computed? Exposures need no panel, a full revaluation needs
\* every mark the panel moves. The result is kept as what it is computed from.
Computes(run, e) ==
    LET full == run.request.type = "var_compare" \/ MethodologyOf(run) = "FULL_REVALUATION"
    IN  /\ PortfolioPV(run.ran.book.positions, run.ran.market) # {}
        /\ run.request.type # "factors" => PanelCovers(run.ran.book.positions, e.panel)
        /\ full => Shocked(Calculator(e), run.ran.market) # {}

Build(i) ==
    /\ runs[i].status = "RUNNING" /\ base[Executor] # None
    /\ \E engines \in {portfolio_service_for_spec(disk, env, base[Executor], runs[i].spec)} :
          \/ engines = {} /\ runs' = Refused(i, DataError(i, "engine"))
          \/ \E built \in engines :
                IF \E e \in EngineOf(runs[i], built) : Computes(runs[i], e)
                THEN runs' = [runs EXCEPT ![i].status = "COMPLETED", ![i].ran = Put(@, "engine", built)]
                ELSE runs' = Refused(i, "computation")
    /\ UNCHANGED <<service, disk, freezing, stored, live, base, kept, events>>

RunsNext ==
    \/ \E p \in {"api", Executor} : Restart(p)
    \/ WriteCsv \/ TruncateSidecar \/ WriteSidecar \/ FreezeDies \/ EditFile \/ TakeSnapshot \/ ReplaceBook
    \/ SubmitRun \/ \E i \in DOMAIN runs : Resolve(i) \/ Build(i)

-----------------------------------------------------------------------------
(* What a comparison binds a completed run to: what the API process kept, or  *)
(* what the database has; a book the database has replaced is refused.        *)

bound_portfolio(i) ==
    IF kept[i].book # None THEN {kept[i].book}
    ELSE IF env.database /\ runs[i].book_version = live THEN {service.books[live]} ELSE {}

bound_market(i) ==
    IF kept[i].market # None
    THEN {m \in {kept[i].market} : runs[i].market \in {None, m.id}}
    ELSE {stored[id] : id \in {runs[i].market} \cap DOMAIN stored}

bound_engine(i) ==
    UNION {build_historical_risk_engine_for_spec(disk, env, spec) :
              spec \in resolve_execute_spec(disk, env, runs[i], None)}

-----------------------------------------------------------------------------
(* Properties.                                                                *)

RunsTypeOK ==
    /\ Len(kept) = Len(runs) /\ live \in DOMAIN service.books
    /\ Range(disk.order) = {v \in {Stem(p) : p \in DOMAIN disk.files} : is_content_hash(v)}
    /\ \A i \in DOMAIN runs : runs[i].status \in {"QUEUED", "RUNNING", "COMPLETED", "FAILED", "LOST"}

\* A header whose version is a content, or whose data set is the program's own.
\* A path is not such a name: its file may be edited.
Pinned(run) ==
    \/ is_content_hash(run.version)
    \/ run.id \in OwnIds

SameHistory(e, f) == e.panel = f.panel /\ e.seed = f.seed

\* A run means what it meant when it was submitted. Whatever is frozen, edited
\* or restarted between, it is executed on the panel its client was told of,
\* and explained on the engine and the market it was executed on; in one
\* process on its book too, or not at all. It is refused for its data while the
\* sidecar of its history is half-written, because the same content is being
\* frozen again or the process that froze it died, and never otherwise.
ReplaysAs(i, run) ==
    /\ SameHistory(run.ran.engine, run.chosen)
    /\ ~SidecarTorn(disk, run.version) => \E e \in bound_engine(i) : SameHistory(e, run.ran.engine)
    /\ bound_market(i) = {run.ran.market}
    /\ ~env.external => bound_portfolio(i) \subseteq {run.ran.book}
RunsReplay ==
    \A i \in DOMAIN runs : Pinned(runs[i]) =>
        /\ runs[i].failed \notin {"specification", "engine"}
        /\ runs[i].status = "COMPLETED" => ReplaysAs(i, runs[i])

\* docs/public_data_demo.md:61 says more: "`dataset_id` + `dataset_version`
\* resolve those immutable bytes". No run that names them is refused for them.
PinnedRunsResolve ==
    \A i \in DOMAIN runs : Pinned(runs[i]) => runs[i].failed \notin {"specification", "engine", "sidecar"}

\* A frozen history is the levels it was made of: from the first common day,
\* its moves one after another give every later level of every factor, however
\* the providers' calendars differ; and it has no other day.
Rebuilt(i, level, by) ==
    IF WAVE_A_FACTOR_MAPPINGS[i].kind = "equity" THEN (level * (100 + by)) \div 100 ELSE level + by
LevelsFrom(i, first, rows) ==
    LET level[n \in 1..Len(rows) + 1] == IF n = 1 THEN first ELSE Rebuilt(i, level[n - 1], rows[n - 1][i][2])
    IN  level
MovesRebuildLevels ==
    freezing # None =>
        \A all \in FetchedSeries(freezing.vintage, freezing.start, freezing.end) :
        \A days \in {InOrder(CommonDays(all))} :
            /\ Len(freezing.rows) = Len(days) - 1
            /\ \A i \in DOMAIN all :
                  LevelsFrom(i, all[i].points[days[1]], freezing.rows) = [n \in DOMAIN days |-> all[i].points[days[n]]]

\* Moves are whole percents here, so what is rebuilt is exact where a price's
\* moves are.
WholeMoves ==
    \A s \in Services : \A w \in DOMAIN s.vintages :
        \A all \in FetchedSeries(s.vintages[w], s.start, s.end) : \A days \in {InOrder(CommonDays(all))} :
            \A i \in DOMAIN all : WAVE_A_FACTOR_MAPPINGS[i].kind = "equity" =>
                \A n \in 1..Len(days) - 1 :
                    LET was == all[i].points[days[n]]  now == all[i].points[days[n + 1]]
                    IN  was > 0 => (100 * (now - was)) % was = 0

-----------------------------------------------------------------------------
(* The inductive invariant behind RunsReplay, of a deployment s and its disk d, *)
(* mended: what a torn sidecar held, it will hold when it is written.          *)

\* A frozen history and its sidecar are there, and will be.
Frozen(d, version) ==
    /\ versioned_csv_path(version) \in DOMAIN d.files
    /\ d.files[versioned_csv_path(version)].sidecar = FrozenIdentity(version)

\* Files carry their own names; a freeze finds the file it has written.
FilesInv(s, d) ==
    /\ d = [files |-> d.files, order |-> d.order] /\ OrderOK(d)
    /\ \A p \in DOMAIN d.files : FileOK(p, d.files[p]) /\ (IsFrozenPath(p) => Stem(p) \in FrozenVersions(s))
DiskInv ==
    /\ disk = [files |-> disk.files, order |-> disk.order] /\ FilesInv(service, Mended(disk))
    /\ freezing # None =>
          /\ freezing \in Freezes(service)
          /\ versioned_csv_path(freezing.version) \in DOMAIN disk.files

\* A snapshot is stored under its own name.
StoredInv(s, snapshots) ==
    /\ \A id \in DOMAIN snapshots : snapshots[id].id = id
    /\ s.market.id \in DOMAIN snapshots => snapshots[s.market.id] = s.market

\* An identity with a content for its version names a frozen history.
Anchored(d, x) == is_content_hash(x.version) => x.id = WAVE_A_DATASET_ID /\ Frozen(d, x.version)

\* A process whose data is pinned would start with the same engine from the
\* name of its data. Other data is the newest file's or one file's; when that
\* file is frozen, its sidecar may yet be written, and the engine has all of it.
ReadsAll(e, file) == e.seed = DEFAULT_HISTORICAL_PANEL_SEED /\ e.observations = Len(file.rows)
EngineInv(s, d, e) ==
    LET x == e.dataset IN
    /\ Pinned(x) =>
          Anchored(d, x) /\ build_historical_risk_engine(d, s.env, x.id, x.version, None, None) = {e}
    /\ ~Pinned(x) =>
          /\ x.version = DEFAULT_VERSION
          /\ \/ x.id = WAVE_A_DATASET_ID
             \/ \E path \in DOMAIN d.files :
                   x.id = file_csv_dataset_id(path) /\ (IsFrozenPath(path) => ReadsAll(e, d.files[path]))

\* What a header keeps names the engine the client was told of.
Reproduces(s, d, run) ==
    /\ Anchored(d, run) /\ run.config \in Configs
    /\ dataset_identity(run.chosen.dataset) = <<run.id, run.version>>
    /\ build_historical_risk_engine(d, s.env, run.id, run.version, run.config.seed, run.config.observations)
          = {run.chosen}

RunFields == {"request", "id", "version", "config", "market", "book_version", "status", "failed",
              "chosen", "spec", "ran"}
Statuses  == {"QUEUED", "RUNNING", "COMPLETED", "FAILED", "LOST"}

\* Book and market of a run that is executed are those of its header.
Executes(s, snapshots, run, mine) ==
    /\ {"book", "market"} \subseteq DOMAIN run.ran
    /\ run.market \in DOMAIN snapshots /\ snapshots[run.market] = run.ran.market
    /\ mine.market \in {None, run.ran.market}
    /\ ~s.env.external => run.ran.book = s.books[run.book_version]

RunInv(s, d, snapshots, run, mine) ==
    /\ DOMAIN run = RunFields /\ run.status \in Statuses /\ run.book_version \in DOMAIN s.books
    /\ DOMAIN mine = {"book", "market"} /\ mine.book \in {None, s.books[run.book_version]}
    /\ run.status = "QUEUED" => mine.market = None
    /\ run.status \in {"RUNNING", "COMPLETED"} => Executes(s, snapshots, run, mine)
    /\ Pinned(run) =>
          /\ Reproduces(s, d, run) /\ run.failed \notin {"specification", "engine"}
          /\ run.status = "RUNNING" =>
                run.spec = [id |-> run.id, version |-> run.version, config |-> run.config]
          /\ run.status = "COMPLETED" => SameHistory(run.ran.engine, run.chosen)

RowsInv ==
    /\ runs \in Seq(Range(runs)) /\ kept \in Seq(Range(kept)) /\ Len(kept) = Len(runs)
    /\ \A i \in DOMAIN runs : RunInv(service, Mended(disk), stored, runs[i], kept[i])

ReplayInv ==
    /\ service \in Services /\ live \in DOMAIN service.books /\ DOMAIN base = {"api", "worker"}
    /\ Range(disk.order) = {v \in {Stem(p) : p \in DOMAIN disk.files} : is_content_hash(v)}
    /\ DiskInv /\ StoredInv(service, stored) /\ RowsInv
    /\ \A p \in {"api", "worker"} : base[p] # None => EngineInv(service, Mended(disk), base[p])
==============================================================================
