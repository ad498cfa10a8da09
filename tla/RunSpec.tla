------------------------------- MODULE RunSpec -------------------------------
(* Which history a run is computed on: the names of data sets, the files they *)
(* are read from, the historical engine built of one, and the specification a *)
(* run's header keeps so that the same engine can be built again later.       *)
(*                                                                            *)
(* A disk has files, from a path to a header kind, its rows and its sidecar   *)
(* (None, an identity, or half-written), and the order in which the frozen    *)
(* public ones were written. An environment has the data mode, the data set   *)
(* variable, the pinned path, whether there is a database and whether an      *)
(* external worker executes runs. A name, version or path is a tuple; a path  *)
(* is a directory and a stem.                                                 *)
EXTENDS PublicHistory

CONSTANTS
    DemoRows,              \* the packaged file of typed columns
    DemoMacros,            \* the packaged file of four aggregate columns
    Torn,                  \* a sidecar opened for writing and not yet written
    DefaultObservations,   \* the length of a synthetic history
    Draw(_, _, _)          \* the move drawn for a seed, a column and a day
ASSUME HistoriesAssumption ==
    /\ Torn # None
    /\ DefaultObservations \in Nat \ {0}
    /\ DemoRows \in Seq(Range(DemoRows)) /\ DemoMacros \in Seq(Range(DemoMacros))

Or(x, default) == IF x = None THEN default ELSE x

-----------------------------------------------------------------------------
(* Names.                                                                     *)

DEMO_MULTI_FACTOR_DATASET_ID    == <<"demo-multi-factor-history">>
DEMO_HISTORICAL_DATASET_ID      == <<"demo-historical-factors">>
SYNTHETIC_HISTORICAL_DATASET_ID == <<"synthetic-historical-factors">>
DEFAULT_VERSION                 == <<"v1">>

DemoPanelNames == {DEMO_MULTI_FACTOR_DATASET_ID, <<"demo-multi-factor">>, <<"per_factor">>, <<"per-factor">>}
DemoMacroNames == {DEMO_HISTORICAL_DATASET_ID, <<"demo">>, <<"demo-historical">>}
\* A client may call the synthetic history by its id, a source may not.
SyntheticSources == {<<"synthetic">>, <<"rng">>, <<"random">>}
SyntheticNames   == {SYNTHETIC_HISTORICAL_DATASET_ID} \cup SyntheticSources

OwnIds   == {DEMO_MULTI_FACTOR_DATASET_ID, DEMO_HISTORICAL_DATASET_ID, SYNTHETIC_HISTORICAL_DATASET_ID}
OwnNames == DemoPanelNames \cup DemoMacroNames \cup SyntheticNames
ASSUME NamesAssumption == None \notin Int \cup OwnNames \cup {DEFAULT_VERSION, WAVE_A_DATASET_ID}

file_csv_dataset_id(path) == <<"file", path>>
PathOf(name) == IF name[1] = "file" /\ Len(name) = 2 THEN name[2] ELSE name

is_content_hash(version)    == version[1] = "sha256"
versioned_csv_path(version) == <<"public", version>>
Stem(path)                  == path[2]

-----------------------------------------------------------------------------
(* Files.                                                                     *)

\* Fault: the newest file, whichever version is asked for.
resolve_newest(disk, env, version) ==
    IF disk.order = <<>> THEN {} ELSE {versioned_csv_path(Last(disk.order))}

\* A version names its file, or a pinned one of its name. Without a version:
\* the pinned file, or else the newest.
resolve_public_history_csv(disk, env, version) ==
    CASE version # None /\ ~is_content_hash(version) -> {}
      [] version # None /\ is_content_hash(version)  ->
            LET pinned == {p \in {env.pinned} \ {None} : Stem(p) = version}
            IN  IF versioned_csv_path(version) \in DOMAIN disk.files
                THEN {versioned_csv_path(version)} ELSE pinned \cap DOMAIN disk.files
      [] version = None /\ env.pinned # None -> {env.pinned} \cap DOMAIN disk.files
      [] OTHER -> IF disk.order = <<>> THEN {} ELSE {versioned_csv_path(Last(disk.order))}

Dataset(kind, id, version, rows) == [kind |-> kind, id |-> id, version |-> version, rows |-> rows]

\* The sidecar's version wins over the default, the caller's id over the
\* sidecar's. A sidecar that is half-written is no JSON: the load fails.
load_per_factor_csv_dataset(disk, path, id) ==
    LET file == disk.files[path]
        sidecar_identity == Or(file.sidecar, [id |-> file_csv_dataset_id(path), version |-> DEFAULT_VERSION])
    IN  IF file.sidecar = Torn THEN {}
        ELSE {Dataset("per_factor", Or(id, sidecar_identity.id), sidecar_identity.version, file.rows)}

\* The header tells the two layouts apart; a four-column file has no version.
load_csv_historical_dataset(disk, path) ==
    IF path \notin DOMAIN disk.files THEN {}
    ELSE CASE disk.files[path].kind = "per_factor" -> load_per_factor_csv_dataset(disk, path, None)
           [] disk.files[path].kind = "four_macro" ->
                 {Dataset("four_macro", file_csv_dataset_id(path), DEFAULT_VERSION, disk.files[path].rows)}
           [] OTHER -> {}

load_demo_multi_factor_dataset ==
    Dataset("per_factor", DEMO_MULTI_FACTOR_DATASET_ID, DEFAULT_VERSION, DemoRows)
load_demo_historical_dataset ==
    Dataset("four_macro", DEMO_HISTORICAL_DATASET_ID, DEFAULT_VERSION, DemoMacros)
SyntheticHistoricalDataset(seed, observations) ==
    [kind |-> "synthetic", id |-> SYNTHETIC_HISTORICAL_DATASET_ID, version |-> DEFAULT_VERSION,
     seed |-> seed, observations |-> observations]

\* A source that is named wins over the variable, the variable over the mode.
apply_quantlineage_data_mode(env, source) ==
    CASE source # None -> source
      [] source = None /\ env.dataset # None -> env.dataset
      [] source = None /\ env.dataset = None /\ env.mode = "public" -> WAVE_A_DATASET_ID
      [] OTHER -> DEMO_MULTI_FACTOR_DATASET_ID

create_historical_dataset(disk, env, source, seed, observations) ==
    LET key == apply_quantlineage_data_mode(env, source)
    IN  CASE key \in DemoPanelNames -> {load_demo_multi_factor_dataset}
          [] key \in DemoMacroNames -> {load_demo_historical_dataset}
          [] key \in SyntheticSources -> {SyntheticHistoricalDataset(seed, observations)}
          [] key = WAVE_A_DATASET_ID ->
                UNION {load_per_factor_csv_dataset(disk, path, WAVE_A_DATASET_ID) :
                          path \in resolve_public_history_csv(disk, env, None)}
          [] OTHER -> load_csv_historical_dataset(disk, PathOf(key))

\* From the name a client gives to a source, or nothing.
resolve_dataset_source(disk, env, id, version) ==
    CASE id \in DemoPanelNames -> {DEMO_MULTI_FACTOR_DATASET_ID}
      [] id \in DemoMacroNames -> {<<"demo">>}
      [] id \in SyntheticNames -> {<<"synthetic">>}
      [] id = WAVE_A_DATASET_ID -> resolve_public_history_csv(disk, env, version)
      [] OTHER -> {PathOf(id)} \cap DOMAIN disk.files

dataset_identity(dataset) == <<dataset.id, dataset.version>>

-----------------------------------------------------------------------------
(* Panels and engines.                                                        *)

DEFAULT_PRODUCTION_PANEL_FACTORS ==
    Mapped(Spot, <<"AAPL", "MSFT", "NVDA", "SPY">>) \o Mapped(EquityVol, <<"AAPL", "MSFT", "NVDA", "SPY">>)
    \o Mapped(LAMBDA t : RateZero("USD", t), <<"0Y", "2Y", "5Y", "10Y">>)
    \o <<FXSpot("EURUSD"), FXVol("EURUSD")>>

\* Every column is drawn by itself.
create_synthetic_factor_panel(seed, observations, factors) ==
    from_pairs([n \in 1..observations |-> [j \in DOMAIN factors |-> <<factors[j], Draw(seed, j, n)>>]])

panel_from_dataset(dataset, factors, observations, seed) ==
    LET columns == Or(factors, DEFAULT_PRODUCTION_PANEL_FACTORS)
    IN  CASE dataset.kind = "per_factor" -> panel_from_per_factor_dataset(dataset.rows, factors, observations)
          [] dataset.kind = "four_macro" -> factor_panel_from_dataset(dataset.rows, columns, observations)
          [] dataset.kind = "synthetic"  ->
                create_synthetic_factor_panel(seed, Or(observations, dataset.observations), columns)

DEFAULT_HISTORICAL_PANEL_SEED == 7

HistoricalRiskEngine(dataset, seed, panel) ==
    [dataset |-> dataset, seed |-> seed, observations |-> Len(panel), panel |-> panel]

build_historical_risk_engine(disk, env, id, version, seed, observations) ==
    LET panel_seed == Or(seed, DEFAULT_HISTORICAL_PANEL_SEED)
        length     == Or(observations, DefaultObservations)
        sources    == IF id = None THEN {None} ELSE resolve_dataset_source(disk, env, id, version)
        datasets   == UNION {create_historical_dataset(disk, env, s, panel_seed, length) : s \in sources}
    IN  UNION {{HistoricalRiskEngine(d, panel_seed, p) :
                   p \in panel_from_dataset(d, None, observations, panel_seed)} : d \in datasets}

\* Shorter: the first rows. Longer: drawn again when synthetic, and refused
\* past the end of a file. The factors stay.
resize_historical_risk_engine(engine, observations) ==
    LET synthetic == engine.dataset.kind = "synthetic"
        dataset   == IF synthetic THEN [engine.dataset EXCEPT !.observations = observations] ELSE engine.dataset
        factors   == [j \in DOMAIN engine.panel[1] |-> engine.panel[1][j][1]]
        panels    == IF observations < Len(engine.panel) THEN truncate_factor_panel(engine.panel, observations)
                     ELSE panel_from_dataset(dataset, factors, observations, engine.seed)
    IN  CASE observations = engine.observations -> {engine}
          [] observations # engine.observations /\ observations < 1 -> {}
          [] OTHER -> {HistoricalRiskEngine(dataset, engine.seed, p) : p \in panels}

-----------------------------------------------------------------------------
(* Specifications.                                                            *)

Config(seed, observations) == [seed |-> seed, observations |-> observations]
Configs == [seed : Int \cup {None}, observations : Nat \cup {None}]
ASSUME ConfigAssumption == None \notin Configs
ConfigOf(x) == Or(x.config, Config(None, None))

\* What a request asks for, or the process's engine with what it asks changed.
\* The engine is kept beside the identity it resolves to.
resolve_run_spec(disk, env, request, engine) ==
    LET seed == ConfigOf(request).seed
        observations == ConfigOf(request).observations
        own == request.id = None /\ engine # None
        wanted == IF own THEN <<engine.dataset.id, engine.dataset.version, Or(seed, engine.seed),
                                Or(observations, engine.observations)>>
                  ELSE <<request.id, IF request.id = None THEN None ELSE request.version, seed, observations>>
        selected == IF own /\ seed = None /\ observations = None THEN {engine}
                    ELSE build_historical_risk_engine(disk, env, wanted[1], wanted[2], wanted[3], wanted[4])
    IN  {[id |-> e.dataset.id, version |-> e.dataset.version, engine |-> e,
          config |-> Or(request.config, Config(e.seed, e.observations))] :
         e \in {x \in selected : request.version \in {None, x.dataset.version}}}

\* The header's columns override the request that was sent.
request_blob_for_execute(run) ==
    [id |-> Or(run.id, run.request.id), version |-> Or(run.version, run.request.version),
     config |-> Or(run.config, run.request.config)]

\* Resolved again, the identity must be the header's.
resolve_execute_spec(disk, env, run, engine) ==
    {spec \in resolve_run_spec(disk, env, request_blob_for_execute(run), engine) :
        spec.id = run.id /\ spec.version = run.version}

build_historical_risk_engine_for_spec(disk, env, spec) ==
    build_historical_risk_engine(disk, env, spec.id, spec.version, ConfigOf(spec).seed, ConfigOf(spec).observations)

\* The process's own engine when it is the one the specification names.
portfolio_service_for_spec(disk, env, base, spec) ==
    IF /\ dataset_identity(base.dataset) = <<spec.id, spec.version>>
       /\ ConfigOf(spec).seed \in {None, base.seed}
       /\ ConfigOf(spec).observations \in {None, base.observations}
    THEN {base} ELSE build_historical_risk_engine_for_spec(disk, env, spec)
==============================================================================
