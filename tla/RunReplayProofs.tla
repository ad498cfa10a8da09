--------------------------- MODULE RunReplayProofs ----------------------------
(* Proofs about RunReplay.                                                     *)
EXTENDS RunReplay, FunctionTheorems, FiniteSetTheorems, SequenceTheorems, WellFoundedInduction, TLAPS

-----------------------------------------------------------------------------
(* What is frozen.                                                            *)

\* A body's points are of finitely many days.
LEMMA PointsFinite ==
    ASSUME NEW rows, NEW start, NEW end, IsFiniteSet(DOMAIN rows)
    PROVE  IsFiniteSet(DOMAIN collect_points(rows, start, end))
<1> DEFINE valued == {i \in DOMAIN rows : start <= rows[i][1] /\ rows[i][1] <= end /\ rows[i][2] # None}
           days == {rows[i][1] : i \in valued}
           f == [i \in valued |-> rows[i][1]]
<1>1. DOMAIN collect_points(rows, start, end) = days
  BY DEF collect_points
<1>2. IsFiniteSet(valued)
  BY FS_Subset
<1>3. f \in Surjection(valued, days)
  BY DEF Surjection
<1>4. IsFiniteSet(days)
  BY <1>2, <1>3, FS_Surjection
<1> QED BY <1>1, <1>4

\* The first series of a freeze is one of the first mapping's.
LEMMA FirstSeriesFinite ==
    ASSUME NEW s \in Services, NEW w \in DOMAIN s.vintages, NEW start, NEW end,
           NEW all \in FetchedSeries(s.vintages[w], start, end)
    PROVE  DOMAIN all = DOMAIN WAVE_A_FACTOR_MAPPINGS /\ IsFiniteSet(DOMAIN all[1].points)
<1> DEFINE m == WAVE_A_FACTOR_MAPPINGS[1]
           v == s.vintages[w]
<1>1. 1 \in DOMAIN WAVE_A_FACTOR_MAPPINGS /\ m = EquityMapping("equity", "AAPL")
  BY DEF WAVE_A_FACTOR_MAPPINGS
<1>2. m.kind = "equity" /\ m.source_symbol = Last(m.instrument_id)
  BY <1>1 DEF EquityMapping, FactorMapping
<1>3. DOMAIN all = DOMAIN WAVE_A_FACTOR_MAPPINGS /\ all[1] \in fetch_one(v, m, start, end)
  BY <1>1 DEF FetchedSeries
<1>4. all[1] \in fetch_history(v, m.instrument_id, start, end)
  BY <1>2, <1>3 DEF fetch_one
<1> DEFINE attempts == v.answers[m.source_symbol]
<1>5. PICK rows \in request_json(attempts) : all[1].points = collect_points(rows, start, end)
  BY <1>2, <1>4 DEF fetch_history, Series
<1>6. PICK n \in DOMAIN attempts : rows = attempts[n].rows
  BY <1>5 DEF request_json
<1>7. rows \in Seq(Range(rows))
  BY <1>1, <1>6, VintagesAssumption
<1>8. IsFiniteSet(DOMAIN rows)
  <2>1. Len(rows) \in Nat /\ DOMAIN rows = 1..Len(rows)
    BY <1>7
  <2> QED BY <2>1, FS_Interval
<1> QED BY <1>3, <1>5, <1>8, PointsFinite

\* A frozen history is a sequence of rows under a content hash.
LEMMA FreezesShape ==
    ASSUME NEW s \in Services, NEW f \in Freezes(s)
    PROVE  /\ f.rows \in Seq(Range(f.rows))
           /\ is_content_hash(f.version)
           /\ f.version \in FrozenVersions(s)
<1>1. PICK w \in DOMAIN s.vintages : f \in freeze_public_history(s.vintages[w], s.start, s.end)
  BY DEF Freezes
<1>2. PICK all \in FetchedSeries(s.vintages[w], s.start, s.end) :
           \E days \in align_series(all, MinAlignedReturns + 1) :
              f.version = panel_content_version(days, LevelMoves(all, days)) /\ f.rows = LevelMoves(all, days)
  BY <1>1 DEF freeze_public_history
<1> PICK days \in align_series(all, MinAlignedReturns + 1) :
           f.version = panel_content_version(days, LevelMoves(all, days)) /\ f.rows = LevelMoves(all, days)
  BY <1>2
<1>3. days = InOrder(CommonDays(all))
  BY <1>2 DEF align_series
<1>4. IsFiniteSet(CommonDays(all))
  BY <1>2, FirstSeriesFinite, FS_Subset DEF CommonDays
<1>5. Cardinality(CommonDays(all)) \in Nat
  BY <1>4, FS_CardinalityType
<1>6. Len(days) \in Nat
  BY <1>3, <1>5 DEF InOrder
<1>7. \E n \in Nat : DOMAIN f.rows = 1..n
  BY <1>2, <1>6 DEF LevelMoves
<1>8. f.rows = [n \in DOMAIN f.rows |-> f.rows[n]]
  BY <1>2 DEF LevelMoves
<1>9. f.rows \in Seq(Range(f.rows))
  BY <1>7, <1>8 DEF Range
<1>10. is_content_hash(f.version)
  BY <1>2 DEF panel_content_version, is_content_hash
<1> QED BY <1>9, <1>10 DEF FrozenVersions

-----------------------------------------------------------------------------
(* Data sets of a pinned identity.                                            *)

\* Names of different kinds differ.
LEMMA DistinctNames ==
    /\ ~is_content_hash(DEFAULT_VERSION)
    /\ WAVE_A_DATASET_ID \notin OwnNames /\ WAVE_A_DATASET_ID \notin OwnIds
    /\ \A p : file_csv_dataset_id(p) \notin OwnIds
    /\ None # WAVE_A_DATASET_ID /\ None \notin OwnNames /\ OwnIds \subseteq OwnNames
<1>1. ~is_content_hash(DEFAULT_VERSION)
  BY DEF is_content_hash, DEFAULT_VERSION
<1> QED BY <1>1, NamesAssumption DEF OwnIds, OwnNames, DemoPanelNames, DemoMacroNames, SyntheticNames, SyntheticSources,
         WAVE_A_DATASET_ID, file_csv_dataset_id, DEMO_MULTI_FACTOR_DATASET_ID, DEMO_HISTORICAL_DATASET_ID,
         SYNTHETIC_HISTORICAL_DATASET_ID

\* No two of the program's own data sets have a name in common.
LEMMA OwnDisjoint ==
    /\ DemoPanelNames \cap DemoMacroNames = {} /\ DemoPanelNames \cap SyntheticNames = {}
    /\ DemoMacroNames \cap SyntheticNames = {}
  BY DEF DemoPanelNames, DemoMacroNames, SyntheticNames, SyntheticSources, DEMO_MULTI_FACTOR_DATASET_ID,
         DEMO_HISTORICAL_DATASET_ID, SYNTHETIC_HISTORICAL_DATASET_ID

\* The names a source may have that are no files.
SourceNames == DemoPanelNames \cup DemoMacroNames \cup SyntheticSources

\* A frozen path is a path and nothing else.
LEMMA FrozenPath ==
    ASSUME NEW v
    PROVE  /\ versioned_csv_path(v) \notin OwnNames /\ versioned_csv_path(v) # WAVE_A_DATASET_ID
           /\ PathOf(versioned_csv_path(v)) = versioned_csv_path(v)
           /\ Stem(versioned_csv_path(v)) = v /\ IsFrozenPath(versioned_csv_path(v))
  BY DEF OwnNames, DemoPanelNames, DemoMacroNames, SyntheticNames, SyntheticSources, versioned_csv_path, Stem, PathOf,
         IsFrozenPath, WAVE_A_DATASET_ID, DEMO_MULTI_FACTOR_DATASET_ID, DEMO_HISTORICAL_DATASET_ID,
         SYNTHETIC_HISTORICAL_DATASET_ID

\* The data set a pinned identity means, on a disk.
DataOf(d, x, seed, length) ==
    CASE x.id = DEMO_MULTI_FACTOR_DATASET_ID    -> load_demo_multi_factor_dataset
      [] x.id = DEMO_HISTORICAL_DATASET_ID      -> load_demo_historical_dataset
      [] x.id = SYNTHETIC_HISTORICAL_DATASET_ID -> SyntheticHistoricalDataset(seed, length)
      [] OTHER -> Dataset("per_factor", WAVE_A_DATASET_ID, x.version, d.files[versioned_csv_path(x.version)].rows)

\* A file is a pinned data set only when it is a frozen history.
LEMMA PinnedFile ==
    ASSUME NEW dep, NEW d, FilesInv(dep, d), NEW p \in DOMAIN d.files, NEW id \in {None, WAVE_A_DATASET_ID},
           NEW x \in load_per_factor_csv_dataset(d, p, id), Pinned(x)
    PROVE  /\ Anchored(d, x)
           /\ x = Dataset("per_factor", WAVE_A_DATASET_ID, x.version, d.files[versioned_csv_path(x.version)].rows)
<1> DEFINE file == d.files[p]
           v == Stem(p)
<1>1. FileOK(p, file)
  BY DEF FilesInv
<1>2. CASE file.sidecar = None
  <2>1. x.version = DEFAULT_VERSION /\ x.id \in {file_csv_dataset_id(p), WAVE_A_DATASET_ID}
    BY <1>2, DistinctNames DEF load_per_factor_csv_dataset, Or, Dataset
  <2> QED BY <2>1, DistinctNames DEF Pinned, OwnIds
<1>3. CASE file.sidecar # None
  <2>1. p = versioned_csv_path(v) /\ file.sidecar = FrozenIdentity(v)
    BY <1>1, <1>3 DEF FileOK, IsFrozenPath
  <2>2. x = Dataset("per_factor", WAVE_A_DATASET_ID, v, file.rows)
    BY <1>3, <2>1, DistinctNames DEF load_per_factor_csv_dataset, Or, FrozenIdentity
  <2>3. x.version = v /\ x.id = WAVE_A_DATASET_ID
    BY <2>2 DEF Dataset
  <2> QED BY <2>1, <2>2, <2>3 DEF Anchored, Frozen
<1> QED BY <1>2, <1>3

\* The file of the public history without a version is there.
LEMMA NewestExists ==
    ASSUME NEW dep, NEW d, FilesInv(dep, d), NEW e, NEW p \in resolve_public_history_csv(d, e, None)
    PROVE  p \in DOMAIN d.files
<1>1. CASE e.pinned # None
  BY <1>1 DEF resolve_public_history_csv
<1>2. CASE e.pinned = None
  <2>1. d.order # <<>> /\ p = versioned_csv_path(Last(d.order))
    BY <1>2 DEF resolve_public_history_csv
  <2>2. Last(d.order) \in Range(d.order)
    BY <2>1 DEF FilesInv, OrderOK, Last, Range
  <2> QED BY <2>1, <2>2 DEF FilesInv, OrderOK
<1> QED BY <1>1, <1>2

\* A data set that is created under a pinned name is the one of that name.
LEMMA CreatedPinned ==
    ASSUME NEW dep, NEW d, FilesInv(dep, d), NEW e, NEW source, NEW seed, NEW length,
           NEW x \in create_historical_dataset(d, e, source, seed, length), Pinned(x)
    PROVE  Anchored(d, x) /\ x = DataOf(d, x, seed, length)
<1> DEFINE key == apply_quantlineage_data_mode(e, source)
<1>0. DEMO_MULTI_FACTOR_DATASET_ID # DEMO_HISTORICAL_DATASET_ID
      /\ DEMO_MULTI_FACTOR_DATASET_ID # SYNTHETIC_HISTORICAL_DATASET_ID
      /\ DEMO_HISTORICAL_DATASET_ID # SYNTHETIC_HISTORICAL_DATASET_ID
  BY DEF DEMO_MULTI_FACTOR_DATASET_ID, DEMO_HISTORICAL_DATASET_ID, SYNTHETIC_HISTORICAL_DATASET_ID
<1>1. ASSUME x = load_demo_multi_factor_dataset PROVE Anchored(d, x) /\ x = DataOf(d, x, seed, length)
  <2>1. x.id = DEMO_MULTI_FACTOR_DATASET_ID /\ x.version = DEFAULT_VERSION
    BY <1>1 DEF load_demo_multi_factor_dataset, Dataset
  <2> QED BY <1>0, <1>1, <2>1, DistinctNames DEF Anchored, DataOf
<1>2. ASSUME x = load_demo_historical_dataset PROVE Anchored(d, x) /\ x = DataOf(d, x, seed, length)
  <2>1. x.id = DEMO_HISTORICAL_DATASET_ID /\ x.version = DEFAULT_VERSION
    BY <1>2 DEF load_demo_historical_dataset, Dataset
  <2> QED BY <1>0, <1>2, <2>1, DistinctNames DEF Anchored, DataOf
<1>3. ASSUME x = SyntheticHistoricalDataset(seed, length) PROVE Anchored(d, x) /\ x = DataOf(d, x, seed, length)
  <2>1. x.id = SYNTHETIC_HISTORICAL_DATASET_ID /\ x.version = DEFAULT_VERSION
    BY <1>3 DEF SyntheticHistoricalDataset
  <2> QED BY <1>0, <1>3, <2>1, DistinctNames DEF Anchored, DataOf
<1>4. ASSUME NEW p \in DOMAIN d.files, NEW id \in {None, WAVE_A_DATASET_ID},
             x \in load_per_factor_csv_dataset(d, p, id)
      PROVE  Anchored(d, x) /\ x = DataOf(d, x, seed, length)
  <2>1. /\ Anchored(d, x)
        /\ x = Dataset("per_factor", WAVE_A_DATASET_ID, x.version, d.files[versioned_csv_path(x.version)].rows)
    BY <1>4, PinnedFile
  <2>2. x.id = WAVE_A_DATASET_ID
    BY <2>1 DEF Dataset
  <2> QED BY <2>1, <2>2, DistinctNames DEF DataOf, OwnIds
<1>5. CASE key = WAVE_A_DATASET_ID
  <2>1. PICK p \in resolve_public_history_csv(d, e, None) : x \in load_per_factor_csv_dataset(d, p, WAVE_A_DATASET_ID)
    BY <1>5, DistinctNames DEF create_historical_dataset, OwnNames
  <2>2. p \in DOMAIN d.files
    BY <2>1, NewestExists
  <2> QED BY <1>4, <2>1, <2>2
<1>6. CASE key \notin SourceNames \cup {WAVE_A_DATASET_ID}
  <2>1. x \in load_csv_historical_dataset(d, PathOf(key))
    BY <1>6 DEF create_historical_dataset, SourceNames
  <2> DEFINE path == PathOf(key)
  <2>2. path \in DOMAIN d.files
    BY <2>1 DEF load_csv_historical_dataset
  <2>3. CASE d.files[path].kind = "per_factor"
    BY <1>4, <2>1, <2>2, <2>3 DEF load_csv_historical_dataset
  <2>4. CASE d.files[path].kind # "per_factor"
    <3>1. x = Dataset("four_macro", file_csv_dataset_id(path), DEFAULT_VERSION, d.files[path].rows)
      BY <2>1, <2>2, <2>4 DEF load_csv_historical_dataset
    <3>2. x.id = file_csv_dataset_id(path) /\ x.version = DEFAULT_VERSION
      BY <3>1 DEF Dataset
    <3> QED BY <3>2, DistinctNames DEF Pinned, OwnIds
  <2> QED BY <2>3, <2>4
<1>7. CASE key \in SourceNames
  <2>1. CASE key \in DemoPanelNames
    <3>1. x = load_demo_multi_factor_dataset
      BY <2>1, OwnDisjoint, DistinctNames DEF create_historical_dataset, OwnNames, SyntheticNames
    <3> QED BY <1>1, <3>1
  <2>2. CASE key \in DemoMacroNames
    <3>1. x = load_demo_historical_dataset
      BY <2>2, OwnDisjoint, DistinctNames DEF create_historical_dataset, OwnNames, SyntheticNames
    <3> QED BY <1>2, <3>1
  <2>3. CASE key \in SyntheticSources
    <3>1. x = SyntheticHistoricalDataset(seed, length)
      BY <2>3, OwnDisjoint, DistinctNames DEF create_historical_dataset, OwnNames, SyntheticNames
    <3> QED BY <1>3, <3>1
  <2> QED BY <1>7, <2>1, <2>2, <2>3 DEF SourceNames
<1> QED BY <1>5, <1>6, <1>7

-----------------------------------------------------------------------------
(* Panels and engines.                                                        *)

\* The engines of one data set.
Engines(D, s, o) ==
    {HistoricalRiskEngine(D, Or(s, DEFAULT_HISTORICAL_PANEL_SEED), p) :
        p \in panel_from_dataset(D, None, o, Or(s, DEFAULT_HISTORICAL_PANEL_SEED))}

Lengths == Nat \cup {None}
Seeds   == Int \cup {None}

\* Two panels of the same rows are one.
LEMMA PanelsUnique ==
    ASSUME NEW D, D.kind \in {"per_factor", "four_macro", "synthetic"}, NEW o, NEW s,
           NEW p \in panel_from_dataset(D, None, o, s), NEW q \in panel_from_dataset(D, None, o, s)
    PROVE  p = q
<1>1. \A rows : \A x, y \in from_pairs(rows) : x = y
  BY DEF from_pairs
<1>2. \A rows, n : \A x, y \in Truncated(rows, n) : x = y
  BY DEF Truncated, truncate_factor_panel
<1>3. CASE D.kind = "per_factor"
  <2> DEFINE Rows(rows) == [i \in DOMAIN rows |-> rows[i]]
  <2>1. panel_from_dataset(D, None, o, s) = UNION {from_pairs(Rows(rows)) : rows \in Truncated(D.rows, o)}
    BY <1>3 DEF panel_from_dataset, panel_from_per_factor_dataset
  <2> HIDE DEF Rows
  <2> QED BY <1>1, <1>2, <2>1
<1>4. CASE D.kind = "four_macro"
  <2> DEFINE F == DEFAULT_PRODUCTION_PANEL_FACTORS
             Rows(rows) == [i \in DOMAIN rows |-> [j \in DOMAIN F |-> <<F[j], SeriesForFactor(rows[i], F[j])>>]]
  <2>1. panel_from_dataset(D, None, o, s) = UNION {from_pairs(Rows(rows)) : rows \in Truncated(D.rows, o)}
    BY <1>4 DEF panel_from_dataset, factor_panel_from_dataset, Or
  <2> HIDE DEF Rows
  <2> QED BY <1>1, <1>2, <2>1
<1>5. CASE D.kind = "synthetic"
  BY <1>1, <1>5 DEF panel_from_dataset, create_synthetic_factor_panel
<1> QED BY <1>3, <1>4, <1>5

LEMMA EnginesUnique ==
    ASSUME NEW D, D.kind \in {"per_factor", "four_macro", "synthetic"}, NEW o, NEW s,
           NEW a \in Engines(D, s, o), NEW b \in Engines(D, s, o)
    PROVE  a = b
  BY PanelsUnique DEF Engines

\* An engine is built of the data set of its source.
LEMMA BuildsFrom ==
    ASSUME NEW d, NEW e, NEW id, NEW version, NEW s, NEW o,
           NEW a \in build_historical_risk_engine(d, e, id, version, s, o)
    PROVE  /\ \E source \in IF id = None THEN {None} ELSE resolve_dataset_source(d, e, id, version) :
                 a.dataset \in create_historical_dataset(d, e, source, Or(s, DEFAULT_HISTORICAL_PANEL_SEED),
                                                         Or(o, DefaultObservations))
           /\ a \in Engines(a.dataset, s, o)
<1> DEFINE sources == IF id = None THEN {None} ELSE resolve_dataset_source(d, e, id, version)
<1>1. PICK source \in sources :
           \E x \in create_historical_dataset(d, e, source, Or(s, DEFAULT_HISTORICAL_PANEL_SEED),
                                              Or(o, DefaultObservations)) : a \in Engines(x, s, o)
  BY DEF build_historical_risk_engine, Engines
<1>2. PICK x \in create_historical_dataset(d, e, source, Or(s, DEFAULT_HISTORICAL_PANEL_SEED),
                                           Or(o, DefaultObservations)) : a \in Engines(x, s, o)
  BY <1>1
<1>3. a.dataset = x
  BY <1>2 DEF Engines, HistoricalRiskEngine
<1> QED BY <1>1, <1>2, <1>3

\* A source that is named is the one that is read.
LEMMA NamedSource ==
    ASSUME NEW d, NEW e, NEW source, source # None, NEW seed, NEW length
    PROVE  /\ source \in DemoPanelNames =>
                create_historical_dataset(d, e, source, seed, length) = {load_demo_multi_factor_dataset}
           /\ source \in DemoMacroNames =>
                create_historical_dataset(d, e, source, seed, length) = {load_demo_historical_dataset}
           /\ source \in SyntheticSources =>
                create_historical_dataset(d, e, source, seed, length) = {SyntheticHistoricalDataset(seed, length)}
           /\ source \notin OwnNames \cup {WAVE_A_DATASET_ID} =>
                create_historical_dataset(d, e, source, seed, length) =
                   load_csv_historical_dataset(d, PathOf(source))
<1> DEFINE key == apply_quantlineage_data_mode(e, source)
<1>1. key = source
  BY DEF apply_quantlineage_data_mode
<1>2. WAVE_A_DATASET_ID \notin OwnNames
  BY DistinctNames
<1>3. ASSUME source \in DemoPanelNames
      PROVE  create_historical_dataset(d, e, source, seed, length) = {load_demo_multi_factor_dataset}
  BY <1>1, <1>2, <1>3, OwnDisjoint DEF create_historical_dataset, OwnNames, SyntheticNames
<1>4. ASSUME source \in DemoMacroNames
      PROVE  create_historical_dataset(d, e, source, seed, length) = {load_demo_historical_dataset}
  BY <1>1, <1>2, <1>4, OwnDisjoint DEF create_historical_dataset, OwnNames, SyntheticNames
<1>5. ASSUME source \in SyntheticSources
      PROVE  create_historical_dataset(d, e, source, seed, length) = {SyntheticHistoricalDataset(seed, length)}
  BY <1>1, <1>2, <1>5, OwnDisjoint DEF create_historical_dataset, OwnNames, SyntheticNames
<1>6. ASSUME source \notin OwnNames \cup {WAVE_A_DATASET_ID}
      PROVE  create_historical_dataset(d, e, source, seed, length) = load_csv_historical_dataset(d, PathOf(source))
  BY <1>1, <1>6 DEF create_historical_dataset, OwnNames, SyntheticNames
<1> QED BY <1>3, <1>4, <1>5, <1>6

\* A pinned identity can be read: the file it names, if it names one, is there
\* with its sidecar.
Legible(dep, d, x) ==
    is_content_hash(x.version) =>
        /\ x.id = WAVE_A_DATASET_ID /\ Frozen(d, x.version) /\ x.version \in FrozenVersions(dep)
        /\ d.files[versioned_csv_path(x.version)].kind = "per_factor"

LEMMA FilesLegible ==
    ASSUME NEW dep \in Services, NEW d, FilesInv(dep, d), NEW x, Anchored(d, x)
    PROVE  Legible(dep, d, x)
<1> SUFFICES ASSUME is_content_hash(x.version) PROVE Legible(dep, d, x)
  BY DEF Legible
<1> DEFINE path == versioned_csv_path(x.version)
<1>1. x.id = WAVE_A_DATASET_ID /\ Frozen(d, x.version) /\ path \in DOMAIN d.files
  BY DEF Anchored, Frozen
<1>2. IsFrozenPath(path) /\ Stem(path) = x.version
  BY FrozenPath
<1>3. x.version \in FrozenVersions(dep) /\ d.files[path].kind = "per_factor"
  BY <1>1, <1>2 DEF FilesInv, FileOK
<1> QED BY <1>1, <1>3 DEF Legible

\* A frozen file is read whole under its own version.
LEMMA FrozenFile ==
    ASSUME NEW dep \in Services, NEW d, NEW x, is_content_hash(x.version), Legible(dep, d, x)
    PROVE  /\ versioned_csv_path(x.version) # None /\ x.version # None
           /\ load_csv_historical_dataset(d, versioned_csv_path(x.version)) =
                {Dataset("per_factor", WAVE_A_DATASET_ID, x.version, d.files[versioned_csv_path(x.version)].rows)}
<1> DEFINE path == versioned_csv_path(x.version)
           file == d.files[path]
<1>1. /\ path \in DOMAIN d.files /\ file.sidecar = FrozenIdentity(x.version)
      /\ x.version \in FrozenVersions(dep) /\ file.kind = "per_factor"
  BY DEF Legible, Frozen
<1>2. None \notin {x.version, path, FrozenIdentity(x.version)} /\ Torn # FrozenIdentity(x.version)
  BY <1>1, FilesAssumption
<1>3. load_csv_historical_dataset(d, path) = load_per_factor_csv_dataset(d, path, None)
  BY <1>1 DEF load_csv_historical_dataset
<1>4. load_per_factor_csv_dataset(d, path, None) = {Dataset("per_factor", WAVE_A_DATASET_ID, x.version, file.rows)}
  BY <1>1, <1>2 DEF load_per_factor_csv_dataset, Or, FrozenIdentity
<1> QED BY <1>2, <1>3, <1>4

\* A pinned identity resolves to one source, and that to one data set.
LEMMA PinnedSource ==
    ASSUME NEW dep \in Services, NEW d, NEW x, Pinned(x), Legible(dep, d, x), NEW e
    PROVE  /\ x.id # None
           /\ \E source : /\ resolve_dataset_source(d, e, x.id, x.version) = {source}
                          /\ \A seed, length :
                               create_historical_dataset(d, e, source, seed, length) = {DataOf(d, x, seed, length)}
<1>0. DEMO_MULTI_FACTOR_DATASET_ID # DEMO_HISTORICAL_DATASET_ID
      /\ DEMO_MULTI_FACTOR_DATASET_ID # SYNTHETIC_HISTORICAL_DATASET_ID
      /\ DEMO_HISTORICAL_DATASET_ID # SYNTHETIC_HISTORICAL_DATASET_ID
  BY DEF DEMO_MULTI_FACTOR_DATASET_ID, DEMO_HISTORICAL_DATASET_ID, SYNTHETIC_HISTORICAL_DATASET_ID
<1>1. CASE x.id = DEMO_MULTI_FACTOR_DATASET_ID
  <2>1. x.id \in DemoPanelNames /\ x.id # None /\ x.id \notin DemoMacroNames \cup SyntheticNames
    BY <1>1, DistinctNames, OwnDisjoint DEF DemoPanelNames, OwnNames
  <2>2. resolve_dataset_source(d, e, x.id, x.version) = {x.id}
    BY <1>1, <2>1, DistinctNames DEF resolve_dataset_source, OwnNames
  <2>3. \A seed, length : create_historical_dataset(d, e, x.id, seed, length) = {DataOf(d, x, seed, length)}
    BY <1>0, <1>1, <2>1, NamedSource DEF DataOf
  <2> QED BY <2>1, <2>2, <2>3
<1>2. CASE x.id = DEMO_HISTORICAL_DATASET_ID
  <2>1. x.id \in DemoMacroNames /\ x.id # None /\ x.id \notin DemoPanelNames \cup SyntheticNames
    BY <1>2, DistinctNames, OwnDisjoint DEF DemoMacroNames, OwnNames
  <2>2. resolve_dataset_source(d, e, x.id, x.version) = {<<"demo">>}
    BY <1>2, <2>1, DistinctNames DEF resolve_dataset_source, OwnNames
  <2>3. <<"demo">> \in DemoMacroNames /\ <<"demo">> # None
    BY DistinctNames DEF DemoMacroNames, OwnNames
  <2>4. \A seed, length : create_historical_dataset(d, e, <<"demo">>, seed, length) = {DataOf(d, x, seed, length)}
    BY <1>0, <1>2, <2>3, NamedSource DEF DataOf
  <2> QED BY <2>1, <2>2, <2>4
<1>3. CASE x.id = SYNTHETIC_HISTORICAL_DATASET_ID
  <2>1. x.id \in SyntheticNames /\ x.id # None /\ x.id \notin DemoPanelNames \cup DemoMacroNames
    BY <1>3, DistinctNames, OwnDisjoint DEF SyntheticNames, OwnNames
  <2>2. resolve_dataset_source(d, e, x.id, x.version) = {<<"synthetic">>}
    BY <1>3, <2>1, DistinctNames DEF resolve_dataset_source, OwnNames
  <2>3. <<"synthetic">> \in SyntheticSources /\ <<"synthetic">> # None
    BY DistinctNames DEF SyntheticSources, SyntheticNames, OwnNames
  <2>4. \A seed, length : create_historical_dataset(d, e, <<"synthetic">>, seed, length) = {DataOf(d, x, seed, length)}
    BY <1>0, <1>3, <2>3, NamedSource DEF DataOf
  <2> QED BY <2>1, <2>2, <2>4
<1>4. CASE is_content_hash(x.version)
  <2> DEFINE path == versioned_csv_path(x.version)
  <2>1. x.id = WAVE_A_DATASET_ID /\ Frozen(d, x.version)
    BY <1>4 DEF Legible
  <2>2. path # None /\ x.version # None /\ path \in DOMAIN d.files
    BY <1>4, <2>1, FrozenFile DEF Frozen
  <2>3. resolve_public_history_csv(d, e, x.version) = {path}
    BY <1>4, <2>2 DEF resolve_public_history_csv
  <2>4. resolve_dataset_source(d, e, x.id, x.version) = {path}
    BY <2>1, <2>3, DistinctNames DEF resolve_dataset_source, OwnNames
  <2>5. path \notin OwnNames \cup {WAVE_A_DATASET_ID} /\ PathOf(path) = path
    BY FrozenPath
  <2>6. \A seed, length :
           create_historical_dataset(d, e, path, seed, length) =
              {Dataset("per_factor", WAVE_A_DATASET_ID, x.version, d.files[path].rows)}
    BY <1>4, <2>2, <2>5, NamedSource, FrozenFile
  <2>7. \A seed, length :
           DataOf(d, x, seed, length) = Dataset("per_factor", WAVE_A_DATASET_ID, x.version, d.files[path].rows)
    BY <2>1, DistinctNames DEF DataOf, OwnIds
  <2> QED BY <2>1, <2>4, <2>6, <2>7, DistinctNames
<1> QED BY <1>1, <1>2, <1>3, <1>4 DEF Pinned, OwnIds

\* So it names one data set's engines, whatever the environment.
LEMMA BuildOf ==
    ASSUME NEW dep \in Services, NEW d, NEW x, Pinned(x), Legible(dep, d, x), NEW e, NEW s, NEW o
    PROVE  build_historical_risk_engine(d, e, x.id, x.version, s, o) =
              Engines(DataOf(d, x, Or(s, DEFAULT_HISTORICAL_PANEL_SEED), Or(o, DefaultObservations)), s, o)
<1> DEFINE D == DataOf(d, x, Or(s, DEFAULT_HISTORICAL_PANEL_SEED), Or(o, DefaultObservations))
<1>1. x.id # None
  BY PinnedSource
<1>2. PICK source : /\ resolve_dataset_source(d, e, x.id, x.version) = {source}
                    /\ \A seed, length :
                          create_historical_dataset(d, e, source, seed, length) = {DataOf(d, x, seed, length)}
  BY PinnedSource
<1>3. create_historical_dataset(d, e, source, Or(s, DEFAULT_HISTORICAL_PANEL_SEED), Or(o, DefaultObservations)) = {D}
  BY <1>2
<1> HIDE DEF D
<1> QED BY <1>1, <1>2, <1>3 DEF build_historical_risk_engine, Engines

LEMMA DataKinds ==
    ASSUME NEW d, NEW x, NEW seed, NEW length
    PROVE  DataOf(d, x, seed, length).kind \in {"per_factor", "four_macro", "synthetic"}
  BY DEF DataOf, Dataset, load_demo_multi_factor_dataset, load_demo_historical_dataset, SyntheticHistoricalDataset

\* An engine of pinned data is what the name of its data and its numbers give.
LEMMA Rebuild ==
    ASSUME NEW dep \in Services, NEW d, FilesInv(dep, d), NEW e, NEW id, NEW version, NEW s, NEW o,
           NEW a \in build_historical_risk_engine(d, e, id, version, s, o), Pinned(a.dataset)
    PROVE  /\ Anchored(d, a.dataset)
           /\ \A f : build_historical_risk_engine(d, f, a.dataset.id, a.dataset.version, s, o) = {a}
<1> DEFINE x == a.dataset
           seed == Or(s, DEFAULT_HISTORICAL_PANEL_SEED)
           length == Or(o, DefaultObservations)
<1>1. a \in Engines(x, s, o) /\ \E source : x \in create_historical_dataset(d, e, source, seed, length)
  BY BuildsFrom
<1>2. Anchored(d, x) /\ x = DataOf(d, x, seed, length)
  BY <1>1, CreatedPinned
<1>3. \A f : build_historical_risk_engine(d, f, x.id, x.version, s, o) = Engines(x, s, o)
  BY <1>2, BuildOf, FilesLegible
<1>4. x.kind \in {"per_factor", "four_macro", "synthetic"}
  BY <1>2, DataKinds
<1>5. \A b \in Engines(x, s, o) : a = b
  BY <1>1, <1>4, EnginesUnique
<1> QED BY <1>1, <1>2, <1>3, <1>5

\* A panel has as many rows as it was given.
LEMMA PanelLength ==
    ASSUME NEW n \in Nat, NEW R, DOMAIN R = 1..n, R = [i \in DOMAIN R |-> R[i]], NEW p \in from_pairs(R)
    PROVE  Len(p) = n
<1>1. p = R
  BY DEF from_pairs
<1>2. R \in Seq(Range(R))
  BY DEF Range
<1> QED BY <1>1, <1>2

\* All the rows of a history are its length of them.
LEMMA WholeRows ==
    ASSUME NEW D, D.kind \in {"per_factor", "four_macro"}, D.rows \in Seq(Range(D.rows)), NEW s
    PROVE  /\ panel_from_dataset(D, None, Len(D.rows), s) = panel_from_dataset(D, None, None, s)
           /\ \A p \in panel_from_dataset(D, None, None, s) : Len(p) = Len(D.rows)
<1> DEFINE F == DEFAULT_PRODUCTION_PANEL_FACTORS
           Wide(rows) == [i \in DOMAIN rows |-> rows[i]]
           Flat1(rows) == [i \in DOMAIN rows |-> [j \in DOMAIN F |-> <<F[j], SeriesForFactor(rows[i], F[j])>>]]
           n == Len(D.rows)
<1>0. n \in Nat /\ None \notin Int /\ DOMAIN D.rows = 1..n
  BY NamesAssumption
<1>1. Truncated(D.rows, None) = {D.rows}
  BY DEF Truncated
<1>2. n # 0 => Truncated(D.rows, n) = {D.rows}
  <2> SUFFICES ASSUME n # 0 PROVE Truncated(D.rows, n) = {D.rows}
    OBVIOUS
  <2>1. SubSeq(D.rows, 1, n) = D.rows
    BY <1>0
  <2> QED BY <1>0, <2>1 DEF Truncated, truncate_factor_panel
<1>3. n = 0 => Truncated(D.rows, n) = {}
  BY <1>0 DEF Truncated, truncate_factor_panel
<1>4. from_pairs(<<>>) = {}
  BY DEF from_pairs
<1>5. CASE D.kind = "per_factor"
  <2>1. \A o : panel_from_dataset(D, None, o, s) = UNION {from_pairs(Wide(rows)) : rows \in Truncated(D.rows, o)}
    BY <1>5 DEF panel_from_dataset, panel_from_per_factor_dataset
  <2>2. n = 0 => Wide(D.rows) = <<>>
    BY <1>0
  <2>3. DOMAIN Wide(D.rows) = 1..n /\ Wide(D.rows) = [i \in DOMAIN Wide(D.rows) |-> Wide(D.rows)[i]]
    BY <1>0
  <2> HIDE DEF Wide
  <2>4. \A p \in from_pairs(Wide(D.rows)) : Len(p) = n
    BY <1>0, <2>3, PanelLength
  <2>5. panel_from_dataset(D, None, None, s) = from_pairs(Wide(D.rows))
    BY <1>1, <2>1
  <2>6. panel_from_dataset(D, None, n, s) = from_pairs(Wide(D.rows))
    <3>1. CASE n = 0
      <4>1. from_pairs(Wide(D.rows)) = {}
        BY <1>4, <2>2, <3>1
      <4>2. panel_from_dataset(D, None, n, s) = {}
        BY <1>3, <2>1, <3>1
      <4> QED BY <4>1, <4>2
    <3>2. CASE n # 0
      BY <1>2, <2>1, <3>2
    <3> QED BY <3>1, <3>2
  <2> QED BY <2>4, <2>5, <2>6
<1>6. CASE D.kind = "four_macro"
  <2>1. \A o : panel_from_dataset(D, None, o, s) = UNION {from_pairs(Flat1(rows)) : rows \in Truncated(D.rows, o)}
    BY <1>6 DEF panel_from_dataset, factor_panel_from_dataset, Or
  <2>2. n = 0 => Flat1(D.rows) = <<>>
    BY <1>0
  <2>3. DOMAIN Flat1(D.rows) = 1..n /\ Flat1(D.rows) = [i \in DOMAIN Flat1(D.rows) |-> Flat1(D.rows)[i]]
    BY <1>0
  <2> HIDE DEF Flat1
  <2>4. \A p \in from_pairs(Flat1(D.rows)) : Len(p) = n
    BY <1>0, <2>3, PanelLength
  <2>5. panel_from_dataset(D, None, None, s) = from_pairs(Flat1(D.rows))
    BY <1>1, <2>1
  <2>6. panel_from_dataset(D, None, n, s) = from_pairs(Flat1(D.rows))
    <3>1. CASE n = 0
      <4>1. from_pairs(Flat1(D.rows)) = {}
        BY <1>4, <2>2, <3>1
      <4>2. panel_from_dataset(D, None, n, s) = {}
        BY <1>3, <2>1, <3>1
      <4> QED BY <4>1, <4>2
    <3>2. CASE n # 0
      BY <1>2, <2>1, <3>2
    <3> QED BY <3>1, <3>2
  <2> QED BY <2>4, <2>5, <2>6
<1> QED BY <1>5, <1>6

LEMMA SyntheticLength ==
    ASSUME NEW seed, NEW length \in Nat, NEW o \in Lengths
    PROVE  LET D(n) == SyntheticHistoricalDataset(seed, n) IN
           /\ panel_from_dataset(D(length), None, Or(o, length), seed) = panel_from_dataset(D(length), None, o, seed)
           /\ \A p \in panel_from_dataset(D(length), None, o, seed) : Len(p) = Or(o, length)
<1> DEFINE F == DEFAULT_PRODUCTION_PANEL_FACTORS
           D == SyntheticHistoricalDataset(seed, length)
<1>0. None \notin Int
  BY NamesAssumption
<1>1. \A n : panel_from_dataset(D, None, n, seed) = create_synthetic_factor_panel(seed, Or(n, length), F)
  BY DEF panel_from_dataset, SyntheticHistoricalDataset, Or
<1>2. Or(Or(o, length), length) = Or(o, length) /\ Or(o, length) \in Nat
  BY <1>0 DEF Or, Lengths
<1> DEFINE R == [n \in 1..Or(o, length) |-> [j \in DOMAIN F |-> <<F[j], Draw(seed, j, n)>>]]
<1>3. DOMAIN R = 1..Or(o, length) /\ R = [n \in DOMAIN R |-> R[n]]
  BY <1>2
<1>4. create_synthetic_factor_panel(seed, Or(o, length), F) = from_pairs(R)
  BY DEF create_synthetic_factor_panel
<1> HIDE DEF R
<1>5. \A p \in create_synthetic_factor_panel(seed, Or(o, length), F) : Len(p) = Or(o, length)
  BY <1>2, <1>3, <1>4, PanelLength
<1> QED BY <1>1, <1>2, <1>5

\* A pinned history that is not drawn is a sequence of rows.
LEMMA StoredRows ==
    ASSUME NEW dep, NEW d, FilesInv(dep, d), NEW x, Pinned(x), Anchored(d, x), x.id # SYNTHETIC_HISTORICAL_DATASET_ID,
           NEW seed, NEW length
    PROVE  LET D == DataOf(d, x, seed, length) IN
           /\ D.kind \in {"per_factor", "four_macro"} /\ D.rows \in Seq(Range(D.rows))
           /\ \A t, n : DataOf(d, x, t, n) = D
<1> DEFINE D == DataOf(d, x, seed, length)
           path == versioned_csv_path(x.version)
<1>1. CASE x.id = DEMO_MULTI_FACTOR_DATASET_ID
  <2>1. x.id # DEMO_HISTORICAL_DATASET_ID
    BY <1>1 DEF DEMO_MULTI_FACTOR_DATASET_ID, DEMO_HISTORICAL_DATASET_ID
  <2>2. \A t, n : DataOf(d, x, t, n) = load_demo_multi_factor_dataset
    BY <1>1, <2>1 DEF DataOf
  <2> QED BY <2>2, HistoriesAssumption DEF load_demo_multi_factor_dataset, Dataset
<1>2. CASE x.id = DEMO_HISTORICAL_DATASET_ID
  <2>1. x.id # DEMO_MULTI_FACTOR_DATASET_ID
    BY <1>2 DEF DEMO_MULTI_FACTOR_DATASET_ID, DEMO_HISTORICAL_DATASET_ID
  <2>2. \A t, n : DataOf(d, x, t, n) = load_demo_historical_dataset
    BY <1>2, <2>1 DEF DataOf
  <2> QED BY <2>2, HistoriesAssumption DEF load_demo_historical_dataset, Dataset
<1>3. CASE x.id \notin OwnIds
  <2>1. is_content_hash(x.version) /\ Frozen(d, x.version)
    BY <1>3 DEF Pinned, Anchored
  <2>2. IsFrozenPath(path) /\ path \in DOMAIN d.files
    BY <2>1, FrozenPath DEF Frozen
  <2>3. d.files[path].rows \in Seq(Range(d.files[path].rows))
    BY <2>2 DEF FilesInv, FileOK
  <2>4. \A t, n : DataOf(d, x, t, n) = Dataset("per_factor", WAVE_A_DATASET_ID, x.version, d.files[path].rows)
    BY <1>3 DEF DataOf, OwnIds
  <2> QED BY <2>3, <2>4 DEF Dataset
<1> QED BY <1>1, <1>2, <1>3 DEF OwnIds

\* Asking for the seed and the length that the whole history has is asking for
\* nothing.
LEMMA Full ==
    ASSUME NEW dep \in Services, NEW d, FilesInv(dep, d), NEW x, Pinned(x), Anchored(d, x), NEW e,
           NEW s \in Seeds, NEW o \in Lengths,
           NEW whole \in build_historical_risk_engine(d, e, x.id, x.version, None, None)
    PROVE  /\ whole.seed \in Int /\ whole.observations \in Nat
           /\ build_historical_risk_engine(d, e, x.id, x.version, Or(s, whole.seed), Or(o, whole.observations))
                = build_historical_risk_engine(d, e, x.id, x.version, s, o)
<1> DEFINE seed == Or(s, DEFAULT_HISTORICAL_PANEL_SEED)
           length == Or(o, DefaultObservations)
           W == DataOf(d, x, DEFAULT_HISTORICAL_PANEL_SEED, DefaultObservations)
<1>0. /\ None \notin Int /\ DefaultObservations \in Nat /\ DEFAULT_HISTORICAL_PANEL_SEED \in Int
      /\ \A y : Or(None, y) = y
  BY NamesAssumption, HistoriesAssumption DEF DEFAULT_HISTORICAL_PANEL_SEED, Or
<1>1. whole \in Engines(W, None, None)
  BY <1>0, BuildOf, FilesLegible
<1>2. /\ whole.seed = DEFAULT_HISTORICAL_PANEL_SEED /\ whole.observations = Len(whole.panel)
      /\ whole.panel \in panel_from_dataset(W, None, None, DEFAULT_HISTORICAL_PANEL_SEED)
  BY <1>0, <1>1 DEF Engines, HistoricalRiskEngine
<1>3. Or(s, whole.seed) = seed /\ Or(seed, DEFAULT_HISTORICAL_PANEL_SEED) = seed /\ seed \in Int
  BY <1>0, <1>2 DEF Or, Seeds
<1> DEFINE asked == Or(o, whole.observations)
           D == DataOf(d, x, seed, length)
           E == DataOf(d, x, seed, Or(asked, DefaultObservations))
<1>4. /\ build_historical_risk_engine(d, e, x.id, x.version, Or(s, whole.seed), Or(o, whole.observations))
           = Engines(E, seed, asked)
      /\ build_historical_risk_engine(d, e, x.id, x.version, s, o) = Engines(D, s, o)
  BY <1>3, BuildOf, FilesLegible
<1>5. CASE x.id = SYNTHETIC_HISTORICAL_DATASET_ID
  <2>1. \A t, n : DataOf(d, x, t, n) = SyntheticHistoricalDataset(t, n)
    BY <1>5 DEF DataOf, DEMO_MULTI_FACTOR_DATASET_ID, DEMO_HISTORICAL_DATASET_ID, SYNTHETIC_HISTORICAL_DATASET_ID
  <2>2. whole.observations = DefaultObservations
    <3>1. W = SyntheticHistoricalDataset(DEFAULT_HISTORICAL_PANEL_SEED, DefaultObservations)
      BY <2>1
    <3>2. None \in Lengths /\ Or(None, DefaultObservations) = DefaultObservations
      BY <1>0 DEF Lengths
    <3> QED BY <1>0, <1>2, <3>1, <3>2, SyntheticLength
  <2>3. asked = length /\ Or(asked, DefaultObservations) = length /\ length \in Nat
    BY <1>0, <2>2 DEF Or, Lengths
  <2>4. D = SyntheticHistoricalDataset(seed, length) /\ E = D
    BY <2>1, <2>3
  <2>5. panel_from_dataset(D, None, asked, seed) = panel_from_dataset(D, None, o, seed)
    <3>1. CASE o = None
      BY <1>0, <2>3, <2>4, <3>1, SyntheticLength DEF Lengths
    <3>2. CASE o # None
      BY <2>3, <3>2 DEF Or
    <3> QED BY <3>1, <3>2
  <2> HIDE DEF D, E, asked, length
  <2>6. Engines(E, seed, asked) = Engines(D, s, o)
    BY <1>3, <2>4, <2>5 DEF Engines
  <2> QED BY <1>0, <1>2, <1>4, <2>2, <2>6
<1>6. CASE x.id # SYNTHETIC_HISTORICAL_DATASET_ID
  <2>1. /\ D.kind \in {"per_factor", "four_macro"} /\ D.rows \in Seq(Range(D.rows))
        /\ E = D /\ W = D
    BY <1>6, StoredRows
  <2> HIDE DEF D, E, W
  <2>2. whole.observations = Len(D.rows) /\ Len(D.rows) \in Nat
    BY <1>2, <2>1, WholeRows
  <2>3. panel_from_dataset(D, None, asked, seed) = panel_from_dataset(D, None, o, seed)
    <3>1. CASE o = None
      BY <1>0, <2>1, <2>2, <3>1, WholeRows
    <3>2. CASE o # None
      BY <3>2 DEF Or
    <3> QED BY <3>1, <3>2
  <2> HIDE DEF asked
  <2>4. Engines(E, seed, asked) = Engines(D, s, o)
    BY <1>3, <2>1, <2>3 DEF Engines
  <2> QED BY <1>0, <1>2, <1>4, <2>2, <2>4
<1> QED BY <1>5, <1>6

-----------------------------------------------------------------------------
(* What a disk keeps.                                                         *)

\* Nothing frozen is lost or changed.
Preserves(d, d2) ==
    \A p \in DOMAIN d.files :
        /\ p \in DOMAIN d2.files
        /\ IsFrozenPath(p) =>
              /\ d2.files[p].rows = d.files[p].rows
              /\ d.files[p].sidecar # None => d2.files[p].sidecar = d.files[p].sidecar

LEMMA FrozenKept ==
    ASSUME NEW dep \in Services, NEW d, FilesInv(dep, d), NEW d2, Preserves(d, d2),
           NEW version, Frozen(d, version)
    PROVE  /\ Frozen(d2, version)
           /\ d2.files[versioned_csv_path(version)].rows = d.files[versioned_csv_path(version)].rows
<1> DEFINE path == versioned_csv_path(version)
<1>1. path \in DOMAIN d.files /\ d.files[path].sidecar = FrozenIdentity(version)
  BY DEF Frozen
<1>2. IsFrozenPath(path) /\ Stem(path) = version
  BY FrozenPath
<1>3. FrozenIdentity(version) # None
  BY <1>1, <1>2, FilesAssumption DEF FilesInv
<1> QED BY <1>1, <1>2, <1>3 DEF Preserves, Frozen

\* A pinned identity builds the same engines on it.
LEMMA BuildKept ==
    ASSUME NEW dep \in Services, NEW d, FilesInv(dep, d), NEW d2, FilesInv(dep, d2), Preserves(d, d2),
           NEW x, Pinned(x), Anchored(d, x), NEW e, NEW s, NEW o
    PROVE  /\ Anchored(d2, x)
           /\ build_historical_risk_engine(d2, e, x.id, x.version, s, o) =
                 build_historical_risk_engine(d, e, x.id, x.version, s, o)
<1>1. Anchored(d2, x)
  BY FrozenKept DEF Anchored
<1>2. \A seed, length : DataOf(d2, x, seed, length) = DataOf(d, x, seed, length)
  <2>1. CASE x.id \in OwnIds
    BY <2>1 DEF DataOf, OwnIds, DEMO_MULTI_FACTOR_DATASET_ID, DEMO_HISTORICAL_DATASET_ID,
                SYNTHETIC_HISTORICAL_DATASET_ID
  <2>2. CASE x.id \notin OwnIds
    <3>1. is_content_hash(x.version) /\ Frozen(d, x.version)
      BY <2>2 DEF Pinned, Anchored
    <3>2. d2.files[versioned_csv_path(x.version)].rows = d.files[versioned_csv_path(x.version)].rows
      BY <3>1, FrozenKept
    <3> QED BY <2>2, <3>2 DEF DataOf, OwnIds
  <2> QED BY <2>1, <2>2
<1> QED BY <1>1, <1>2, BuildOf, FilesLegible

LEMMA EngineKept ==
    ASSUME NEW dep \in Services, NEW d, FilesInv(dep, d), NEW d2, FilesInv(dep, d2), Preserves(d, d2),
           NEW e, EngineInv(dep, d, e)
    PROVE  EngineInv(dep, d2, e)
<1> DEFINE x == e.dataset
<1>1. ASSUME Pinned(x)
      PROVE  Anchored(d2, x) /\ build_historical_risk_engine(d2, dep.env, x.id, x.version, None, None) = {e}
  BY <1>1, BuildKept DEF EngineInv
<1>2. ASSUME ~Pinned(x), x.id # WAVE_A_DATASET_ID
      PROVE  \E path \in DOMAIN d2.files :
                x.id = file_csv_dataset_id(path) /\ (IsFrozenPath(path) => ReadsAll(e, d2.files[path]))
  BY <1>2 DEF EngineInv, Preserves, ReadsAll
<1> QED BY <1>1, <1>2 DEF EngineInv

LEMMA RunKept ==
    ASSUME NEW dep \in Services, NEW d, FilesInv(dep, d), NEW d2, FilesInv(dep, d2), Preserves(d, d2),
           NEW st, NEW st2, \A id \in DOMAIN st : id \in DOMAIN st2 /\ st2[id] = st[id],
           NEW run, NEW mine, RunInv(dep, d, st, run, mine)
    PROVE  RunInv(dep, d2, st2, run, mine)
<1>1. Executes(dep, st, run, mine) => Executes(dep, st2, run, mine)
  BY DEF Executes
<1>2. Pinned(run) => Reproduces(dep, d2, run)
  BY BuildKept DEF RunInv, Reproduces
<1> QED BY <1>1, <1>2 DEF RunInv

-----------------------------------------------------------------------------
(* Mended disks.                                                              *)

\* A mended file differs in its sidecar alone, if that was torn.
LEMMA MendedFields ==
    ASSUME NEW path, NEW file, DOMAIN file = {"kind", "rows", "sidecar"}
    PROVE  LET mended == MendedFile(path, file) IN
           /\ DOMAIN mended = {"kind", "rows", "sidecar"}
           /\ mended.kind = file.kind /\ mended.rows = file.rows
           /\ mended.sidecar = IF file.sidecar = Torn THEN FrozenIdentity(Stem(path)) ELSE file.sidecar
           /\ file.sidecar # Torn => mended = file
  BY DEF MendedFile

\* So has a mended disk the files of the disk.
LEMMA MendedDisk ==
    ASSUME NEW dep, NEW d, FilesInv(dep, Mended(d))
    PROVE  /\ DOMAIN Mended(d).files = DOMAIN d.files /\ Mended(d).order = d.order
           /\ \A p \in DOMAIN d.files :
                 /\ Mended(d).files[p] = MendedFile(p, d.files[p])
                 /\ DOMAIN d.files[p] = {"kind", "rows", "sidecar"}
<1>1. /\ DOMAIN Mended(d).files = DOMAIN d.files /\ Mended(d).order = d.order
      /\ \A p \in DOMAIN d.files : Mended(d).files[p] = MendedFile(p, d.files[p])
  BY DEF Mended
<1>2. ASSUME NEW p \in DOMAIN d.files PROVE DOMAIN d.files[p] = {"kind", "rows", "sidecar"}
  <2>1. DOMAIN MendedFile(p, d.files[p]) = {"kind", "rows", "sidecar"}
    <3>1. FileOK(p, Mended(d).files[p])
      BY <1>1 DEF FilesInv
    <3> QED BY <1>1, <3>1 DEF FileOK
  <2>2. CASE d.files[p].sidecar = Torn
    <3>1. MendedFile(p, d.files[p]) = [d.files[p] EXCEPT !.sidecar = FrozenIdentity(Stem(p))]
      BY <2>2 DEF MendedFile
    <3> QED BY <2>1, <3>1
  <2>3. CASE d.files[p].sidecar # Torn
    BY <2>1, <2>3 DEF MendedFile
  <2> QED BY <2>2, <2>3
<1> QED BY <1>1, <1>2

\* A disk gives what it would give mended, or nothing.
LEMMA LoadsMended ==
    ASSUME NEW dep, NEW d, FilesInv(dep, Mended(d)), NEW p
    PROVE  /\ p \in DOMAIN d.files =>
                 \A id : load_per_factor_csv_dataset(d, p, id) \subseteq load_per_factor_csv_dataset(Mended(d), p, id)
           /\ load_csv_historical_dataset(d, p) \subseteq load_csv_historical_dataset(Mended(d), p)
<1> DEFINE m == Mended(d)
<1>1. DOMAIN m.files = DOMAIN d.files
  BY MendedDisk
<1>2. ASSUME p \in DOMAIN d.files
      PROVE  /\ m.files[p].kind = d.files[p].kind /\ m.files[p].rows = d.files[p].rows
             /\ d.files[p].sidecar # Torn => m.files[p] = d.files[p]
  <2>1. m.files[p] = MendedFile(p, d.files[p]) /\ DOMAIN d.files[p] = {"kind", "rows", "sidecar"}
    BY <1>2, MendedDisk
  <2> HIDE DEF m
  <2> QED BY <2>1, MendedFields
<1> HIDE DEF m
<1>3. ASSUME p \in DOMAIN d.files, NEW id
      PROVE  load_per_factor_csv_dataset(d, p, id) \subseteq load_per_factor_csv_dataset(m, p, id)
  BY <1>2, <1>3 DEF load_per_factor_csv_dataset
<1>4. load_csv_historical_dataset(d, p) \subseteq load_csv_historical_dataset(m, p)
  BY <1>1, <1>2, <1>3 DEF load_csv_historical_dataset
<1> QED BY <1>3, <1>4 DEF m

LEMMA BuildsMended ==
    ASSUME NEW dep, NEW d, FilesInv(dep, Mended(d)), NEW e, NEW id, NEW version, NEW s, NEW o
    PROVE  build_historical_risk_engine(d, e, id, version, s, o)
              \subseteq build_historical_risk_engine(Mended(d), e, id, version, s, o)
<1> DEFINE m == Mended(d)
           seed == Or(s, DEFAULT_HISTORICAL_PANEL_SEED)
           length == Or(o, DefaultObservations)
<1>1. DOMAIN m.files = DOMAIN d.files /\ m.order = d.order
  BY MendedDisk
<1>2. \A v : resolve_public_history_csv(d, e, v) = resolve_public_history_csv(m, e, v)
  <2> HIDE DEF m
  <2> QED BY <1>1 DEF resolve_public_history_csv
<1>3. resolve_dataset_source(d, e, id, version) = resolve_dataset_source(m, e, id, version)
  <2> HIDE DEF m
  <2> QED BY <1>1, <1>2 DEF resolve_dataset_source
<1>4. ASSUME NEW source
      PROVE  create_historical_dataset(d, e, source, seed, length)
                \subseteq create_historical_dataset(m, e, source, seed, length)
  <2> DEFINE key == apply_quantlineage_data_mode(e, source)
             newest(x) == UNION {load_per_factor_csv_dataset(x, path, WAVE_A_DATASET_ID) :
                                    path \in resolve_public_history_csv(x, e, None)}
  <2>1. \A path \in resolve_public_history_csv(m, e, None) : path \in DOMAIN d.files
    BY <1>1, NewestExists
  <2>2. newest(d) \subseteq newest(m)
    BY <1>2, <2>1, LoadsMended
  <2>3. load_csv_historical_dataset(d, PathOf(key)) \subseteq load_csv_historical_dataset(m, PathOf(key))
    BY LoadsMended
  <2> HIDE DEF m, seed, length
  <2>4. CASE key \in SourceNames
    BY <2>4, DistinctNames, OwnDisjoint DEF create_historical_dataset, SourceNames, OwnNames, SyntheticNames
  <2>5. CASE key = WAVE_A_DATASET_ID
    BY <2>2, <2>5, DistinctNames DEF create_historical_dataset, OwnNames, SyntheticNames
  <2>6. CASE key \notin SourceNames \cup {WAVE_A_DATASET_ID}
    BY <2>3, <2>6 DEF create_historical_dataset, SourceNames
  <2> QED BY <2>4, <2>5, <2>6
<1> DEFINE sources == IF id = None THEN {None} ELSE resolve_dataset_source(m, e, id, version)
           data(x) == UNION {create_historical_dataset(x, e, source, seed, length) : source \in sources}
<1>5. data(d) \subseteq data(m)
  BY <1>4
<1>6. /\ build_historical_risk_engine(d, e, id, version, s, o) = UNION {Engines(x, s, o) : x \in data(d)}
      /\ build_historical_risk_engine(m, e, id, version, s, o) = UNION {Engines(x, s, o) : x \in data(m)}
  <2> HIDE DEF m
  <2> QED BY <1>3 DEF build_historical_risk_engine, Engines
<1> HIDE DEF data
<1> QED BY <1>5, <1>6

LEMMA SpecsMended ==
    ASSUME NEW dep, NEW d, FilesInv(dep, Mended(d)), NEW e, NEW b, NEW x
    PROVE  /\ resolve_run_spec(d, e, x, b) \subseteq resolve_run_spec(Mended(d), e, x, b)
           /\ resolve_execute_spec(d, e, x, b) \subseteq resolve_execute_spec(Mended(d), e, x, b)
<1>1. ASSUME NEW y PROVE resolve_run_spec(d, e, y, b) \subseteq resolve_run_spec(Mended(d), e, y, b)
  <2> DEFINE seed == ConfigOf(y).seed
             length == ConfigOf(y).observations
             own == y.id = None /\ b # None
             wanted == IF own THEN <<b.dataset.id, b.dataset.version, Or(seed, b.seed), Or(length, b.observations)>>
                       ELSE <<y.id, IF y.id = None THEN None ELSE y.version, seed, length>>
             selected(z) == IF own /\ seed = None /\ length = None THEN {b}
                            ELSE build_historical_risk_engine(z, e, wanted[1], wanted[2], wanted[3], wanted[4])
  <2>1. selected(d) \subseteq selected(Mended(d))
    <3> HIDE DEF own, wanted, seed, length
    <3> QED BY BuildsMended
  <2>2. \A z : resolve_run_spec(z, e, y, b) =
                 {[id |-> f.dataset.id, version |-> f.dataset.version, engine |-> f,
                   config |-> Or(y.config, Config(f.seed, f.observations))] :
                  f \in {g \in selected(z) : y.version \in {None, g.dataset.version}}}
    BY DEF resolve_run_spec
  <2> HIDE DEF selected
  <2> QED BY <2>1, <2>2
<1> QED BY <1>1 DEF resolve_execute_spec

\* A pinned identity whose sidecar is whole gives all of it.
LEMMA ReadableAsMended ==
    ASSUME NEW dep \in Services, NEW d, FilesInv(dep, Mended(d)),
           NEW x, Pinned(x), Anchored(Mended(d), x), ~SidecarTorn(d, x.version), NEW e, NEW s, NEW o
    PROVE  build_historical_risk_engine(d, e, x.id, x.version, s, o) =
              build_historical_risk_engine(Mended(d), e, x.id, x.version, s, o)
<1> DEFINE m == Mended(d)
           path == versioned_csv_path(x.version)
<1>1. Legible(dep, m, x)
  BY FilesLegible
<1>2. ASSUME is_content_hash(x.version)
      PROVE  /\ path \in DOMAIN d.files /\ d.files[path] = m.files[path]
             /\ x.id = WAVE_A_DATASET_ID /\ x.version \in FrozenVersions(dep)
             /\ m.files[path].sidecar = FrozenIdentity(x.version) /\ m.files[path].kind = "per_factor"
  <2>1. /\ path \in DOMAIN m.files /\ m.files[path].sidecar = FrozenIdentity(x.version)
        /\ m.files[path].kind = "per_factor" /\ x.id = WAVE_A_DATASET_ID /\ x.version \in FrozenVersions(dep)
    BY <1>1, <1>2 DEF Legible, Frozen
  <2>2. path \in DOMAIN d.files /\ d.files[path].sidecar # Torn
    BY <1>2, <2>1, MendedDisk DEF SidecarTorn
  <2>3. m.files[path] = MendedFile(path, d.files[path])
    BY <2>2, MendedDisk
  <2>4. d.files[path] = m.files[path]
    <3> HIDE DEF m, path
    <3> QED BY <2>2, <2>3 DEF MendedFile
  <2> QED BY <2>1, <2>2, <2>4
<1> HIDE DEF m
<1>3. Legible(dep, d, x)
  BY <1>2 DEF Legible, Frozen
<1>4. \A t, n : DataOf(d, x, t, n) = DataOf(m, x, t, n)
  <2>1. CASE x.id \in OwnIds
    BY <2>1 DEF DataOf, OwnIds, DEMO_MULTI_FACTOR_DATASET_ID, DEMO_HISTORICAL_DATASET_ID,
                SYNTHETIC_HISTORICAL_DATASET_ID
  <2>2. CASE x.id \notin OwnIds
    BY <1>2, <2>2 DEF DataOf, OwnIds, Pinned
  <2> QED BY <2>1, <2>2
<1> QED BY <1>1, <1>3, <1>4, BuildOf DEF m

-----------------------------------------------------------------------------
(* Where an engine comes from.                                                *)

\* Data without a pinned name is the newest file's or one file's.
LEMMA CreatedUnpinned ==
    ASSUME NEW dep, NEW d, FilesInv(dep, d), NEW e, NEW source, NEW seed, NEW length,
           NEW x \in create_historical_dataset(d, e, source, seed, length), ~Pinned(x)
    PROVE  /\ x.version = DEFAULT_VERSION
           /\ \/ x.id = WAVE_A_DATASET_ID
              \/ \E path \in DOMAIN d.files :
                    /\ x.id = file_csv_dataset_id(path)
                    /\ IsFrozenPath(path) => x.kind = "per_factor" /\ x.rows = d.files[path].rows
<1> DEFINE key == apply_quantlineage_data_mode(e, source)
<1>1. CASE key \in SourceNames
  <2>1. \A y \in {load_demo_multi_factor_dataset, load_demo_historical_dataset,
                  SyntheticHistoricalDataset(seed, length)} : y.id \in OwnIds
    BY DEF OwnIds, load_demo_multi_factor_dataset, load_demo_historical_dataset, SyntheticHistoricalDataset, Dataset
  <2>2. CASE key \in DemoPanelNames
    <3>1. x = load_demo_multi_factor_dataset
      BY <2>2, OwnDisjoint, DistinctNames DEF create_historical_dataset, OwnNames, SyntheticNames
    <3> QED BY <2>1, <3>1 DEF Pinned
  <2>3. CASE key \in DemoMacroNames
    <3>1. x = load_demo_historical_dataset
      BY <2>3, OwnDisjoint, DistinctNames DEF create_historical_dataset, OwnNames, SyntheticNames
    <3> QED BY <2>1, <3>1 DEF Pinned
  <2>4. CASE key \in SyntheticSources
    <3>1. x = SyntheticHistoricalDataset(seed, length)
      BY <2>4, OwnDisjoint, DistinctNames DEF create_historical_dataset, OwnNames, SyntheticNames
    <3> QED BY <2>1, <3>1 DEF Pinned
  <2> QED BY <1>1, <2>2, <2>3, <2>4 DEF SourceNames
<1>2. CASE key = WAVE_A_DATASET_ID
  <2>1. PICK p \in resolve_public_history_csv(d, e, None) : x \in load_per_factor_csv_dataset(d, p, WAVE_A_DATASET_ID)
    BY <1>2, DistinctNames DEF create_historical_dataset, OwnNames
  <2>2. p \in DOMAIN d.files
    BY <2>1, NewestExists
  <2>3. x.id = WAVE_A_DATASET_ID
    BY <2>1, DistinctNames DEF load_per_factor_csv_dataset, Or, Dataset
  <2>4. d.files[p].sidecar = None
    <3> SUFFICES ASSUME d.files[p].sidecar # None PROVE FALSE
      OBVIOUS
    <3>1. d.files[p].sidecar = FrozenIdentity(Stem(p)) /\ is_content_hash(Stem(p))
      BY <2>2 DEF FilesInv, FileOK
    <3>2. x.version = Stem(p)
      BY <2>1, <3>1 DEF load_per_factor_csv_dataset, Or, Dataset, FrozenIdentity
    <3> QED BY <3>1, <3>2 DEF Pinned
  <2>5. x.version = DEFAULT_VERSION
    BY <2>1, <2>4 DEF load_per_factor_csv_dataset, Or, Dataset
  <2> QED BY <2>3, <2>5
<1>3. CASE key \notin SourceNames \cup {WAVE_A_DATASET_ID}
  <2> DEFINE path == PathOf(key)
             file == d.files[path]
  <2>1. x \in load_csv_historical_dataset(d, path)
    BY <1>3 DEF create_historical_dataset, SourceNames
  <2>2. path \in DOMAIN d.files /\ FileOK(path, file)
    BY <2>1 DEF load_csv_historical_dataset, FilesInv
  <2>3. CASE file.kind = "per_factor"
    <3>1. x \in load_per_factor_csv_dataset(d, path, None)
      BY <2>1, <2>2, <2>3 DEF load_csv_historical_dataset
    <3>2. file.sidecar = None
      <4> SUFFICES ASSUME file.sidecar # None PROVE FALSE
        OBVIOUS
      <4>1. file.sidecar = FrozenIdentity(Stem(path)) /\ is_content_hash(Stem(path))
        BY <2>2 DEF FileOK
      <4>2. x.version = Stem(path)
        BY <3>1, <4>1 DEF load_per_factor_csv_dataset, Or, Dataset, FrozenIdentity
      <4> QED BY <4>1, <4>2 DEF Pinned
    <3>3. x = Dataset("per_factor", file_csv_dataset_id(path), DEFAULT_VERSION, file.rows)
      BY <3>1, <3>2 DEF load_per_factor_csv_dataset, Or
    <3> QED BY <2>2, <3>3 DEF Dataset
  <2>4. CASE file.kind # "per_factor"
    <3>1. x = Dataset("four_macro", file_csv_dataset_id(path), DEFAULT_VERSION, file.rows)
      BY <2>1, <2>2, <2>4 DEF load_csv_historical_dataset
    <3>2. ~IsFrozenPath(path)
      BY <2>2, <2>4 DEF FileOK
    <3> QED BY <2>2, <3>1, <3>2 DEF Dataset
  <2> QED BY <2>3, <2>4
<1> QED BY <1>1, <1>2, <1>3

\* A process starts with an engine whose name says what it is of.
LEMMA StartedInv ==
    ASSUME NEW dep \in Services, NEW files, FilesInv(dep, Mended(files)), Started(dep, files) # None
    PROVE  EngineInv(dep, Mended(files), Started(dep, files))
<1> DEFINE d == Mended(files)
           a == Started(dep, files)
           x == a.dataset
<1>0. a \in build_historical_risk_engine(files, dep.env, None, None, None, None)
  BY DEF Started
<1>1. a \in build_historical_risk_engine(d, dep.env, None, None, None, None)
  BY <1>0, BuildsMended
<1> HIDE DEF a, d
<1>3. FilesInv(dep, d)
  BY DEF d
<1>2. Pinned(x) =>
         Anchored(d, x) /\ build_historical_risk_engine(d, dep.env, x.id, x.version, None, None) = {a}
  BY <1>1, <1>3, Rebuild
<1>4. ASSUME ~Pinned(x)
      PROVE  /\ x.version = DEFAULT_VERSION
             /\ \/ x.id = WAVE_A_DATASET_ID
                \/ \E path \in DOMAIN d.files :
                      x.id = file_csv_dataset_id(path) /\ (IsFrozenPath(path) => ReadsAll(a, d.files[path]))
  <2>1. a \in Engines(x, None, None)
        /\ \E source : x \in create_historical_dataset(d, dep.env, source, Or(None, DEFAULT_HISTORICAL_PANEL_SEED),
                                                       Or(None, DefaultObservations))
    BY <1>1, BuildsFrom
  <2>2. /\ x.version = DEFAULT_VERSION
        /\ \/ x.id = WAVE_A_DATASET_ID
           \/ \E path \in DOMAIN d.files :
                 /\ x.id = file_csv_dataset_id(path)
                 /\ IsFrozenPath(path) => x.kind = "per_factor" /\ x.rows = d.files[path].rows
    BY <1>3, <1>4, <2>1, CreatedUnpinned
  <2>3. \A path \in DOMAIN d.files :
           (IsFrozenPath(path) /\ x.kind = "per_factor" /\ x.rows = d.files[path].rows)
              => ReadsAll(a, d.files[path])
    <3> SUFFICES ASSUME NEW path \in DOMAIN d.files, IsFrozenPath(path), x.kind = "per_factor",
                        x.rows = d.files[path].rows
                 PROVE  ReadsAll(a, d.files[path])
      OBVIOUS
    <3>1. x.rows \in Seq(Range(x.rows))
      BY <1>3 DEF FilesInv, FileOK
    <3>2. Or(None, DEFAULT_HISTORICAL_PANEL_SEED) = DEFAULT_HISTORICAL_PANEL_SEED
      BY DEF Or
    <3>3. /\ a.seed = DEFAULT_HISTORICAL_PANEL_SEED /\ a.observations = Len(a.panel)
          /\ a.panel \in panel_from_dataset(x, None, None, DEFAULT_HISTORICAL_PANEL_SEED)
      BY <2>1, <3>2 DEF Engines, HistoricalRiskEngine
    <3>4. Len(a.panel) = Len(x.rows)
      BY <3>1, <3>3, WholeRows
    <3> QED BY <3>3, <3>4 DEF ReadsAll
  <2> QED BY <2>2, <2>3
<1> QED BY <1>2, <1>4 DEF EngineInv, a, d

-----------------------------------------------------------------------------
(* A header names its engine.                                                 *)

\* An engine that is read again by the path of its file, and is pinned by then,
\* is what its new name gives.
LEMMA ReadAgain ==
    ASSUME NEW dep \in Services, NEW d, FilesInv(dep, d), NEW b, NEW path \in DOMAIN d.files,
           IsFrozenPath(path) => ReadsAll(b, d.files[path]),
           NEW e, NEW version, NEW s \in Seeds, NEW o \in Lengths,
           NEW a \in build_historical_risk_engine(d, e, file_csv_dataset_id(path), version,
                                                 Or(s, b.seed), Or(o, b.observations)),
           Pinned(a.dataset)
    PROVE  /\ Anchored(d, a.dataset)
           /\ \A f : build_historical_risk_engine(d, f, a.dataset.id, a.dataset.version, s, o) = {a}
<1> DEFINE id == file_csv_dataset_id(path)
           file == d.files[path]
           x == a.dataset
           seed == Or(Or(s, b.seed), DEFAULT_HISTORICAL_PANEL_SEED)
           length == Or(Or(o, b.observations), DefaultObservations)
<1>1. FileOK(path, file)
  BY DEF FilesInv
<1>2. id # None /\ id \notin OwnNames \cup {WAVE_A_DATASET_ID} /\ PathOf(id) = path
  <2>1. id # None
    BY <1>1 DEF FileOK
  <2>2. id \notin OwnNames \cup {WAVE_A_DATASET_ID} /\ PathOf(id) = path
    BY DEF file_csv_dataset_id, OwnNames, DemoPanelNames, DemoMacroNames, SyntheticNames, SyntheticSources, PathOf,
           WAVE_A_DATASET_ID, DEMO_MULTI_FACTOR_DATASET_ID, DEMO_HISTORICAL_DATASET_ID,
           SYNTHETIC_HISTORICAL_DATASET_ID
  <2> QED BY <2>1, <2>2
<1>3. resolve_dataset_source(d, e, id, version) = {path}
  BY <1>2 DEF resolve_dataset_source, OwnNames
<1>4. /\ a \in Engines(x, Or(s, b.seed), Or(o, b.observations))
      /\ x \in create_historical_dataset(d, e, path, seed, length)
  BY <1>2, <1>3, BuildsFrom
<1>5. x \in load_csv_historical_dataset(d, path)
  <2>1. path # None /\ path \notin OwnNames \cup {WAVE_A_DATASET_ID} /\ PathOf(path) = path
    BY <1>1 DEF FileOK
  <2> QED BY <1>4, <2>1, NamedSource
<1>6. file.kind = "per_factor" /\ x \in load_per_factor_csv_dataset(d, path, None)
  <2>1. CASE file.kind = "per_factor"
    BY <1>5, <2>1 DEF load_csv_historical_dataset
  <2>2. CASE file.kind # "per_factor"
    <3>1. x = Dataset("four_macro", id, DEFAULT_VERSION, file.rows)
      BY <1>5, <2>2 DEF load_csv_historical_dataset
    <3>2. x.id = id /\ x.version = DEFAULT_VERSION
      BY <3>1 DEF Dataset
    <3> QED BY <3>2, DistinctNames DEF Pinned
  <2> QED BY <2>1, <2>2
<1>7. file.sidecar # None
  <2> SUFFICES ASSUME file.sidecar = None PROVE FALSE
    OBVIOUS
  <2>1. x.id = id /\ x.version = DEFAULT_VERSION
    BY <1>6 DEF load_per_factor_csv_dataset, Or, Dataset
  <2> QED BY <2>1, DistinctNames DEF Pinned
<1>8. IsFrozenPath(path) /\ ReadsAll(b, file) /\ file.rows \in Seq(Range(file.rows))
  BY <1>1, <1>7 DEF FileOK
<1>9. x.rows = file.rows /\ x.kind = "per_factor" /\ x.id = WAVE_A_DATASET_ID
  <2>1. x.rows = file.rows /\ x.kind = "per_factor"
    BY <1>6 DEF load_per_factor_csv_dataset, Dataset
  <2>2. x.id = WAVE_A_DATASET_ID
    BY <1>1, <1>6, <1>7 DEF FileOK, load_per_factor_csv_dataset, Or, Dataset, FrozenIdentity
  <2> QED BY <2>1, <2>2
<1>10. Anchored(d, x) /\ x = DataOf(d, x, seed, length)
  BY <1>4, CreatedPinned
<1>11. \A t, n : DataOf(d, x, t, n) = x
  <2>1. x.id # SYNTHETIC_HISTORICAL_DATASET_ID
    BY <1>9 DEF WAVE_A_DATASET_ID, SYNTHETIC_HISTORICAL_DATASET_ID
  <2> QED BY <1>10, <2>1, StoredRows
<1>12. a \in Engines(x, s, o)
  <2>0. None \notin Int /\ DEFAULT_HISTORICAL_PANEL_SEED \in Int
    BY NamesAssumption DEF DEFAULT_HISTORICAL_PANEL_SEED
  <2>1. b.seed = DEFAULT_HISTORICAL_PANEL_SEED /\ b.observations = Len(x.rows)
    BY <1>8, <1>9 DEF ReadsAll
  <2>2. Or(Or(s, b.seed), DEFAULT_HISTORICAL_PANEL_SEED) = Or(s, DEFAULT_HISTORICAL_PANEL_SEED)
    BY <2>0, <2>1 DEF Or, Seeds
  <2>3. panel_from_dataset(x, None, Or(o, b.observations), Or(s, DEFAULT_HISTORICAL_PANEL_SEED))
           = panel_from_dataset(x, None, o, Or(s, DEFAULT_HISTORICAL_PANEL_SEED))
    <3>1. CASE o = None
      <4>1. Or(o, b.observations) = Len(x.rows)
        BY <2>1, <3>1 DEF Or
      <4> QED BY <1>8, <1>9, <3>1, <4>1, WholeRows
    <3>2. CASE o # None
      BY <3>2 DEF Or
    <3> QED BY <3>1, <3>2
  <2> QED BY <1>4, <2>2, <2>3 DEF Engines
<1>13. \A f : build_historical_risk_engine(d, f, x.id, x.version, s, o) = Engines(x, s, o)
  BY <1>10, <1>11, BuildOf, FilesLegible
<1>14. \A c \in Engines(x, s, o) : c = a
  BY <1>9, <1>12, EnginesUnique
<1> QED BY <1>10, <1>12, <1>13, <1>14

\* What a request resolves to, kept as its identity and its numbers, builds the
\* engine again.
LEMMA Submitted ==
    ASSUME NEW dep \in Services, NEW d, FilesInv(dep, d), NEW b, b # None, EngineInv(dep, d, b),
           NEW request, request.config \in Configs \cup {None},
           NEW spec \in resolve_run_spec(d, dep.env, request, b), Pinned(spec)
    PROVE  /\ Anchored(d, spec) /\ spec.config \in Configs
           /\ dataset_identity(spec.engine.dataset) = <<spec.id, spec.version>>
           /\ build_historical_risk_engine(d, dep.env, spec.id, spec.version, spec.config.seed,
                                           spec.config.observations) = {spec.engine}
<1> DEFINE s == ConfigOf(request).seed
           o == ConfigOf(request).observations
           y == b.dataset
           e == spec.engine
           x == e.dataset
           config == Or(request.config, Config(e.seed, e.observations))
<1>0. None \notin Configs /\ None \notin Int
  BY ConfigAssumption, NamesAssumption
<1>1. ConfigOf(request) \in Configs /\ s \in Seeds /\ o \in Lengths
  <2>1. Config(None, None) \in Configs
    BY DEF Config, Configs
  <2> QED BY <2>1 DEF ConfigOf, Or, Configs, Seeds, Lengths
<1>2. /\ spec.id = x.id /\ spec.version = x.version /\ spec.config = config
      /\ \/ request.id = None /\ s = None /\ o = None /\ e = b
         \/ /\ request.id = None
            /\ e \in build_historical_risk_engine(d, dep.env, y.id, y.version, Or(s, b.seed), Or(o, b.observations))
         \/ /\ request.id # None
            /\ e \in build_historical_risk_engine(d, dep.env, request.id, request.version, s, o)
  BY DEF resolve_run_spec
<1>3. Pinned(x)
  BY <1>2 DEF Pinned
<1>4. Anchored(d, x) /\ build_historical_risk_engine(d, dep.env, x.id, x.version, s, o) = {e}
  <2>1. CASE s = None /\ o = None /\ e = b
    BY <1>3, <2>1 DEF EngineInv
  <2>2. CASE e \in build_historical_risk_engine(d, dep.env, y.id, y.version, Or(s, b.seed), Or(o, b.observations))
    <3>1. CASE Pinned(y)
      <4>1. Anchored(d, y) /\ b \in build_historical_risk_engine(d, dep.env, y.id, y.version, None, None)
        BY <3>1 DEF EngineInv
      <4> HIDE DEF s, o, x, y, e
      <4>2. build_historical_risk_engine(d, dep.env, y.id, y.version, Or(s, b.seed), Or(o, b.observations))
               = build_historical_risk_engine(d, dep.env, y.id, y.version, s, o)
        BY <1>1, <3>1, <4>1, Full
      <4> USE DEF x
      <4> QED BY <1>3, <2>2, <4>2, Rebuild
    <3>2. CASE ~Pinned(y) /\ y.id = WAVE_A_DATASET_ID
      <4>1. y.version = DEFAULT_VERSION /\ DEFAULT_VERSION # None /\ ~is_content_hash(DEFAULT_VERSION)
        BY <3>2, DistinctNames, NamesAssumption DEF EngineInv
      <4>2. resolve_public_history_csv(d, dep.env, y.version) = {}
        BY <4>1 DEF resolve_public_history_csv
      <4>3. resolve_dataset_source(d, dep.env, y.id, y.version) = {} /\ y.id # None
        BY <3>2, <4>2, DistinctNames DEF resolve_dataset_source, OwnNames
      <4> QED BY <2>2, <4>3, BuildsFrom
    <3>3. CASE ~Pinned(y) /\ y.id # WAVE_A_DATASET_ID
      <4>1. PICK path \in DOMAIN d.files :
               y.id = file_csv_dataset_id(path) /\ (IsFrozenPath(path) => ReadsAll(b, d.files[path]))
        BY <3>3 DEF EngineInv
      <4>2. e \in build_historical_risk_engine(d, dep.env, file_csv_dataset_id(path), y.version,
                                              Or(s, b.seed), Or(o, b.observations))
        BY <2>2, <4>1
      <4> HIDE DEF s, o, y, e
      <4>3. s \in Seeds /\ o \in Lengths /\ Pinned(e.dataset)
        BY <1>1, <1>3
      <4>4. IsFrozenPath(path) => ReadsAll(b, d.files[path])
        BY <4>1
      <4>5. /\ Anchored(d, e.dataset)
            /\ \A f : build_historical_risk_engine(d, f, e.dataset.id, e.dataset.version, s, o) = {e}
        BY <4>2, <4>3, <4>4, ReadAgain
      <4> QED BY <4>5
    <3> QED BY <3>1, <3>2, <3>3
  <2>3. CASE e \in build_historical_risk_engine(d, dep.env, request.id, request.version, s, o)
    BY <1>3, <2>3, Rebuild
  <2> QED BY <1>2, <2>1, <2>2, <2>3
<1>5. config \in Configs /\ build_historical_risk_engine(d, dep.env, x.id, x.version, config.seed, config.observations) = {e}
  <2>1. CASE request.config = None
    <3>1. s = None /\ o = None /\ config = Config(e.seed, e.observations)
      BY <2>1 DEF ConfigOf, Or, Config
    <3>2. e \in build_historical_risk_engine(d, dep.env, x.id, x.version, None, None)
      BY <1>4, <3>1
    <3>3. None \in Seeds /\ None \in Lengths /\ Or(None, e.seed) = e.seed /\ Or(None, e.observations) = e.observations
      BY DEF Seeds, Lengths, Or
    <3> HIDE DEF s, o, x, e, config
    <3>4. /\ e.seed \in Int /\ e.observations \in Nat
          /\ build_historical_risk_engine(d, dep.env, x.id, x.version, e.seed, e.observations)
                = build_historical_risk_engine(d, dep.env, x.id, x.version, None, None)
      BY <1>3, <1>4, <3>2, <3>3, Full
    <3> QED BY <1>4, <3>1, <3>4 DEF Config, Configs
  <2>2. CASE request.config # None
    <3>1. config = request.config /\ ConfigOf(request) = request.config
      BY <2>2 DEF ConfigOf, Or
    <3> QED BY <1>1, <1>4, <3>1
  <2> QED BY <2>1, <2>2
<1>6. Anchored(d, spec)
  BY <1>2, <1>4 DEF Anchored
<1> QED BY <1>2, <1>5, <1>6 DEF dataset_identity

\* A pinned header has a version.
LEMMA Versioned ==
    ASSUME NEW dep \in Services, NEW d, FilesInv(dep, d), NEW run, Pinned(run), Reproduces(dep, d, run)
    PROVE  run.version # None /\ run.id # None
<1>1. run.id # None
  BY PinnedSource, FilesLegible DEF Reproduces
<1>2. CASE is_content_hash(run.version)
  BY <1>1, <1>2, FrozenFile, FilesLegible DEF Reproduces
<1>3. CASE ~is_content_hash(run.version)
  <2> DEFINE D == DataOf(d, run, Or(run.config.seed, DEFAULT_HISTORICAL_PANEL_SEED),
                         Or(run.config.observations, DefaultObservations))
  <2>1. run.chosen \in Engines(D, run.config.seed, run.config.observations)
    BY BuildOf, FilesLegible DEF Reproduces
  <2>2. run.chosen.dataset = D
    BY <2>1 DEF Engines, HistoricalRiskEngine
  <2>3. D.version = run.version
    BY <2>2, Zenon DEF Reproduces, dataset_identity
  <2>4. D.version = DEFAULT_VERSION
    BY <1>3 DEF Pinned, OwnIds, DataOf, load_demo_multi_factor_dataset, load_demo_historical_dataset,
                SyntheticHistoricalDataset, Dataset
  <2>5. DEFAULT_VERSION # None
    BY NamesAssumption
  <2> QED BY <1>1, <2>3, <2>4, <2>5
<1> QED BY <1>1, <1>2, <1>3

\* The specification and the engines a header names.
SpecOf(run) == [id |-> run.id, version |-> run.version, engine |-> run.chosen, config |-> run.config]
EnginesNamed(d, e, run) ==
    build_historical_risk_engine(d, e, run.id, run.version, run.config.seed, run.config.observations)

\* A header with all its columns, for an engine that has the identity they name.
FullHeader(run) ==
    /\ run.version # None /\ run.id # None /\ run.config # None
    /\ run.chosen.dataset.id = run.id /\ run.chosen.dataset.version = run.version
LEMMA HeaderIsFull ==
    ASSUME NEW dep \in Services, NEW m, FilesInv(dep, m), NEW run, Pinned(run), Reproduces(dep, m, run)
    PROVE  FullHeader(run)
<1>1. run.version # None /\ run.id # None /\ run.config # None
  BY Versioned, ConfigAssumption DEF Reproduces
<1>2. run.chosen.dataset.id = run.id /\ run.chosen.dataset.version = run.version
  BY DEF Reproduces, dataset_identity
<1> QED BY <1>1, <1>2 DEF FullHeader

\* Resolved again, whatever the process has, a header gives its own
\* specification and the engine of its client.
LEMMA Resolved ==
    ASSUME NEW run, FullHeader(run), NEW d, NEW e, EnginesNamed(d, e, run) = {run.chosen}, NEW b
    PROVE  resolve_execute_spec(d, e, run, b) = {SpecOf(run)}
<1> DEFINE request == request_blob_for_execute(run)
<1>1. run.version # None /\ run.id # None /\ run.config # None
  BY DEF FullHeader
<1>2. request.id = run.id /\ request.version = run.version /\ request.config = run.config
  BY <1>1 DEF request_blob_for_execute, Or
<1>3. ConfigOf(request) = run.config
  BY <1>1, <1>2 DEF ConfigOf, Or
<1> HIDE DEF request
<1>4. run.chosen.dataset.id = run.id /\ run.chosen.dataset.version = run.version
  BY DEF FullHeader
<1>6. resolve_run_spec(d, e, request, b) =
         {[id |-> f.dataset.id, version |-> f.dataset.version, engine |-> f,
           config |-> Or(request.config, Config(f.seed, f.observations))] :
          f \in {x \in {run.chosen} : request.version \in {None, x.dataset.version}}}
  BY <1>1, <1>2, <1>3 DEF resolve_run_spec, EnginesNamed
<1>7. \A x : Or(request.config, Config(x.seed, x.observations)) = run.config
  BY <1>1, <1>2 DEF Or
<1>8. {x \in {run.chosen} : request.version \in {None, x.dataset.version}} = {run.chosen}
  BY <1>2, <1>4
<1>9. resolve_run_spec(d, e, request, b) = {SpecOf(run)}
  BY <1>4, <1>6, <1>7, <1>8 DEF SpecOf
<1> QED BY <1>9 DEF resolve_execute_spec, request, SpecOf

\* The engine a header names is built of the disk there is, or of a torn sidecar
\* none.
LEMMA HeaderBuilds ==
    ASSUME NEW dep \in Services, NEW d, FilesInv(dep, Mended(d)),
           NEW run, Pinned(run), Reproduces(dep, Mended(d), run)
    PROVE  /\ EnginesNamed(d, dep.env, run) \subseteq {run.chosen}
           /\ ~SidecarTorn(d, run.version) => EnginesNamed(d, dep.env, run) = {run.chosen}
  BY BuildsMended, ReadableAsMended DEF Reproduces, EnginesNamed

\* What a comparison resolves a header to, and the engine it builds from that,
\* whatever engine the process has.
LEMMA Bindable ==
    ASSUME NEW dep \in Services, NEW d, FilesInv(dep, Mended(d)),
           NEW run, Pinned(run), Reproduces(dep, Mended(d), run)
    PROVE  /\ \A b : /\ resolve_execute_spec(d, dep.env, run, b) \subseteq {SpecOf(run)}
                     /\ ~SidecarTorn(d, run.version) => resolve_execute_spec(d, dep.env, run, b) = {SpecOf(run)}
           /\ build_historical_risk_engine_for_spec(d, dep.env, SpecOf(run)) \subseteq {run.chosen}
           /\ ~SidecarTorn(d, run.version)
                 => build_historical_risk_engine_for_spec(d, dep.env, SpecOf(run)) = {run.chosen}
<1> DEFINE m == Mended(d)
<1>1. FilesInv(dep, m) /\ Reproduces(dep, m, run)
  OBVIOUS
<1>2. EnginesNamed(m, dep.env, run) = {run.chosen} /\ FullHeader(run)
  <2>1. EnginesNamed(m, dep.env, run) = {run.chosen}
    BY DEF Reproduces, EnginesNamed
  <2> HIDE DEF m
  <2> QED BY <1>1, <2>1, HeaderIsFull
<1>3. ASSUME NEW b PROVE resolve_execute_spec(d, dep.env, run, b) \subseteq {SpecOf(run)}
  <2>1. resolve_execute_spec(m, dep.env, run, b) = {SpecOf(run)}
    <3> HIDE DEF m
    <3> QED BY <1>2, Resolved
  <2> QED BY <2>1, SpecsMended
<1>4. ASSUME NEW b, ~SidecarTorn(d, run.version) PROVE resolve_execute_spec(d, dep.env, run, b) = {SpecOf(run)}
  <2>1. EnginesNamed(d, dep.env, run) = {run.chosen}
    BY <1>4, HeaderBuilds
  <2> QED BY <1>2, <2>1, Resolved
<1>5. ConfigOf(SpecOf(run)) = run.config
  BY ConfigAssumption DEF SpecOf, Reproduces, ConfigOf, Or
<1>6. build_historical_risk_engine_for_spec(d, dep.env, SpecOf(run)) = EnginesNamed(d, dep.env, run)
  BY <1>5 DEF SpecOf, build_historical_risk_engine_for_spec, EnginesNamed
<1> QED BY <1>3, <1>4, <1>6, HeaderBuilds

\* The engine a specification is executed on has the history its client was
\* told of, and there is one when the sidecar of the history is whole.
LEMMA Executed ==
    ASSUME NEW dep \in Services, NEW d, FilesInv(dep, Mended(d)), NEW b, EngineInv(dep, Mended(d), b),
           NEW run, Pinned(run), Reproduces(dep, Mended(d), run)
    PROVE  LET spec == [id |-> run.id, version |-> run.version, config |-> run.config] IN
           /\ ~SidecarTorn(d, run.version) => portfolio_service_for_spec(d, dep.env, b, spec) # {}
           /\ \A e \in portfolio_service_for_spec(d, dep.env, b, spec) : SameHistory(e, run.chosen)
<1> DEFINE m == Mended(d)
           spec == [id |-> run.id, version |-> run.version, config |-> run.config]
           s == run.config.seed
           o == run.config.observations
<1>1. ConfigOf(spec) = run.config
  BY ConfigAssumption DEF Reproduces, ConfigOf, Or
<1>2. build_historical_risk_engine(m, dep.env, run.id, run.version, s, o) = {run.chosen}
  BY DEF Reproduces
<1>3. CASE portfolio_service_for_spec(d, dep.env, b, spec) = {b} /\ dataset_identity(b.dataset) = <<spec.id, spec.version>>
           /\ s \in {None, b.seed} /\ o \in {None, b.observations}
  <2>1. b.dataset.id = run.id /\ b.dataset.version = run.version
    BY <1>3 DEF dataset_identity
  <2>2. Pinned(b.dataset)
    BY <2>1 DEF Pinned
  <2>3. /\ build_historical_risk_engine(m, dep.env, run.id, run.version, None, None) = {b}
        /\ Anchored(m, run)
    BY <2>1, <2>2 DEF EngineInv, Reproduces
  <2>4. None \in Seeds /\ None \in Lengths /\ \A v : Or(None, v) = v /\ s \in Seeds /\ o \in Lengths
    BY DEF Seeds, Lengths, Or, Reproduces, Configs
  <2>5. /\ build_historical_risk_engine(m, dep.env, run.id, run.version, Or(s, b.seed), Or(o, b.observations))
              = build_historical_risk_engine(m, dep.env, run.id, run.version, s, o)
        /\ build_historical_risk_engine(m, dep.env, run.id, run.version, Or(None, b.seed), Or(None, b.observations))
              = build_historical_risk_engine(m, dep.env, run.id, run.version, None, None)
    <3>1. FilesInv(dep, m)
      OBVIOUS
    <3> HIDE DEF s, o, m
    <3> QED BY <2>3, <2>4, <3>1, Full
  <2>6. Or(s, b.seed) = b.seed /\ Or(o, b.observations) = b.observations
    BY <1>3 DEF Or
  <2>7. b = run.chosen
    BY <1>2, <2>3, <2>4, <2>5, <2>6
  <2> QED BY <1>3, <2>7 DEF SameHistory
<1>4. CASE portfolio_service_for_spec(d, dep.env, b, spec) = build_historical_risk_engine_for_spec(d, dep.env, spec)
  <2>1. portfolio_service_for_spec(d, dep.env, b, spec)
           = build_historical_risk_engine(d, dep.env, run.id, run.version, s, o)
    BY <1>1, <1>4 DEF build_historical_risk_engine_for_spec
  <2> QED BY <2>1, HeaderBuilds DEF SameHistory, EnginesNamed
<1> QED BY <1>1, <1>3, <1>4 DEF portfolio_service_for_spec

-----------------------------------------------------------------------------
(* Sequences.                                                                 *)

LEMMA Appended ==
    ASSUME NEW s, s \in Seq(Range(s)), NEW x
    PROVE  LET t == Append(s, x) IN
           /\ t \in Seq(Range(t)) /\ Len(t) = Len(s) + 1 /\ DOMAIN t = 1..Len(s) + 1
           /\ \A i \in DOMAIN s : t[i] = s[i]
           /\ t[Len(s) + 1] = x /\ Range(t) = Range(s) \cup {x}
<1> DEFINE t == Append(s, x)
           n == Len(s)
<1>1. n \in Nat /\ DOMAIN s = 1..n
  OBVIOUS
<1>2. /\ t \in Seq(Range(s) \cup {x}) /\ Len(t) = n + 1 /\ DOMAIN t = 1..n + 1
      /\ \A i \in 1..n : t[i] = s[i]
      /\ t[n + 1] = x
  <2>1. s \in Seq(Range(s) \cup {x})
    BY <1>1 DEF Range
  <2> QED BY <1>1, <2>1
<1>3. t \in Seq(Range(t))
  BY <1>2 DEF Range
<1>4. Range(t) = Range(s) \cup {x}
  <2>1. Range(t) \subseteq Range(s) \cup {x}
    BY <1>1, <1>2 DEF Range
  <2>2. \A i \in DOMAIN s : s[i] \in Range(t)
    BY <1>1, <1>2 DEF Range
  <2>3. x \in Range(t)
    BY <1>1, <1>2 DEF Range
  <2> QED BY <2>1, <2>2, <2>3 DEF Range
<1> QED BY <1>1, <1>2, <1>3, <1>4

\* A function on the first numbers is a sequence.
LEMMA FunctionIsSeq ==
    ASSUME NEW n \in Nat, NEW s, DOMAIN s = 1..n, s = [i \in 1..n |-> s[i]]
    PROVE  s \in Seq(Range(s)) /\ Len(s) = n
<1>1. \A i \in 1..n : s[i] \in Range(s)
  BY DEF Range
<1>2. s \in [1..n -> Range(s)]
  BY <1>1
<1> QED BY <1>2

LEMMA ListUpdated ==
    ASSUME NEW s, s \in Seq(Range(s)), NEW i \in DOMAIN s, NEW x
    PROVE  LET t == [s EXCEPT ![i] = x] IN
           /\ t \in Seq(Range(t)) /\ Len(t) = Len(s) /\ DOMAIN t = DOMAIN s
           /\ t[i] = x /\ \A j \in DOMAIN s : j # i => t[j] = s[j]
<1> DEFINE t == [s EXCEPT ![i] = x]
<1>1. Len(s) \in Nat /\ DOMAIN s = 1..Len(s)
  OBVIOUS
<1>2. DOMAIN t = 1..Len(s) /\ t = [j \in 1..Len(s) |-> t[j]]
  BY <1>1
<1>3. t[i] = x /\ \A j \in DOMAIN s : j # i => t[j] = s[j]
  OBVIOUS
<1> HIDE DEF t
<1>4. t \in Seq(Range(t)) /\ Len(t) = Len(s)
  <2>1. \A j \in 1..Len(s) : t[j] \in Range(t)
    BY <1>2 DEF Range
  <2>2. t \in [1..Len(s) -> Range(t)]
    BY <1>2, <2>1
  <2> QED BY <1>1, <2>2
<1> QED BY <1>1, <1>2, <1>3, <1>4 DEF t

\* A non-empty set of numbers has a least.
LEMMA LeastNat ==
    ASSUME NEW T, T \subseteq Nat, T # {}
    PROVE  \E x \in T : \A y \in T : x <= y
<1>1. PICK x \in T : \A y \in T : ~(<<y, x>> \in OpToRel(<, Nat))
  BY WFMin, NatLessThanWellFounded
<1>2. ASSUME NEW y \in T PROVE x <= y
  <2>1. x \in Nat /\ y \in Nat /\ ~(y < x)
    BY <1>1 DEF OpToRel
  <2> QED BY <2>1
<1> QED BY <1>2

LEMMA MovedToEnd ==
    ASSUME NEW s, s \in Seq(Range(s)), NEW v
    PROVE  LET t == Append(RemoveFirst(s, v), v)
           IN  t \in Seq(Range(t)) /\ Range(t) = Range(s) \cup {v}
<1> DEFINE n == Len(s)
           I == {i \in 1..n : s[i] = v}
           k == Min(I)
<1>1. n \in Nat /\ DOMAIN s = 1..n
  OBVIOUS
<1>2. CASE I = {}
  <2>1. RemoveFirst(s, v) = s
    BY <1>2 DEF RemoveFirst
  <2> QED BY <2>1, Appended
<1>3. CASE I # {}
  <2>1. k \in I
    <3> HIDE DEF I
    <3>1. \E x \in I : \A y \in I : x <= y
      <4>1. I \subseteq Nat
        BY <1>1 DEF I
      <4> QED BY <1>3, <4>1, LeastNat
    <3> QED BY <3>1 DEF Min
  <2> HIDE DEF k
  <2> DEFINE r == RemoveFirst(s, v)
  <2>2. r = SubSeq(s, 1, k - 1) \o SubSeq(s, k + 1, n)
    BY <1>3 DEF RemoveFirst, SelectInSeq, RemoveAt, k
  <2>3. k \in 1..n /\ s[k] = v
    BY <2>1
  <2>4. r \in Seq(Range(s)) /\ Len(r) = n - 1
        /\ \A j \in 1..n - 1 : r[j] = s[IF j < k THEN j ELSE j + 1]
    <3> DEFINE a == SubSeq(s, 1, k - 1)
               b == SubSeq(s, k + 1, n)
    <3>1. a \in Seq(Range(s)) /\ Len(a) = k - 1 /\ \A j \in 1..k - 1 : a[j] = s[j]
      BY <1>1, <2>3
    <3>2. b \in Seq(Range(s)) /\ Len(b) = n - k /\ \A j \in 1..n - k : b[j] = s[k + j]
      <4>1. /\ k + 1 \in 1..n + 1 /\ n \in k..n /\ n - (k + 1) + 1 = n - k
            /\ \A j \in 1..n - k : k + 1 + j - 1 = k + j
        BY <1>1, <2>3
      <4>2. b \in Seq(Range(s))
        BY <1>1, <2>3, SubSeqProperties
      <4>3. Len(b) = IF k + 1 <= n THEN n - (k + 1) + 1 ELSE 0
        BY <1>1, <2>3, <4>1, SubSeqProperties
      <4>4. \A j \in 1..n - (k + 1) + 1 : b[j] = s[k + 1 + j - 1]
        BY <1>1, <2>3, <4>1, SubSeqProperties
      <4> HIDE DEF b, n
      <4>5. Len(b) = n - k
        <5>1. n \in Int /\ k \in Int /\ k <= n
          BY <1>1, <2>3
        <5>2. CASE k + 1 <= n
          BY <4>1, <4>3, <5>2
        <5>3. CASE ~(k + 1 <= n)
          BY <4>3, <5>1, <5>3
        <5> QED BY <5>2, <5>3
      <4> QED BY <4>1, <4>2, <4>4, <4>5
    <3> HIDE DEF a, b
    <3>3. a \o b \in Seq(Range(s)) /\ Len(a \o b) = n - 1
      <4>1. a \o b \in Seq(Range(s)) /\ Len(a \o b) = Len(a) + Len(b)
        BY <3>1, <3>2, ConcatProperties
      <4> QED BY <1>1, <2>3, <3>1, <3>2, <4>1
    <3>4. \A j \in 1..n - 1 : (a \o b)[j] = IF j < k THEN a[j] ELSE b[j - k + 1]
      BY <1>1, <2>3, <3>1, <3>2
    <3>5. r = a \o b
      BY <2>2 DEF a, b
    <3>6. \A j \in 1..n - 1 : r[j] = s[IF j < k THEN j ELSE j + 1]
      <4> SUFFICES ASSUME NEW j \in 1..n - 1 PROVE r[j] = s[IF j < k THEN j ELSE j + 1]
        OBVIOUS
      <4>1. CASE j < k
        <5>1. j \in 1..k - 1
          BY <1>1, <2>3, <4>1
        <5> QED BY <3>1, <3>4, <3>5, <4>1, <5>1
      <4>2. CASE ~(j < k)
        <5>1. j - k + 1 \in 1..n - k /\ k + (j - k + 1) = j + 1
          BY <1>1, <2>3, <4>2
        <5>2. b[j - k + 1] = s[j + 1]
          BY <3>2, <5>1
        <5> QED BY <3>4, <3>5, <4>2, <5>2
      <4> QED BY <4>1, <4>2
    <3> QED BY <3>3, <3>5, <3>6
  <2>5. DOMAIN r = 1..n - 1 /\ n - 1 \in Nat
    BY <1>1, <2>3, <2>4
  <2>6. Range(s) = Range(r) \cup {v}
    <3>1. \A j \in 1..n : j # k => s[j] \in Range(r)
      <4> SUFFICES ASSUME NEW j \in 1..n, j # k PROVE s[j] \in Range(r)
        OBVIOUS
      <4>1. CASE j < k
        <5>1. j \in 1..n - 1 /\ r[j] = s[j]
          BY <1>1, <2>3, <2>4, <4>1
        <5> QED BY <2>5, <5>1 DEF Range
      <4>2. CASE j > k
        <5>1. j - 1 \in 1..n - 1 /\ r[j - 1] = s[j]
          BY <1>1, <2>3, <2>4, <4>2
        <5> QED BY <2>5, <5>1 DEF Range
      <4> QED BY <1>1, <2>3, <4>1, <4>2
    <3>2. Range(r) \subseteq Range(s)
      BY <2>4, <2>5 DEF Range
    <3>3. v \in Range(s)
      BY <1>1, <2>3 DEF Range
    <3> QED BY <1>1, <2>3, <3>1, <3>2, <3>3 DEF Range
  <2> HIDE DEF r
  <2>7. r \in Seq(Range(r))
    <3>1. r = [j \in 1..n - 1 |-> r[j]] /\ \A j \in 1..n - 1 : r[j] \in Range(r)
      BY <2>4, <2>5 DEF Range
    <3>2. r \in [1..n - 1 -> Range(r)]
      BY <3>1
    <3> QED BY <2>5, <3>2
  <2>8. Append(r, v) \in Seq(Range(Append(r, v))) /\ Range(Append(r, v)) = Range(r) \cup {v}
    BY <2>7, Appended
  <2> QED BY <2>6, <2>8 DEF r
<1> QED BY <1>2, <1>3

-----------------------------------------------------------------------------
(* The steps around a run.                                                    *)

\* A step of the disk that keeps what is frozen keeps the rest.
LEMMA DiskStep ==
    ASSUME ReplayInv, UNCHANGED <<service, stored, live, base, runs, kept>>,
           FilesInv(service, Mended(disk')), Preserves(Mended(disk), Mended(disk')), DiskInv',
           Range(disk'.order) = {v \in {Stem(p) : p \in DOMAIN disk'.files} : is_content_hash(v)}
    PROVE  ReplayInv'
<1> DEFINE m == Mended(disk)
           n == Mended(disk')
<1>0. service' = service /\ stored' = stored /\ live' = live /\ base' = base /\ runs' = runs /\ kept' = kept
      /\ service \in Services /\ FilesInv(service, m)
  BY DEF ReplayInv, DiskInv
<1>1. \A p \in {"api", "worker"} : base[p] # None => EngineInv(service, n, base[p])
  BY <1>0, EngineKept DEF ReplayInv
<1>2. \A i \in DOMAIN runs : RunInv(service, n, stored, runs[i], kept[i])
  BY <1>0, RunKept DEF ReplayInv, RowsInv
<1>3. RowsInv'
  BY <1>0, <1>2 DEF ReplayInv, RowsInv
<1> QED BY <1>0, <1>1, <1>3 DEF ReplayInv

LEMMA WriteCsvStep ==
    ASSUME ReplayInv, WriteCsv
    PROVE  ReplayInv'
<1>0. service \in Services /\ FilesInv(service, Mended(disk))
  BY DEF ReplayInv, DiskInv
<1>1. PICK w \in DOMAIN service.vintages :
         \E f \in freeze_public_history(service.vintages[w], service.start, service.end) :
            LET path == versioned_csv_path(f.version)
                old  == IF path \in DOMAIN disk.files THEN {disk.files[path]} ELSE {}
                file == [kind |-> "per_factor", rows |-> f.rows,
                         sidecar |-> IF old = {} THEN None ELSE disk.files[path].sidecar]
            IN  /\ \A o \in old : o.rows = f.rows
                /\ disk' = [files |-> Put(disk.files, path, file),
                            order |-> Append(RemoveFirst(disk.order, f.version), f.version)]
                /\ freezing' = f
  BY DEF WriteCsv
<1> PICK f \in freeze_public_history(service.vintages[w], service.start, service.end) :
            LET path == versioned_csv_path(f.version)
                old  == IF path \in DOMAIN disk.files THEN {disk.files[path]} ELSE {}
                file == [kind |-> "per_factor", rows |-> f.rows,
                         sidecar |-> IF old = {} THEN None ELSE disk.files[path].sidecar]
            IN  /\ \A o \in old : o.rows = f.rows
                /\ disk' = [files |-> Put(disk.files, path, file),
                            order |-> Append(RemoveFirst(disk.order, f.version), f.version)]
                /\ freezing' = f
  BY <1>1
<1> DEFINE path == versioned_csv_path(f.version)
           file == [kind |-> "per_factor", rows |-> f.rows,
                    sidecar |-> IF path \notin DOMAIN disk.files THEN None ELSE disk.files[path].sidecar]
<1>2. /\ path \in DOMAIN disk.files => disk.files[path].rows = f.rows
      /\ disk' = [files |-> Put(disk.files, path, file),
                  order |-> Append(RemoveFirst(disk.order, f.version), f.version)]
      /\ freezing' = f
  <2>1. CASE path \in DOMAIN disk.files
    BY <2>1
  <2>2. CASE path \notin DOMAIN disk.files
    BY <2>2
  <2> QED BY <2>1, <2>2
<1>3. f \in Freezes(service)
  BY DEF Freezes
<1>4. f.rows \in Seq(Range(f.rows)) /\ is_content_hash(f.version) /\ f.version \in FrozenVersions(service)
  BY <1>0, <1>3, FreezesShape
<1>5. /\ path \notin OwnNames \cup {WAVE_A_DATASET_ID} /\ PathOf(path) = path
      /\ Stem(path) = f.version /\ IsFrozenPath(path)
  BY FrozenPath
<1> DEFINE m == Mended(disk)
           n == Mended(disk')
           mended == MendedFile(path, file)
<1>6. /\ DOMAIN disk'.files = DOMAIN disk.files \cup {path} /\ disk'.files[path] = file
      /\ \A p \in DOMAIN disk.files : p # path => disk'.files[p] = disk.files[p]
      /\ disk' = [files |-> disk'.files, order |-> disk'.order]
      /\ disk'.order = Append(RemoveFirst(disk.order, f.version), f.version)
  <2>1. disk'.files = Put(disk.files, path, file) /\ disk' = [files |-> disk'.files, order |-> disk'.order]
        /\ disk'.order = Append(RemoveFirst(disk.order, f.version), f.version)
    BY <1>2
  <2> HIDE DEF file, path
  <2> QED BY <2>1 DEF Put
<1>13. DOMAIN file = {"kind", "rows", "sidecar"}
  OBVIOUS
<1>14. /\ DOMAIN n.files = DOMAIN m.files \cup {path} /\ n.files[path] = mended /\ DOMAIN m.files = DOMAIN disk.files
       /\ \A p \in DOMAIN m.files : p # path => n.files[p] = m.files[p]
       /\ n = [files |-> n.files, order |-> n.order] /\ n.order = disk'.order /\ m.order = disk.order
  <2> HIDE DEF file, path
  <2> QED BY <1>6 DEF Mended
<1>15. /\ DOMAIN mended = {"kind", "rows", "sidecar"} /\ mended.kind = "per_factor" /\ mended.rows = f.rows
       /\ path \notin DOMAIN m.files => mended.sidecar = None
       /\ path \in DOMAIN m.files => mended.sidecar = m.files[path].sidecar /\ mended.rows = m.files[path].rows
  <2>1. /\ DOMAIN mended = {"kind", "rows", "sidecar"} /\ mended.kind = file.kind /\ mended.rows = file.rows
        /\ mended.sidecar = IF file.sidecar = Torn THEN FrozenIdentity(Stem(path)) ELSE file.sidecar
    <3> HIDE DEF file, path
    <3> QED BY <1>13, MendedFields
  <2>2. ASSUME path \in DOMAIN disk.files
        PROVE  m.files[path].rows = f.rows /\ file.sidecar = disk.files[path].sidecar
               /\ m.files[path].sidecar =
                     IF disk.files[path].sidecar = Torn THEN FrozenIdentity(Stem(path)) ELSE disk.files[path].sidecar
    <3>1. m.files[path] = MendedFile(path, disk.files[path]) /\ DOMAIN disk.files[path] = {"kind", "rows", "sidecar"}
      BY <1>0, <2>2, MendedDisk
    <3>2. file.sidecar = disk.files[path].sidecar /\ disk.files[path].rows = f.rows
      BY <1>2, <2>2
    <3> DEFINE old == disk.files[path]
               kept1 == MendedFile(path, old)
    <3>3. kept1.rows = old.rows
          /\ kept1.sidecar = IF old.sidecar = Torn THEN FrozenIdentity(Stem(path)) ELSE old.sidecar
      <4>1. DOMAIN old = {"kind", "rows", "sidecar"}
        BY <3>1
      <4> HIDE DEF old, path
      <4> QED BY <4>1, MendedFields
    <3>4. m.files[path] = kept1
      BY <3>1
    <3> HIDE DEF file, path, m, n, kept1
    <3> QED BY <3>2, <3>3, <3>4
  <2>3. path \notin DOMAIN disk.files => file.sidecar = None /\ None # Torn
    BY HistoriesAssumption
  <2>4. file.kind = "per_factor" /\ file.rows = f.rows
    OBVIOUS
  <2> HIDE DEF file, mended, path, m, n
  <2> QED BY <1>14, <2>1, <2>2, <2>3, <2>4
<1>7. n.order \in Seq(Range(n.order)) /\ Range(n.order) = Range(m.order) \cup {f.version}
  <2>1. m.order \in Seq(Range(m.order)) /\ n.order = Append(RemoveFirst(m.order, f.version), f.version)
    BY <1>0, <1>6, <1>14 DEF FilesInv, OrderOK
  <2> HIDE DEF file, path, mended, m, n
  <2> QED BY <2>1, MovedToEnd
<1> HIDE DEF file, mended, m, n
<1>16. FilesInv(service, m) /\ m = Mended(disk) /\ n = Mended(disk')
  BY <1>0 DEF m, n
<1>8. FileOK(path, mended)
  <2>1. None \notin {path, file_csv_dataset_id(path)}
    BY <1>0, <1>4, FilesAssumption
  <2>2. path \in DOMAIN m.files => FileOK(path, m.files[path])
    BY <1>16 DEF FilesInv
  <2> QED BY <1>4, <1>5, <1>15, <2>1, <2>2 DEF FileOK
<1> HIDE DEF path
<1>9. FilesInv(service, n)
  <2>1. OrderOK(n)
    BY <1>7, <1>14, <1>16 DEF FilesInv, OrderOK, path
  <2>2. \A p \in DOMAIN n.files :
           FileOK(p, n.files[p]) /\ (IsFrozenPath(p) => Stem(p) \in FrozenVersions(service))
    BY <1>4, <1>5, <1>8, <1>14, <1>16 DEF FilesInv
  <2> QED BY <1>14, <2>1, <2>2 DEF FilesInv
<1>10. Preserves(m, n)
  <2> SUFFICES ASSUME NEW p \in DOMAIN m.files
               PROVE  /\ p \in DOMAIN n.files
                      /\ \/ n.files[p] = m.files[p]
                         \/ n.files[p].rows = m.files[p].rows /\ n.files[p].sidecar = m.files[p].sidecar
    BY DEF Preserves
  <2>1. CASE p = path
    BY <1>14, <1>15, <2>1
  <2>2. CASE p # path
    BY <1>14, <2>2
  <2> QED BY <2>1, <2>2
<1>11. DiskInv'
  <2>1. service' = service
    BY DEF WriteCsv
  <2>2. path \in DOMAIN disk'.files
    BY <1>6
  <2> QED BY <1>2, <1>3, <1>6, <1>9, <1>16, <2>1, <2>2 DEF DiskInv, path
<1>12. Range(disk'.order) = {v \in {Stem(p) : p \in DOMAIN disk'.files} : is_content_hash(v)}
  <2>1. {Stem(p) : p \in DOMAIN disk'.files} = {Stem(p) : p \in DOMAIN disk.files} \cup {f.version}
    <3>1. DOMAIN disk'.files = DOMAIN disk.files \cup {path} /\ Stem(path) = f.version
      BY <1>5, <1>6
    <3>2. \A v : (\E p \in DOMAIN disk'.files : v = Stem(p))
                   <=> (\E p \in DOMAIN disk.files : v = Stem(p)) \/ v = f.version
      BY <3>1, Zenon
    <3> QED BY <3>2
  <2>2. Range(disk.order) = {v \in {Stem(p) : p \in DOMAIN disk.files} : is_content_hash(v)}
    BY DEF ReplayInv
  <2> QED BY <1>4, <1>7, <1>14, <2>1, <2>2
<1> QED BY <1>9, <1>10, <1>11, <1>12, <1>16, DiskStep DEF WriteCsv

\* A sidecar is opened or written: mended, it is what will be written.
LEMMA SidecarStep ==
    ASSUME ReplayInv, freezing # None, NEW sidecar \in {Torn, FrozenIdentity(freezing.version)},
           PutSidecar(sidecar), freezing' \in {None, freezing},
           UNCHANGED <<service, stored, live, base, runs, kept>>
    PROVE  ReplayInv'
<1> DEFINE path == versioned_csv_path(freezing.version)
           m == Mended(disk)
           n == Mended(disk')
           was == m.files[path]
           put == [disk.files[path] EXCEPT !.sidecar = sidecar]
<1>0. service \in Services /\ FilesInv(service, m) /\ freezing \in Freezes(service)
      /\ path \in DOMAIN disk.files /\ disk = [files |-> disk.files, order |-> disk.order]
  BY DEF ReplayInv, DiskInv
<1>1. FileOK(path, was) /\ DOMAIN disk.files[path] = {"kind", "rows", "sidecar"}
      /\ was.kind = disk.files[path].kind /\ was.rows = disk.files[path].rows
      /\ DOMAIN m.files = DOMAIN disk.files /\ m.order = disk.order
  <2>1. DOMAIN m.files = DOMAIN disk.files /\ m.order = disk.order /\ was = MendedFile(path, disk.files[path])
        /\ DOMAIN disk.files[path] = {"kind", "rows", "sidecar"}
    BY <1>0, MendedDisk
  <2>2. FileOK(path, was)
    BY <1>0, <2>1 DEF FilesInv
  <2> QED BY <2>1, <2>2, MendedFields
<1>2. Stem(path) = freezing.version /\ IsFrozenPath(path)
  BY FrozenPath
<1>3. DOMAIN disk = {"files", "order"}
  BY <1>0
<1>4. /\ disk' = [files |-> disk'.files, order |-> disk'.order] /\ disk'.order = disk.order
      /\ DOMAIN disk'.files = DOMAIN disk.files
      /\ \A p \in DOMAIN disk.files : p # path => disk'.files[p] = disk.files[p]
      /\ disk'.files[path] = put
  <2>1. disk' = [disk EXCEPT !.files[path].sidecar = sidecar]
    BY DEF PutSidecar
  <2> HIDE DEF path
  <2> QED BY <1>0, <1>3, <2>1
<1>5. DOMAIN put = {"kind", "rows", "sidecar"} /\ put.kind = was.kind /\ put.rows = was.rows /\ put.sidecar = sidecar
  BY <1>1
<1> HIDE DEF path, put
<1>6. /\ n = [files |-> n.files, order |-> n.order] /\ n.order = m.order
      /\ DOMAIN n.files = DOMAIN m.files /\ n.files[path] = MendedFile(path, put)
      /\ \A p \in DOMAIN m.files : p # path => n.files[p] = m.files[p]
  BY <1>0, <1>4 DEF Mended
<1>7. /\ DOMAIN n.files[path] = {"kind", "rows", "sidecar"} /\ n.files[path].kind = was.kind
      /\ n.files[path].rows = was.rows /\ n.files[path].sidecar = FrozenIdentity(freezing.version)
  BY <1>2, <1>5, <1>6, MendedFields
<1> HIDE DEF m, n
<1>15. FilesInv(service, m) /\ m = Mended(disk) /\ n = Mended(disk')
  BY <1>0 DEF m, n
<1>8. FileOK(path, n.files[path])
  BY <1>1, <1>2, <1>7 DEF FileOK
<1>9. FilesInv(service, n)
  <2>1. OrderOK(n)
    BY <1>6, <1>15 DEF FilesInv, OrderOK
  <2>2. \A p \in DOMAIN n.files :
           FileOK(p, n.files[p]) /\ (IsFrozenPath(p) => Stem(p) \in FrozenVersions(service))
    BY <1>6, <1>8, <1>15 DEF FilesInv
  <2> QED BY <1>6, <2>1, <2>2 DEF FilesInv
<1>10. Preserves(m, n)
  BY <1>1, <1>2, <1>6, <1>7 DEF Preserves, FileOK
<1>11. DiskInv'
  BY <1>0, <1>4, <1>9, <1>15 DEF DiskInv, path
<1>12. Range(disk'.order) = {v \in {Stem(p) : p \in DOMAIN disk'.files} : is_content_hash(v)}
  BY <1>4 DEF ReplayInv
<1> QED BY <1>9, <1>10, <1>11, <1>12, <1>15, DiskStep

LEMMA TruncateSidecarStep ==
    ASSUME ReplayInv, TruncateSidecar
    PROVE  ReplayInv'
  BY SidecarStep DEF TruncateSidecar

LEMMA WriteSidecarStep ==
    ASSUME ReplayInv, WriteSidecar
    PROVE  ReplayInv'
  BY SidecarStep DEF WriteSidecar, FrozenIdentity

LEMMA EditFileStep ==
    ASSUME ReplayInv, EditFile
    PROVE  ReplayInv'
<1> DEFINE m == Mended(disk)
           n == Mended(disk')
<1>0. service \in Services /\ FilesInv(service, m) /\ disk = [files |-> disk.files, order |-> disk.order]
  BY DEF ReplayInv, DiskInv
<1>1. PICK path \in DOMAIN service.edits : disk' = [disk EXCEPT !.files[path] = service.edits[path]]
  BY DEF EditFile
<1>2. ~IsFrozenPath(path) /\ FileOK(path, service.edits[path])
  BY <1>0, FilesAssumption
<1>3. MendedFile(path, service.edits[path]) = service.edits[path]
  BY <1>2, HistoriesAssumption DEF MendedFile, FileOK
<1>4. DOMAIN disk = {"files", "order"}
  BY <1>0
<1>5. /\ disk' = [files |-> disk'.files, order |-> disk'.order] /\ disk'.order = disk.order
      /\ DOMAIN disk'.files = DOMAIN disk.files
      /\ \A p \in DOMAIN disk.files : disk'.files[p] = IF p = path THEN service.edits[path] ELSE disk.files[p]
  BY <1>0, <1>1, <1>4
<1>6. /\ n = [files |-> n.files, order |-> n.order] /\ n.order = m.order
      /\ DOMAIN n.files = DOMAIN m.files
      /\ \A p \in DOMAIN m.files : n.files[p] = IF p = path THEN service.edits[path] ELSE m.files[p]
  BY <1>3, <1>5 DEF Mended
<1> HIDE DEF m, n
<1>7. FilesInv(service, n)
  <2>1. OrderOK(n)
    BY <1>0, <1>6 DEF FilesInv, OrderOK
  <2>2. \A p \in DOMAIN n.files :
           FileOK(p, n.files[p]) /\ (IsFrozenPath(p) => Stem(p) \in FrozenVersions(service))
    BY <1>0, <1>2, <1>6 DEF FilesInv
  <2> QED BY <1>6, <2>1, <2>2 DEF FilesInv
<1>8. Preserves(m, n)
  BY <1>2, <1>6 DEF Preserves
<1>9. DiskInv'
  <2>1. service' = service /\ freezing' = freezing
    BY DEF EditFile
  <2> QED BY <1>5, <1>7, <2>1 DEF DiskInv, ReplayInv, n
<1>10. Range(disk'.order) = {v \in {Stem(p) : p \in DOMAIN disk'.files} : is_content_hash(v)}
  BY <1>5 DEF ReplayInv
<1> QED BY <1>7, <1>8, <1>9, <1>10, DiskStep DEF EditFile, m, n

LEMMA TakeSnapshotStep ==
    ASSUME ReplayInv, TakeSnapshot
    PROVE  ReplayInv'
<1>0. /\ service' = service /\ live' = live /\ base' = base /\ runs' = runs /\ kept' = kept
      /\ disk' = disk /\ freezing' = freezing
      /\ service \in Services /\ FilesInv(service, Mended(disk))
  BY DEF ReplayInv, DiskInv, TakeSnapshot
<1>1. PICK w \in DOMAIN service.vintages, as_of \in service.days :
         \E snapshot \in build_public_snapshot(service.vintages[w], as_of) :
            stored' # stored /\ stored' \in persist_public_snapshot(stored, snapshot)
  BY DEF TakeSnapshot
<1> PICK snapshot \in build_public_snapshot(service.vintages[w], as_of) :
            stored' # stored /\ stored' \in persist_public_snapshot(stored, snapshot)
  BY <1>1
<1>2. HasOwnId(snapshot) /\ snapshot.id \notin DOMAIN stored /\ stored' = Put(stored, snapshot.id, snapshot)
  BY DEF persist_public_snapshot
<1>3. snapshot.id # service.market.id
  <2>1. IsPublicId(snapshot.id)
    BY <1>2 DEF HasOwnId, IsPublicId
  <2> QED BY <1>0, <2>1, SnapshotsAssumption
<1>4. /\ DOMAIN stored' = DOMAIN stored \cup {snapshot.id} /\ stored'[snapshot.id] = snapshot
      /\ \A id \in DOMAIN stored : stored'[id] = stored[id]
  BY <1>2 DEF Put
<1>5. StoredInv(service, stored')
  BY <1>3, <1>4 DEF StoredInv, ReplayInv
<1>6. \A i \in DOMAIN runs : RunInv(service, Mended(disk), stored', runs[i], kept[i])
  <2>1. Preserves(Mended(disk), Mended(disk))
    BY DEF Preserves
  <2> QED BY <1>0, <1>4, <2>1, RunKept DEF ReplayInv, RowsInv
<1>7. RowsInv'
  BY <1>0, <1>6 DEF ReplayInv, RowsInv
<1> QED BY <1>0, <1>5, <1>7 DEF ReplayInv, DiskInv

LEMMA ReplaceBookStep ==
    ASSUME ReplayInv, ReplaceBook
    PROVE  ReplayInv'
<1>1. service \in Services /\ live \in DOMAIN service.books /\ live < Len(service.books) /\ live' = live + 1
  BY DEF ReplayInv, ReplaceBook
<1>2. live' \in DOMAIN service.books
  BY <1>1, RequestsAssumption
<1>3. UNCHANGED <<service, disk, freezing, stored, base, runs, kept>>
  BY DEF ReplaceBook
<1> QED BY <1>2, <1>3 DEF ReplayInv, DiskInv, RowsInv

\* A row may be changed where the rest is kept.
LEMMA RestartStep ==
    ASSUME ReplayInv, NEW p \in {"api", Executor}, Restart(p)
    PROVE  ReplayInv'
<1>0. /\ service' = service /\ live' = live /\ disk' = disk /\ freezing' = freezing
      /\ base' = [base EXCEPT ![p] = Started(service, disk)]
      /\ service \in Services /\ FilesInv(service, Mended(disk)) /\ DOMAIN base = {"api", "worker"}
      /\ \A q \in {"api", "worker"} : base[q] # None => EngineInv(service, Mended(disk), base[q])
  BY DEF ReplayInv, DiskInv, Restart
<1>1. p \in {"api", "worker"}
  BY DEF Executor
<1>2. /\ DOMAIN base' = {"api", "worker"}
      /\ \A q \in {"api", "worker"} : base'[q] # None => EngineInv(service, Mended(disk), base'[q])
  BY <1>0, <1>1, StartedInv
<1>3. StoredInv(service, stored')
  <2>1. CASE env.database
    BY <2>1 DEF Restart, ReplayInv
  <2>2. CASE ~env.database
    <3>1. stored' = <<>>
      BY <2>2 DEF Restart
    <3> QED BY <3>1 DEF StoredInv
  <2> QED BY <2>1, <2>2
<1>4. RowsInv'
  <2>1. CASE env.database
    <3>1. /\ stored' = stored
          /\ kept' = IF p = "api" THEN [i \in DOMAIN kept |-> Forgotten] ELSE kept
          /\ runs' = [i \in DOMAIN runs |-> IF p = Executor /\ runs[i].status = "RUNNING"
                                            THEN [runs[i] EXCEPT !.status = "LOST"] ELSE runs[i]]
      BY <2>1 DEF Restart
    <3>2. /\ Len(runs) \in Nat /\ DOMAIN runs = 1..Len(runs) /\ DOMAIN kept = 1..Len(runs)
          /\ \A i \in DOMAIN runs : RunInv(service, Mended(disk), stored, runs[i], kept[i])
      BY DEF ReplayInv, RowsInv
    <3>3. DOMAIN runs' = DOMAIN runs /\ DOMAIN kept' = DOMAIN kept
      BY <3>1
    <3>4. runs' \in Seq(Range(runs')) /\ Len(runs') = Len(runs)
      BY <3>1, <3>2, FunctionIsSeq
    <3>5. kept' \in Seq(Range(kept')) /\ Len(kept') = Len(runs)
      BY <3>1, <3>2, FunctionIsSeq DEF ReplayInv, RowsInv
    <3>6. ASSUME NEW i \in DOMAIN runs PROVE RunInv(service, Mended(disk), stored, runs'[i], kept'[i])
      <4>1. RunInv(service, Mended(disk), stored, runs[i], kept[i])
        BY <3>2
      <4>2. kept'[i] = kept[i] \/ kept'[i] = Forgotten
        BY <3>1, <3>2
      <4>3. RunInv(service, Mended(disk), stored, runs[i], kept'[i])
        BY <4>1, <4>2 DEF RunInv, Executes, Forgotten
      <4>4. CASE runs'[i] = runs[i]
        BY <4>3, <4>4
      <4>5. CASE runs'[i] = [runs[i] EXCEPT !.status = "LOST"]
        <5> DEFINE run == runs[i]
                   lost == [run EXCEPT !.status = "LOST"]
        <5>1. /\ DOMAIN lost = RunFields /\ lost.status = "LOST" /\ lost.id = run.id /\ lost.version = run.version
              /\ lost.config = run.config /\ lost.chosen = run.chosen /\ lost.failed = run.failed
              /\ lost.book_version = run.book_version
          BY <4>3 DEF RunInv, RunFields
        <5> HIDE DEF lost
        <5>2. Pinned(lost) => Pinned(run)
          BY <5>1 DEF Pinned
        <5>3. Reproduces(service, Mended(disk), run) => Reproduces(service, Mended(disk), lost)
          BY <5>1 DEF Reproduces, Anchored
        <5>4. RunInv(service, Mended(disk), stored, lost, kept'[i])
          BY <4>3, <5>1, <5>2, <5>3 DEF RunInv, Statuses
        <5> QED BY <4>5, <5>4 DEF lost
      <4> QED BY <3>1, <4>4, <4>5
    <3> QED BY <1>0, <3>1, <3>3, <3>4, <3>5, <3>6 DEF RowsInv
  <2>2. CASE ~env.database
    <3>1. runs' = <<>> /\ kept' = <<>>
      BY <2>2 DEF Restart
    <3> QED BY <3>1 DEF RowsInv
  <2> QED BY <2>1, <2>2
<1> QED BY <1>0, <1>2, <1>3, <1>4 DEF ReplayInv, DiskInv

-----------------------------------------------------------------------------
(* The steps of a run.                                                        *)

\* A deployment with its books is well formed.
LEMMA Current ==
    ASSUME ReplayInv
    PROVE  /\ service \in Services /\ FilesInv(service, Mended(disk)) /\ StoredInv(service, stored)
           /\ Len(runs) \in Nat /\ DOMAIN runs = 1..Len(runs) /\ DOMAIN kept = 1..Len(runs)
           /\ runs \in Seq(Range(runs)) /\ kept \in Seq(Range(kept)) /\ Len(kept) = Len(runs)
           /\ Executor \in {"api", "worker"}
           /\ \A q \in {"api", "worker"} : base[q] # None => EngineInv(service, Mended(disk), base[q])
           /\ \A i \in DOMAIN runs : RunInv(service, Mended(disk), stored, runs[i], kept[i])
  BY DEF ReplayInv, DiskInv, RowsInv, Executor

\* A row that changes does so by itself.
LEMMA RowStep ==
    ASSUME ReplayInv, UNCHANGED <<service, disk, freezing, live, base>>, StoredInv(service, stored'),
           \A id \in DOMAIN stored : id \in DOMAIN stored' /\ stored'[id] = stored[id],
           NEW i \in DOMAIN runs, NEW run, NEW mine, runs' = [runs EXCEPT ![i] = run],
           kept' = [kept EXCEPT ![i] = mine] \/ (kept' = kept /\ mine = kept[i]),
           RunInv(service, Mended(disk), stored', run, mine)
    PROVE  ReplayInv'
<1>1. i \in DOMAIN kept
  BY Current
<1>2. /\ runs' \in Seq(Range(runs')) /\ Len(runs') = Len(runs) /\ DOMAIN runs' = DOMAIN runs
      /\ runs'[i] = run /\ \A j \in DOMAIN runs : j # i => runs'[j] = runs[j]
  BY Current, ListUpdated
<1>3. /\ kept' \in Seq(Range(kept')) /\ Len(kept') = Len(kept)
      /\ kept'[i] = mine /\ \A j \in DOMAIN kept : j # i => kept'[j] = kept[j]
  <2>1. CASE kept' = [kept EXCEPT ![i] = mine]
    BY <1>1, <2>1, Current, ListUpdated
  <2>2. CASE kept' = kept /\ mine = kept[i]
    BY <2>2, Current
  <2> QED BY <2>1, <2>2
<1>4. ASSUME NEW j \in DOMAIN runs PROVE RunInv(service, Mended(disk), stored', runs'[j], kept'[j])
  <2>1. CASE j = i
    BY <1>2, <1>3, <2>1
  <2>2. CASE j # i
    <3>1. runs'[j] = runs[j] /\ kept'[j] = kept[j]
      BY <1>2, <1>3, <2>2, Current
    <3>2. Preserves(Mended(disk), Mended(disk))
      BY DEF Preserves
    <3>3. RunInv(service, Mended(disk), stored', runs[j], kept[j])
      BY <3>2, Current, RunKept
    <3> QED BY <3>1, <3>3
  <2> QED BY <2>1, <2>2
<1>5. RowsInv'
  BY <1>2, <1>3, <1>4, Current DEF RowsInv
<1> QED BY <1>5 DEF ReplayInv, DiskInv

LEMMA SubmitRunStep ==
    ASSUME ReplayInv, SubmitRun
    PROVE  ReplayInv'
<1>0. /\ service' = service /\ disk' = disk /\ freezing' = freezing /\ stored' = stored /\ live' = live
      /\ base' = base /\ base["api"] # None
  BY DEF SubmitRun
<1>1. PICK request \in service.requests, market \in {None} \cup Nameable :
         \E spec \in resolve_run_spec(disk, env, request, base.api) :
            runs' = Append(runs, [request |-> request, id |-> spec.id, version |-> spec.version,
                                  config |-> spec.config, market |-> market, book_version |-> live,
                                  status |-> "QUEUED", failed |-> None, chosen |-> spec.engine,
                                  spec |-> None, ran |-> None])
  BY DEF SubmitRun
<1>2. PICK spec \in resolve_run_spec(disk, env, request, base.api) :
            runs' = Append(runs, [request |-> request, id |-> spec.id, version |-> spec.version,
                                  config |-> spec.config, market |-> market, book_version |-> live,
                                  status |-> "QUEUED", failed |-> None, chosen |-> spec.engine,
                                  spec |-> None, ran |-> None])
  BY <1>1
<1> DEFINE run == [request |-> request, id |-> spec.id, version |-> spec.version,
                   config |-> spec.config, market |-> market, book_version |-> live,
                   status |-> "QUEUED", failed |-> None, chosen |-> spec.engine,
                   spec |-> None, ran |-> None]
           mine == [book |-> service.books[live], market |-> None]
<1>3. kept' = Append(kept, mine)
  BY DEF SubmitRun
<1>4. Pinned(run) => Reproduces(service, Mended(disk), run)
  <2> SUFFICES ASSUME Pinned(run) PROVE Reproduces(service, Mended(disk), run)
    OBVIOUS
  <2>1. Pinned(spec)
    BY DEF Pinned
  <2>2. request.config \in Configs \cup {None}
    BY Current, RequestsAssumption
  <2>3. base.api # None /\ EngineInv(service, Mended(disk), base.api)
    BY <1>0, Current
  <2>4. /\ Anchored(Mended(disk), spec) /\ spec.config \in Configs
        /\ dataset_identity(spec.engine.dataset) = <<spec.id, spec.version>>
        /\ build_historical_risk_engine(Mended(disk), service.env, spec.id, spec.version, spec.config.seed,
                                        spec.config.observations) = {spec.engine}
    <3>2. service \in Services /\ FilesInv(service, Mended(disk))
      BY Current
    <3>1. spec \in resolve_run_spec(Mended(disk), service.env, request, base.api)
      BY <3>2, SpecsMended DEF env
    <3> QED BY <2>1, <2>2, <2>3, <3>1, <3>2, Submitted
  <2>5. Anchored(Mended(disk), run)
    BY <2>4 DEF Anchored
  <2> QED BY <2>4, <2>5 DEF Reproduces
<1>5. RunInv(service, Mended(disk), stored, run, mine)
  <2>1. run.failed \notin {"specification", "engine"}
    BY RequestsAssumption DEF Failures
  <2>2. live \in DOMAIN service.books
    BY DEF ReplayInv
  <2> QED BY <1>4, <2>1, <2>2 DEF RunInv, RunFields, Statuses
<1> HIDE DEF run, mine
<1>6. runs' = Append(runs, run)
  BY <1>2 DEF run
<1>7. /\ runs' \in Seq(Range(runs')) /\ Len(runs') = Len(runs) + 1 /\ DOMAIN runs' = 1..Len(runs) + 1
      /\ runs'[Len(runs) + 1] = run /\ \A i \in DOMAIN runs : runs'[i] = runs[i]
  BY <1>6, Current, Appended
<1>8. /\ kept' \in Seq(Range(kept')) /\ Len(kept') = Len(runs) + 1
      /\ kept'[Len(runs) + 1] = mine /\ \A i \in DOMAIN runs : kept'[i] = kept[i]
  BY <1>3, Current, Appended
<1>9. ASSUME NEW i \in DOMAIN runs' PROVE RunInv(service, Mended(disk), stored, runs'[i], kept'[i])
  <2>1. CASE i \in DOMAIN runs
    BY <1>7, <1>8, <2>1, Current
  <2>2. CASE i \notin DOMAIN runs
    <3>1. i = Len(runs) + 1
      BY <1>7, <2>2, Current
    <3> QED BY <1>5, <1>7, <1>8, <3>1
  <2> QED BY <2>1, <2>2
<1>10. RowsInv'
  BY <1>0, <1>7, <1>8, <1>9 DEF RowsInv
<1> QED BY <1>0, <1>10 DEF ReplayInv, DiskInv

\* Rows of one identity, configuration and engine mean the same.
LEMMA Kin ==
    ASSUME NEW s, NEW d, NEW run, NEW run2, run2.id = run.id, run2.version = run.version,
           run2.config = run.config, run2.chosen = run.chosen
    PROVE  /\ Pinned(run2) <=> Pinned(run)
           /\ Reproduces(s, d, run) => Reproduces(s, d, run2)
<1>1. Pinned(run2) <=> Pinned(run)
  BY DEF Pinned
<1>2. Anchored(d, run) => Anchored(d, run2)
  BY DEF Anchored
<1> QED BY <1>1, <1>2 DEF Reproduces

\* A run that is refused keeps its identity; a pinned one is not refused for
\* its data.
LEMMA RefusedStep ==
    ASSUME ReplayInv, UNCHANGED <<service, disk, freezing, live, base, stored, kept>>,
           NEW i \in DOMAIN runs, NEW why, runs' = Refused(i, why),
           Pinned(runs[i]) => why \notin {"specification", "engine"}
    PROVE  ReplayInv'
<1> DEFINE run == runs[i]
           refused == [run EXCEPT !.status = "FAILED", !.failed = why]
<1>1. RunInv(service, Mended(disk), stored, run, kept[i])
  BY Current
<1>2. runs' = [runs EXCEPT ![i] = refused]
  BY DEF Refused
<1>3. /\ DOMAIN refused = RunFields /\ refused.status = "FAILED" /\ refused.failed = why
      /\ refused.id = run.id /\ refused.version = run.version /\ refused.config = run.config
      /\ refused.chosen = run.chosen /\ refused.book_version = run.book_version
  BY <1>1 DEF RunInv, RunFields
<1> HIDE DEF refused
<1>4. RunInv(service, Mended(disk), stored, refused, kept[i])
  BY <1>1, <1>3, Kin DEF RunInv, Statuses
<1> QED BY <1>2, <1>4, RowStep, Current

LEMMA ResolveStep ==
    ASSUME ReplayInv, NEW i \in DOMAIN runs, Resolve(i)
    PROVE  ReplayInv'
<1> DEFINE run == runs[i]
           specs == resolve_execute_spec(disk, service.env, run, base[Executor])
           book == IF service.env.external THEN service.books[live] ELSE kept[i].book
<1>0. /\ UNCHANGED <<service, disk, freezing, live, base>> /\ run.status = "QUEUED"
      /\ service.env.external \/ kept[i].book # None
  BY DEF Resolve, env
<1>1. RunInv(service, Mended(disk), stored, run, kept[i]) /\ service \in Services /\ FilesInv(service, Mended(disk))
      /\ StoredInv(service, stored)
  BY Current
<1>2. \/ specs = {} /\ Reject(i, DataError(i, "specification"))
      \/ Reject(i, "market")
      \/ \E spec \in specs, market \in MarketOf(run) : Assign(i, spec, market)
  <2> HIDE DEF specs
  <2> QED BY DEF Resolve, env, specs
<1>3. Pinned(run) => specs \subseteq {SpecOf(run)} /\ (~SidecarTorn(disk, run.version) => specs # {})
  <2> SUFFICES ASSUME Pinned(run)
               PROVE specs \subseteq {SpecOf(run)} /\ (~SidecarTorn(disk, run.version) => specs # {})
    OBVIOUS
  <2>1. Reproduces(service, Mended(disk), run)
    BY <1>1 DEF RunInv
  <2>2. \A b : /\ resolve_execute_spec(disk, service.env, run, b) \subseteq {SpecOf(run)}
               /\ ~SidecarTorn(disk, run.version) => resolve_execute_spec(disk, service.env, run, b) = {SpecOf(run)}
    <3> HIDE DEF run
    <3> QED BY <1>1, <2>1, Bindable
  <2> QED BY <2>2
<1>4. CASE specs = {} /\ Reject(i, DataError(i, "specification"))
  <2>1. Pinned(run) => DataError(i, "specification") = "sidecar"
    BY <1>3, <1>4 DEF DataError
  <2>2. Pinned(run) => DataError(i, "specification") \notin {"specification", "engine"}
    BY <2>1
  <2> QED BY <1>0, <1>4, <2>2, RefusedStep DEF Reject
<1>5. CASE Reject(i, "market")
  BY <1>0, <1>5, RefusedStep DEF Reject
<1>6. ASSUME NEW spec \in specs, NEW market \in MarketOf(run), Assign(i, spec, market)
      PROVE  ReplayInv'
  <2> DEFINE next == [run EXCEPT !.status = "RUNNING", !.market = market.id,
                        !.spec = [id |-> spec.id, version |-> spec.version, config |-> spec.config],
                        !.ran = [book |-> book, market |-> market]]
             mine == IF service.env.external THEN kept[i] ELSE [book |-> book, market |-> market]
  <2>0. /\ stored' = IF market.id \in DOMAIN stored THEN stored ELSE Put(stored, market.id, market)
        /\ runs' = [runs EXCEPT ![i] = next]
        /\ kept' = IF service.env.external THEN kept ELSE [kept EXCEPT ![i] = [book |-> book, market |-> market]]
    BY <1>6 DEF Assign, BookOf, env
  <2>1. market.id \in DOMAIN stored => stored[market.id] = market
    <3>1. CASE run.market = None
      BY <1>1, <3>1 DEF MarketOf, StoredInv
    <3>2. CASE run.market # None
      BY <1>1, <3>2 DEF MarketOf, StoredInv
    <3> QED BY <3>1, <3>2
  <2>2. /\ DOMAIN stored' = DOMAIN stored \cup {market.id} /\ stored'[market.id] = market
        /\ \A id \in DOMAIN stored : stored'[id] = stored[id]
    <3>1. CASE market.id \in DOMAIN stored
      BY <2>0, <2>1, <3>1
    <3>2. CASE market.id \notin DOMAIN stored
      <4>1. stored' = Put(stored, market.id, market)
        BY <2>0, <3>2
      <4> QED BY <3>2, <4>1 DEF Put
    <3> QED BY <3>1, <3>2
  <2>3. StoredInv(service, stored')
    <3>1. service.market.id = market.id => service.market = market
      <4>1. CASE run.market = None
        BY <4>1 DEF MarketOf
      <4>2. CASE run.market # None
        BY <1>1, <4>2 DEF MarketOf, StoredInv
      <4> QED BY <4>1, <4>2
    <3> QED BY <1>1, <2>2, <3>1 DEF StoredInv
  <2>5. kept' = [kept EXCEPT ![i] = mine] \/ (kept' = kept /\ mine = kept[i])
    <3>1. CASE service.env.external
      BY <2>0, <3>1
    <3>2. CASE ~service.env.external
      BY <2>0, <3>2
    <3> QED BY <3>1, <3>2
  <2>6. /\ DOMAIN next = RunFields /\ next.status = "RUNNING" /\ next.market = market.id
        /\ next.spec = [id |-> spec.id, version |-> spec.version, config |-> spec.config]
        /\ next.ran = [book |-> book, market |-> market]
        /\ next.id = run.id /\ next.version = run.version /\ next.config = run.config
        /\ next.chosen = run.chosen /\ next.book_version = run.book_version /\ next.failed = run.failed
    BY <1>1 DEF RunInv, RunFields
  <2>7. ~service.env.external => book = service.books[run.book_version]
    BY <1>0, <1>1 DEF RunInv
  <2>8. /\ DOMAIN mine = {"book", "market"} /\ mine.book \in {None, service.books[run.book_version]}
        /\ mine.market \in {None, market}
    BY <1>0, <1>1, <2>7 DEF RunInv
  <2> HIDE DEF next, mine, book
  <2>9. Executes(service, stored', next, mine)
    BY <2>2, <2>6, <2>7, <2>8 DEF Executes
  <2>10. Pinned(run) => spec.id = run.id /\ spec.version = run.version /\ spec.config = run.config
    BY <1>3 DEF SpecOf
  <2>11. RunInv(service, Mended(disk), stored', next, mine)
    BY <1>1, <2>6, <2>8, <2>9, <2>10, Kin DEF RunInv, Statuses
  <2> QED BY <1>0, <2>0, <2>2, <2>3, <2>5, <2>11, RowStep
<1> QED BY <1>2, <1>4, <1>5, <1>6

LEMMA BuildStep ==
    ASSUME ReplayInv, NEW i \in DOMAIN runs, Build(i)
    PROVE  ReplayInv'
<1> DEFINE run == runs[i]
           engines == portfolio_service_for_spec(disk, service.env, base[Executor], run.spec)
<1>0. /\ UNCHANGED <<service, disk, freezing, live, base, stored, kept>> /\ run.status = "RUNNING"
      /\ base[Executor] # None
  BY DEF Build
<1>1. /\ RunInv(service, Mended(disk), stored, run, kept[i]) /\ service \in Services /\ FilesInv(service, Mended(disk))
      /\ StoredInv(service, stored) /\ EngineInv(service, Mended(disk), base[Executor])
  BY <1>0, Current
<1>2. \/ engines = {} /\ runs' = Refused(i, DataError(i, "engine"))
      \/ runs' = Refused(i, "computation")
      \/ \E built \in engines :
            runs' = [runs EXCEPT ![i].status = "COMPLETED", ![i].ran = Put(@, "engine", built)]
  BY DEF Build, env
<1>3. Pinned(run) => /\ ~SidecarTorn(disk, run.version) => engines # {}
                     /\ \A e \in engines : SameHistory(e, run.chosen)
  <2> SUFFICES ASSUME Pinned(run)
               PROVE  /\ ~SidecarTorn(disk, run.version) => engines # {}
                      /\ \A e \in engines : SameHistory(e, run.chosen)
    OBVIOUS
  <2>1. run.spec = [id |-> run.id, version |-> run.version, config |-> run.config]
    BY <1>0, <1>1 DEF RunInv
  <2>2. Reproduces(service, Mended(disk), run)
    BY <1>1 DEF RunInv
  <2> QED BY <1>1, <2>1, <2>2, Executed
<1>4. CASE engines = {} /\ runs' = Refused(i, DataError(i, "engine"))
  <2>1. Pinned(run) => DataError(i, "engine") = "sidecar"
    BY <1>3, <1>4 DEF DataError
  <2>2. Pinned(run) => DataError(i, "engine") \notin {"specification", "engine"}
    BY <2>1
  <2> QED BY <1>0, <1>4, <2>2, RefusedStep
<1>5. CASE runs' = Refused(i, "computation")
  BY <1>0, <1>5, RefusedStep
<1>6. ASSUME NEW built \in engines,
             runs' = [runs EXCEPT ![i].status = "COMPLETED", ![i].ran = Put(@, "engine", built)]
      PROVE  ReplayInv'
  <2> DEFINE next == [run EXCEPT !.status = "COMPLETED", !.ran = Put(run.ran, "engine", built)]
  <2>1. runs' = [runs EXCEPT ![i] = next]
    BY <1>6
  <2>2. /\ DOMAIN next = RunFields /\ next.status = "COMPLETED" /\ next.market = run.market
        /\ next.ran = Put(run.ran, "engine", built)
        /\ next.id = run.id /\ next.version = run.version /\ next.config = run.config
        /\ next.chosen = run.chosen /\ next.book_version = run.book_version /\ next.failed = run.failed
    BY <1>1 DEF RunInv, RunFields
  <2> HIDE DEF next
  <2>3. Executes(service, stored, run, kept[i])
    BY <1>0, <1>1 DEF RunInv
  <2>4. /\ {"book", "market"} \subseteq DOMAIN next.ran /\ next.ran.engine = built
        /\ next.ran.book = run.ran.book /\ next.ran.market = run.ran.market
    BY <2>2, <2>3 DEF Executes, Put
  <2>5. Executes(service, stored, next, kept[i])
    BY <2>2, <2>3, <2>4 DEF Executes
  <2>6. Pinned(run) => SameHistory(next.ran.engine, next.chosen)
    BY <1>3, <2>2, <2>4
  <2>7. RunInv(service, Mended(disk), stored, next, kept[i])
    BY <1>1, <2>2, <2>5, <2>6, Kin DEF RunInv, Statuses
  <2> QED BY <1>0, <1>1, <2>1, <2>7, RowStep
<1> QED BY <1>2, <1>4, <1>5, <1>6

LEMMA FreezeDiesStep ==
    ASSUME ReplayInv, FreezeDies
    PROVE  ReplayInv'
<1>1. UNCHANGED <<service, disk, stored, live, base, runs, kept>> /\ freezing' = None
  BY DEF FreezeDies
<1>2. DiskInv'
  BY <1>1 DEF ReplayInv, DiskInv
<1> QED BY <1>1, <1>2 DEF ReplayInv, RowsInv

-----------------------------------------------------------------------------
(* The invariant, and what follows from it.                                   *)

LEMMA ReplayInit ==
    ASSUME RunsInit
    PROVE  ReplayInv
<1> DEFINE s == service
<1>0. /\ s \in Services /\ disk = s.disk /\ freezing = None /\ stored = s.stored /\ live = 1
      /\ base = [p \in {"api", "worker"} |-> Started(s, disk)] /\ runs = <<>> /\ kept = <<>>
  BY DEF RunsInit
<1>1. live \in DOMAIN s.books
  <2>1. s.books \in Seq(Range(s.books)) /\ s.books # <<>>
    BY <1>0, RequestsAssumption
  <2> QED BY <1>0, <2>1
<1>2. Range(disk.order) = {v \in {Stem(p) : p \in DOMAIN disk.files} : is_content_hash(v)}
  BY <1>0, FilesAssumption
<1>3. FilesInv(s, Mended(disk))
  <2> DEFINE m == Mended(s.disk)
  <2>1. \A p \in DOMAIN s.disk.files : IsFrozenPath(p) => Stem(p) \in FrozenVersions(s)
    BY DEF FrozenVersions
  <2>2. m = [files |-> m.files, order |-> m.order] /\ DOMAIN m.files = DOMAIN s.disk.files /\ m.order = s.disk.order
    BY DEF Mended
  <2> HIDE DEF m
  <2>3. OrderOK(m)
    BY <1>0, <2>2, FilesAssumption DEF OrderOK
  <2>4. \A p \in DOMAIN m.files : FileOK(p, m.files[p])
    BY <1>0, <2>2, FilesAssumption DEF m
  <2>5. FilesInv(s, m)
    BY <2>1, <2>2, <2>3, <2>4 DEF FilesInv
  <2> QED BY <1>0, <2>5 DEF m
<1>4. DiskInv
  BY <1>0, <1>3, FilesAssumption DEF DiskInv
<1>5. StoredInv(s, stored)
  BY <1>0, SnapshotsAssumption DEF StoredInv
<1>6. RowsInv
  BY <1>0 DEF RowsInv
<1>7. \A p \in {"api", "worker"} : base[p] # None => EngineInv(s, Mended(disk), base[p])
  <2>1. \A p \in {"api", "worker"} : base[p] = Started(s, disk)
    BY <1>0
  <2>2. Started(s, disk) # None => EngineInv(s, Mended(disk), Started(s, disk))
    BY <1>0, <1>3, StartedInv
  <2> QED BY <2>1, <2>2
<1> QED BY <1>0, <1>1, <1>2, <1>4, <1>5, <1>6, <1>7 DEF ReplayInv

LEMMA ReplayStep ==
    ASSUME ReplayInv, [RunsNext]_runsVars
    PROVE  ReplayInv'
<1>1. CASE UNCHANGED runsVars
  BY <1>1 DEF runsVars, ReplayInv, DiskInv, RowsInv
<1>2. ASSUME NEW p \in {"api", Executor}, Restart(p) PROVE ReplayInv'
  BY <1>2, RestartStep
<1>3. CASE WriteCsv
  BY <1>3, WriteCsvStep
<1>4. CASE WriteSidecar
  BY <1>4, WriteSidecarStep
<1>12. CASE TruncateSidecar
  BY <1>12, TruncateSidecarStep
<1>5. CASE FreezeDies
  BY <1>5, FreezeDiesStep
<1>6. CASE EditFile
  BY <1>6, EditFileStep
<1>7. CASE TakeSnapshot
  BY <1>7, TakeSnapshotStep
<1>8. CASE ReplaceBook
  BY <1>8, ReplaceBookStep
<1>9. CASE SubmitRun
  BY <1>9, SubmitRunStep
<1>10. ASSUME NEW i \in DOMAIN runs, Resolve(i) PROVE ReplayInv'
  BY <1>10, ResolveStep
<1>11. ASSUME NEW i \in DOMAIN runs, Build(i) PROVE ReplayInv'
  BY <1>11, BuildStep
<1> QED BY <1>1, <1>2, <1>3, <1>4, <1>5, <1>6, <1>7, <1>8, <1>9, <1>10, <1>11, <1>12 DEF RunsNext

LEMMA ReplayTypes ==
    ASSUME ReplayInv
    PROVE  RunsTypeOK
  BY DEF ReplayInv, RowsInv, RunInv, Statuses, RunsTypeOK

\* What is explained is what was executed.
LEMMA ReplayMeans ==
    ASSUME ReplayInv
    PROVE  RunsReplay
<1> SUFFICES ASSUME NEW i \in DOMAIN runs, Pinned(runs[i])
             PROVE  /\ runs[i].failed \notin {"specification", "engine"}
                    /\ runs[i].status = "COMPLETED" => ReplaysAs(i, runs[i])
  BY DEF RunsReplay
<1> DEFINE run == runs[i]
           mine == kept[i]
<1>1. /\ RunInv(service, Mended(disk), stored, run, mine) /\ service \in Services /\ FilesInv(service, Mended(disk))
      /\ StoredInv(service, stored)
  BY Current
<1>2. run.failed \notin {"specification", "engine"} /\ Reproduces(service, Mended(disk), run)
  BY <1>1 DEF RunInv
<1>3. ASSUME run.status = "COMPLETED" PROVE ReplaysAs(i, run)
  <2>1. SameHistory(run.ran.engine, run.chosen) /\ Executes(service, stored, run, mine)
    BY <1>1, <1>3 DEF RunInv
  <2>3. ASSUME ~SidecarTorn(disk, run.version) PROVE \E e \in bound_engine(i) : SameHistory(e, run.ran.engine)
    <3>1. /\ resolve_execute_spec(disk, service.env, run, None) = {SpecOf(run)}
          /\ build_historical_risk_engine_for_spec(disk, service.env, SpecOf(run)) = {run.chosen}
      <4>1. Pinned(run) /\ ~SidecarTorn(disk, run.version)
        BY <2>3
      <4> HIDE DEF run
      <4> QED BY <1>1, <1>2, <4>1, Bindable
    <3>2. run.chosen \in bound_engine(i)
      BY <3>1 DEF bound_engine, env
    <3> QED BY <2>1, <3>2 DEF SameHistory
  <2>4. run.market \in DOMAIN stored /\ stored[run.market] = run.ran.market /\ run.market = run.ran.market.id
    BY <1>1, <2>1 DEF Executes, StoredInv
  <2>5. bound_market(i) = {run.ran.market}
    <3>1. CASE mine.market = None
      BY <2>4, <3>1 DEF bound_market
    <3>2. CASE mine.market # None
      <4>1. mine.market = run.ran.market
        BY <2>1, <3>2 DEF Executes
      <4> QED BY <2>4, <3>2, <4>1 DEF bound_market
    <3> QED BY <3>1, <3>2
  <2>6. ~service.env.external => bound_portfolio(i) \subseteq {run.ran.book}
    BY <1>1, <2>1 DEF bound_portfolio, RunInv, Executes
  <2> QED BY <2>1, <2>3, <2>5, <2>6 DEF ReplaysAs, env
<1> QED BY <1>2, <1>3

-----------------------------------------------------------------------------
(* A frozen history's levels.                                                 *)

\* A mapping's symbol is the last part of its instrument's name.
LEMMA MappedSymbol ==
    ASSUME NEW i \in DOMAIN WAVE_A_FACTOR_MAPPINGS
    PROVE  WAVE_A_FACTOR_MAPPINGS[i].source_symbol = Last(WAVE_A_FACTOR_MAPPINGS[i].instrument_id)
<1>1. i \in {1, 2, 3, 4, 5, 6, 7}
  BY DEF WAVE_A_FACTOR_MAPPINGS
<1>2. /\ WAVE_A_FACTOR_MAPPINGS[1] = EquityMapping("equity", "AAPL")
      /\ WAVE_A_FACTOR_MAPPINGS[2] = EquityMapping("equity", "MSFT")
      /\ WAVE_A_FACTOR_MAPPINGS[3] = EquityMapping("equity", "NVDA")
      /\ WAVE_A_FACTOR_MAPPINGS[4] = EquityMapping("equity", "SPY")
      /\ WAVE_A_FACTOR_MAPPINGS[5] = RateMapping("DGS2", "2Y")
      /\ WAVE_A_FACTOR_MAPPINGS[6] = RateMapping("DGS5", "5Y")
      /\ WAVE_A_FACTOR_MAPPINGS[7] = RateMapping("DGS10", "10Y")
  BY DEF WAVE_A_FACTOR_MAPPINGS
<1>3. \A id, factor, provider, unit, kind :
         /\ FactorMapping(id, factor, provider, unit, kind).source_symbol = Last(id)
         /\ FactorMapping(id, factor, provider, unit, kind).instrument_id = id
  BY DEF FactorMapping
<1>4. \A c, s : EquityMapping(c, s).source_symbol = Last(EquityMapping(c, s).instrument_id)
  BY <1>3 DEF EquityMapping
<1>5. \A c, s : RateMapping(c, s).source_symbol = Last(RateMapping(c, s).instrument_id)
  BY <1>3 DEF RateMapping
<1> QED BY <1>1, <1>2, <1>4, <1>5

\* A move of whole percents, or of hundredths of one, leads back to the level.
LEMMA StepBack ==
    ASSUME NEW was \in Int, NEW now \in Int
    PROVE  /\ was > 0 /\ (100 * (now - was)) % was = 0
                 => (was * (100 + equity_relative_return(was, now))) \div 100 = now
           /\ was + percent_level_move_to_bps(was, now) = now
<1>1. ASSUME was > 0, (100 * (now - was)) % was = 0
      PROVE  (was * (100 + equity_relative_return(was, now))) \div 100 = now
  <2> DEFINE x == 100 * (now - was)
             q == x \div was
  <2>1. x \in Int /\ q \in Int /\ x = was * q + (x % was)
    BY <1>1
  <2>2. was * q = x
    BY <1>1, <2>1
  <2>3. was * (100 + q) = 100 * was + was * q
    BY <2>1
  <2>4. was * (100 + q) = 100 * now
    BY <2>2, <2>3
  <2>5. (100 * now) \div 100 = now
    OBVIOUS
  <2> QED BY <2>4, <2>5 DEF equity_relative_return
<1>2. was + percent_level_move_to_bps(was, now) = now
  BY DEF percent_level_move_to_bps, percent_level_to_decimal, DecimalRateToBps
<1> QED BY <1>1, <1>2

\* A function that takes no value twice is an injection.
LEMMA IsInjection ==
    ASSUME NEW S, NEW T, NEW f \in [S -> T], \A x, y \in S : x # y => f[x] # f[y]
    PROVE  f \in Injection(S, T)
<1>1. IsInjective(f)
  BY DEF IsInjective
<1> QED BY <1>1 DEF Injection

\* The days of a finite set in their order are all its own.
LEMMA InOrderDays ==
    ASSUME NEW D, IsFiniteSet(D), D \subseteq Int
    PROVE  LET N == Cardinality(D) IN
           /\ N \in Nat /\ InOrder(D) \in Seq(D) /\ Len(InOrder(D)) = N
<1> DEFINE N == Cardinality(D)
           Before(d) == {e \in D : e < d}
           rank == [d \in D |-> Cardinality(Before(d))]
           Nth(n) == CHOOSE d \in D : Cardinality(Before(d)) = n - 1
<1>1. N \in Nat
  BY FS_CardinalityType
<1>2. ASSUME NEW d \in D PROVE IsFiniteSet(Before(d)) /\ Cardinality(Before(d)) \in 0..N - 1
  <2>1. IsFiniteSet(Before(d)) /\ Cardinality(Before(d)) <= N /\ (N = Cardinality(Before(d)) => D = Before(d))
    BY FS_Subset
  <2>2. d \notin Before(d)
    BY <1>2
  <2>3. Cardinality(Before(d)) \in Nat
    BY <2>1, FS_CardinalityType
  <2> HIDE DEF N, Before
  <2> QED BY <1>1, <1>2, <2>1, <2>2, <2>3
<1>3. ASSUME NEW d \in D, NEW e \in D, d < e PROVE rank[d] < rank[e]
  <2>1. Before(d) \subseteq Before(e) /\ d \in Before(e) /\ d \notin Before(d)
    <3>1. ASSUME NEW x \in Before(d) PROVE x \in Before(e)
      <4>1. x \in Int /\ d \in Int /\ e \in Int /\ x < d
        OBVIOUS
      <4>2. x < e
        BY <1>3, <4>1
      <4> QED BY <4>2
    <3>2. ~(d < d)
      <4>1. d \in Int
        OBVIOUS
      <4> QED BY <4>1
    <3> QED BY <1>3, <3>1, <3>2
  <2>2. IsFiniteSet(Before(e)) /\ IsFiniteSet(Before(d))
    BY <1>2
  <2> HIDE DEF Before
  <2>3. Cardinality(Before(d)) <= Cardinality(Before(e)) /\ Cardinality(Before(d)) # Cardinality(Before(e))
    BY <2>1, <2>2, FS_Subset
  <2>4. Cardinality(Before(d)) \in Nat /\ Cardinality(Before(e)) \in Nat
    BY <2>2, FS_CardinalityType
  <2> QED BY <2>3, <2>4
<1>4. rank \in Injection(D, 0..N - 1)
  <2>1. rank \in [D -> 0..N - 1]
    BY <1>2
  <2> HIDE DEF rank
  <2>2. \A d \in D : rank[d] \in Int
    BY <2>1
  <2>3. ASSUME NEW d \in D, NEW e \in D, d # e PROVE rank[d] # rank[e]
    <3>1. d < e \/ e < d
      BY <2>3
    <3> QED BY <1>3, <2>2, <3>1
  <2> HIDE DEF N
  <2> QED BY <2>1, <2>3, IsInjection
<1>5. IsFiniteSet(0..N - 1) /\ Cardinality(0..N - 1) = N
  BY <1>1, FS_Interval
<1>6. rank \in Surjection(D, 0..N - 1)
  <2> HIDE DEF rank, N
  <2> QED BY <1>4, <1>5, FS_Injection DEF N
<1>7. ASSUME NEW n \in 1..N PROVE Nth(n) \in D
  <2>1. n - 1 \in 0..N - 1
    BY <1>1
  <2>2. \E d \in D : rank[d] = n - 1
    <3> HIDE DEF rank, N
    <3> QED BY <1>6, <2>1 DEF Surjection
  <2>3. \E d \in D : Cardinality(Before(d)) = n - 1
    BY <2>2
  <2> HIDE DEF Before
  <2> QED BY <2>3
<1>8. InOrder(D) = [n \in 1..N |-> Nth(n)]
  BY DEF InOrder
<1> HIDE DEF Nth, N
<1>9. InOrder(D) \in [1..N -> D]
  BY <1>7, <1>8
<1> QED BY <1>1, <1>9 DEF N

\* What a body's points are.
LEMMA PointsTyped ==
    ASSUME NEW rows, rows \in Seq(Range(rows)),
           \A row \in Range(rows) : row[1] \in Int /\ (row[2] # None => row[2] \in Int),
           NEW start, NEW end
    PROVE  LET points == collect_points(rows, start, end) IN
           /\ IsFiniteSet(DOMAIN points) /\ DOMAIN points \subseteq Int
           /\ \A day \in DOMAIN points : points[day] \in Int
<1> DEFINE valued == {i \in DOMAIN rows : start <= rows[i][1] /\ rows[i][1] <= end /\ rows[i][2] # None}
           days == {rows[i][1] : i \in valued}
           First(day) == CHOOSE i \in valued : rows[i][1] = day /\ \A j \in valued : rows[j][1] = day => i <= j
           points == [day \in days |-> rows[First(day)][2]]
<1>1. collect_points(rows, start, end) = points
  BY DEF collect_points
<1>2. Len(rows) \in Nat /\ DOMAIN rows = 1..Len(rows)
  OBVIOUS
<1>3. IsFiniteSet(DOMAIN rows)
  BY <1>2, FS_Interval
<1>4. valued \subseteq Nat /\ \A i \in valued : rows[i][1] \in Int /\ rows[i][2] \in Int
  <2>1. \A i \in DOMAIN rows : rows[i] \in Range(rows)
    BY DEF Range
  <2> QED BY <1>2, <2>1
<1>5. ASSUME NEW day \in days PROVE First(day) \in valued
  <2> DEFINE T == {i \in valued : rows[i][1] = day}
  <2>1. T \subseteq Nat /\ T # {}
    BY <1>4
  <2>2. \E i \in T : \A j \in T : i <= j
    <3> HIDE DEF T
    <3> QED BY <2>1, LeastNat
  <2>3. \E i \in valued : rows[i][1] = day /\ \A j \in valued : rows[j][1] = day => i <= j
    BY <2>2
  <2> HIDE DEF valued
  <2> QED BY <2>3
<1>6. IsFiniteSet(DOMAIN collect_points(rows, start, end))
  BY <1>3, PointsFinite
<1>7. days \subseteq Int
  BY <1>4
<1>8. ASSUME NEW day \in days PROVE rows[First(day)][2] \in Int
  <2> HIDE DEF valued, First
  <2> QED BY <1>4, <1>5, <1>8
<1> HIDE DEF days, First
<1> QED BY <1>1, <1>6, <1>7, <1>8

\* What a freeze is made of: series of whole amounts on days, prices that are
\* above nothing, and no others than these for the same dates.
LEMMA FreezeSource ==
    ASSUME NEW s \in Services, NEW f \in Freezes(s)
    PROVE  \E w \in DOMAIN s.vintages : \E all \in FetchedSeries(s.vintages[w], s.start, s.end) :
              /\ FetchedSeries(f.vintage, f.start, f.end) = {all}
              /\ \A i \in DOMAIN all : ValidSeries(all[i], MinAlignedReturns + 1)
              /\ Cardinality(CommonDays(all)) >= MinAlignedReturns + 1
              /\ f.rows = LevelMoves(all, InOrder(CommonDays(all)))
<1>1. PICK w \in DOMAIN s.vintages : f \in freeze_public_history(s.vintages[w], s.start, s.end)
  BY DEF Freezes
<1> DEFINE v == s.vintages[w]
           Fetched == FetchedSeries(v, s.start, s.end)
<1>2. PICK all \in Fetched :
         /\ \A i \in DOMAIN all : ValidSeries(all[i], MinAlignedReturns + 1)
         /\ \E days \in align_series(all, MinAlignedReturns + 1) :
               f = [version |-> panel_content_version(days, LevelMoves(all, days)), rows |-> LevelMoves(all, days),
                    vintage |-> v, start |-> s.start, end |-> s.end]
  <2> HIDE DEF Fetched, v
  <2>1. f \in freeze_public_history(v, s.start, s.end)
    BY <1>1 DEF v
  <2> DEFINE valid == {x \in FetchedSeries(v, s.start, s.end) :
                          \A i \in DOMAIN x : ValidSeries(x[i], MinAlignedReturns + 1)}
             panels(all) == {<<days, LevelMoves(all, days)>> : days \in align_series(all, MinAlignedReturns + 1)}
             made(p) == [version |-> panel_content_version(p[1], p[2]), rows |-> p[2],
                         vintage |-> v, start |-> s.start, end |-> s.end]
  <2>2. f \in UNION {{made(p) : p \in panels(all)} : all \in valid}
    BY <2>1 DEF freeze_public_history
  <2>3. PICK all \in valid : \E p \in panels(all) : f = made(p)
    BY <2>2
  <2>4. PICK p \in panels(all) : f = made(p)
    BY <2>3
  <2>5. PICK days \in align_series(all, MinAlignedReturns + 1) : p = <<days, LevelMoves(all, days)>>
    BY <2>4
  <2>6. f = [version |-> panel_content_version(days, LevelMoves(all, days)), rows |-> LevelMoves(all, days),
             vintage |-> v, start |-> s.start, end |-> s.end]
    BY <2>4, <2>5
  <2>7. all \in Fetched /\ \A i \in DOMAIN all : ValidSeries(all[i], MinAlignedReturns + 1)
    BY DEF Fetched
  <2> QED BY <2>6, <2>7
<1>3. PICK days \in align_series(all, MinAlignedReturns + 1) :
         f = [version |-> panel_content_version(days, LevelMoves(all, days)), rows |-> LevelMoves(all, days),
              vintage |-> v, start |-> s.start, end |-> s.end]
  BY <1>2
<1>4. f.rows = LevelMoves(all, days) /\ f.vintage = v /\ f.start = s.start /\ f.end = s.end
  BY <1>3
<1>5. CommonDays(all) = CommonDays(all) /\ days = InOrder(CommonDays(all))
      /\ ~(Cardinality(CommonDays(all)) < MinAlignedReturns + 1)
  BY <1>3 DEF align_series
<1>6. Fetched = {all}
  BY <1>2 DEF FetchedSeries
<1>7. FetchedSeries(f.vintage, f.start, f.end) = {all}
  BY <1>4, <1>6
<1>8. Cardinality(CommonDays(all)) >= MinAlignedReturns + 1
  <2>1. IsFiniteSet(CommonDays(all))
    BY <1>2, FirstSeriesFinite, FS_Subset DEF CommonDays
  <2>2. Cardinality(CommonDays(all)) \in Nat /\ MinAlignedReturns \in Nat
    BY <2>1, FS_CardinalityType, MinAlignedAssumption
  <2> QED BY <1>5, <2>2
<1> QED BY <1>2, <1>4, <1>5, <1>7, <1>8

\* Every series that is fetched has whole amounts on days, a price in its unit.
SeriesOK(all) ==
    \A i \in DOMAIN all :
        /\ IsFiniteSet(DOMAIN all[i].points) /\ DOMAIN all[i].points \subseteq Int
        /\ \A day \in DOMAIN all[i].points : all[i].points[day] \in Int
        /\ WAVE_A_FACTOR_MAPPINGS[i].kind = "equity" => all[i].unit = "price"
LEMMA SeriesTyped ==
    ASSUME NEW s \in Services, NEW w \in DOMAIN s.vintages, NEW start, NEW end,
           NEW all \in FetchedSeries(s.vintages[w], start, end)
    PROVE  SeriesOK(all)
<1> SUFFICES ASSUME NEW i \in DOMAIN all
             PROVE  /\ IsFiniteSet(DOMAIN all[i].points) /\ DOMAIN all[i].points \subseteq Int
                    /\ \A day \in DOMAIN all[i].points : all[i].points[day] \in Int
                    /\ WAVE_A_FACTOR_MAPPINGS[i].kind = "equity" => all[i].unit = "price"
  BY DEF SeriesOK
<1> DEFINE m == WAVE_A_FACTOR_MAPPINGS[i]
           v == s.vintages[w]
           attempts == v.answers[m.source_symbol]
<1>1. DOMAIN all = DOMAIN WAVE_A_FACTOR_MAPPINGS /\ all[i] \in fetch_one(v, m, start, end)
  BY DEF FetchedSeries
<1>2. m.source_symbol = Last(m.instrument_id)
  BY <1>1, MappedSymbol
<1>3. \/ m.kind = "equity" /\ all[i] \in Series(v, "yahoo", m.instrument_id, m.source_symbol, "price", start, end)
      \/ m.kind # "equity" /\ all[i] \in Series(v, "fred", m.instrument_id, m.source_symbol, "percent", start, end)
  <2> HIDE DEF m
  <2>1. CASE m.kind = "equity"
    <3>1. all[i] \in fetch_history(v, m.instrument_id, start, end)
      BY <1>1, <2>1 DEF fetch_one
    <3> QED BY <1>2, <2>1, <3>1 DEF fetch_history
  <2>2. CASE m.kind # "equity"
    <3>1. all[i] \in fetch_series(v, m.instrument_id, m.source_symbol, start, end)
      BY <1>1, <2>2 DEF fetch_one
    <3> QED BY <2>2, <3>1 DEF fetch_series
  <2> QED BY <2>1, <2>2
<1>4. /\ \E rows \in request_json(attempts) : all[i].points = collect_points(rows, start, end)
      /\ m.kind = "equity" => all[i].unit = "price"
  <2>1. ASSUME NEW provider, NEW unit, all[i] \in Series(v, provider, m.instrument_id, m.source_symbol, unit, start, end)
        PROVE  /\ \E rows \in request_json(attempts) : all[i].points = collect_points(rows, start, end)
               /\ all[i].unit = unit
    BY <2>1 DEF Series
  <2> QED BY <1>3, <2>1
<1>5. PICK rows \in request_json(attempts) : all[i].points = collect_points(rows, start, end)
  BY <1>4
<1>6. PICK n \in DOMAIN attempts : rows = attempts[n].rows
  BY <1>5 DEF request_json
<1>7. rows \in Seq(Range(rows)) /\ \A row \in Range(rows) : row[1] \in Int /\ (row[2] # None => row[2] \in Int)
  BY <1>1, <1>6, VintagesAssumption
<1> QED BY <1>1, <1>4, <1>5, <1>7, PointsTyped

\* Levels that follow from one another by moves are what the moves rebuild.
LEMMA RebuiltFrom ==
    ASSUME NEW i, NEW rows, Len(rows) \in Nat, NEW L \in [1..Len(rows) + 1 -> Int],
           \A n \in 1..Len(rows) : Rebuilt(i, L[n], rows[n][i][2]) = L[n + 1]
    PROVE  LevelsFrom(i, L[1], rows) = L
<1> DEFINE N == Len(rows) + 1
           Recurs(f) ==
              f = [n \in 1..Len(rows) + 1 |-> IF n = 1 THEN L[1] ELSE Rebuilt(i, f[n - 1], rows[n - 1][i][2])]
<1>1. LevelsFrom(i, L[1], rows) = CHOOSE f : Recurs(f)
  BY DEF LevelsFrom
<1>2. Recurs(L)
  <2> DEFINE next(n) == IF n = 1 THEN L[1] ELSE Rebuilt(i, L[n - 1], rows[n - 1][i][2])
  <2>1. ASSUME NEW n \in 1..N PROVE next(n) = L[n]
    <3>1. CASE n = 1
      BY <3>1
    <3>2. CASE n # 1
      <4>1. n - 1 \in 1..N - 1 /\ (n - 1) + 1 = n
        BY <3>2
      <4> QED BY <3>2, <4>1
    <3> QED BY <3>1, <3>2
  <2> HIDE DEF next
  <2>2. [n \in 1..N |-> next(n)] = L
    BY <2>1
  <2>3. Len(rows) + 1 = N
    OBVIOUS
  <2> QED BY <2>2, <2>3 DEF next
<1>3. ASSUME NEW f, Recurs(f) PROVE f = L
  <2>1. DOMAIN f = 1..N /\ f = [n \in 1..N |-> f[n]]
    <3>1. Len(rows) + 1 = N
      OBVIOUS
    <3> QED BY <1>3, <3>1
  <2>2. \A n \in 1..N : f[n] = IF n = 1 THEN L[1] ELSE Rebuilt(i, f[n - 1], rows[n - 1][i][2])
    <3>1. Len(rows) + 1 = N
      OBVIOUS
    <3> QED BY <1>3, <3>1
  <2> DEFINE T == {n \in 1..N : f[n] # L[n]}
  <2>3. T = {}
    <3> SUFFICES ASSUME T # {} PROVE FALSE
      OBVIOUS
    <3>1. PICK n \in T : \A m \in T : n <= m
      <4>1. T \subseteq Nat
        OBVIOUS
      <4> HIDE DEF T
      <4> QED BY <4>1, LeastNat
    <3>2. n \in 1..N /\ f[n] # L[n]
      OBVIOUS
    <3>3. n # 1
      BY <2>2, <3>2
    <3>4. n - 1 \in 1..N /\ n - 1 \in 1..N - 1 /\ (n - 1) + 1 = n /\ ~(n <= n - 1)
      BY <3>2, <3>3
    <3>5. f[n - 1] = L[n - 1]
      BY <3>1, <3>4
    <3> HIDE DEF T
    <3> QED BY <2>2, <3>2, <3>3, <3>4, <3>5
  <2>4. \A n \in 1..N : f[n] = L[n]
    BY <2>3
  <2> QED BY <2>1, <2>4
<1> HIDE DEF Recurs
<1> QED BY <1>1, <1>2, <1>3

\* Where moves are whole, a freeze is the levels it was made of.
LEMMA LevelsRebuild ==
    ASSUME ReplayInv, WholeMoves
    PROVE  MovesRebuildLevels
<1> SUFFICES ASSUME freezing # None,
                    NEW fetched \in FetchedSeries(freezing.vintage, freezing.start, freezing.end)
             PROVE  \A days \in {InOrder(CommonDays(fetched))} :
                       /\ Len(freezing.rows) = Len(days) - 1
                       /\ \A i \in DOMAIN fetched :
                             LevelsFrom(i, fetched[i].points[days[1]], freezing.rows)
                                = [n \in DOMAIN days |-> fetched[i].points[days[n]]]
  BY DEF MovesRebuildLevels
<1>1. freezing \in Freezes(service) /\ service \in Services
  BY DEF ReplayInv, DiskInv
<1>2. PICK w \in DOMAIN service.vintages : \E all \in FetchedSeries(service.vintages[w], service.start, service.end) :
         /\ FetchedSeries(freezing.vintage, freezing.start, freezing.end) = {all}
         /\ \A i \in DOMAIN all : ValidSeries(all[i], MinAlignedReturns + 1)
         /\ Cardinality(CommonDays(all)) >= MinAlignedReturns + 1
         /\ freezing.rows = LevelMoves(all, InOrder(CommonDays(all)))
  BY <1>1, FreezeSource
<1>3. /\ fetched \in FetchedSeries(service.vintages[w], service.start, service.end)
      /\ \A i \in DOMAIN fetched : ValidSeries(fetched[i], MinAlignedReturns + 1)
      /\ Cardinality(CommonDays(fetched)) >= MinAlignedReturns + 1
      /\ freezing.rows = LevelMoves(fetched, InOrder(CommonDays(fetched)))
  BY <1>2
<1>11. SeriesOK(fetched)
  BY <1>1, <1>3, SeriesTyped
<1> DEFINE common == CommonDays(fetched)
           days == InOrder(common)
           N == Cardinality(common)
           rows == freezing.rows
<1>4. DOMAIN fetched = DOMAIN WAVE_A_FACTOR_MAPPINGS /\ 1 \in DOMAIN fetched
  BY <1>1, <1>3, FirstSeriesFinite DEF WAVE_A_FACTOR_MAPPINGS
<1>5. /\ IsFiniteSet(common) /\ common \subseteq Int
      /\ \A i \in DOMAIN fetched : common \subseteq DOMAIN fetched[i].points
  <2>1. IsFiniteSet(DOMAIN fetched[1].points) /\ DOMAIN fetched[1].points \subseteq Int
    BY <1>4, <1>11 DEF SeriesOK
  <2>2. common \subseteq DOMAIN fetched[1].points
    BY DEF CommonDays
  <2>3. \A i \in DOMAIN fetched : common \subseteq DOMAIN fetched[i].points
    BY DEF CommonDays
  <2> HIDE DEF common
  <2> QED BY <2>1, <2>2, <2>3, FS_Subset
<1>6. N \in Nat \ {0} /\ days \in [1..N -> common] /\ Len(days) = N
  <2>1. N \in Nat /\ days \in Seq(common) /\ Len(days) = N
    <3> HIDE DEF common
    <3> QED BY <1>5, InOrderDays
  <2>2. N # 0
    BY <1>3, <2>1, MinAlignedAssumption
  <2> HIDE DEF common, days, N
  <2> QED BY <2>1, <2>2
<1>7. rows = [n \in 1..N - 1 |->
                [i \in DOMAIN fetched |->
                   <<WAVE_A_FACTOR_MAPPINGS[i].factor,
                     Move1(WAVE_A_FACTOR_MAPPINGS[i], fetched[i].points[days[n]], fetched[i].points[days[n + 1]])>>]]
  BY <1>3, <1>6 DEF LevelMoves
<1> HIDE DEF days, N, common, rows
<1>8. Len(rows) = N - 1
  BY <1>6, <1>7
<1>9. ASSUME NEW i \in DOMAIN fetched
      PROVE  LevelsFrom(i, fetched[i].points[days[1]], rows) = [n \in 1..N |-> fetched[i].points[days[n]]]
  <2> DEFINE points == fetched[i].points
             L == [n \in 1..N |-> points[days[n]]]
             m == WAVE_A_FACTOR_MAPPINGS[i]
  <2>1. \A day \in common : points[day] \in Int /\ (m.kind = "equity" => points[day] > 0)
    <3>1. /\ \A day \in DOMAIN points : points[day] \in Int
          /\ m.kind = "equity" => fetched[i].unit = "price"
      BY <1>11 DEF SeriesOK
    <3>2. common \subseteq DOMAIN points
      BY <1>5
    <3>3. m.kind = "equity" => \A day \in DOMAIN points : points[day] > 0
      BY <1>3, <3>1 DEF ValidSeries
    <3> QED BY <3>1, <3>2, <3>3
  <2>2. \A n \in 1..N : L[n] \in Int /\ (m.kind = "equity" => L[n] > 0)
    <3>1. \A n \in 1..N : days[n] \in common
      BY <1>6
    <3> HIDE DEF points, m
    <3> QED BY <2>1, <3>1
  <2>3. ASSUME NEW n \in 1..N - 1 PROVE Rebuilt(i, L[n], rows[n][i][2]) = L[n + 1]
    <3>1. n \in 1..N /\ n + 1 \in 1..N
      BY <1>6
    <3>2. rows[n][i][2] = Move1(m, L[n], L[n + 1])
      BY <1>7, <3>1
    <3>3. L[n] \in Int /\ L[n + 1] \in Int
      BY <2>2, <3>1
    <3>4. CASE m.kind = "equity"
      <4>1. L[n] > 0
        BY <2>2, <3>1, <3>4
      <4>2. (100 * (L[n + 1] - L[n])) % L[n] = 0
        <5>1. \A k \in 1..Len(days) - 1 :
                 LET was == points[days[k]]  now == points[days[k + 1]]
                 IN  was > 0 => (100 * (now - was)) % was = 0
          BY <1>1, <1>3, <3>4 DEF WholeMoves, days, common
        <5> HIDE DEF points
        <5> QED BY <1>6, <3>1, <4>1, <5>1
      <4> HIDE DEF L
      <4>3. (L[n] * (100 + equity_relative_return(L[n], L[n + 1]))) \div 100 = L[n + 1]
        BY <3>3, <4>1, <4>2, StepBack
      <4> QED BY <3>2, <3>4, <4>3 DEF Rebuilt, Move1
    <3>5. CASE m.kind # "equity"
      <4> HIDE DEF L
      <4>1. L[n] + percent_level_move_to_bps(L[n], L[n + 1]) = L[n + 1]
        BY <3>3, StepBack
      <4> QED BY <3>2, <3>5, <4>1 DEF Rebuilt, Move1
    <3> QED BY <3>4, <3>5
  <2>4. L[1] = points[days[1]] /\ L \in [1..Len(rows) + 1 -> Int] /\ Len(rows) \in Nat
    <3>1. 1 \in 1..N /\ N - 1 \in Nat /\ (N - 1) + 1 = N
      BY <1>6
    <3>2. L \in [1..N -> Int]
      BY <2>2
    <3> QED BY <1>8, <3>1, <3>2
  <2> HIDE DEF L
  <2>6. \A n \in 1..Len(rows) : Rebuilt(i, L[n], rows[n][i][2]) = L[n + 1]
    BY <1>8, <2>3
  <2>5. LevelsFrom(i, L[1], rows) = L
    BY <2>4, <2>6, RebuiltFrom
  <2> QED BY <2>4, <2>5 DEF L
<1>10. DOMAIN days = 1..N
  BY <1>6
<1> QED BY <1>6, <1>8, <1>9, <1>10 DEF days, common, rows
=============================================================================
