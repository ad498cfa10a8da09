--------------------------- MODULE MCRiskPlatform ----------------------------
(* Small instances of RiskPlatform: the requests of MCRiskService, and seven   *)
(* deployments of the run service.                                            *)
EXTENDS RiskPlatform, MCRiskService

-----------------------------------------------------------------------------
(* Public data: four trading days, a yield missing on the second and quoted   *)
(* twice on the third; a day more in the second vintage.                      *)

Ok(rows)     == <<[status |-> "ok", rows |-> rows]>>
Down(status) == <<[status |-> status, rows |-> <<>>]>>
Closes(k)    == << <<1, 100 * k>>, <<2, 110 * k>>, <<3, 120 * k>>, <<4, 180 * k>> >>
Yields(r)    == << <<1, r>>, <<2, None>>, <<3, r + 10>>, <<3, r + 99>>, <<4, r - 5>> >>
Fifth(x)     == << <<5, x>> >>

Answers(equity(_), rate(_)) ==
    [s \in {"AAPL", "MSFT", "NVDA"} |-> Ok(equity(1))]
    @@ [SPY |-> Down("timeout") \o Down("server_error") \o Ok(equity(2))]
    @@ [s \in {"DGS2", "DGS5", "DGS10"} |-> Ok(rate(400))]
Vintage(answers, today) == [answers |-> answers, key |-> TRUE, today |-> today]
First  == Vintage(Answers(Closes, Yields), 4)
Second == Vintage(Answers(LAMBDA k : Closes(k) \o Fifth(270 * k), LAMBDA r : Yields(r) \o Fifth(r)), 5)
\* Answers that freeze nothing: no key, a third failure, a limit, a wrong price.
Useless ==
    << [First EXCEPT !.key = FALSE],
       [First EXCEPT !.answers.SPY = Down("timeout") \o @],
       [First EXCEPT !.answers.AAPL = Down("rate_limited") \o @],
       [First EXCEPT !.answers.MSFT = Ok(Closes(0))],
       [First EXCEPT !.answers.DGS10 = Ok(SubSeq(Yields(400), 1, 2))] >>

-----------------------------------------------------------------------------
(* Histories of the program's own.                                            *)

MCDraw(seed, column, day) == ((seed + column * day) % 5) - 2
MCDemoRows ==
    CHOOSE p \in factor_panel_from_dataset(Macros, DEFAULT_PRODUCTION_PANEL_FACTORS, None) : TRUE

OwnPath  == <<"own", <<"desk">>>>
OwnFile(kind, rows) == [kind |-> kind, rows |-> rows, sidecar |-> None]
OwnWide  == OwnFile("per_factor", Reverse(MCDemoRows))
OwnFlat  == OwnFile("four_macro", SubSeq(Macros, 2, 3))
OwnDisk  == [files |-> OwnPath :> OwnWide, order |-> <<>>]
WaveDisk(frozen) ==
    [files |-> versioned_csv_path(frozen.version) :>
                  [kind |-> "per_factor", rows |-> frozen.rows,
                   sidecar |-> [id |-> WAVE_A_DATASET_ID, version |-> frozen.version]],
     order |-> <<frozen.version>>]

-----------------------------------------------------------------------------
(* Deployments.                                                               *)

Env(external, database, mode, dataset, pinned) ==
    [external |-> external, database |-> database, mode |-> mode, dataset |-> dataset, pinned |-> pinned]
Ask1(id, version, config, observations) ==
    [id |-> id, version |-> version, config |-> config, observations |-> observations,
     type |-> IF observations = None THEN "summary" ELSE "var_compare", methodology |-> None]
Plain(id) == Ask1(id, None, None, None)
Deployment(environment, files, vintages, requests) ==
    [env |-> environment, disk |-> files, vintages |-> vintages, start |-> 1, end |-> 9, days |-> {},
     edits |-> <<>>, requests |-> requests, books |-> <<Duo>>, market |-> Base, stored |-> <<>>,
     max_runs |-> 1, max_events |-> 3]

\* One process, the demo history by default; a file of one's own is edited.
Demo ==
    [Deployment(Env(FALSE, TRUE, "synthetic", None, None), OwnDisk, <<First, Second>> \o Useless,
                {Plain(None), Plain(WAVE_A_DATASET_ID), Plain(<<"file", OwnPath>>)})
        EXCEPT !.edits = OwnPath :> OwnFlat]
\* A worker of its own, the newest public history by default; the book changes.
Public(frozen) ==
    [Deployment(Env(TRUE, TRUE, "public", None, None), WaveDisk(frozen), <<Second, First>>,
                {Plain(None), Ask1(WAVE_A_DATASET_ID, frozen.version, None, 1)})
        EXCEPT !.books = <<Duo, Shares2>>, !.days = {4, 20}]
\* One process and no database, a pinned file, a data set named by the environment, histories
\* of a length asked for.
Sized(frozen) ==
    Deployment(Env(FALSE, FALSE, "public", OwnPath, versioned_csv_path(frozen.version)),
               [WaveDisk(frozen) EXCEPT !.files = (OwnPath :> OwnFlat) @@ @], <<>>,
               {Ask1(<<"rng">>, None, Config(5, 3), 6), Ask1(<<"demo">>, None, Config(None, 2), 1),
                Ask1(<<"synthetic">>, None, Config(None, 2), 9), Ask1(None, None, Config(5, None), None),
                Ask1(<<"demo">>, <<"v2">>, None, None), Plain(WAVE_A_DATASET_ID), Plain(<<"nowhere", <<"x">>>>),
                Ask1(WAVE_A_DATASET_ID, frozen.version, Config(None, 9), None)})
\* Two runs to compare, of one data set: two configurations, two methodologies,
\* with and without numbers of their own, on two books and two markets.
\* The markets' marks are a quarter up or a fifth down, so that either is whole
\* percents of the other.
Stored2 ==
    [Later EXCEPT !.id = <<"later">>, !.equity_spots.SPY = 125, !.fx_spots.EURUSD = 160, !.fx_vols.EURUSD = 125000,
                  !.equity_vols = [SPY |-> 250000, QQQ |-> 160000],
                  !.vol_surfaces.SPY.grid = [n \in {"6M", "1Y"} \X {9, 10} |-> 250000]]
Vol2 == Portfolio("duo", "Firm", "Macro", "Core", <<Call, [Bnd EXCEPT !.quantity = 2]>>)
Typed(type, methodology, config) ==
    [Plain(<<"demo">>) EXCEPT !.type = type, !.methodology = methodology, !.config = config]
Paired(database, requests) ==
    [Deployment(Env(FALSE, database, "synthetic", None, None), [files |-> <<>>, order |-> <<>>], <<>>, requests)
        EXCEPT !.books = <<Duo, Vol2>>, !.stored = Stored2.id :> Stored2,
               !.max_runs = 2, !.max_events = 1]
\* Two runs in one process that restarts, while the book is replaced.
Forgetful == [Paired(TRUE, {Typed("factors", None, None)}) EXCEPT !.stored = <<>>, !.max_events = 2]
\* Two runs of one frozen history, which is frozen again.
Refrozen(frozen) ==
    [Deployment(Env(FALSE, TRUE, "public", None, None), WaveDisk(frozen), <<First>>,
                {Ask1(WAVE_A_DATASET_ID, frozen.version, None, None)})
        EXCEPT !.max_runs = 2, !.max_events = 2]
MCServices ==
    {Demo, Forgetful, Paired(FALSE, {Typed("factors", None, None)}),
     Paired(TRUE, {Typed("summary", "LINEAR", None), Typed("factors", None, Config(None, 2)),
                   Typed("hierarchy", None, None)})}
    \cup UNION {{Public(f), Sized(f), Refrozen(f)} : f \in freeze_public_history(First, 1, 9)}
RefrozenServices == UNION {{Refrozen(f)} : f \in freeze_public_history(First, 1, 9)}

\* The requests' scenarios have names of their own, and the providers' prices
\* move by whole percents.
ASSUME KeysTellApart /\ WholeMoves
==============================================================================
