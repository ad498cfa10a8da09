------------------------------ MODULE Scenarios ------------------------------
(* Scenario definitions in their four shapes (library template, formal,      *)
(* legacy stress, market scenario), their expansion onto the factors of a    *)
(* snapshot, and the snapshot a scenario makes of a base. Relative amounts   *)
(* are in percent and a template's rates in basis points; the amount of a    *)
(* typed rate shock is in millionths. Names, descriptions and disclaimers    *)
(* are left out, except where a name stands in for a missing id.             *)
EXTENDS MarketMarks

LOCAL Shock(f, a) == [factor |-> f, amount |-> a]

\* The order of a dictionary: one fixed order of its names.
Ordered(d) == SetToSeq(DOMAIN d)

-----------------------------------------------------------------------------
(* Categories, severities, thresholds.                                       *)

category_to_kind(category) ==
    CASE category = "factor" -> "factor"
      [] category \in {"macro", "hypothetical"} -> "macro"
      [] category \in {"historical_replay", "historical_approximation"} -> "historical_style"
      [] category = "reverse" -> "reverse"
      [] OTHER -> "custom"

kind_to_category(kind, historical_as) ==
    CASE kind \in {"factor", "macro", "reverse"} -> kind
      [] kind = "historical_style" ->
            IF historical_as = None THEN "historical_approximation" ELSE historical_as
      [] OTHER -> "custom"

\* Is a loss at least pct percent of the net asset value?
AtLeast(loss, nav, pct) == 100 * loss >= pct * nav

classify_severity(loss, nav) ==
    CASE AtLeast(loss, nav, 15) -> "SEVERE"
      [] ~AtLeast(loss, nav, 15) /\ AtLeast(loss, nav, 8) -> "HIGH"
      [] ~AtLeast(loss, nav, 8) /\ AtLeast(loss, nav, 3)  -> "MODERATE"
      [] OTHER -> "LOW"

threshold_breached(loss, nav, max_loss_pct) ==
    max_loss_pct # None /\ 100 * loss > max_loss_pct * nav

-----------------------------------------------------------------------------
(* Expansion of aggregate moves.                                             *)

NoNamed == [equity |-> <<>>, vol |-> <<>>, rates |-> <<>>, fx |-> <<>>]

\* One leg: every mark of a dictionary whose amount, its own or the
\* aggregate, is not zero.
Leg(marks, named, aggregate, factor(_), unit(_)) ==
    LET amount(n) == IF n \in DOMAIN named THEN named[n] ELSE aggregate
        moving == SelectSeq(Ordered(marks), LAMBDA n : amount(n) # 0)
    IN  Mapped(LAMBDA n : Shock(factor(n), unit(amount(n))), moving)

Same(a) == a
ParallelRate(ccy) == RateZero(ccy, "ALL")

ExpandMacro(base, macro, named) ==
    Leg(base.equity_spots, named.equity, macro.equity, Spot, Same)
    \o Leg(base.equity_vols, named.vol, macro.vol, EquityVol, Same)
    \o Leg(base.fx_spots, named.fx, macro.fx, FXSpot, Same)
    \o Leg(base.fx_vols, named.vol, macro.vol, FXVol, Same)
    \o Leg(base.rates, named.rates, macro.rates, ParallelRate, BpsToDecimalRate)

Formal(id, category, shocks, max_loss_pct, severity, metadata) ==
    [shape |-> "formal", id |-> id, category |-> category, shocks |-> shocks,
     max_loss_pct |-> max_loss_pct, severity |-> severity, metadata |-> metadata]

\* A library template, expanded when it is applied.
Broadcast(id, category, macro, max_loss_pct, severity, metadata) ==
    [shape |-> "broadcast", id |-> id, category |-> category, macro |-> macro,
     max_loss_pct |-> max_loss_pct, severity |-> severity, metadata |-> metadata]

expand_broadcast_definition(d, base) ==
    Formal(d.id, d.category, ExpandMacro(base, d.macro, NoNamed), d.max_loss_pct,
           d.severity, d.metadata)

Stress(id, name, kind, macro, named, max_loss_pct) ==
    [shape |-> "stress", id |-> id, name |-> name, kind |-> kind, macro |-> macro,
     named |-> named, max_loss_pct |-> max_loss_pct]
StressId(s) == IF s.id = None THEN s.name ELSE s.id

scenario_from_stress(s, base, historical_as, severity, metadata) ==
    Formal(StressId(s), kind_to_category(s.kind, historical_as),
           ExpandMacro(base, s.macro, s.named), s.max_loss_pct, severity, metadata)

NoMeta == [observation_index |-> None, exact_replay |-> None]

to_canonical_scenario(s, base) ==
    CASE s.shape = "formal"    -> s
      [] s.shape = "broadcast" -> expand_broadcast_definition(s, base)
      [] s.shape = "stress"    -> scenario_from_stress(s, base, None, None, NoMeta)

\* Flat dictionaries: of two shocks of one name the later stays, a tenor is
\* lost, and equity and FX volatilities share a dictionary.
NamedMoves(shocks) ==
    LET last(kinds, unit(_)) ==
            LET mine == {i \in DOMAIN shocks : shocks[i].factor.kind \in kinds}
                at(n) == CHOOSE i \in mine : /\ shocks[i].factor.name = n
                                             /\ \A j \in mine : shocks[j].factor.name = n => j <= i
            IN  [n \in {shocks[i].factor.name : i \in mine} |-> unit(shocks[at(n)].amount)]
    IN  [equity |-> last({"EquitySpot"}, Same), vol |-> last(VolKinds, Same),
         fx |-> last({"FXSpot"}, Same), rates |-> last({"RateZero"}, DecimalRateToBps)]

ZeroMacro == [equity |-> 0, vol |-> 0, rates |-> 0, fx |-> 0]
scenario_to_stress(s) ==
    Stress(s.id, s.id, category_to_kind(s.category), ZeroMacro, NamedMoves(s.shocks), s.max_loss_pct)

MarketScenario(id, shocks, kind, observation_index) ==
    [shape |-> "market", id |-> id, shocks |-> shocks, kind |-> kind,
     observation_index |-> observation_index]

scenario_from_market_scenario(x) ==
    Formal(x.id,
           kind_to_category(x.kind, IF x.kind = "historical_style" THEN "historical_replay" ELSE None),
           x.shocks, None, None, [NoMeta EXCEPT !.observation_index = x.observation_index])
scenario_to_market_scenario(s) ==
    MarketScenario(s.id, s.shocks, category_to_kind(s.category), s.metadata.observation_index)

\* The same flattening for either shape; the threshold is lost.
to_stress_scenario(s) ==
    Stress(s.id, s.id, IF s.shape = "market" THEN s.kind ELSE category_to_kind(s.category),
           ZeroMacro, NamedMoves(s.shocks), None)

-----------------------------------------------------------------------------
(* Application.                                                              *)

expand_scenario(base, s) ==
    IF s.shape = "stress" THEN scenario_from_stress(s, base, None, None, NoMeta).shocks ELSE s.shocks

ScenarioTag(s, scenario_id) ==
    CASE scenario_id # None -> scenario_id
      [] scenario_id = None /\ s.shape = "stress" -> StressId(s)
      [] scenario_id = None /\ s.shape \in {"formal", "market"} -> s.id
      [] OTHER -> None

NonZero(shocks) == SelectSeq(shocks, LAMBDA s : s.amount # 0)

Retagged(base, m, tag) == [m EXCEPT !.id = Append(base.id, <<"scenario", tag>>)]

\* scenario_model.apply_scenario: zero amounts are left out, and the id is the
\* base's and the scenario's.
ApplyFormal(base, s) == {Retagged(base, x, s.id) : x \in Apply(base, NonZero(s.shocks))}

\* scenario_engine: every shape goes through the formal one, a bare list of
\* shocks keeps the bumped id when no tag is given.
ApplyUncached(base, s, scenario_id) ==
    LET tag == ScenarioTag(s, scenario_id)
        out == Apply(base, NonZero(expand_scenario(base, s)))
    IN  IF tag = None THEN out ELSE {Retagged(base, x, tag) : x \in out}

to_formal(base, s) ==
    CASE s.shape = "formal" -> s
      [] s.shape = "stress" -> scenario_from_stress(s, base, None, None, NoMeta)
      [] s.shape = "market" -> scenario_from_market_scenario(s)
      [] s.shape = "shocks" -> Formal("adhoc", "custom", s.shocks, None, None, NoMeta)

-----------------------------------------------------------------------------
(* Historical observations: aggregate rows and per-factor panel rows.        *)

\* A row of aggregate moves is broadcast as a library template is.
scenario_from_change(row, index, base) ==
    Formal(<<"hist", index>>, "historical_replay", ExpandMacro(base, row, NoNamed), None, None,
           [NoMeta EXCEPT !.observation_index = index])
historical_market_scenarios(base, rows) ==
    [i \in DOMAIN rows |-> scenario_from_change(rows[i], i - 1, base)]

panel_amount_to_bump(f, amount) == IF f.kind = "RateZero" THEN BpsToDecimalRate(amount) ELSE amount

\* A panel row is one (factor, change) pair per column.
factor_shocks_from_panel_observation(row) ==
    NonZero([i \in DOMAIN row |-> Shock(row[i][1], panel_amount_to_bump(row[i][1], row[i][2]))])
historical_market_scenarios_from_panel(rows) ==
    [i \in DOMAIN rows |->
        Formal(<<"hist_panel", i - 1>>, "historical_replay",
               factor_shocks_from_panel_observation(rows[i]), None, None,
               [NoMeta EXCEPT !.observation_index = i - 1])]

\* Each scenario is applied to the base; one missing mark fails them all.
shocked_snapshots(base, scenarios) == Each(LAMBDA s : ApplyUncached(base, s, None), scenarios)

-----------------------------------------------------------------------------
(* The libraries.                                                            *)

Macro(equity, vol, rates, fx) == [equity |-> equity, vol |-> vol, rates |-> rates, fx |-> fx]

Crisis(id, equity, vol, rates, fx, max_loss_pct, severity) ==
    [id |-> id, macro |-> Macro(equity, vol, rates, fx), max_loss_pct |-> max_loss_pct,
     severity |-> severity, metadata |-> NoMeta]

CRISIS_LIBRARY ==
    << Crisis("lehman_2008",         -35, 100, -100,  -5, 15, "SEVERE"),
       Crisis("covid_2020_03",       -30, 150,  -75,  -3, 15, "SEVERE"),
       Crisis("rates_shock_2022",    -18,  40,  250,   2, 12, "HIGH"),
       Crisis("euro_crisis_2011",    -22,  70,   50, -12, 12, "HIGH"),
       Crisis("volmageddon_2018",    -10, 200,    0,   0, 10, "HIGH"),
       Crisis("china_shock_2015",    -20,  60,  -25,  -8, 10, "HIGH"),
       Crisis("dotcom_equity_crash", -45,  90,  -75,  -2, 18, "SEVERE") >>

\* A definition's own metadata never overrides the honesty flags.
CrisisMetadata(d) == [d.metadata EXCEPT !.exact_replay = "no"]
crisis_as_broadcast(d) ==
    Broadcast(d.id, "historical_approximation", d.macro, d.max_loss_pct, d.severity, CrisisMetadata(d))
crisis_as_stress(d) == Stress(d.id, d.id, "historical_style", d.macro, NoNamed, d.max_loss_pct)
crisis_scenario(d, base) ==
    scenario_from_stress(crisis_as_stress(d), base, "historical_approximation", d.severity,
                         CrisisMetadata(d))

HonestLabel(s) ==
    /\ s.category = "historical_approximation" => s.metadata.exact_replay # "yes"
    /\ s.category = "historical_replay" =>
          ~(s.metadata.exact_replay = "no" /\ s.metadata.observation_index = None)

replay_scenarios_from_observations(base, rows) ==
    LET formal == historical_market_scenarios(base, rows)
    IN  [i \in DOMAIN formal |-> [formal[i] EXCEPT !.metadata.exact_replay = "yes"]]

Template(id, category, macro, max_loss_pct) ==
    Broadcast(id, category, macro, max_loss_pct, None, NoMeta)

DEFAULT_SCENARIOS ==
    << Template("eq_down_10",      "factor", Macro(-10,  0,   0, 0),  6),
       Template("rates_up_100",    "factor", Macro(  0,  0, 100, 0),  5),
       Template("vol_up_25",       "factor", Macro(  0, 25,   0, 0),  4),
       Template("eq_down_vol_up",  "macro",  Macro(-15, 40,   0, 0),  8),
       Template("combined_crisis", "macro",  Macro(-20, 50, 125, 0), 10) >>

HYPOTHETICAL_THREAT_SCENARIOS == << Template("stagflation", "macro", Macro(-20, 60, 200, 0), 12) >>

THREAT_SCENARIOS ==
    [i \in DOMAIN CRISIS_LIBRARY |-> crisis_as_broadcast(CRISIS_LIBRARY[i])]
    \o HYPOTHETICAL_THREAT_SCENARIOS
==============================================================================
