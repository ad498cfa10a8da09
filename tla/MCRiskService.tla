---------------------------- MODULE MCRiskService ----------------------------
(* Small instances of RiskService for TLC: a book of four families, a book of *)
(* cash equities, a book of the other families, and two markets of one id.    *)
EXTENDS RiskService

CONSTANTS thread1, thread2

TwoThreads == {thread1, thread2}

-----------------------------------------------------------------------------
(* Formulas: linear around the marks, which is all the properties need.       *)

MCExp(x)       == 1000 + x \div 4000
MCToZero(r, q) == r - q * 10
MCForeign      == [EURUSD |-> "EUR"]
MCDomestic     == [EURUSD |-> "USD"]
MCEuropean(type, s, k, r, q, v, t) ==
    LET intrinsic == IF type = "call" THEN Nonneg(s - k) ELSE Nonneg(k - s)
    IN  [price |-> intrinsic + (v * t) \div 100000, gamma |-> 1, vega |-> 1,
         delta |-> IF intrinsic = 0 THEN 0 ELSE IF type = "call" THEN 1 ELSE -1]
MCBlack(type, f, k, v, t) == [price |-> Nonneg(f - k) \div 1000 + v \div 100000, vega |-> 1]

-----------------------------------------------------------------------------
(* Markets.                                                                   *)

Base ==
    [id |-> <<"demo">>, as_of |-> "t0", equity_spots |-> [SPY |-> 100, QQQ |-> 200],
     equity_vols |-> [SPY |-> 200000, QQQ |-> 200000],
     fx_spots |-> [EURUSD |-> 200], fx_vols |-> [EURUSD |-> 100000],
     rates |-> [USD |-> 40000, EUR |-> 30000], projection_rates |-> [USD |-> 42000],
     key_rates |-> [USD |-> ("1Y" :> 38000 @@ "2Y" :> 39000 @@ "5Y" :> 40000 @@ "10Y" :> 44000)],
     dividend_yields |-> [SPY |-> 10000, QQQ |-> 10000], ir_future_quotes |-> [USD |-> 42000],
     ir_vols |-> [USD |-> 200000], curves |-> <<>>,
     vol_surfaces |-> [SPY |-> [asset_class |-> "equity",
                                grid |-> [n \in {"6M", "1Y"} \X {9, 10} |-> 200000]]]]
\* The same id, other marks: curves for both currencies and a second surface.
Quoted == << [kind |-> "zero", tenor |-> "5Y", rate |-> 31000], [kind |-> "par", tenor |-> "3M", rate |-> 29000] >>
Surface == [asset_class |-> "equity", grid |-> [n \in {"6M", "1Y"} \X {9, 10} |-> IF n[2] = 9 THEN 210000 ELSE 190000]]
Moved ==
    LET curved == attach_standard_usd_curves([Base EXCEPT !.equity_spots.SPY = 200], 41000, 43000)
        euro   == CHOOSE m \in attach_bootstrapped_curve(curved, "EUR", "discount", "EUR_OIS", Quoted) : TRUE
    IN  [attach_vol_surface(euro, "QQQ", Surface) EXCEPT !.id = Base.id]
\* Every aligned mark moved by a whole percent or more.
Later ==
    [Base EXCEPT !.equity_spots.SPY = 120, !.fx_spots.EURUSD = 180, !.fx_vols.EURUSD = 110000,
                 !.equity_vols = [SPY |-> 220000, QQQ |-> 190000], !.rates = [USD |-> 42000, EUR |-> 31000],
                 !.key_rates.USD = ("1Y" :> 38000 @@ "2Y" :> 38000 @@ "5Y" :> 39000 @@ "10Y" :> 45000),
                 !.vol_surfaces.SPY.grid = [n \in {"6M", "1Y"} \X {9, 10} |-> 220000]]
MCMarkets == {Base, Moved}

-----------------------------------------------------------------------------
(* Books.                                                                     *)

At0(id, desk, strategy, book, fields) == fields @@ [id |-> id, desk |-> desk, strategy |-> strategy, book |-> book]
Shares(id, symbol, quantity) ==
    At0(id, None, None, "B1", [type |-> "equity", symbol |-> symbol, quantity |-> quantity])

Eq   == Shares("eq", "SPY", 2)
Call == At0("call", "Vol", None, "B2",
            [type |-> "european_option", symbol |-> "SPY", option_type |-> "call", strike |-> 100,
             quantity |-> 1, maturity |-> 4, currency |-> "USD"])
Bnd  == At0("bond", None, "Rates", "B1",
            [type |-> "bond", face_value |-> 1000, quantity |-> 1, currency |-> "USD", maturity |-> 40])
Fwd  == At0("fwd", "Vol", None, "B3",
            [type |-> "fx_forward", pair |-> "EURUSD", notional_base |-> 2, strike |-> 150, maturity |-> 4])

Mixed  == Portfolio("demo", "Firm", "Macro", "Core", <<Eq, Call, Bnd, Fwd>>)
Shares1 == Portfolio("cash", "Firm", "Macro", "Core", <<Eq, Shares("qq", "QQQ", 1)>>)
Shares2 == Portfolio("cash", "Firm", "Macro", "Core", <<Shares("eq", "SPY", 5), Shares("new", "QQQ", -1)>>)
Duo    == Portfolio("duo", "Firm", "Macro", "Core", <<Eq, Bnd>>)
Others ==
    Portfolio("rates", "Firm", "Rates", "Core",
        << At0("swap", None, None, "B1", [type |-> "swap", notional |-> 1, fixed_rate |-> 43000, duration |-> 1,
                                         pay_fixed |-> TRUE, currency |-> "USD", maturity |-> 40]),
           At0("fut", None, None, "B1", [type |-> "ir_future", quantity |-> 1, pv01 |-> 1, currency |-> "USD",
                                        maturity |-> 20]),
           At0("eqf", None, None, "B2", [type |-> "equity_future", symbol |-> "QQQ", quantity |-> 1,
                                        multiplier |-> 1, currency |-> "USD", maturity |-> 4]),
           At0("fxo", None, None, "B2", [type |-> "fx_option", pair |-> "EURUSD", option_type |-> "put",
                                        strike |-> 210, notional_base |-> 1, maturity |-> 4]),
           At0("cap", None, None, "B3", [type |-> "cap_floor", option_type |-> "call", strike |-> 40000,
                                        notional |-> 1, quantity |-> 1, frequency |-> 1, currency |-> "USD",
                                        maturity |-> 8]),
           At0("swn", None, None, "B3", [type |-> "swaption", option_type |-> "call", strike |-> 40000,
                                        notional |-> 1, quantity |-> 1, frequency |-> 1, currency |-> "USD",
                                        option_maturity |-> 4, swap_tenor |-> 8]) >>)

-----------------------------------------------------------------------------
(* History: three observations of every factor the books name.                *)

Columns1 == << Spot("SPY"), Spot("QQQ"), EquityVol("SPY"), EquityVol("QQQ"), FXSpot("EURUSD"),
               FXVol("EURUSD"), RateZero("USD", "10Y"), RateZero("USD", "5Y"), RateZero("USD", "2Y"),
               RateZero("USD", "1Y") >>
Row(equity, vol, fx, rate) ==
    [j \in DOMAIN Columns1 |-> <<Columns1[j],
        SeriesForFactor([equity |-> equity, vol |-> vol, fx |-> fx, rates |-> rate], Columns1[j])>>]
File == << Row(-2, 5, 1, 1), Row(1, -5, -1, -1), Row(-1, 5, 0, 2), Row(9, 9, 9, 9) >>
Panel  == CHOOSE p \in panel_from_per_factor_dataset(File, Reverse(Columns1), 3) : TRUE
MCRisk == Engine("DELTA_GAMMA", <<>>, Panel)
Macros == << Macro(-2, 5, 1, 1), Macro(1, -5, -1, -1), Macro(-1, 0, 2, 0) >>
MacroRisk == Engine("DELTA_GAMMA", Macros, None)
Broadcasted == Engine("DELTA_GAMMA", <<>>, CHOOSE p \in factor_panel_from_dataset(Macros, Columns1, None) : TRUE)

MCLimits == [var_99 |-> 100000, var_95 |-> 900000, expected_shortfall_99 |-> 100000, dv01 |-> 1,
             key_rate_dv01 |-> 3, vega |-> 10, single_position_pct |-> 60, stress_loss |-> 90]

-----------------------------------------------------------------------------
(* Requests.                                                                  *)

Op(op, book) == [op |-> op, book |-> book, scenarios |-> None, threats |-> None,
                 methodology |-> "DELTA_GAMMA"]
With(op, book, fields) == fields @@ Op(op, book)
Change(op, id, p) == [operation |-> op, position_id |-> id, position |-> p]
Hedge == Shares("hedge", "SPY", -1)

\* Two scenarios, one of them a library template under its own id.
Few == << DEFAULT_SCENARIOS[1],
          Stress("custom", "custom", "custom", Macro(-5, 10, 50, -5),
                 [NoNamed EXCEPT !.equity = [SPY |-> -20]], 5) >>

\* One pillar of the key rates.
KeyRate(tenor) ==
    Formal("key_rate", "custom", <<[factor |-> RateZero("USD", tenor), amount |-> 1000]>>, None, None, NoMeta)

\* Three days replayed, under ids of their own.
Replays ==
    LET days == replay_scenarios_from_observations(Base, Macros)
    IN  [i \in DOMAIN days |-> [days[i] EXCEPT !.id = <<"day_1", "day_2", "day_3">>[i]]]

Dashboards == {Op("dashboard", Mixed), With("dashboard", Mixed, [risk |-> MacroRisk])}
Searches ==
    {With("reverse_stress", Duo, [target |-> 9, families |-> <<f>>, max_shock |-> 60]) : f \in {"equity", "rates"}}
    \cup {With("reverse_stress", Duo, [target |-> t, families |-> <<"equity">>, max_shock |-> 60]) : t \in {0, 90}}
    \cup {With("reverse_stress_multi", Duo, [target |-> 9, families |-> fs, weights |-> [f \in Range(fs) |-> 2],
                                             max_shock |-> 60, max_shocks |-> [rates |-> 40]]) :
             fs \in {<<"equity", "rates", "equity">>, DEFAULT_FACTORS}}
Changes == { <<Change("add", None, Hedge)>>,
             <<Change("add", None, Hedge), Change("remove", "hedge", None)>>,
             <<Change("modify", None, [Bnd EXCEPT !.quantity = 2]), Change("remove", "fwd", None)>>,
             <<Change("remove", "nobody", None)>> }
Hedging == {With("what_if", Mixed, [changes |-> c, scenarios |-> Few]) : c \in Changes}
Comparisons ==
    {With("compare_scenarios", Mixed, [scenarios |-> Few, changes |-> x[1], hedged |-> x[2]]) :
        x \in UNION {{c} \X apply_what_if_changes(Mixed, c) : c \in Changes}}
Trees     == {Op("hierarchy", Mixed), With("hierarchy", Mixed, [risk |-> MacroRisk])}
Drills    == {With("limit_drilldown", Mixed, [ref |-> Ref(l[1], l[2]), limits |-> MCLimits, top_n |-> 2]) :
                 l \in {<<"portfolio", <<None, None, None, None>>>>, <<"desk", <<"Vol", None, None, None>>>>}}
Run(book, m, methodology) == [book |-> book, market |-> m, methodology |-> methodology]
Bridges ==
    {With("explain_risk_change", Mixed, [t0 |-> Run(Mixed, Base, "DELTA_GAMMA"), t1 |-> Run(b, Later, "DELTA_GAMMA"), metric |-> "var_99",
         persisted |-> <<None, None>>]) :
        b \in {Mixed, [Mixed EXCEPT !.positions = <<Call, [Bnd EXCEPT !.quantity = 2], Hedge>>]}}
    \cup {With("risk_change_attribution", Mixed, [previous |-> Duo, previous_market |-> Later, metric |-> "expected_shortfall_99"])}
Reads ==
    {Op(k, b) : k \in {"summary", "factors", "sensitivities", "var_report", "limits"}, b \in {Mixed, Others}}
    \cup {Op("compare_var_methodologies", b) : b \in {Mixed, Shares1}}
    \cup {With("summary", Mixed, [risk |-> k]) : k \in {MacroRisk, Broadcasted}}
    \cup {With("es_contributions", Mixed, [methodology |-> k, confidence |-> c]) :
             k \in {"DELTA_GAMMA", "FULL_REVALUATION"}, c \in {50, 99}}
Explains ==
    {With("attribution", Shares2, [previous |-> Shares1, previous_market |-> Later, dt |-> 1]),
     With("attribution", Mixed, [previous |-> Mixed, previous_market |-> Later, dt |-> 1]),
     Op("threat_evaluation", Mixed), Op("stresses", Others),
     [Op("stresses", Shares1) EXCEPT !.scenarios = Replays],
     [Op("stresses", Duo) EXCEPT !.scenarios = <<KeyRate("5Y")>>],
     [Op("threat_evaluation", Shares1) EXCEPT !.scenarios = Few]}

\* Windows of days 1, 2 and 4, with one missed on a weekday, or of 3, 4 and 7,
\* with a weekend between.
Window(book, days, start, end, fields) ==
    With("historical_analytics", book, fields @@ [days |-> days, start |-> start, end |-> end, fail_closed |-> FALSE,
         rolling_window |-> 2, period_window |-> 1, include_benchmark |-> TRUE, market_snapshot_id |-> None])
Held(quantity) == [Shares1 EXCEPT !.positions = <<Shares("eq", "SPY", quantity)>>]
Windows ==
    {Window(b, <<1, 2, 4>>, 1, 4, [period_window |-> 9]) : b \in {Held(5), Held(-2), Mixed}}
    \cup {Window(Held(3), <<1, 2, 4>>, 2, 4, [methodology |-> "FULL_REVALUATION"]),
          Window(Mixed, <<1, 2, 4>>, 1, 4, [fail_closed |-> TRUE]),
          Window(Mixed, <<3, 4, 7>>, 3, 7, [fail_closed |-> TRUE, include_benchmark |-> FALSE]),
          Window(Mixed, <<3, 4, 7>>, 7, 7, [rolling_window |-> 3, include_benchmark |-> FALSE]),
          Window(Mixed, <<3, 4, 7>>, 5, 6, <<>>),
          Window(Mixed, <<3, 4, 7>>, 3, 7, [market_snapshot_id |-> <<"another">>])}

\* One thread is given any operation, the other a few short runs.
Anything ==
    Dashboards \cup Searches \cup Hedging \cup Trees \cup Drills \cup Bridges \cup Reads \cup Explains
        \cup Comparisons \cup Windows
MCRequests ==
    [t \in TwoThreads |->
        IF t = thread1 THEN Anything
        ELSE {[Op("stresses", Shares1) EXCEPT !.scenarios = Few]}]

-----------------------------------------------------------------------------
(* A disagreement between what the code says and what it does.                *)

\* The same shock at two tenors, under one scenario id.
TenorRequests ==
    [t \in TwoThreads |->
        {With("stresses", Duo, [scenarios |-> <<KeyRate(IF t = thread1 THEN "5Y" ELSE "10Y")>>])}]
==============================================================================
