---------------------------- MODULE PublicHistory ----------------------------
(* Public market data: what the two providers answer, the series made of it,  *)
(* the frozen history of factor moves, and the snapshot of latest marks.      *)
(*                                                                            *)
(* A day is an integer. A price is a whole amount and a yield is in           *)
(* hundredths of a percent. The providers at one moment are a record: for     *)
(* every source symbol the attempts a client would see one after another      *)
(* (a status and, when it is "ok", the rows of the body), whether the key of  *)
(* the second provider is set, and today. A malformed body is a status.       *)
EXTENDS HistoricalVaR

CONSTANT MinAlignedReturns          \* moves a frozen history must have
ASSUME MinAlignedAssumption == MinAlignedReturns \in Nat \ {0}

MAX_RETRIES            == 2
STALE_AFTER_DAYS       == 7
SNAPSHOT_LOOKBACK_DAYS == 30

-----------------------------------------------------------------------------
(* The identity of the data set.                                              *)

WAVE_A_DATASET_ID == <<"real:public:wave-a">>

FactorMapping(instrument_id, factor, provider, unit, kind) ==
    [instrument_id |-> instrument_id, factor |-> factor, provider |-> provider,
     source_symbol |-> Last(instrument_id), unit |-> unit, kind |-> kind]
EquityMapping(class, symbol) == FactorMapping(<<class, "US", symbol>>, Spot(symbol), "yahoo", "price", "equity")
RateMapping(series, tenor) ==
    FactorMapping(<<"macro", "FRED", series>>, RateZero("USD", tenor), "fred", "percent", "rate")

WAVE_A_FACTOR_MAPPINGS ==
    << EquityMapping("equity", "AAPL"), EquityMapping("equity", "MSFT"), EquityMapping("equity", "NVDA"),
       EquityMapping("equity", "SPY"),
       RateMapping("DGS2", "2Y"), RateMapping("DGS5", "5Y"), RateMapping("DGS10", "10Y") >>

-----------------------------------------------------------------------------
(* Fetching.                                                                  *)

\* A timeout or a server's error is tried again, a few times; the first other
\* answer decides, and every status but "ok" is an error.
Transient == {"timeout", "server_error"}
request_json(attempts) ==
    LET said == {n \in DOMAIN attempts : n <= MAX_RETRIES + 1 /\ attempts[n].status \notin Transient}
    IN  {attempts[n].rows : n \in {k \in said : attempts[k].status = "ok" /\ \A j \in said : k <= j}}

\* From a date to its value, between two days: gaps are skipped, the first value
\* of a date kept.
collect_points(rows, start, end) ==
    LET valued == {i \in DOMAIN rows : start <= rows[i][1] /\ rows[i][1] <= end /\ rows[i][2] # None}
        first(day) == CHOOSE i \in valued :
                         rows[i][1] = day /\ \A j \in valued : rows[j][1] = day => i <= j
    IN  [day \in {rows[i][1] : i \in valued} |-> rows[first(day)][2]]

LastDay(points) == Max(DOMAIN points)

\* One provider's series between two days.
Series(vintage, provider, instrument_id, symbol, unit, start, end) ==
    {[instrument_id |-> instrument_id, source |-> provider, source_symbol |-> symbol, unit |-> unit,
      points |-> points] :
     points \in {collect_points(rows, start, end) : rows \in request_json(vintage.answers[symbol])} \ {<<>>}}

\* The adjusted closes of an instrument: its symbol is the last part of its id.
fetch_history(vintage, instrument_id, start, end) ==
    Series(vintage, "yahoo", instrument_id, Last(instrument_id), "price", start, end)

\* A published series of yields, for those who have a key.
fetch_series(vintage, instrument_id, series_id, start, end) ==
    IF ~vintage.key THEN {} ELSE Series(vintage, "fred", instrument_id, series_id, "percent", start, end)

\* The wrong provider's or the wrong symbol's series is refused.
MatchesMapping(s, mapping) ==
    \A k \in {"instrument_id", "source_symbol"} : s[k] = mapping[k] /\ s.source = mapping.provider
fetch_one(vintage, mapping, start, end) ==
    {s \in IF mapping.kind = "equity" THEN fetch_history(vintage, mapping.instrument_id, start, end)
           ELSE fetch_series(vintage, mapping.instrument_id, mapping.source_symbol, start, end) :
        MatchesMapping(s, mapping)}

-----------------------------------------------------------------------------
(* Quality: what the checks leave open once the points are a function.        *)

ValidSeries(s, min_observations) ==
    /\ s.unit \in {"price", "percent"}
    /\ s.unit = "price" => \A day \in DOMAIN s.points : s.points[day] > 0
    /\ Cardinality(DOMAIN s.points) >= min_observations

InOrder(days) ==
    [n \in 1..Cardinality(days) |-> CHOOSE day \in days : Cardinality({d \in days : d < day}) = n - 1]

CommonDays(all) == {day \in DOMAIN all[1].points : \A i \in DOMAIN all : day \in DOMAIN all[i].points}

\* The days all series have, in order: nothing is carried forward.
align_series(all, min_aligned) ==
    IF Cardinality(CommonDays(all)) < min_aligned THEN {}
    ELSE {InOrder(CommonDays(all))}

is_stale(last_day, requested_end, today) ==
    (IF requested_end <= today THEN requested_end ELSE today) - last_day > STALE_AFTER_DAYS

-----------------------------------------------------------------------------
(* Freezing.                                                                  *)

percent_level_to_decimal(percent) == 100 * percent
equity_relative_return(p0, p1)    == (100 * (p1 - p0)) \div p0
percent_level_move_to_bps(r0, r1) ==
    DecimalRateToBps(percent_level_to_decimal(r1) - percent_level_to_decimal(r0))
Move1(mapping, was, now) ==
    IF mapping.kind = "equity" THEN equity_relative_return(was, now) ELSE percent_level_move_to_bps(was, now)

\* Fault: the moves of a series are taken between its own days.
MovesUnaligned(all, days) ==
    LET before(points, day) == Max({d \in DOMAIN points : d < day})
    IN  [n \in 1..Len(days) - 1 |->
            [i \in DOMAIN all |->
                LET mapping == WAVE_A_FACTOR_MAPPINGS[i]  points == all[i].points
                IN  <<mapping.factor,
                      Move1(mapping, points[before(points, days[n + 1])], points[days[n + 1]])>>]]

\* The factors' moves from each common day to the next.
LevelMoves(all, days) ==
    [n \in 1..Len(days) - 1 |->
        [i \in DOMAIN all |->
            <<WAVE_A_FACTOR_MAPPINGS[i].factor,
              Move1(WAVE_A_FACTOR_MAPPINGS[i], all[i].points[days[n]], all[i].points[days[n + 1]])>>]]

\* Equal content has an equal hash: the days and the moves stand for it.
panel_content_version(days, rows) == <<"sha256", <<Tail(days), rows>>>>

\* One series for every factor, in the order of the mappings, or nothing.
FetchedSeries(vintage, start, end) ==
    LET fetched(i) == fetch_one(vintage, WAVE_A_FACTOR_MAPPINGS[i], start, end)
        indices    == DOMAIN WAVE_A_FACTOR_MAPPINGS
    IN  IF \E i \in indices : fetched(i) = {} THEN {}
        ELSE {[i \in indices |-> CHOOSE s \in fetched(i) : TRUE]}

freeze_public_history(vintage, start, end) ==
    LET valid == {x \in FetchedSeries(vintage, start, end) :
                     \A i \in DOMAIN x : ValidSeries(x[i], MinAlignedReturns + 1)}
        panels(all) == {<<days, LevelMoves(all, days)>> : days \in align_series(all, MinAlignedReturns + 1)}
    IN  UNION {{[version |-> panel_content_version(p[1], p[2]), rows |-> p[2],
                 vintage |-> vintage, start |-> start, end |-> end] : p \in panels(all)} : all \in valid}

-----------------------------------------------------------------------------
(* The snapshot of the latest marks.                                          *)

SnapshotMarks(levels) ==
    LET of(kind) == {i \in DOMAIN levels : WAVE_A_FACTOR_MAPPINGS[i].kind = kind}
        at(n, field) == CHOOSE i \in DOMAIN levels : WAVE_A_FACTOR_MAPPINGS[i].factor[field] = n
        tenors == {WAVE_A_FACTOR_MAPPINGS[i].factor.tenor : i \in of("rate")}
        pillar(t) == CHOOSE i \in of("rate") : WAVE_A_FACTOR_MAPPINGS[i].factor.tenor = t
    IN  [equity_spots |-> [n \in {WAVE_A_FACTOR_MAPPINGS[i].factor.name : i \in of("equity")} |->
                              levels[at(n, "name")]],
         rates     |-> [USD |-> percent_level_to_decimal(levels[pillar("10Y")])],
         key_rates |-> [USD |-> [t \in tenors |-> percent_level_to_decimal(levels[pillar(t)])]]]

NoMarks == [n \in {"equity_vols", "fx_spots", "fx_vols", "projection_rates", "dividend_yields",
                   "ir_future_quotes", "ir_vols", "curves", "vol_surfaces"} |-> <<>>]

\* Each mark is the latest on or before the day asked for, and not a week old;
\* the id is of the data set, the day and the content.
build_public_snapshot(vintage, as_of) ==
    LET marks(all) == SnapshotMarks([i \in DOMAIN all |-> all[i].points[LastDay(all[i].points)]]) @@ NoMarks
        id(content) == <<WAVE_A_DATASET_ID, as_of, content>>
    IN  {[id |-> id(marks(all)), as_of |-> as_of] @@ marks(all) :
         all \in {x \in FetchedSeries(vintage, as_of - SNAPSHOT_LOOKBACK_DAYS, as_of) :
                     \A i \in DOMAIN x : ~is_stale(LastDay(x[i].points), as_of, vintage.today)}}

\* A snapshot is stored once, and one whose id is not of its content not at all.
HasOwnId(snapshot) == snapshot.id = <<WAVE_A_DATASET_ID, snapshot.as_of, Marks(snapshot)>>
persist_public_snapshot(stored, snapshot) ==
    IF ~HasOwnId(snapshot) THEN {}
    ELSE IF snapshot.id \in DOMAIN stored
         THEN IF Marks(stored[snapshot.id]) = Marks(snapshot) THEN {stored} ELSE {}
         ELSE {Put(stored, snapshot.id, snapshot)}
==============================================================================
