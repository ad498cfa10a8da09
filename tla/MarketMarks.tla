----------------------------- MODULE MarketMarks -----------------------------
(* The immutable MarketSnapshot: its marks, the typed shocks that derive a   *)
(* new snapshot from one, and the difference of two snapshots.               *)
(*                                                                           *)
(* Units: a spot is a whole amount; a relative move is in percent; a rate, a *)
(* zero and a volatility are in millionths, so a basis point is 100; a       *)
(* moneyness is in tenths and an expiry in quarters of a year.               *)
(* A definition that may raise denotes a set: the one result, or nothing.    *)
EXTENDS Integers, Sequences, FiniteSets, SequencesExt

CONSTANT None        \* Python's None: nothing a mark, name or amount equals

\* What F makes of every element, in order: of its sets of results one result
\* each, so nothing when one of them is empty.
Each(F(_), seq) ==
    FoldLeft(LAMBDA acc, x : {Append(done, v) : done \in acc, v \in F(x)}, {<<>>}, seq)
Mapped(F(_), seq) == FoldLeft(LAMBDA acc, x : Append(acc, F(x)), <<>>, seq)
Positions(seq)    == [i \in DOMAIN seq |-> i]

-----------------------------------------------------------------------------
(* Typed risk factors.                                                       *)

Spot(s)      == [kind |-> "EquitySpot", name |-> s]
FXSpot(p)    == [kind |-> "FXSpot", name |-> p]
RateZero(c, t) == [kind |-> "RateZero", name |-> c, tenor |-> t]
Vol(kind, n, expiry, moneyness) ==
    [kind |-> kind, name |-> n, expiry |-> expiry, moneyness |-> moneyness]
EquityVol(s) == Vol("EquityVol", s, "GENERIC", "ATM")
FXVol(p)     == Vol("FXVol", p, "GENERIC", "ATM")

VolKinds == {"EquityVol", "FXVol"}

FactorType(f) == CASE f.kind = "EquitySpot" -> "equity"
                   [] f.kind = "FXSpot"     -> "fx"
                   [] f.kind = "RateZero"   -> "rate"
                   [] f.kind \in VolKinds   -> "vol"

\* The stable API key: neither the tenor nor the vol bucket is part of it.
Key(f) == CASE f.kind \in {"EquitySpot", "FXSpot"} -> <<f.name>>
            [] f.kind = "RateZero"                 -> <<f.name, "RATE">>
            [] f.kind \in VolKinds                 -> <<f.name, "VOL">>

Bucket(f) == IF f.kind = "RateZero" THEN f.tenor ELSE f.name

BpsToDecimalRate(bps)   == 100 * bps
\* Fault: a rate is sent out as it is.
RateAsBps(rate)         == rate
DecimalRateToBps(rate)  == rate \div 100
DecimalVolToPoints(dv)  == dv \div 10000

-----------------------------------------------------------------------------
(* Volatility surfaces: a grid over (expiry, moneyness).                     *)

ExpiryQuarters == [e \in {"3M", "6M", "1Y", "2Y"} |->
                     CASE e = "3M" -> 1 [] e = "6M" -> 2 [] e = "1Y" -> 4 [] e = "2Y" -> 8]

MinVol == 1
Floored(v) == IF v < MinVol THEN MinVol ELSE v
MapVols(grid, move(_, _, _)) ==
    [n \in DOMAIN grid |-> Floored(move(n[1], n[2], grid[n]))]

RelativeShift(grid, a)   == MapVols(grid, LAMBDA e, k, v : (v * (100 + a)) \div 100)
ExpiryShift(grid, x, a)  ==
    MapVols(grid, LAMBDA e, k, v : IF e = x THEN (v * (100 + a)) \div 100 ELSE v)
SkewShock(grid, a)       == MapVols(grid, LAMBDA e, k, v : v + a * (k - 10) * 1000)
TermShock(grid, a)       == MapVols(grid, LAMBDA e, k, v : v + a * ExpiryQuarters[e] * 2500)

\* The 1Y at-the-money node, or the mean of the surface.
AtmVol(grid) ==
    IF <<"1Y", 10>> \in DOMAIN grid
    THEN grid[<<"1Y", 10>>]
    ELSE LET nodes == SetToSeq(DOMAIN grid)
         IN  FoldLeft(LAMBDA sum, n : sum + grid[n], 0, nodes) \div Len(nodes)

\* Which of the surface's shocks a typed vol bump is.
BumpSurface(grid, f, a) ==
    CASE f.moneyness = "SKEW"             -> SkewShock(grid, a)
      [] f.moneyness # "SKEW" /\ f.expiry = "TERM" -> TermShock(grid, a)
      [] f.moneyness = "ATM" /\ f.expiry \in DOMAIN ExpiryQuarters ->
            ExpiryShift(grid, f.expiry, a)
      [] OTHER                            -> RelativeShift(grid, a)

-----------------------------------------------------------------------------
(* Shocks.                                                                   *)

ParallelTenors == {"ALL", "PARALLEL"}
\* Fault: the shock of a tenor moves the whole curve.
HitWhole(tenor, zeros) == DOMAIN zeros

HitBy(tenor, zeros) ==
    IF tenor \in ParallelTenors THEN DOMAIN zeros ELSE DOMAIN zeros \cap {tenor}
ShiftZeros(zeros, tenor, a) ==
    [t \in DOMAIN zeros |-> IF t \in HitBy(tenor, zeros) THEN zeros[t] + a ELSE zeros[t]]

BumpedId(m, f) == Append(m.id, <<"bump", Key(f), IF f.kind = "RateZero" THEN f.tenor ELSE None>>)

ShiftSpot(m, spots, f, a) ==
    IF f.name \in DOMAIN m[spots]
    THEN {[m EXCEPT ![spots][f.name] = (@ * (100 + a)) \div 100, !.id = BumpedId(m, f)]}
    ELSE {}

\* The flat vol moves by the amount; a surface of the same asset class moves
\* in its own way and then sets the flat vol.
ShiftVol(m, vols, class, f, a) ==
    IF f.name \notin DOMAIN m[vols] THEN {}
    ELSE LET flat == [m EXCEPT ![vols][f.name] = Floored((@ * (100 + a)) \div 100),
                               !.id = BumpedId(m, f)]
             moved == BumpSurface(m.vol_surfaces[f.name].grid, f, a)
         IN  {IF f.name \in DOMAIN m.vol_surfaces /\ m.vol_surfaces[f.name].asset_class = class
              THEN [flat EXCEPT !.vol_surfaces[f.name].grid = moved, ![vols][f.name] = AtmVol(moved)]
              ELSE flat}

\* A parallel shock moves the scalar rate, every pillar and every curve of
\* the currency; a tenor's shock moves pillars and curve zeros only.
StageRateZero(m, f, a) ==
    LET ccy      == f.name
        parallel == f.tenor \in ParallelTenors
        pillars  == IF ccy \in DOMAIN m.key_rates THEN m.key_rates[ccy] ELSE <<>>
        own      == {n \in DOMAIN m.curves : m.curves[n].currency = ccy}
        touched  == IF parallel
                    THEN ccy \in DOMAIN m.rates
                    ELSE \/ f.tenor \in DOMAIN pillars
                         \/ \E n \in own : f.tenor \in DOMAIN m.curves[n].zeros
    IN  IF ~touched THEN {} ELSE
        {[m EXCEPT
            !.id = BumpedId(m, f),
            !.rates = [c \in DOMAIN @ |-> IF c = ccy /\ parallel THEN @[c] + a ELSE @[c]],
            !.key_rates = [c \in DOMAIN @ |-> IF c = ccy THEN ShiftZeros(@[c], f.tenor, a) ELSE @[c]],
            !.curves = [n \in DOMAIN @ |-> IF n \in own
                                           THEN [@[n] EXCEPT !.zeros = ShiftZeros(@, f.tenor, a)]
                                           ELSE @[n]]]}

StageShock(m, f, a) ==
    CASE f.kind = "EquitySpot" -> ShiftSpot(m, "equity_spots", f, a)
      [] f.kind = "FXSpot"     -> ShiftSpot(m, "fx_spots", f, a)
      [] f.kind = "EquityVol"  -> ShiftVol(m, "equity_vols", "equity", f, a)
      [] f.kind = "FXVol"      -> ShiftVol(m, "fx_vols", "fx", f, a)
      [] f.kind = "RateZero"   -> StageRateZero(m, f, a)

\* Successive shocks, one new snapshot; one that raises loses them all.
Apply(m, shocks) ==
    FoldLeft(LAMBDA acc, s : UNION {StageShock(x, s.factor, s.amount) : x \in acc}, {m}, shocks)

Bump(m, f, a) == Apply(m, <<[factor |-> f, amount |-> a]>>)

-----------------------------------------------------------------------------
(* Content, difference, typed views.                                         *)

\* What the content hash covers: every mark, neither the id nor the date.
Marks(m) == [n \in DOMAIN m \ {"id", "as_of"} |-> m[n]]

RelativeDiff(was, now) ==
    {<<n, (100 * (now[n] - was[n])) \div was[n]>> :
        n \in {k \in DOMAIN was \cap DOMAIN now : was[k] # 0 /\ now[k] # was[k]}}
AbsoluteDiff(was, now) ==
    {<<n, now[n] - was[n]>> : n \in {k \in DOMAIN was \cap DOMAIN now : now[k] # was[k]}}

\* Marks that only one of the two has are not reported.
Diff(m, other) ==
    LET tag(kind, rows) == {<<kind>> \o r : r \in rows}
        pillars(x) == [p \in UNION {{c} \X DOMAIN x.key_rates[c] : c \in DOMAIN x.key_rates}
                         |-> x.key_rates[p[1]][p[2]]]
        zeros(x)   == [p \in UNION {{n} \X DOMAIN x.curves[n].zeros : n \in DOMAIN x.curves}
                         |-> x.curves[p[1]].zeros[p[2]]]
        nodes(x)   == [p \in UNION {{n} \X DOMAIN x.vol_surfaces[n].grid : n \in DOMAIN x.vol_surfaces}
                         |-> x.vol_surfaces[p[1]].grid[p[2]]]
        atms(x)    == [n \in DOMAIN x.vol_surfaces |-> AtmVol(x.vol_surfaces[n].grid)]
    IN  UNION ({tag(k, RelativeDiff(m[k], other[k])) :
                    k \in {"equity_spots", "equity_vols", "fx_spots", "fx_vols"}}
               \cup {tag(k, AbsoluteDiff(m[k], other[k])) :
                    k \in {"rates", "projection_rates", "dividend_yields"}}
               \cup {tag("key_rates", AbsoluteDiff(pillars(m), pillars(other))),
                     tag("curves", AbsoluteDiff(zeros(m), zeros(other))),
                     tag("vol_surfaces", RelativeDiff(nodes(m), nodes(other))),
                     tag("atm_vol", RelativeDiff(atms(m), atms(other)))})
==============================================================================
