------------------------------- MODULE Pricing -------------------------------
(* Instrument families, the marks each must find in the snapshot, the        *)
(* reference pricer's valuation of a position, and what is read off it: the  *)
(* factor exposures of a book and its bump-and-revalue sensitivities.        *)
(*                                                                           *)
(* A position is a record with the fields of its family; maturities are in   *)
(* quarters. The option formulas are parameters; which marks they are given, *)
(* and what is raised when one is missing, is not.                           *)
EXTENDS Curves

CONSTANTS
    Foreign, Domestic,            \* the two currencies of a pair
    European(_, _, _, _, _, _, _),\* type, spot, strike, rate, carry, vol, quarters
    Black(_, _, _, _, _)          \* type, forward, strike, vol, quarters

-----------------------------------------------------------------------------
(* Capabilities.                                                             *)

Capability(kinds, sensitivities) == [kinds |-> kinds, sensitivities |-> sensitivities]

Registry ==
    [f \in {"equity", "equity_future", "european_option", "bond", "swap", "fx_forward",
            "fx_option", "ir_future", "cap_floor", "swaption"} |->
        CASE f = "equity"          -> Capability({"EquitySpot"}, {"delta"})
          [] f = "equity_future"   -> Capability({"EquitySpot", "RateZero"}, {"delta", "dv01"})
          [] f = "european_option" -> Capability({"EquitySpot", "EquityVol", "RateZero"},
                                                 {"delta", "gamma", "vega"})
          [] f \in {"bond", "swap", "ir_future"} -> Capability({"RateZero"}, {"dv01"})
          [] f = "fx_forward"      -> Capability({"FXSpot", "RateZero"}, {"fx_delta"})
          [] f = "fx_option"       -> Capability({"FXSpot", "FXVol", "RateZero"},
                                                 {"fx_delta", "gamma", "vega"})
          [] f \in {"cap_floor", "swaption"} -> Capability({"RateZero"}, {"vega", "dv01"})]

\* Rounding to the nearest whole, ties to the even one.
Round(n, d) ==
    LET q == n \div d  r == 2 * (n % d)
    IN  IF r > d \/ (r = d /\ q % 2 = 1) THEN q + 1 ELSE q

Maturity(p) == IF p.type = "swaption" THEN p.option_maturity ELSE p.maturity
YearTenor(n) == ToString(n) \o "Y"

\* Rates are named only by a family that has a DV01 and no spot.
named_risk_factors(p) ==
    LET cap == Registry[p.type]
        on(k, f) == IF k \in cap.kinds THEN <<f>> ELSE <<>>
        rate == /\ "RateZero" \in cap.kinds /\ "dv01" \in cap.sensitivities
                /\ cap.kinds \cap {"EquitySpot", "FXSpot"} = {}
    IN  IF rate THEN <<RateZero(p.currency, YearTenor(Round(Maturity(p), 4)))>>
        ELSE IF "EquitySpot" \in cap.kinds
             THEN on("EquitySpot", Spot(p.symbol)) \o on("EquityVol", EquityVol(p.symbol))
             ELSE on("FXSpot", FXSpot(p.pair)) \o on("FXVol", FXVol(p.pair))

-----------------------------------------------------------------------------
(* Valuation.                                                                *)

Mark(d, n) == IF n \in DOMAIN d THEN {d[n]} ELSE {}

Greeks == [delta |-> 0, gamma |-> 0, vega |-> 0, dv01 |-> 0, fx_delta |-> 0]
Valued(mv, greeks) == greeks @@ [market_value |-> mv] @@ Greeks

Equity(p, m) == {Valued(p.quantity * s, [delta |-> p.quantity * s]) : s \in Mark(m.equity_spots, p.symbol)}

EquityFuture(p, m) ==
    {LET mv == (p.quantity * p.multiplier * s * Exp((r - q) * p.maturity)) \div 1000
     IN  Valued(mv, [delta |-> mv, dv01 |-> (mv * p.maturity) \div 40000]) :
        s \in Mark(m.equity_spots, p.symbol), r \in Mark(m.rates, p.currency),
        q \in Mark(m.dividend_yields, p.symbol)}

FXForward(p, m) ==
    {LET forward == (s * Exp((rd - rf) * p.maturity)) \div 1000
     IN  Valued((p.notional_base * (forward - p.strike) * Exp(-(rd * p.maturity))) \div 1000,
                [fx_delta |-> p.notional_base * s]) :
        s \in Mark(m.fx_spots, p.pair), rd \in Mark(m.rates, Domestic[p.pair]),
        rf \in Mark(m.rates, Foreign[p.pair])}

\* The curve's discount factor, or that of the scalar zero.
BondPV(p, m) ==
    LET curve  == discount_factor(m, p.currency, p.maturity)
        scalar == {Exp(-(y * p.maturity)) :
                      y \in required_continuous_zero(m, p.currency, p.maturity, FALSE)}
    IN  {(p.face_value * p.quantity * d) \div 1000 : d \in IF curve # {} THEN curve ELSE scalar}

\* The notional is in ten thousands.
SwapPV(p, m) ==
    {((IF p.pay_fixed THEN 1 ELSE -1) * (z - p.fixed_rate) * p.notional * p.duration) \div 100 :
        z \in required_continuous_zero(m, p.currency, p.maturity, FALSE)}

\* The market value and, as DV01, what a parallel basis point adds to it.
Repriced(pv(_), m, ccy) ==
    {Valued(base, [dv01 |-> up - base]) :
        base \in pv(m), up \in UNION {pv(x) : x \in Bump(m, RateZero(ccy, "PARALLEL"), 100)}}
Bond(p, m) == Repriced(LAMBDA x : BondPV(p, x), m, p.currency)
Swap(p, m) == Repriced(LAMBDA x : SwapPV(p, x), m, p.currency)

EuropeanOption(p, m) ==
    {LET u == European(p.option_type, s, p.strike, r, q, v, p.maturity)
     IN  Valued(p.quantity * u.price,
                [delta |-> p.quantity * u.delta * s, gamma |-> p.quantity * u.gamma * s * s,
                 vega |-> p.quantity * u.vega]) :
        s \in Mark(m.equity_spots, p.symbol), r \in Mark(m.rates, p.currency),
        q \in Mark(m.dividend_yields, p.symbol),
        v \in OptionVol(m, "equity_vols", p.symbol, p.maturity, p.strike,
                        IF p.symbol \in DOMAIN m.equity_spots THEN m.equity_spots[p.symbol] ELSE 0)}

FXOption(p, m) ==
    {LET u == European(p.option_type, s, p.strike, rd, rf, v, p.maturity)
     IN  Valued(p.notional_base * u.price,
                [fx_delta |-> p.notional_base * u.delta * s,
                 gamma |-> p.notional_base * u.gamma * s * s, vega |-> p.notional_base * u.vega]) :
        s \in Mark(m.fx_spots, p.pair), rd \in Mark(m.rates, Domestic[p.pair]),
        rf \in Mark(m.rates, Foreign[p.pair]),
        v \in OptionVol(m, "fx_vols", p.pair, p.maturity, p.strike,
                        IF p.pair \in DOMAIN m.fx_spots THEN m.fx_spots[p.pair] ELSE 0)}

IRFuture(p, m) ==
    {Valued((p.quantity * p.pv01 * (quoted - fwd)) \div 100, [dv01 |-> -(p.quantity * p.pv01)]) :
        fwd \in required_continuous_zero(m, p.currency, p.maturity, TRUE),
        quoted \in Mark(m.ir_future_quotes, p.currency)}

\* Optionlets and the options they are priced as: each has an expiry, a pay
\* date, a Black type and an accrual in quarters.
Periods(length, frequency) == IF Round(length * frequency, 4) < 1 THEN 1 ELSE Round(length * frequency, 4)
Optionlets(p) ==
    IF p.type = "cap_floor"
    THEN LET n == Periods(p.maturity, p.frequency)
         IN  {[expiry |-> ((i - 1) * p.maturity) \div n, pay |-> (i * p.maturity) \div n,
               accrual |-> p.maturity \div n] : i \in 1..n}
    ELSE LET n == Periods(p.swap_tenor, p.frequency)
         IN  {[expiry |-> p.option_maturity, pay |-> p.option_maturity + (i * p.swap_tenor) \div n,
               accrual |-> p.swap_tenor \div n] : i \in 1..n}
\* A swaption discounts every period at the zero of the swap's end.
DiscountAt(p, o) == IF p.type = "cap_floor" THEN o.pay ELSE p.option_maturity + p.swap_tenor

\* One optionlet's value and vega; a forward that is not positive raises.
OptionletPV(p, m, o, vol, shift) ==
    {LET u == Black(p.option_type, f + shift, p.strike, vol, o.expiry)
         scale == p.quantity * p.notional * o.accrual * Exp(-((d + shift) * o.pay))
     IN  <<(scale * u.price) \div 4000, (scale * u.vega) \div 400000>> :
        f \in {x \in required_continuous_zero(m, p.currency, o.expiry, TRUE) : x + shift > 0},
        d \in required_continuous_zero(m, p.currency, DiscountAt(p, o), FALSE)}

RateOptionPV(p, m, shift) ==
    UNION {LET parts(o) == OptionletPV(p, m, o, vol, shift)
               all == Optionlets(p)
               sum(k) == FoldSet(LAMBDA o, s : s + (CHOOSE x \in parts(o) : TRUE)[k], 0, all)
           IN  IF \E o \in all : parts(o) = {} THEN {} ELSE {<<sum(1), sum(2)>>} :
        vol \in UNION {OptionVol(m, "ir_vols", p.currency, Maturity(p), p.strike, f) :
                          f \in required_continuous_zero(m, p.currency, Maturity(p), TRUE)}}

RateOption(p, m) ==
    {Valued(b[1], [vega |-> b[2], dv01 |-> up[1] - b[1]]) :
        b \in RateOptionPV(p, m, 0), up \in RateOptionPV(p, m, 100)}

\* One handler per family.
value(p, m) ==
    CASE p.type = "equity"          -> Equity(p, m)
      [] p.type = "equity_future"   -> EquityFuture(p, m)
      [] p.type = "european_option" -> EuropeanOption(p, m)
      [] p.type = "bond"            -> Bond(p, m)
      [] p.type = "swap"            -> Swap(p, m)
      [] p.type = "fx_forward"      -> FXForward(p, m)
      [] p.type = "fx_option"       -> FXOption(p, m)
      [] p.type = "ir_future"       -> IRFuture(p, m)
      [] p.type \in {"cap_floor", "swaption"} -> RateOption(p, m)

\* Every position of a book, in order; one that raises loses them all.
value_portfolio(positions, m) == Each(LAMBDA p : value(p, m), positions)

Total(vs, field) == FoldLeft(LAMBDA s, v : s + v[field], 0, vs)
PortfolioPV(positions, m) == {Total(vs, "market_value") : vs \in value_portfolio(positions, m)}

-----------------------------------------------------------------------------
(* Factor exposures and sensitivities.                                       *)

SensitivityForFactor(f, v) ==
    CASE f.kind = "EquitySpot" -> v.delta
      [] f.kind = "FXSpot"     -> v.fx_delta
      [] f.kind \in VolKinds   -> v.vega
      [] f.kind = "RateZero"   -> v.dv01

\* The exposures of a book, by factor: a zero vega names no factor.
calculate_typed(positions, m) ==
    {LET rows == UNION {{<<i, f, SensitivityForFactor(f, vs[i])>> :
                            f \in Range(named_risk_factors(positions[i]))} : i \in DOMAIN positions}
         kept == {r \in rows : ~(r[2].kind \in VolKinds /\ r[3] = 0)}
     IN  [f \in {r[2] : r \in kept} |->
            FoldSet(LAMBDA r, s : s + r[3], 0, {r \in kept : r[2] = f})] :
        vs \in value_portfolio(positions, m)}

\* The API's rows: the key of a factor does not have its tenor.
FactorRows(exposures) ==
    {[factor |-> Key(f), factor_type |-> FactorType(f), bucket |-> Bucket(f),
      exposure |-> exposures[f]] : f \in DOMAIN exposures}

\* The sensitivity engine's own bumps; a volatility moves by whole points, and
\* its surface does not move with it.
BumpSpot(m, spots, n, pct) ==
    IF n \in DOMAIN m[spots] THEN [m EXCEPT ![spots][n] = (@ * (100 + pct)) \div 100] ELSE m
BumpVol(m, vols, n, points) ==
    IF n \in DOMAIN m[vols] THEN [m EXCEPT ![vols][n] = Floored(@ + 10000 * points)] ELSE m
BumpParallelRate(m, ccy, bps) ==
    IF ccy \in DOMAIN m.rates
    THEN CHOOSE x \in Bump(m, RateZero(ccy, "PARALLEL"), BpsToDecimalRate(bps)) : TRUE
    ELSE m

KeyRateTenorAvailable(m, ccy, tenor) ==
    \/ ccy \in DOMAIN m.key_rates /\ tenor \in DOMAIN m.key_rates[ccy]
    \/ \E n \in DOMAIN m.curves : m.curves[n].currency = ccy /\ tenor \in DOMAIN m.curves[n].zeros
BumpKeyRate(m, ccy, tenor, bps) ==
    IF KeyRateTenorAvailable(m, ccy, tenor)
    THEN CHOOSE x \in Bump(m, RateZero(ccy, tenor), BpsToDecimalRate(bps)) : TRUE
    ELSE BumpParallelRate(m, ccy, bps)

\* The two markets a measure compares, and what their difference is divided by.
Measures(m, f) ==
    LET n == f.name
        spot(k)  == [up |-> BumpSpot(m, k, n, 1), down |-> BumpSpot(m, k, n, -1)]
        vol(k)   == [up |-> BumpVol(m, k, n, 1), down |-> BumpVol(m, k, n, -1)]
        par      == [up |-> BumpParallelRate(m, n, 1), down |-> BumpParallelRate(m, n, -1)]
        pillar   == [up |-> BumpKeyRate(m, n, f.tenor, 1), down |-> BumpKeyRate(m, n, f.tenor, -1)]
    IN  CASE f.kind = "EquitySpot" /\ n \in DOMAIN m.equity_spots ->
                {<<"delta", spot("equity_spots")>>, <<"gamma", spot("equity_spots")>>}
          [] f.kind = "FXSpot" /\ n \in DOMAIN m.fx_spots ->
                {<<"fx_delta", spot("fx_spots")>>, <<"gamma", spot("fx_spots")>>}
          [] f.kind = "EquityVol" /\ n \in DOMAIN m.equity_vols -> {<<"vega", vol("equity_vols")>>}
          [] f.kind = "FXVol" /\ n \in DOMAIN m.fx_vols -> {<<"vega", vol("fx_vols")>>}
          [] f.kind = "RateZero" /\ n \in DOMAIN m.rates ->
                {<<"dv01", par>>, <<"key_rate_dv01", pillar>>}
          [] OTHER -> {}

\* A spot's difference is over two percent, the others' over two units; a
\* gamma is the second difference over a percent squared.
Measured(name, pv0, up, down) ==
    CASE name \in {"delta", "fx_delta"} -> 50 * (up - down)
      [] name = "gamma"                 -> 10000 * (up - 2 * pv0 + down)
      [] OTHER                          -> (up - down) \div 2

\* The parallel DV01 is reported once per currency.
MeasureFactor(name, f) == IF name = "dv01" THEN RateZero(f.name, "PARALLEL") ELSE f

SensitivityRows(positions, m) ==
    UNION {UNION {UNION {{[name |-> x[1], factor |-> MeasureFactor(x[1], f),
                           value |-> Measured(x[1], pv0, up, down)] :
                             pv0 \in PortfolioPV(positions, m), up \in PortfolioPV(positions, x[2].up),
                             down \in PortfolioPV(positions, x[2].down)} :
                         x \in Measures(m, f)} : f \in DOMAIN e} : e \in calculate_typed(positions, m)}
==============================================================================
