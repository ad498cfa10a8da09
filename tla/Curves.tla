-------------------------------- MODULE Curves --------------------------------
(* Yield curves: a curve is a function from maturities, in quarters, to       *)
(* continuous zeros. The curve of a currency is chosen from the payloads of a *)
(* snapshot; construction from quoted instruments; volatility look-up.        *)
EXTENDS Scenarios

CONSTANTS Exp(_),        \* 1000 * e^(rate * years): a rate in millionths times quarters
          ToZero(_, _)   \* the continuous zero of a simple rate at a maturity in quarters

TenorQuarters ==
    [t \in {"3M", "6M", "1Y", "2Y", "5Y", "7Y", "10Y", "20Y", "30Y"} |->
        CASE t = "3M" -> 1 [] t = "6M" -> 2 [] t = "1Y" -> 4 [] t = "2Y" -> 8 [] t = "5Y" -> 20
          [] t = "7Y" -> 28 [] t = "10Y" -> 40 [] t = "20Y" -> 80 [] t = "30Y" -> 120]
KEY_TENORS == {"1Y", "2Y", "5Y", "7Y", "10Y", "20Y", "30Y"}

-----------------------------------------------------------------------------
(* Interpolation.                                                            *)

\* The neighbours of x in a finite set of numbers, flat outside it.
Below(S, x) == IF x <= Min(S) THEN Min(S) ELSE Max({s \in S : s <= x})
Above(S, x) == IF x >= Max(S) THEN Max(S) ELSE Min({s \in S : s >= x})
Between(x, a, b, va, vb) ==
    CASE x <= a -> va [] x >= b -> vb [] OTHER -> va + ((x - a) * (vb - va)) \div (b - a)

zero(curve, t) ==
    LET years == DOMAIN curve
        l == Below(years, t)
        r == Above(years, t)
    IN  Between(t, l, r, curve[l], curve[r])

df(curve, t) == IF t = 0 THEN 1000 ELSE Exp(-(zero(curve, t) * t))

-----------------------------------------------------------------------------
(* The curve of a currency in a snapshot.                                    *)

\* A payload whose tenors all fail to parse makes no curve.
Nodes(zeros) ==
    LET known == DOMAIN zeros \cap DOMAIN TenorQuarters
    IN  [q \in {TenorQuarters[t] : t \in known} |->
            zeros[CHOOSE t \in known : TenorQuarters[t] = q]]
curve_from_payload(zeros) == LET n == Nodes(zeros) IN IF n = <<>> THEN {} ELSE {n}

Candidates(m, ccy) ==
    SelectSeq(Ordered(m.curves),
              LAMBDA n : m.curves[n].currency = ccy /\ curve_from_payload(m.curves[n].zeros) # {})

\* Projection first when it is preferred, then discount, then any, then the
\* key rates.
SelectYieldCurveUncached(m, ccy, prefer_projection) ==
    LET own      == Candidates(m, ccy)
        typed(k) == SelectSeq(own, LAMBDA n : m.curves[n].curve_type = k)
        ranked   == (IF prefer_projection THEN typed("projection") ELSE <<>>)
                    \o typed("discount") \o own
    IN  CASE ranked # <<>> -> {Nodes(m.curves[ranked[1]].zeros)}
          [] ranked = <<>> /\ ccy \in DOMAIN m.key_rates -> curve_from_payload(m.key_rates[ccy])
          [] OTHER -> {}

\* Fault: the cache's key without the key rates.
FingerprintOfCurves(m, ccy) ==
    LET mark(d) == IF ccy \in DOMAIN d THEN d[ccy] ELSE None
    IN  <<mark(m.rates), mark(m.projection_rates),
          {<<n, m.curves[n]>> : n \in {x \in DOMAIN m.curves : m.curves[x].currency = ccy}}>>

\* What the curve cache's key binds besides the currency and the preference.
curve_market_fingerprint(m, ccy) ==
    LET mark(d) == IF ccy \in DOMAIN d THEN d[ccy] ELSE None
    IN  <<mark(m.rates), mark(m.projection_rates), mark(m.key_rates),
          {<<n, m.curves[n]>> : n \in {x \in DOMAIN m.curves : m.curves[x].currency = ccy}}>>

\* The zero of a currency at a maturity, or nothing: then the caller raises.
required_continuous_zero(m, ccy, t, prefer_projection) ==
    LET curve == SelectYieldCurveUncached(m, ccy, prefer_projection)
    IN  CASE curve # {} -> {zero(c, t) : c \in curve}
          [] curve = {} /\ prefer_projection /\ ccy \in DOMAIN m.projection_rates ->
                {m.projection_rates[ccy]}
          [] OTHER -> IF ccy \in DOMAIN m.rates THEN {m.rates[ccy]} ELSE {}

discount_factor(m, ccy, t) == {df(c, t) : c \in SelectYieldCurveUncached(m, ccy, FALSE)}

-----------------------------------------------------------------------------
(* Building and attaching curves.                                            *)

Curve(ccy, type, zeros) == [currency |-> ccy, curve_type |-> type, zeros |-> zeros]
build_flat_curve(ccy, type, rate) == Curve(ccy, type, [t \in KEY_TENORS |-> rate])

InstrumentZero(i) == IF i.kind = "zero" THEN i.rate ELSE ToZero(i.rate, TenorQuarters[i.tenor])

\* Instruments in any order; none, or two of one tenor, raise.
bootstrap_yield_curve(ccy, type, instruments) ==
    LET tenors == {i.tenor : i \in Range(instruments)}
        at(t)  == CHOOSE i \in Range(instruments) : i.tenor = t
    IN  IF instruments = <<>> \/ Cardinality(tenors) # Len(instruments) THEN {}
        ELSE {Curve(ccy, type, [t \in tenors |-> InstrumentZero(at(t))])}

Put(d, n, v) == [x \in DOMAIN d \cup {n} |-> IF x = n THEN v ELSE d[x]]
FirstZero(zeros) == zeros[CHOOSE t \in DOMAIN zeros :
                             \A u \in DOMAIN zeros : TenorQuarters[t] <= TenorQuarters[u]]

\* A discount curve sets the key rates and the scalar rate, a projection curve
\* the scalar projection rate.
attach_bootstrapped_curve(m, ccy, type, name, instruments) ==
    {LET attached == [m EXCEPT !.id = Append(@, <<"bootstrapped", name>>),
                               !.curves = Put(@, name, c)]
     IN  IF type = "discount"
         THEN [attached EXCEPT !.key_rates = Put(@, ccy, c.zeros),
                               !.rates = Put(@, ccy, FirstZero(c.zeros))]
         ELSE [attached EXCEPT !.projection_rates = Put(@, ccy, FirstZero(c.zeros))]
       : c \in bootstrap_yield_curve(ccy, type, instruments)}

attach_standard_usd_curves(m, ois_rate, sofr_rate) ==
    LET ois  == build_flat_curve("USD", "discount", ois_rate)
        sofr == build_flat_curve("USD", "projection", sofr_rate)
    IN  [m EXCEPT !.id = Append(@, <<"usd_curves">>),
                  !.curves = Put(Put(@, "USD_OIS", ois), "USD_SOFR", sofr),
                  !.key_rates = Put(@, "USD", ois.zeros),
                  !.rates = Put(@, "USD", ois_rate),
                  !.projection_rates = Put(@, "USD", sofr_rate)]

\* The scalar volatility follows the surface that is attached.
attach_vol_surface(m, name, surface) ==
    LET vols == IF surface.asset_class = "equity" THEN "equity_vols" ELSE "fx_vols"
    IN  [m EXCEPT !.id = Append(@, <<"vol_surface", name>>),
                  !.vol_surfaces = Put(@, name, surface),
                  ![vols] = Put(@, name, AtmVol(surface.grid))]

-----------------------------------------------------------------------------
(* Option volatilities.                                                      *)

\* Bilinear in expiry and moneyness; a missing corner raises.
SurfaceVol(grid, t, k) ==
    LET label(q) == CHOOSE e \in {n[1] : n \in DOMAIN grid} : ExpiryQuarters[e] = q
        ts == {ExpiryQuarters[n[1]] : n \in DOMAIN grid}
        ks == {n[2] : n \in DOMAIN grid}
        t0 == Below(ts, t)  t1 == Above(ts, t)
        k0 == Below(ks, k)  k1 == Above(ks, k)
        smile(q) == Between(k, k0, k1, grid[<<label(q), k0>>], grid[<<label(q), k1>>])
    IN  IF {label(t0), label(t1)} \X {k0, k1} \subseteq DOMAIN grid
        THEN {Between(t, t0, t1, smile(t0), smile(t1))}
        ELSE {}

\* The surface when there is one and the spot is positive, else the scalar.
OptionVol(m, vols, name, t, strike, spot) ==
    CASE name \in DOMAIN m.vol_surfaces /\ spot > 0 ->
            SurfaceVol(m.vol_surfaces[name].grid, t, (10 * strike) \div spot)
      [] OTHER -> IF name \in DOMAIN m[vols] THEN {m[vols][name]} ELSE {}
===============================================================================
