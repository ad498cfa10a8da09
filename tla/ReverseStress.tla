---------------------------- MODULE ReverseStress ----------------------------
(* The two reverse-stress solvers, as coroutines: Ask is the shock a solver   *)
(* evaluates next, Told is the solver after it has heard whether the loss     *)
(* reaches the target and what the P&L is. An evaluation is one application   *)
(* of a scenario, through the memo like any other.                            *)
(*                                                                            *)
(* Magnitudes are whole percents (the search stops when its bracket is one    *)
(* percent wide, the code's when it is a millionth of the bound), so the loss *)
(* tolerance is zero.                                                         *)
EXTENDS StressTests

CONSTANTS MaxIterations,      \* of one bisection
          CoordinatePasses    \* of the multi-factor refinement
ASSUME SolverAssumption == MaxIterations \in Nat \ {0} /\ CoordinatePasses \in Nat

DEFAULT_FACTORS == <<"equity", "rates", "vol", "fx">>

\* On the wire a rate's magnitude is in basis points, ten to the percent.
to_wire_shock(family, magnitude) == IF family = "rates" THEN 10 * magnitude ELSE magnitude

\* The adverse move of one family: spots down, volatilities and rates up.
build_single_factor_shocks(family, magnitude, m) ==
    LET all(marks, factor(_), amount) ==
            [i \in 1..Cardinality(DOMAIN marks) |->
                [factor |-> factor(Ordered(marks)[i]), amount |-> amount]]
    IN  CASE magnitude = 0      -> <<>>
          [] magnitude # 0 /\ family = "equity" -> all(m.equity_spots, Spot, -magnitude)
          [] magnitude # 0 /\ family = "fx"     -> all(m.fx_spots, FXSpot, -magnitude)
          [] magnitude # 0 /\ family = "vol"    -> all(m.equity_vols, EquityVol, magnitude)
                                                   \o all(m.fx_vols, FXVol, magnitude)
          [] magnitude # 0 /\ family = "rates"  ->
                all(m.rates, ParallelRate, BpsToDecimalRate(to_wire_shock("rates", magnitude)))

build_reverse_scenario(id, families, magnitudes, m) ==
    Formal(id, "reverse",
           FoldLeft(LAMBDA acc, f : acc \o build_single_factor_shocks(f, magnitudes[f], m), <<>>, families),
           None, None, NoMeta)

-----------------------------------------------------------------------------
(* The solvers' common state. "at" is the point under evaluation's phase; a   *)
(* single-factor solver has one family and neither weights nor refinement.    *)

Solver(id, target, families, weights, bounds) ==
    [id |-> id, at |-> "zero", target |-> target, families |-> families, weights |-> weights,
     bounds |-> bounds, lo |-> 0, hi |-> 0, iterations |-> 0, mags |-> [f \in Range(families) |-> 0],
     coordinate |-> 1, pass |-> 1, before |-> [f \in Range(families) |-> 0]]

\* max_shock is the bound of a single-factor search, refused unless positive.
StartSingle(target, family, max_shock) ==
    IF target <= 0 \/ max_shock <= 0 THEN {}
    ELSE {Solver("reverse", target, <<family>>, [f \in {family} |-> 100], [f \in {family} |-> max_shock])}

\* A family named twice counts once; the largest weight becomes 100 percent.
NormalizeWeights(families, weights) ==
    LET peak == Worst({weights[f] : f \in Range(families)})
    IN  IF peak <= 0 \/ \E f \in Range(families) : weights[f] < 0 THEN {}
        ELSE {[f \in Range(families) |-> (100 * weights[f]) \div peak]}
ResolveBounds(families, max_shock, max_shocks) ==
    LET b(f) == IF f \in DOMAIN max_shocks THEN max_shocks[f] ELSE max_shock
    IN  IF \E f \in Range(families) : b(f) <= 0 THEN {} ELSE {[f \in Range(families) |-> b(f)]}
Unique(families) ==
    LET selected[n \in 0..Len(families)] ==
            IF n = 0 THEN <<>>
            ELSE IF families[n] \in Range(selected[n - 1]) THEN selected[n - 1]
                 ELSE Append(selected[n - 1], families[n])
    IN  selected[Len(families)]
StartMulti(target, families, weights, max_shock, max_shocks) ==
    IF target <= 0 \/ max_shock <= 0 \/ families = <<>> THEN {}
    ELSE {Solver("reverse_multi", target, Unique(families), w, b) :
             w \in NormalizeWeights(families, weights), b \in ResolveBounds(families, max_shock, max_shocks)}

Multi(s)  == s.id = "reverse_multi"
Family(s) == s.families[s.coordinate]
Middle(s) == (s.lo + s.hi) \div 2

\* The point at a scale, in percent of the way from nothing to the weighted
\* bounds. A single search runs over the magnitude itself.
RayPoint(s, scale) ==
    [f \in DOMAIN s.bounds |-> IF Multi(s) THEN (scale * s.weights[f] * s.bounds[f]) \div 10000 ELSE scale]
Trial(s, magnitude) == [s.mags EXCEPT ![Family(s)] = magnitude]

Ask(s) == CASE s.at = "zero"   -> [f \in DOMAIN s.bounds |-> 0]
            [] s.at = "corner" -> s.bounds
            [] s.at = "ray"    -> RayPoint(s, Middle(s))
            [] s.at = "drop"   -> Trial(s, 0)
            [] s.at = "shrink" -> Trial(s, Middle(s))
            [] s.at = "final"  -> s.mags

\* Fault: a miss does not raise the lower end.
BisectedFromAbove(s, met) ==
    [s EXCEPT !.hi = IF met THEN Middle(s) ELSE @, !.iterations = @ + 1]

Bisected(s, met) ==
    [s EXCEPT !.lo = IF met THEN @ ELSE Middle(s), !.hi = IF met THEN Middle(s) ELSE @,
              !.iterations = @ + 1]
Narrow(s) == s.hi - s.lo <= 1 \/ s.iterations = MaxIterations

\* The next family of a pass, the next pass, or the end: after the last pass,
\* or when a pass has changed nothing.
NextCoordinate(s) ==
    CASE s.coordinate < Len(s.families) -> [s EXCEPT !.coordinate = @ + 1, !.at = "drop"]
      [] s.coordinate >= Len(s.families) /\ s.mags # s.before /\ s.pass < CoordinatePasses ->
            [s EXCEPT !.coordinate = 1, !.pass = @ + 1, !.before = s.mags, !.at = "drop"]
      [] OTHER -> [s EXCEPT !.at = "final"]

\* Fault: the point on the ray is reported without refinement.
RefineNever(s) == [s EXCEPT !.at = "final"]

Refine(s) == IF CoordinatePasses = 0 \/ ~Multi(s) THEN [s EXCEPT !.at = "final"]
             ELSE [s EXCEPT !.at = "drop", !.before = s.mags]

Done(s, converged, shocks, pnl) ==
    Put(Put(Put([s EXCEPT !.at = "done"], "converged", converged), "shocks", shocks), "pnl", pnl)

\* What a solver reports when it fails at the end: the single one nothing, the
\* multi-factor one its bounds.
Failed(s) == IF Multi(s) THEN s.bounds ELSE None

Told(s, met, pnl) ==
    CASE s.at = "zero" ->
            IF met THEN Done(s, TRUE, s.mags, pnl) ELSE [s EXCEPT !.at = "corner"]
      [] s.at = "corner" ->
            IF met THEN [s EXCEPT !.at = "ray",
                                  !.hi = IF Multi(s) THEN 100 ELSE s.bounds[s.families[1]]]
            ELSE Done(s, FALSE, Failed(s), pnl)
      [] s.at = "ray" ->
            LET b == Bisected(s, met)
            IN  IF Narrow(b) THEN Refine([b EXCEPT !.mags = RayPoint(b, b.hi)]) ELSE b
      [] s.at = "drop" ->
            IF met THEN NextCoordinate([s EXCEPT !.mags = Trial(s, 0)])
            ELSE [s EXCEPT !.at = "shrink", !.lo = 0, !.hi = s.mags[Family(s)], !.iterations = 0]
      [] s.at = "shrink" ->
            LET b == Bisected(s, met)
            IN  IF Narrow(b) THEN NextCoordinate([b EXCEPT !.mags = Trial(b, b.hi)]) ELSE b
      [] s.at = "final" ->
            Done(s, met, IF met THEN s.mags ELSE Failed(s), pnl)
==============================================================================
