--------------------------- MODULE MCPricingSession ---------------------------
(* Small instances of PricingSession for TLC. *)
EXTENDS PricingSession, TLC

CONSTANTS t1, t2, t3, e1, e2, swap, option, d1, d2, d3

\* Two threads share the service's engine, a third has an engine of its own.
ThreeThreads == {t1, t2, t3}
BothEngines  == {e1, e2}
SharedAndOwn == [t \in ThreeThreads |-> IF t = t3 THEN e2 ELSE e1]
BothItems    == {swap, option}
BothDates    == {d1, d2}
ThreeDates   == {d1, d2, d3}

\* The threads of the shared engine are interchangeable.
Symmetric == Permutations({t1, t2})
=============================================================================
