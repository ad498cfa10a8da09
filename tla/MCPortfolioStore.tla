--------------------------- MODULE MCPortfolioStore ---------------------------
(* Small instances of PortfolioStore for TLC. *)
EXTENDS PortfolioStore, TLC

CONSTANTS q1, q2, q3, t1, t2

ThreeRequests == {q1, q2, q3}
TwoTrades     == {t1, t2}

\* Requests are interchangeable, and so are trade ids.
Symmetric == Permutations(ThreeRequests) \cup Permutations(TwoTrades)
=============================================================================
