--------------------------- MODULE MCRiskRunWorker ---------------------------
(* Small instances of RiskRunWorker for TLC. *)
EXTENDS RiskRunInvariant, TLC

CONSTANTS api, w1, w2, r1, r2, demo, frozen

OneWorker  == {w1}
TwoWorkers == {w1, w2}
OneRun     == {r1}
TwoRuns    == {r1, r2}
BothSnaps  == {demo, frozen}

\* Workers and runs are interchangeable.
Symmetric == Permutations(TwoWorkers) \cup Permutations(TwoRuns)
RunSymmetry == Permutations(TwoRuns)
=============================================================================
