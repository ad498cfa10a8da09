---------------------------- MODULE RiskPlatform -----------------------------
(* The two halves of the service, each a session of its own: requests that    *)
(* are answered while the client waits, and runs that are submitted, executed *)
(* and explained later. They read the same prices, panels and engines, and    *)
(* share no state: no request reads a run, a history file or a stored         *)
(* snapshot, and the memo is private to the process that answers. So the      *)
(* behaviours of the platform are the behaviours of the one and of the other. *)
EXTENDS RiskService, RunComparison

VARIABLE session
runVars == <<runsVars, report>>
platformVars == <<vars, runVars, session>>

NoRequests == memo = <<>> /\ call = [t \in Threads |-> None] /\ answer = call
NoRuns ==
    /\ runs = <<>> /\ kept = <<>> /\ events = 0 /\ freezing = None /\ report = None
    /\ service = None /\ disk = None /\ stored = None /\ live = None /\ base = None

PlatformInit ==
    \/ session = "analytics" /\ Init /\ NoRuns
    \/ session = "runs" /\ ComparisonInit /\ NoRequests

Analyse == session = "analytics" /\ Next /\ UNCHANGED <<runVars, session>>
Run1    == session = "runs" /\ ComparisonNext /\ UNCHANGED <<vars, session>>

PlatformNext == Analyse \/ Run1
PlatformSpec == PlatformInit /\ [][PlatformNext]_platformVars

\* Both halves are well formed: two calls never share a thread and the memo's
\* keys are distinct and no more than it was told; every run has what the process keeps of it, and the
\* order of the frozen files is of the files there are.
PlatformTypeOK == IF session = "analytics" THEN TypeOK ELSE RunsTypeOK
==============================================================================
