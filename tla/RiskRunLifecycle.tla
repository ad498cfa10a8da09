-------------------------- MODULE RiskRunLifecycle --------------------------
(***************************************************************************)
(* What a RiskRun promises to whoever reads its row and its result         *)
(* (backend/app/services/risk_run_service.py): the lifecycle graph of      *)
(* ALLOWED_TRANSITIONS, a market snapshot that is bound once, and a result *)
(* that appears with COMPLETED, is priced on the bound snapshot and never  *)
(* changes.  Who executes a run, and how often a process dies, is not      *)
(* visible here.                                                           *)
(***************************************************************************)
EXTENDS Naturals

CONSTANTS
    Runs,      \* run ids
    Snaps,     \* market snapshot ids
    NoSnap,    \* no snapshot bound yet
    NoResult,  \* no result yet
    Versions   \* versions of the priced book

VARIABLES status, snap, result

vars == <<status, snap, result>>

\* ALLOWED_TRANSITIONS
Allowed(s) ==
    CASE s = "QUEUED"  -> {"RUNNING"}
      [] s = "RUNNING" -> {"COMPLETED", "FAILED"}
      [] OTHER         -> {}

CanTransition(r, target) == target \in Allowed(status[r])

Init ==
    /\ status = [r \in Runs |-> "NONE"]
    /\ snap   = [r \in Runs |-> NoSnap]
    /\ result = [r \in Runs |-> NoResult]

\* enqueue: a new row, with or without the snapshot the client names.
Enqueue(r, s) ==
    /\ status[r] = "NONE"
    /\ status' = [status EXCEPT ![r] = "QUEUED"]
    /\ snap' = [snap EXCEPT ![r] = s]
    /\ UNCHANGED result

\* start() of one run, or claim_queued() of a batch.
Begin(S) ==
    /\ \A r \in S : CanTransition(r, "RUNNING")
    /\ status' = [r \in Runs |-> IF r \in S THEN "RUNNING" ELSE status[r]]
    /\ UNCHANGED <<snap, result>>

\* bind_market_snapshot: never rebinds.
BindMarketSnapshot(r, s) ==
    /\ status[r] = "RUNNING"
    /\ snap[r] = NoSnap
    /\ snap' = [snap EXCEPT ![r] = s]
    /\ UNCHANGED <<status, result>>

\* complete: the result row and the status together.
Complete(r, v) ==
    /\ CanTransition(r, "COMPLETED")
    /\ snap[r] # NoSnap
    /\ result[r] = NoResult
    /\ status' = [status EXCEPT ![r] = "COMPLETED"]
    /\ result' = [result EXCEPT ![r] = [book |-> v, market |-> snap[r]]]
    /\ UNCHANGED snap

\* fail: no result.
Fail(r) ==
    /\ CanTransition(r, "FAILED")
    /\ status' = [status EXCEPT ![r] = "FAILED"]
    /\ UNCHANGED <<snap, result>>

Next ==
    \/ \E r \in Runs, s \in Snaps \cup {NoSnap} : Enqueue(r, s)
    \/ \E S \in SUBSET Runs : Begin(S)
    \/ \E r \in Runs, s \in Snaps : BindMarketSnapshot(r, s)
    \/ \E r \in Runs, v \in Versions : Complete(r, v)
    \/ \E r \in Runs : Fail(r)

Spec == Init /\ [][Next]_vars
=============================================================================
