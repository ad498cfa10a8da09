--------------------------- MODULE RiskRunInvariant ---------------------------
(***************************************************************************)
(* The inductive invariant behind the theorems of RiskRunWorkerProofs: for *)
(* every place a claim or a task can stand, what the row it works on looks *)
(* like.  It speaks of the deployments the docs allow (Exclusive).         *)
(***************************************************************************)
EXTENDS RiskRunWorker

\* Where the thread has the run RUNNING in the store.
AfterStart == {"load", "persist", "insert", "bind", "compute", "findResult",
               "addResult", "replaceResult", "failWrite"}

\* A claim transaction holds QUEUED rows only, one worker's at a time; what it
\* committed and has not scheduled is RUNNING.
ClaimInv ==
    /\ \A w \in Workers :
          /\ locked[w] # {} => poll[w] = "selected"
          /\ claimed[w] # {} => poll[w] = "claimed"
          /\ \A r \in locked[w] : status[r] = "QUEUED"
          /\ \A r \in claimed[w] : status[r] = "RUNNING"

\* Only the API starts QUEUED rows, and only where it executes at all.
TaskAt(p, r) ==
    /\ pc[p][r] = "booked" => p = Api /\ status[r] = "NONE"
    /\ pc[p][r] = "enqueued" => p = Api /\ status[r] = "QUEUED"
    /\ pc[p][r] \in {"waiting", "header"} =>
          status[r] = IF p = Api THEN "QUEUED" ELSE "RUNNING"
    /\ pc[p][r] \in {"start", "startWrite"} => p = Api /\ status[r] = "QUEUED"
    /\ pc[p][r] \in AfterStart => status[r] = "RUNNING"
    /\ pc[p][r] = "failing" => \/ status[r] \in {"RUNNING", "COMPLETED"}
                               \/ p = Api /\ status[r] = "QUEUED"
    /\ pc[p][r] \notin {"none", "booked"} => (p = Api <=> ~External)

TaskInv == \A p \in Proc, r \in Runs : TaskAt(p, r)

\* The executor's queue holds exactly waiting tasks, each once.
PoolInv ==
    \A p \in Proc : \A i \in 1..Len(pool[p]) :
        /\ pc[p][pool[p][i]] = "waiting"
        /\ \A j \in 1..Len(pool[p]) : pool[p][i] = pool[p][j] => i = j

\* One process has the run, and only in one way.
OwnerInv ==
    /\ OneExecutor
    /\ \A w \in Workers, r \in Runs :
          r \in locked[w] \cup claimed[w] => pc[w][r] = "none"

\* The market on its way from the header to the result: on the row, and in the
\* hands of the thread.
RowMarket(r) ==
    /\ snap[r] # NoSnap => snap[r] \in markets
    /\ status[r] = "NONE" => snap[r] = NoSnap
    /\ IF status[r] = "COMPLETED"
       THEN /\ result[r] # NoResult
            /\ snap[r] # NoSnap
            /\ result[r].market = snap[r]
       ELSE result[r] = NoResult

TaskMarket(p, r) ==
    /\ pc[p][r] = "bind" => Live \in markets
    /\ pc[p][r] \in {"persist", "insert", "bind"} => snap[r] = NoSnap
    /\ pc[p][r] \in {"compute", "findResult", "addResult", "replaceResult"} =>
          /\ snap[r] # NoSnap
          /\ bound[p][r].market = snap[r]
          /\ bound[p][r].book # 0

LineageInv ==
    /\ \A r \in Runs : RowMarket(r)
    /\ \A p \in Proc, r \in Runs : TaskMarket(p, r)

(***************************************************************************)
(* The conjunction is inductive: each step of the claim, of a task or of a *)
(* crash leaves every row in a state its owner's place allows.             *)
(***************************************************************************)
IInv == TypeOK /\ ClaimInv /\ TaskInv /\ PoolInv /\ OwnerInv /\ LineageInv

\* With no error so far a thread is failing only a RUNNING run, and every run in
\* progress has its owner.
LossInv ==
    faults = 0 /\ crashes = 0 =>
        \A r \in Runs :
            /\ \A p \in Proc : pc[p][r] = "failing" => status[r] = "RUNNING"
            /\ ~Abandoned(r)
=============================================================================
