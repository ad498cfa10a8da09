---------------------------- MODULE RiskRunWorker ----------------------------
(***************************************************************************)
(* The execution of RiskRuns (backend/app/services/risk_run_worker.py): an *)
(* API process that enqueues runs, `python -m app.worker` processes that   *)
(* claim them with FOR UPDATE SKIP LOCKED, one bounded thread pool per     *)
(* process, and the SQL store they share.  Every session_scope of the code *)
(* is one transaction: a step that reads and a step that commits, or one   *)
(* step when nothing it reads can change before it commits.                *)
(*                                                                         *)
(* A transaction that commits takes `ack`: FALSE is the commit whose       *)
(* acknowledgement is lost, the row being written and the caller seeing an *)
(* exception.  DbError and PollError are transactions that roll back.      *)
(***************************************************************************)
EXTENDS Naturals, FiniteSets, Sequences

CONSTANTS
    Runs,         \* run ids a client may submit, all against one portfolio
    Api,          \* the FastAPI process
    Workers,      \* the app.worker processes
    External,     \* QUANTLINEAGE_EXTERNAL_WORKER on the API
    Batch,        \* QUANTLINEAGE_WORKER_POLL_BATCH
    Threads,      \* max_workers of each process's pool
    Snaps,        \* market snapshot ids
    Seeded,       \* the snapshot ids the store holds from the start
    Live,         \* the id of the snapshot the market data provider serves
    NoSnap,       \* market_snapshot_id IS NULL
    NoResult,     \* no risk_results row
    MayStop,      \* workers that may be sent SIGTERM
    PricingRaises,\* whether pricing or spec resolution may raise
    MaxVersion,   \* bound: portfolio versions
    MaxFaults,    \* bound: transient database errors
    MaxCrashes    \* bound: process crashes

Proc == {Api} \cup Workers

ASSUME ConstantsAssumption ==
    /\ IsFiniteSet(Runs)
    /\ Api \notin Workers
    /\ External \in BOOLEAN
    /\ PricingRaises \in BOOLEAN
    /\ Batch \in Nat \ {0}
    /\ Threads \in Nat \ {0}
    /\ Seeded \subseteq Snaps
    /\ Live \in Snaps
    /\ NoSnap \notin Snaps
    /\ MayStop \subseteq Workers
    /\ MaxVersion \in Nat \ {0}
    /\ MaxFaults \in Nat
    /\ MaxCrashes \in Nat
    /\ NoResult \notin [book : 0..MaxVersion, market : Snaps \cup {NoSnap}]

VARIABLES
    \* committed rows of the store
    status,    \* risk_runs.status, "NONE" before the row exists
    created,   \* rank of risk_runs.created_at
    pver,      \* risk_runs.portfolio_version
    snap,      \* risk_runs.market_snapshot_id
    result,    \* the risk_results row: the book and the market it was priced on
    book,      \* portfolios.version of the one book
    markets,   \* ids in market_snapshots
    \* poll_once of each worker
    poll,      \* where its main loop stands
    locked,    \* rows its open claim transaction holds FOR UPDATE
    claimed,   \* rows it claimed and has not scheduled yet
    \* per process and run
    pc,        \* where the request, the queued task or the thread stands
    pool,      \* the executor's queue
    books,     \* _portfolios: version of the cached book, 0 when absent
    bound,     \* _completed_portfolios and _completed_markets
    faults, crashes

rows  == <<status, created, pver, snap, result>>
store == <<rows, book, markets>>
claim == <<poll, locked, claimed>>
task  == <<pc, pool, books, bound>>
vars  == <<store, claim, task, faults, crashes>>

Status    == {"NONE", "QUEUED", "RUNNING", "COMPLETED", "FAILED"}
Terminal  == {"COMPLETED", "FAILED"}
Executing == {"header", "start", "startWrite", "load", "persist", "insert",
              "bind", "compute", "findResult", "addResult", "replaceResult",
              "failing", "failWrite"}
PC        == {"none", "booked", "enqueued", "waiting"} \cup Executing
Bound     == [book : 0..MaxVersion, market : Snaps \cup {NoSnap}]
Unbound   == [book |-> 0, market |-> NoSnap]

Init ==
    /\ status  = [r \in Runs |-> "NONE"]
    /\ created = [r \in Runs |-> 0]
    /\ pver    = [r \in Runs |-> 0]
    /\ snap    = [r \in Runs |-> NoSnap]
    /\ result  = [r \in Runs |-> NoResult]
    /\ book    = 1
    /\ markets = Seeded
    /\ poll    = [w \in Workers |-> "idle"]
    /\ locked  = [w \in Workers |-> {}]
    /\ claimed = [w \in Workers |-> {}]
    /\ pc      = [p \in Proc |-> [r \in Runs |-> "none"]]
    /\ pool    = [p \in Proc |-> <<>>]
    /\ books   = [p \in Proc |-> [r \in Runs |-> 0]]
    /\ bound   = [p \in Proc |-> [r \in Runs |-> Unbound]]
    /\ faults  = 0
    /\ crashes = 0

-----------------------------------------------------------------------------
(* Helpers *)

Goto(p, r, l) == pc' = [pc EXCEPT ![p][r] = l]

\* Fault: the pool thread is never given back.
EndTaskLeaksThread(p, r) == UNCHANGED pc /\ books' = [books EXCEPT ![p][r] = 0]

\* The `finally` of _execute: the thread is free, the cached book is dropped.
EndTask(p, r) ==
    /\ Goto(p, r, "none")
    /\ books' = [books EXCEPT ![p][r] = 0]

Enqueue(p, r) == pool' = [pool EXCEPT ![p] = Append(@, r)]

\* A commit is acknowledged, or one of the MaxFaults errors hides that it happened.
Acked(ack) ==
    IF ack THEN UNCHANGED faults
           ELSE faults < MaxFaults /\ faults' = faults + 1

Fault == faults < MaxFaults /\ faults' = faults + 1

\* A writer waits for the row locks of the claim transactions.
RowFree(r) == \A w \in Workers : r \notin locked[w]

\* Faults: the default book, the stored book whatever the request kept, and the
\* version the next update will have.
PortfolioDefault(p, r) == 1
PortfolioStored(p, r)  == book
PortfolioAhead(p, r)   == book + 1

\* The book a task prices: the cached copy, else the stored one.
Portfolio(p, r) == IF books[p][r] # 0 THEN books[p][r] ELSE book

-----------------------------------------------------------------------------
(* The API process: submit, and portfolio updates *)

\* PUT of the portfolio with the version last read: the version goes up.
UpdateBook ==
    /\ book < MaxVersion
    /\ book' = book + 1
    /\ UNCHANGED <<rows, markets, claim, task, faults, crashes>>

\* _book_for_run: the request keeps the stored book (here: its version).
SubmitBook(r) ==
    /\ status[r] = "NONE"
    /\ pc[Api][r] = "none"
    /\ Goto(Api, r, "booked")
    /\ books' = [books EXCEPT ![Api][r] = book]
    /\ UNCHANGED <<store, claim, pool, bound, faults, crashes>>

\* enqueue: the QUEUED row; the snapshot a client names must exist (foreign key).
\* Without an acknowledgement the request fails and schedules nothing.
SubmitEnqueue(r, s, ack) ==
    /\ pc[Api][r] = "booked"
    /\ status'  = [status EXCEPT ![r] = "QUEUED"]
    /\ created' = [created EXCEPT ![r] =
                      1 + Cardinality({q \in Runs : status[q] # "NONE"})]
    /\ pver'    = [pver EXCEPT ![r] = books[Api][r]]
    /\ snap'    = [snap EXCEPT ![r] = s]
    /\ Acked(ack)
    /\ IF ack
       THEN /\ Goto(Api, r, IF External THEN "none" ELSE "enqueued")
            /\ bound' = [bound EXCEPT ![Api][r].book = books[Api][r]]
            /\ UNCHANGED books
       ELSE EndTask(Api, r) /\ UNCHANGED bound
    /\ UNCHANGED <<result, book, markets, claim, pool, crashes>>

\* _schedule, in-process deployments only.
SubmitSchedule(r) ==
    /\ pc[Api][r] = "enqueued"
    /\ Enqueue(Api, r)
    /\ Goto(Api, r, "waiting")
    /\ UNCHANGED <<store, claim, books, bound, faults, crashes>>

-----------------------------------------------------------------------------
(* A worker's main loop: poll_once *)

\* Fault: the SELECT takes no row lock.
ClaimableUnlocked == {r \in Runs : status[r] = "QUEUED"}

\* Rows the SELECT ... FOR UPDATE SKIP LOCKED may return, and the first Batch of
\* them in created_at order.
Claimable == {r \in Runs : status[r] = "QUEUED" /\ RowFree(r)}
Older(r)  == {q \in Claimable : created[q] < created[r]}
FirstRows == {r \in Claimable : Cardinality(Older(r)) < Batch}

ClaimSelect(w) ==
    /\ poll[w] = "idle"
    /\ FirstRows # {}
    /\ locked' = [locked EXCEPT ![w] = FirstRows]
    /\ poll' = [poll EXCEPT ![w] = "selected"]
    /\ UNCHANGED <<store, claimed, task, faults, crashes>>

\* The claim commits; unacknowledged, poll_once raises and schedules nothing.
ClaimCommit(w, ack) ==
    /\ poll[w] = "selected"
    /\ status' = [r \in Runs |-> IF r \in locked[w] THEN "RUNNING" ELSE status[r]]
    /\ locked' = [locked EXCEPT ![w] = {}]
    /\ Acked(ack)
    /\ IF ack
       THEN /\ claimed' = [claimed EXCEPT ![w] = locked[w]]
            /\ poll' = [poll EXCEPT ![w] = "claimed"]
       ELSE /\ poll' = [poll EXCEPT ![w] = "idle"]
            /\ UNCHANGED claimed
    /\ UNCHANGED <<created, pver, snap, result, book, markets, task, crashes>>

\* One turn of the loop over the claimed rows, oldest first: load the book, cache
\* it, queue the task.  (A claimed row has no earlier task in this process.)
ScheduleClaimed(w, r) ==
    /\ poll[w] = "claimed"
    /\ r \in claimed[w]
    /\ \A q \in claimed[w] : created[r] <= created[q]
    /\ claimed' = [claimed EXCEPT ![w] = @ \ {r}]
    /\ poll' = IF claimed[w] = {r} THEN [poll EXCEPT ![w] = "idle"] ELSE poll
    /\ books' = [books EXCEPT ![w][r] = book]
    /\ bound' = [bound EXCEPT ![w][r].book = book]
    /\ Goto(w, r, "waiting")
    /\ Enqueue(w, r)
    /\ UNCHANGED <<store, locked, faults, crashes>>

\* An exception in poll_once: the open claim rolls back, or the rows claimed and
\* not yet scheduled are forgotten.  main() logs it and keeps polling.
PollError(w) ==
    /\ poll[w] \in {"selected", "claimed"}
    /\ Fault
    /\ locked'  = [locked EXCEPT ![w] = {}]
    /\ claimed' = [claimed EXCEPT ![w] = {}]
    /\ poll' = [poll EXCEPT ![w] = "idle"]
    /\ UNCHANGED <<store, task, crashes>>

\* SIGTERM is seen at the head of the loop; shutdown(wait=True) drains the pool.
Stop(w) ==
    /\ w \in MayStop
    /\ poll[w] = "idle"
    /\ poll' = [poll EXCEPT ![w] = "stopping"]
    /\ UNCHANGED <<store, locked, claimed, task, faults, crashes>>

\* Fault: shutdown(wait=False), the tasks end with the process.
DrainedAtOnce(w) ==
    /\ poll[w] = "stopping"
    /\ poll' = [poll EXCEPT ![w] = "stopped"]
    /\ pc'   = [pc EXCEPT ![w] = [r \in Runs |-> "none"]]
    /\ pool' = [pool EXCEPT ![w] = <<>>]
    /\ UNCHANGED <<store, locked, claimed, books, bound, faults, crashes>>

Drained(w) ==
    /\ poll[w] = "stopping"
    /\ \A r \in Runs : pc[w][r] = "none"
    /\ poll' = [poll EXCEPT ![w] = "stopped"]
    /\ UNCHANGED <<store, locked, claimed, task, faults, crashes>>

-----------------------------------------------------------------------------
(* A pool thread: _execute(run_id) *)

TakeUp(p) ==
    /\ pool[p] # <<>>
    /\ Cardinality({r \in Runs : pc[p][r] \in Executing}) < Threads
    /\ Goto(p, Head(pool[p]), "header")
    /\ pool' = [pool EXCEPT ![p] = Tail(@)]
    /\ UNCHANGED <<store, claim, books, bound, faults, crashes>>

\* Fault: only QUEUED runs are executed, as before there were claimed ones.
ReadHeaderQueuedOnly(p, r) ==
    /\ pc[p][r] = "header"
    /\ IF status[r] = "QUEUED" THEN Goto(p, r, "start") /\ UNCHANGED books
                               ELSE EndTask(p, r)
    /\ UNCHANGED <<store, claim, pool, bound, faults, crashes>>

ReadHeader(p, r) ==
    /\ pc[p][r] = "header"
    /\ \/ status[r] = "QUEUED"  /\ Goto(p, r, "start") /\ UNCHANGED books
       \/ status[r] = "RUNNING" /\ Goto(p, r, "load")  /\ UNCHANGED books
       \/ status[r] \in Terminal /\ EndTask(p, r)
    /\ UNCHANGED <<store, claim, pool, bound, faults, crashes>>

\* start(): the transition is checked against the status this transaction reads;
\* InvalidRiskRunTransition means another executor has the run, which is skipped.
StartRead(p, r) ==
    /\ pc[p][r] = "start"
    /\ IF status[r] = "QUEUED"
       THEN Goto(p, r, "startWrite") /\ UNCHANGED books
       ELSE EndTask(p, r)
    /\ UNCHANGED <<store, claim, pool, bound, faults, crashes>>

StartWrite(p, r, ack) ==
    /\ pc[p][r] = "startWrite"
    /\ RowFree(r)
    /\ status' = [status EXCEPT ![r] = "RUNNING"]
    /\ Acked(ack)
    /\ Goto(p, r, IF ack THEN "load" ELSE "failing")
    /\ UNCHANGED <<created, pver, snap, result, book, markets, claim, pool,
                   books, bound, crashes>>

\* The book from the cache, the header read again, and its market if it names one.
LoadRun(p, r) ==
    /\ pc[p][r] = "load"
    /\ IF snap[r] # NoSnap
       THEN /\ bound' = [bound EXCEPT ![p][r] =
                            [book |-> Portfolio(p, r), market |-> snap[r]]]
            /\ Goto(p, r, "compute")
       ELSE Goto(p, r, "persist") /\ UNCHANGED bound
    /\ UNCHANGED <<store, claim, pool, books, faults, crashes>>

\* Fault: the snapshot served by the provider is taken to be stored already.
ReadMarketTrusting(p, r) ==
    /\ pc[p][r] = "persist"
    /\ Goto(p, r, "bind")
    /\ UNCHANGED <<store, claim, pool, books, bound, faults, crashes>>

\* _persist_execute_market: a get and, when it finds nothing, a save that gets once
\* more; this is the last of the reads.  (A row that save finds keeps its id.)
ReadMarket(p, r) ==
    /\ pc[p][r] = "persist"
    /\ Goto(p, r, IF Live \in markets THEN "bind" ELSE "insert")
    /\ UNCHANGED <<store, claim, pool, books, bound, faults, crashes>>

\* The insert violates the primary key when another task inserted in between.
InsertMarket(p, r, ack) ==
    /\ pc[p][r] = "insert"
    /\ IF Live \in markets
       THEN ack /\ Goto(p, r, "failing") /\ UNCHANGED <<markets, faults>>
       ELSE /\ markets' = markets \cup {Live}
            /\ Acked(ack)
            /\ Goto(p, r, IF ack THEN "bind" ELSE "failing")
    /\ UNCHANGED <<rows, book, claim, pool, books, bound, crashes>>

\* Fault: the run is priced on the live snapshot and its row is not told.
BindMarketUnsaved(p, r, ack) ==
    /\ pc[p][r] = "bind"
    /\ ack
    /\ bound' = [bound EXCEPT ![p][r] = [book |-> Portfolio(p, r), market |-> Live]]
    /\ Goto(p, r, "compute")
    /\ UNCHANGED <<store, claim, pool, books, faults, crashes>>

\* bind_market_snapshot, refused when the run already names another snapshot.
BindMarket(p, r, ack) ==
    /\ pc[p][r] = "bind"
    /\ RowFree(r)
    /\ IF snap[r] \in {NoSnap, Live}
       THEN /\ snap' = [snap EXCEPT ![r] = Live]
            /\ Acked(ack)
            /\ IF ack
               THEN /\ bound' = [bound EXCEPT ![p][r] =
                                    [book |-> Portfolio(p, r), market |-> Live]]
                    /\ Goto(p, r, "compute")
               ELSE Goto(p, r, "failing") /\ UNCHANGED bound
       ELSE ack /\ Goto(p, r, "failing") /\ UNCHANGED <<snap, bound, faults>>
    /\ UNCHANGED <<status, created, pver, result, book, markets, claim, pool,
                   books, crashes>>

\* Pricing is done; complete() reads the status its transition is checked against.
CompleteRead(p, r) ==
    /\ pc[p][r] = "compute"
    /\ Goto(p, r, IF status[r] = "RUNNING" THEN "findResult" ELSE "failing")
    /\ UNCHANGED <<store, claim, pool, books, bound, faults, crashes>>

\* add_result looks for a result row to replace.
FindResult(p, r) ==
    /\ pc[p][r] = "findResult"
    /\ Goto(p, r, IF result[r] = NoResult THEN "addResult" ELSE "replaceResult")
    /\ UNCHANGED <<store, claim, pool, books, bound, faults, crashes>>

\* Fault: the result is committed before the status.
CompleteWriteResultFirst(p, r, ack) ==
    /\ pc[p][r] \in {"addResult", "replaceResult"}
    /\ RowFree(r) /\ ack
    /\ IF result[r] = NoResult
       THEN /\ result' = [result EXCEPT ![r] = bound[p][r]]
            /\ UNCHANGED <<status, pc, books>>
       ELSE /\ status' = [status EXCEPT ![r] = "COMPLETED"]
            /\ EndTask(p, r) /\ UNCHANGED result
    /\ UNCHANGED <<created, pver, snap, book, markets, claim, pool, bound, faults, crashes>>

\* The result and the status in one commit; (run, result_type) is unique.
CompleteWrite(p, r, ack) ==
    /\ pc[p][r] \in {"addResult", "replaceResult"}
    /\ RowFree(r)
    /\ IF result[r] = NoResult \/ pc[p][r] = "replaceResult"
       THEN /\ status' = [status EXCEPT ![r] = "COMPLETED"]
            /\ result' = [result EXCEPT ![r] = bound[p][r]]
            /\ Acked(ack)
            /\ IF ack THEN EndTask(p, r)
                      ELSE Goto(p, r, "failing") /\ UNCHANGED books
       ELSE ack /\ Goto(p, r, "failing") /\ UNCHANGED <<status, result, books, faults>>
    /\ UNCHANGED <<created, pver, snap, book, markets, claim, pool, bound, crashes>>

\* Fault: fail() does not check the transition.
FailReadUnchecked(p, r) ==
    /\ pc[p][r] = "failing"
    /\ Goto(p, r, "failWrite")
    /\ UNCHANGED <<store, claim, pool, books, bound, faults, crashes>>


\* The except branch: fail(), whose own InvalidRiskRunTransition is only logged.
FailRead(p, r) ==
    /\ pc[p][r] = "failing"
    /\ IF status[r] = "RUNNING"
       THEN Goto(p, r, "failWrite") /\ UNCHANGED books
       ELSE EndTask(p, r)
    /\ UNCHANGED <<store, claim, pool, bound, faults, crashes>>

FailWrite(p, r) ==
    /\ pc[p][r] = "failWrite"
    /\ RowFree(r)
    /\ status' = [status EXCEPT ![r] = "FAILED"]
    /\ EndTask(p, r)
    /\ UNCHANGED <<created, pver, snap, result, book, markets, claim, pool, bound,
                   faults, crashes>>

\* Spec resolution, the market data provider or pricing raises.
ComputeRaises(p, r) ==
    /\ PricingRaises
    /\ pc[p][r] \in {"load", "compute"}
    /\ Goto(p, r, "failing")
    /\ UNCHANGED <<store, claim, pool, books, bound, faults, crashes>>

\* A transaction of the task rolls back: the run is to be failed, and when it is
\* fail() itself that cannot commit, the exception is logged and the task ends.
DbError(p, r) ==
    /\ pc[p][r] \in Executing
    /\ Fault
    /\ IF pc[p][r] \in {"failing", "failWrite"}
       THEN EndTask(p, r)
       ELSE Goto(p, r, "failing") /\ UNCHANGED books
    /\ UNCHANGED <<store, claim, pool, bound, crashes>>

-----------------------------------------------------------------------------
(* A process dies and is started again: its open transaction rolls back, its    *)
(* pool, caches and half-handled requests are gone.                             *)
Crash(p) ==
    /\ crashes < MaxCrashes
    /\ p \in Workers => poll[p] # "stopped"
    /\ crashes' = crashes + 1
    /\ pc'    = [pc EXCEPT ![p] = [r \in Runs |-> "none"]]
    /\ pool'  = [pool EXCEPT ![p] = <<>>]
    /\ books' = [books EXCEPT ![p] = [r \in Runs |-> 0]]
    /\ bound' = [bound EXCEPT ![p] = [r \in Runs |-> Unbound]]
    /\ locked'  = [w \in Workers |-> IF w = p THEN {} ELSE locked[w]]
    /\ claimed' = [w \in Workers |-> IF w = p THEN {} ELSE claimed[w]]
    /\ poll'    = [w \in Workers |-> IF w = p THEN "idle" ELSE poll[w]]
    /\ UNCHANGED <<store, faults>>

\* Nothing is left to do: requests may still come, workers poll an empty queue.
\* The store's bounded inputs are used up, so the model would stop here.
Quiet ==
    /\ \A r \in Runs : status[r] # "NONE"
    /\ \A p \in Proc, r \in Runs : pc[p][r] = "none"
    /\ \A w \in Workers : poll[w] \in {"idle", "stopped"}
    /\ Claimable = {} \/ \A w \in Workers : poll[w] = "stopped"
    /\ UNCHANGED vars

Task(p, r) ==
    \/ ReadHeader(p, r)
    \/ StartRead(p, r)
    \/ \E ack \in BOOLEAN : StartWrite(p, r, ack)
    \/ LoadRun(p, r)
    \/ ReadMarket(p, r)
    \/ \E ack \in BOOLEAN : InsertMarket(p, r, ack)
    \/ \E ack \in BOOLEAN : BindMarket(p, r, ack)
    \/ CompleteRead(p, r)
    \/ FindResult(p, r)
    \/ \E ack \in BOOLEAN : CompleteWrite(p, r, ack)
    \/ FailRead(p, r)
    \/ FailWrite(p, r)

Poll(w) ==
    \/ ClaimSelect(w)
    \/ \E ack \in BOOLEAN : ClaimCommit(w, ack)
    \/ \E r \in Runs : ScheduleClaimed(w, r)
    \/ Drained(w)

Submit(r) ==
    \/ SubmitBook(r)
    \/ \E s \in markets \cup {NoSnap}, ack \in BOOLEAN : SubmitEnqueue(r, s, ack)
    \/ SubmitSchedule(r)

Next ==
    \/ UpdateBook
    \/ \E r \in Runs : Submit(r)
    \/ \E w \in Workers : Poll(w) \/ PollError(w) \/ Stop(w)
    \/ \E p \in Proc : TakeUp(p) \/ Crash(p)
    \/ \E p \in Proc, r \in Runs : Task(p, r) \/ ComputeRaises(p, r) \/ DbError(p, r)
    \/ Quiet

Spec == Init /\ [][Next]_vars

\* The operating system schedules every process, and a pool thread that holds a
\* task runs it; clients, SIGTERM, crashes and errors are under no obligation.
Fairness ==
    /\ \A r \in Runs : WF_vars(SubmitSchedule(r))
    /\ \A w \in Workers : WF_vars(Poll(w))
    /\ \A p \in Proc : WF_vars(TakeUp(p))
    /\ \A p \in Proc, r \in Runs : WF_vars(Task(p, r))

FairSpec == Spec /\ Fairness

-----------------------------------------------------------------------------
(* Properties *)

TypeOK ==
    /\ status  \in [Runs -> Status]
    /\ created \in [Runs -> Nat]
    /\ pver    \in [Runs -> 0..MaxVersion]
    /\ snap    \in [Runs -> Snaps \cup {NoSnap}]
    /\ result  \in [Runs -> Bound \cup {NoResult}]
    /\ book    \in 1..MaxVersion
    /\ markets \subseteq Snaps
    /\ poll    \in [Workers -> {"idle", "selected", "claimed", "stopping", "stopped"}]
    /\ locked  \in [Workers -> SUBSET Runs]
    /\ claimed \in [Workers -> SUBSET Runs]
    /\ pc      \in [Proc -> [Runs -> PC]]
    /\ pool    \in [Proc -> Seq(Runs)]
    /\ books   \in [Proc -> [Runs -> 0..MaxVersion]]
    /\ bound   \in [Proc -> [Runs -> Bound]]
    /\ faults  \in Nat
    /\ crashes \in Nat

\* A deployment the docs allow (worker.py: "Pair with QUANTLINEAGE_EXTERNAL_WORKER=1"):
\* the API executes nothing, or there is no other process that could.
Exclusive == External \/ Workers = {}

\* The row's execution is in the hands of process p.
Owns(p, r) ==
    \/ pc[p][r] \in {"enqueued", "waiting"} \cup Executing
    \/ p \in Workers /\ r \in locked[p] \cup claimed[p]

(***************************************************************************)
(* poll_once: "two workers cannot own the same row".  From the row lock of *)
(* the claim to the end of the task one process at most works on a run.    *)
(***************************************************************************)
OneExecutor ==
    \A r \in Runs : \A p, q \in Proc : Owns(p, r) /\ Owns(q, r) => p = q

\* Nobody will ever finish the run: it is RUNNING, or, where only the submitting
\* process executes, QUEUED, and no process has it.  No code path looks for such rows.
Abandoned(r) ==
    /\ status[r] = "RUNNING" \/ (status[r] = "QUEUED" /\ ~External)
    /\ \A p \in Proc : ~Owns(p, r)

(***************************************************************************)
(* Claims, schedules, failures and a worker's graceful stop never lose a   *)
(* run: only a crash or a failed transaction can strand one (poll_once,    *)
(* _execute, shutdown(wait=True)).                                         *)
(***************************************************************************)
NoSilentLoss ==
    faults = 0 /\ crashes = 0 => \A r \in Runs : ~Abandoned(r)

(***************************************************************************)
(* The market a COMPLETED run names is the one its result was priced on,   *)
(* and it is in the store for whoever reproduces the figure                *)
(* (_stamp_execute_market before the calculation).                         *)
(***************************************************************************)
ResultMarketIsStored ==
    \A r \in Runs : status[r] = "COMPLETED" =>
        /\ result[r] # NoResult
        /\ result[r].market = snap[r]
        /\ snap[r] \in markets

(***************************************************************************)
(* The header's portfolio_version is the version of the book the result    *)
(* was priced on (submit records it, _execute prices the book).            *)
(***************************************************************************)
ResultBookIsHeaderBook ==
    \A r \in Runs : status[r] = "COMPLETED" => result[r].book = pver[r]

(***************************************************************************)
(* What the API itself prices, and keeps for a comparison, is the book the *)
(* header names, whatever is stored meanwhile and whoever else executes    *)
(* the run (submit keeps the book in _portfolios, _execute takes it).      *)
(***************************************************************************)
ApiBookIsHeaderBook ==
    \A r \in Runs : bound[Api][r].book \in {0, pver[r]}

(***************************************************************************)
(* A result is never priced on a book older than the one submitted, nor on *)
(* one that was never stored (_load_portfolio reads the live book).        *)
(***************************************************************************)
ResultBookNotOlder ==
    \A r \in Runs : result[r] # NoResult => result[r].book \in pver[r]..book

(***************************************************************************)
(* With sound inputs, a working database and living processes no run ends  *)
(* FAILED (_execute turns every exception into FAILED).                    *)
(***************************************************************************)
HealthyRunsComplete ==
    faults = 0 /\ crashes = 0 /\ ~PricingRaises => \A r \in Runs : status[r] # "FAILED"

(***************************************************************************)
(* A reader of the rows sees the lifecycle of RiskRunLifecycle, through    *)
(* claims, races, crashes and errors (the whole of risk_run_service.py).   *)
(***************************************************************************)
Lifecycle == INSTANCE RiskRunLifecycle WITH Versions <- 1..MaxVersion

RefinesLifecycle == Lifecycle!Spec

(***************************************************************************)
(* Every accepted run ends (poll_once claims it, a thread executes it),    *)
(* whatever the load, while no process dies and the database answers.      *)
(***************************************************************************)
EveryRunEnds == \A r \in Runs : status[r] = "QUEUED" ~> status[r] \in Terminal

(***************************************************************************)
(* Under errors and crashes a run ends or is abandoned: it never hangs in  *)
(* the hands of a live process.                                            *)
(***************************************************************************)
EndsOrAbandoned ==
    \A r \in Runs : status[r] = "QUEUED" ~> status[r] \in Terminal \/ Abandoned(r)
=============================================================================
