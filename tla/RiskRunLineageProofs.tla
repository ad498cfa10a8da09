------------------------ MODULE RiskRunLineageProofs ------------------------
(***************************************************************************)
(* The result's market is the header's and is stored, and the rows of      *)
(* RiskRunWorker go through the lifecycle of RiskRunLifecycle.             *)
(***************************************************************************)
EXTENDS RiskRunWorkerProofs

Lineage == Ownership /\ LineageInv

\* What a step of a thread on a run leaves alone in the lineage of the others.
MarketShape(p, r) ==
    /\ markets \subseteq markets'
    /\ \A s \in Runs : s # r => snap'[s] = snap[s] /\ result'[s] = result[s]
    /\ \A q \in Proc, s \in Runs : q # p \/ s # r => bound'[q][s] = bound[q][s]

\* Each step of a thread has the shape and keeps its own run's lineage.
LEMMA ReadStepLineage ==
    ASSUME TypeOK, NEW p \in Proc, NEW r \in Runs, TaskAt(p, r),
           RowMarket(r), TaskMarket(p, r),
           \/ ReadHeader(p, r) \/ StartRead(p, r) \/ LoadRun(p, r) \/ ReadMarket(p, r)
           \/ CompleteRead(p, r) \/ FindResult(p, r) \/ FailRead(p, r)
           \/ ComputeRaises(p, r) \/ DbError(p, r)
    PROVE  MarketShape(p, r) /\ RowMarket(r)' /\ TaskMarket(p, r)'
<1>. USE GotoFrame, EndTaskFrame DEF MarketShape, RowMarket, TaskMarket
<1>1. CASE ReadHeader(p, r)
  BY <1>1 DEF ReadHeader, store, rows
<1>2. CASE StartRead(p, r)
  BY <1>2 DEF StartRead, store, rows
<1>3. CASE LoadRun(p, r)
  <2>1. UNCHANGED <<status, snap, result, markets>> /\ pc[p][r] = "load"
    BY <1>3 DEF LoadRun, store, rows
  <2>2. CASE snap[r] # NoSnap
    <3>1. /\ bound' = [bound EXCEPT ![p][r] = [book |-> Portfolio(p, r), market |-> snap[r]]]
          /\ pc'[p][r] = "compute"
      BY <1>3, <2>2 DEF LoadRun
    <3>2. /\ bound'[p][r] = [book |-> Portfolio(p, r), market |-> snap[r]]
          /\ \A q \in Proc, s \in Runs : q # p \/ s # r => bound'[q][s] = bound[q][s]
      BY <3>1 DEF TypeOK
    <3>3. Portfolio(p, r) # 0
      BY DEF Portfolio, TypeOK
    <3>. QED
      BY <2>1, <2>2, <3>1, <3>2, <3>3
  <2>3. CASE snap[r] = NoSnap
    BY <1>3, <2>1, <2>3 DEF LoadRun
  <2>. QED
    BY <2>2, <2>3
<1>4. CASE ReadMarket(p, r)
  BY <1>4 DEF ReadMarket, store, rows
<1>5. CASE CompleteRead(p, r)
  BY <1>5 DEF CompleteRead, store, rows
<1>6. CASE FailRead(p, r)
  BY <1>6 DEF FailRead, store, rows
<1>7. CASE ComputeRaises(p, r)
  BY <1>7 DEF ComputeRaises, store, rows
<1>8. CASE DbError(p, r)
  BY <1>8 DEF DbError, store, rows
<1>9. CASE FindResult(p, r)
  BY <1>9 DEF FindResult, store, rows
<1>. QED
  BY <1>1, <1>2, <1>3, <1>4, <1>5, <1>6, <1>7, <1>8, <1>9

LEMMA WriteStepLineage ==
    ASSUME TypeOK, NEW p \in Proc, NEW r \in Runs, NEW ack \in BOOLEAN, TaskAt(p, r),
           RowMarket(r), TaskMarket(p, r),
           \/ StartWrite(p, r, ack) \/ InsertMarket(p, r, ack)
           \/ BindMarket(p, r, ack) \/ CompleteWrite(p, r, ack) \/ FailWrite(p, r)
    PROVE  MarketShape(p, r) /\ RowMarket(r)' /\ TaskMarket(p, r)'
<1>. USE GotoFrame, EndTaskFrame DEF MarketShape, RowMarket, TaskMarket
<1>a. status \in [Runs -> Status] /\ snap \in [Runs -> Snaps \cup {NoSnap}]
  BY DEF TypeOK
<1>1. CASE StartWrite(p, r, ack)
  BY <1>1, <1>a DEF StartWrite, TaskAt
<1>2. CASE InsertMarket(p, r, ack)
  BY <1>2 DEF InsertMarket, rows
<1>3. CASE BindMarket(p, r, ack)
  <2>1. /\ snap[r] = NoSnap /\ Live \in markets /\ Live # NoSnap
        /\ status[r] = "RUNNING"
        /\ UNCHANGED <<status, result, markets>>
    BY <1>3, ConstantsAssumption DEF BindMarket, TaskAt, AfterStart
  <2>2. snap' = [snap EXCEPT ![r] = Live]
    BY <1>3, <2>1 DEF BindMarket
  <2>3. CASE ack
    <3>1. /\ bound' = [bound EXCEPT ![p][r] = [book |-> Portfolio(p, r), market |-> Live]]
          /\ pc'[p][r] = "compute"
      BY <1>3, <2>1, <2>3 DEF BindMarket
    <3>2. /\ bound'[p][r] = [book |-> Portfolio(p, r), market |-> Live]
          /\ \A q \in Proc, s \in Runs : q # p \/ s # r => bound'[q][s] = bound[q][s]
      BY <3>1 DEF TypeOK
    <3>3. Portfolio(p, r) # 0
      BY DEF Portfolio, TypeOK
    <3>. QED
      BY <1>a, <2>1, <2>2, <3>1, <3>2, <3>3
  <2>4. CASE ~ack
    <3>1. bound' = bound /\ pc'[p][r] = "failing"
      BY <1>3, <2>1, <2>4 DEF BindMarket
    <3>. QED
      BY <1>a, <2>1, <2>2, <3>1
  <2>. QED
    BY <2>3, <2>4
<1>4. CASE CompleteWrite(p, r, ack)
  <2>1. /\ status[r] = "RUNNING" /\ snap[r] # NoSnap /\ bound[p][r].market = snap[r]
        /\ result[r] = NoResult
        /\ UNCHANGED <<snap, markets, bound>>
    BY <1>4 DEF CompleteWrite, TaskAt, AfterStart
  <2>2. /\ status' = [status EXCEPT ![r] = "COMPLETED"]
        /\ result' = [result EXCEPT ![r] = bound[p][r]]
        /\ pc'[p][r] \in {"none", "failing"}
    BY <1>4, <2>1 DEF CompleteWrite
  <2>3. bound[p][r] # NoResult
    BY ConstantsAssumption DEF TypeOK, Bound
  <2>4. /\ status'[r] = "COMPLETED" /\ result'[r] = bound[p][r]
        /\ \A s \in Runs : s # r => result'[s] = result[s]
    BY <2>2, <1>a DEF TypeOK
  <2>. QED
    BY <2>1, <2>2, <2>3, <2>4
<1>5. CASE FailWrite(p, r)
  BY <1>5, <1>a DEF FailWrite, TaskAt, AfterStart
<1>. QED
  BY <1>1, <1>2, <1>3, <1>4, <1>5

\* The lineage of every run survives a step of a thread on one run.
LEMMA TaskKeepsLineage ==
    ASSUME Lineage, NEW p \in Proc, NEW r \in Runs, TaskStep(p, r)
    PROVE  LineageInv'
<1>. USE DEF Lineage, Ownership
<1>0. TaskAt(p, r) /\ RowMarket(r) /\ TaskMarket(p, r)
  BY DEF TaskInv, LineageInv
<1>1. TaskShape(p, r)
  BY <1>0, TaskStepShape
<1>2. MarketShape(p, r) /\ RowMarket(r)' /\ TaskMarket(p, r)'
  BY <1>0, ReadStepLineage, WriteStepLineage DEF TaskStep, Task
<1>3. ASSUME NEW s \in Runs, s # r PROVE RowMarket(s)'
  BY <1>1, <1>2, <1>3 DEF TaskShape, MarketShape, LineageInv, RowMarket
<1>4. ASSUME NEW q \in Proc, NEW s \in Runs, s # r PROVE TaskMarket(q, s)'
  BY <1>1, <1>2, <1>4 DEF TaskShape, MarketShape, LineageInv, TaskMarket
<1>5. ASSUME NEW q \in Proc, q # p PROVE TaskMarket(q, r)'
  <2>1. ~Owns(q, r)
    BY <1>1, <1>5 DEF TaskShape, OwnerInv, OneExecutor, Owns
  <2>2. pc'[q][r] \notin Executing
    BY <1>1, <1>5, <2>1 DEF TaskShape, Owns
  <2>. QED
    BY <2>2 DEF TaskMarket, Executing
<1>. QED
  BY <1>2, <1>3, <1>4, <1>5 DEF LineageInv

\* A step that moves no thread into the market's way and changes no lineage.
LEMMA QuietKeepsLineage ==
    ASSUME Lineage,
           UNCHANGED <<status, snap, result, markets>>,
           \A q \in Proc, s \in Runs :
              pc'[q][s] \in {"bind", "persist", "insert", "compute", "findResult",
                             "addResult", "replaceResult"} =>
                 UNCHANGED <<pc[q][s], bound[q][s]>>
    PROVE  LineageInv'
  BY DEF Lineage, LineageInv, RowMarket, TaskMarket

\* Every step keeps the lineage invariant.
LEMMA NextLineage ==
    ASSUME Exclusive, Lineage, [Next]_vars
    PROVE  Lineage'
<1>. USE DEF Lineage
<1>a. TypeOK /\ Ownership' /\ Api \in Proc /\ Workers \subseteq Proc
  BY NextOwnership DEF Ownership, Proc
<1>1. CASE UpdateBook
  BY <1>1, <1>a, QuietKeepsLineage DEF UpdateBook, rows, task
<1>2. ASSUME NEW r \in Runs, SubmitBook(r) PROVE Lineage'
  BY <1>2, <1>a, GotoFrame, QuietKeepsLineage DEF SubmitBook, store, rows
<1>3. ASSUME NEW r \in Runs, NEW s0 \in markets \cup {NoSnap}, NEW ack \in BOOLEAN,
             SubmitEnqueue(r, s0, ack)
      PROVE  Lineage'
  <2>1. /\ pc'[Api][r] \in {"none", "enqueued"}
        /\ \A q \in Proc, s \in Runs : q # Api \/ s # r => pc'[q][s] = pc[q][s]
    BY <1>3, <1>a, GotoFrame, EndTaskFrame DEF SubmitEnqueue
  <2>2. status[r] = "NONE"
    BY <1>3, <1>a DEF SubmitEnqueue, Ownership, TaskInv, TaskAt
  <2>3. /\ status'[r] = "QUEUED" /\ snap'[r] = s0
        /\ \A s \in Runs : s # r => status'[s] = status[s] /\ snap'[s] = snap[s]
        /\ UNCHANGED <<result, markets>>
    BY <1>3, <1>a DEF SubmitEnqueue, TypeOK
  <2>4. \A q \in Proc, s \in Runs : q # Api \/ s # r => bound'[q][s] = bound[q][s]
    BY <1>3, <1>a DEF SubmitEnqueue, TypeOK
  <2>5. \A s \in Runs : RowMarket(s)'
    BY <2>2, <2>3 DEF LineageInv, RowMarket
  <2>6. ASSUME NEW q \in Proc, NEW s \in Runs PROVE TaskMarket(q, s)'
    <3>1. CASE s # r
      BY <3>1, <2>1, <2>3, <2>4 DEF LineageInv, TaskMarket
    <3>2. CASE s = r
      <4>1. pc[q][r] \notin AfterStart
        BY <2>2 DEF Ownership, TaskInv, TaskAt
      <4>2. pc'[q][r] \notin AfterStart
        BY <2>1, <4>1 DEF AfterStart
      <4>. QED
        BY <3>2, <4>2 DEF TaskMarket, AfterStart
    <3>. QED
      BY <3>1, <3>2
  <2>. QED
    BY <1>a, <2>5, <2>6 DEF LineageInv
<1>4. ASSUME NEW r \in Runs, SubmitSchedule(r) PROVE Lineage'
  BY <1>4, <1>a, GotoFrame, QuietKeepsLineage DEF SubmitSchedule, store, rows
<1>5. ASSUME NEW w \in Workers, ClaimSelect(w) \/ Drained(w) \/ PollError(w) \/ Stop(w)
      PROVE  Lineage'
  BY <1>5, <1>a, QuietKeepsLineage
     DEF ClaimSelect, Drained, PollError, Stop, store, rows, task
<1>6. ASSUME NEW w \in Workers, NEW ack \in BOOLEAN, ClaimCommit(w, ack) PROVE Lineage'
  <2>1. UNCHANGED <<snap, result, markets, pc, bound>>
    BY <1>6 DEF ClaimCommit, task
  <2>2. \A r \in Runs : status'[r] = IF r \in locked[w] THEN "RUNNING" ELSE status[r]
    BY <1>6 DEF ClaimCommit
  <2>3. \A r \in locked[w] : status[r] = "QUEUED"
    BY DEF Ownership, ClaimInv
  <2>. QED
    BY <1>a, <2>1, <2>2, <2>3 DEF LineageInv, RowMarket, TaskMarket
<1>7. ASSUME NEW w \in Workers, NEW r \in Runs, ScheduleClaimed(w, r) PROVE Lineage'
  <2>1. /\ pc'[w][r] = "waiting"
        /\ \A q \in Proc, s \in Runs : q # w \/ s # r => pc'[q][s] = pc[q][s]
    BY <1>7, <1>a, GotoFrame DEF ScheduleClaimed
  <2>2. \A q \in Proc, s \in Runs : q # w \/ s # r => bound'[q][s] = bound[q][s]
    BY <1>7, <1>a DEF ScheduleClaimed, TypeOK
  <2>. QED
    BY <1>7, <1>a, <2>1, <2>2, QuietKeepsLineage DEF ScheduleClaimed, store, rows
<1>8. ASSUME NEW p \in Proc, TakeUp(p) PROVE Lineage'
  <2>1. Head(pool[p]) \in Runs
    BY <1>8, <1>a DEF TakeUp, TypeOK
  <2>2. /\ pc'[p][Head(pool[p])] = "header"
        /\ \A q \in Proc, s \in Runs : q # p \/ s # Head(pool[p]) => pc'[q][s] = pc[q][s]
    BY <1>8, <1>a, <2>1, GotoFrame DEF TakeUp
  <2>. QED
    BY <1>8, <1>a, <2>2, QuietKeepsLineage DEF TakeUp, store, rows
<1>9. ASSUME NEW p \in Proc, Crash(p) PROVE Lineage'
  <2>1. \A q \in Proc, s \in Runs :
          pc'[q][s] = "none" \/ UNCHANGED <<pc[q][s], bound[q][s]>>
    BY <1>9, <1>a DEF Crash, TypeOK
  <2>. QED
    BY <1>9, <1>a, <2>1, QuietKeepsLineage DEF Crash, store, rows
<1>10. ASSUME NEW p \in Proc, NEW r \in Runs, TaskStep(p, r) PROVE Lineage'
  BY <1>10, <1>a, TaskKeepsLineage
<1>11. CASE UNCHANGED vars
  BY <1>11, <1>a, QuietKeepsLineage DEF vars, store, rows, task
<1>. QED
  BY <1>1, <1>2, <1>3, <1>4, <1>5, <1>6, <1>7, <1>8, <1>9, <1>10, <1>11
     DEF Next, Submit, Poll, Quiet, TaskStep

LEMMA InitLineage == Init => Lineage
<1>. SUFFICES ASSUME Init PROVE Lineage
  OBVIOUS
<1>1. /\ \A p \in Proc, r \in Runs : pc[p][r] = "none"
      /\ \A r \in Runs : status[r] = "NONE" /\ snap[r] = NoSnap /\ result[r] = NoResult
  BY DEF Init
<1>2. LineageInv
  BY <1>1 DEF LineageInv, RowMarket, TaskMarket
<1>. QED
  BY <1>2, InitOwnership DEF Lineage

\* The inductive invariant of RiskRunInvariant.
LEMMA LineageAlways ==
    ASSUME Exclusive
    PROVE  Spec => []Lineage
<1>1. Lineage /\ [Next]_vars => Lineage'
  BY NextLineage
<1>. QED
  BY InitLineage, <1>1, PTL DEF Spec

(***************************************************************************)
(* IInv, the conjunction TLC checks, holds in every deployment the docs    *)
(* allow, for every set of runs and workers.                               *)
(***************************************************************************)
THEOREM InvariantAlways ==
    ASSUME Exclusive
    PROVE  Spec => []IInv
<1>1. Lineage => IInv
  BY DEF Lineage, Ownership, IInv
<1>. QED
  BY <1>1, LineageAlways, PTL

(***************************************************************************)
(* The market of a COMPLETED run is the one its result was priced on, and  *)
(* it is stored (_stamp_execute_market, complete).                         *)
(***************************************************************************)
THEOREM ResultMarketAlways ==
    ASSUME Exclusive
    PROVE  Spec => []ResultMarketIsStored
<1>1. Lineage => ResultMarketIsStored
  BY DEF Lineage, LineageInv, RowMarket, ResultMarketIsStored
<1>. QED
  BY <1>1, LineageAlways, PTL

-----------------------------------------------------------------------------
(* The rows go through the lifecycle. *)

\* A step that leaves the rows' lifecycle alone is a stuttering step of it.
LEMMA Stutters ==
    ASSUME UNCHANGED <<status, snap, result>>
    PROVE  [Lifecycle!Next]_(Lifecycle!vars)
  BY DEF Lifecycle!vars

\* One thread's commits are lifecycle steps.
LEMMA WriteStepRefines ==
    ASSUME Lineage, NEW p \in Proc, NEW r \in Runs, NEW ack \in BOOLEAN,
           \/ StartWrite(p, r, ack) \/ InsertMarket(p, r, ack)
           \/ BindMarket(p, r, ack) \/ CompleteWrite(p, r, ack) \/ FailWrite(p, r)
    PROVE  [Lifecycle!Next]_(Lifecycle!vars)
<1>. USE DEF Lineage, Ownership
<1>a. TypeOK /\ TaskAt(p, r) /\ TaskMarket(p, r) /\ RowMarket(r)
  BY DEF TaskInv, LineageInv
<1>1. CASE StartWrite(p, r, ack)
  <2>1. status[r] = "QUEUED" /\ UNCHANGED <<snap, result>>
    BY <1>1, <1>a DEF StartWrite, TaskAt
  <2>2. status' = [q \in Runs |-> IF q \in {r} THEN "RUNNING" ELSE status[q]]
    BY <1>1, <1>a DEF StartWrite, TypeOK
  <2>3. Lifecycle!Begin({r})
    BY <2>1, <2>2 DEF Lifecycle!Begin, Lifecycle!CanTransition, Lifecycle!Allowed
  <2>4. {r} \in SUBSET Runs
    OBVIOUS
  <2>. QED
    BY <2>3, <2>4 DEF Lifecycle!Next
<1>2. CASE InsertMarket(p, r, ack)
  BY <1>2, Stutters DEF InsertMarket, rows
<1>3. CASE BindMarket(p, r, ack)
  <2>1. /\ status[r] = "RUNNING" /\ snap[r] = NoSnap
        /\ UNCHANGED <<status, result>>
    BY <1>3, <1>a DEF BindMarket, TaskAt, TaskMarket, AfterStart
  <2>2. snap' = [snap EXCEPT ![r] = Live]
    BY <1>3, <2>1 DEF BindMarket
  <2>3. Lifecycle!BindMarketSnapshot(r, Live)
    BY <2>1, <2>2 DEF Lifecycle!BindMarketSnapshot
  <2>. QED
    BY <2>3, ConstantsAssumption DEF Lifecycle!Next
<1>4. CASE CompleteWrite(p, r, ack)
  <2>1. /\ status[r] = "RUNNING" /\ snap[r] # NoSnap /\ result[r] = NoResult
        /\ bound[p][r].market = snap[r] /\ bound[p][r].book # 0
        /\ UNCHANGED snap
    BY <1>4, <1>a DEF CompleteWrite, TaskAt, TaskMarket, RowMarket, AfterStart
  <2>2. /\ status' = [status EXCEPT ![r] = "COMPLETED"]
        /\ result' = [result EXCEPT ![r] = bound[p][r]]
    BY <1>4, <2>1 DEF CompleteWrite
  <2>3. bound[p][r] \in [book : 0..MaxVersion, market : Snaps \cup {NoSnap}]
    BY <1>a DEF TypeOK, Bound
  <2>4. /\ bound[p][r].book \in 1..MaxVersion
        /\ bound[p][r] = [book |-> bound[p][r].book, market |-> snap[r]]
    BY <2>1, <2>3, ConstantsAssumption
  <2>5. Lifecycle!Complete(r, bound[p][r].book)
    BY <2>1, <2>2, <2>4
       DEF Lifecycle!Complete, Lifecycle!CanTransition, Lifecycle!Allowed
  <2>. QED
    BY <2>4, <2>5 DEF Lifecycle!Next
<1>5. CASE FailWrite(p, r)
  <2>1. /\ status[r] = "RUNNING"
        /\ status' = [status EXCEPT ![r] = "FAILED"]
        /\ UNCHANGED <<snap, result>>
    BY <1>5, <1>a DEF FailWrite, TaskAt, AfterStart
  <2>2. Lifecycle!Fail(r)
    BY <2>1 DEF Lifecycle!Fail, Lifecycle!CanTransition, Lifecycle!Allowed
  <2>. QED
    BY <2>2 DEF Lifecycle!Next
<1>. QED
  BY <1>1, <1>2, <1>3, <1>4, <1>5

\* Every step of the system is a lifecycle step or a stutter.
LEMMA NextRefines ==
    ASSUME Lineage, [Next]_vars
    PROVE  [Lifecycle!Next]_(Lifecycle!vars)
<1>. USE DEF Lineage, Ownership
<1>a. Api \in Proc
  BY DEF Proc
<1>1. CASE UpdateBook \/ UNCHANGED vars
  BY <1>1, Stutters DEF UpdateBook, vars, store, rows
<1>2. ASSUME NEW r \in Runs, SubmitBook(r) \/ SubmitSchedule(r)
      PROVE  [Lifecycle!Next]_(Lifecycle!vars)
  BY <1>2, Stutters DEF SubmitBook, SubmitSchedule, store, rows
<1>3. ASSUME NEW r \in Runs, NEW s \in markets \cup {NoSnap}, NEW ack \in BOOLEAN,
             SubmitEnqueue(r, s, ack)
      PROVE  [Lifecycle!Next]_(Lifecycle!vars)
  <2>1. status[r] = "NONE"
    BY <1>3, <1>a DEF SubmitEnqueue, TaskInv, TaskAt
  <2>2. Lifecycle!Enqueue(r, s)
    BY <1>3, <2>1 DEF SubmitEnqueue, Lifecycle!Enqueue
  <2>3. s \in Snaps \cup {NoSnap}
    BY <1>3 DEF TypeOK
  <2>. QED
    BY <2>2, <2>3 DEF Lifecycle!Next
<1>4. ASSUME NEW w \in Workers,
             \/ ClaimSelect(w) \/ Drained(w) \/ PollError(w) \/ Stop(w)
             \/ \E r \in Runs : ScheduleClaimed(w, r)
      PROVE  [Lifecycle!Next]_(Lifecycle!vars)
  BY <1>4, Stutters DEF ClaimSelect, Drained, PollError, Stop, ScheduleClaimed, store, rows
<1>5. ASSUME NEW w \in Workers, NEW ack \in BOOLEAN, ClaimCommit(w, ack)
      PROVE  [Lifecycle!Next]_(Lifecycle!vars)
  <2>1. Lifecycle!Begin(locked[w])
    BY <1>5 DEF ClaimCommit, ClaimInv, Lifecycle!Begin, Lifecycle!CanTransition,
       Lifecycle!Allowed
  <2>2. locked[w] \in SUBSET Runs
    BY DEF TypeOK
  <2>. QED
    BY <2>1, <2>2 DEF Lifecycle!Next
<1>6. ASSUME NEW p \in Proc, TakeUp(p) \/ Crash(p)
      PROVE  [Lifecycle!Next]_(Lifecycle!vars)
  BY <1>6, Stutters DEF TakeUp, Crash, store, rows
<1>7. ASSUME NEW p \in Proc, NEW r \in Runs,
             \/ ReadHeader(p, r) \/ StartRead(p, r) \/ LoadRun(p, r) \/ ReadMarket(p, r)
             \/ CompleteRead(p, r) \/ FindResult(p, r) \/ FailRead(p, r)
             \/ ComputeRaises(p, r) \/ DbError(p, r)
      PROVE  [Lifecycle!Next]_(Lifecycle!vars)
  BY <1>7, Stutters DEF ReadHeader, StartRead, LoadRun, ReadMarket, CompleteRead,
     FindResult, FailRead, ComputeRaises, DbError, store, rows
<1>. QED
  BY <1>1, <1>2, <1>3, <1>4, <1>5, <1>6, <1>7, WriteStepRefines
     DEF Next, Submit, Poll, Task, Quiet

(***************************************************************************)
(* The system implements the lifecycle: whoever reads the rows sees only   *)
(* transitions of ALLOWED_TRANSITIONS, one snapshot binding, and a result  *)
(* that comes with COMPLETED.                                              *)
(***************************************************************************)
THEOREM WorkerRefinesLifecycle ==
    ASSUME Exclusive
    PROVE  Spec => RefinesLifecycle
<1>1. Init => Lifecycle!Init
  BY DEF Init, Lifecycle!Init
<1>2. Lineage /\ [Next]_vars => [Lifecycle!Next]_(Lifecycle!vars)
  BY NextRefines
<1>. QED
  BY <1>1, <1>2, LineageAlways, PTL DEF Spec, RefinesLifecycle, Lifecycle!Spec
=============================================================================
