------------------------- MODULE RiskRunWorkerProofs -------------------------
(***************************************************************************)
(* Type correctness and safety of RiskRunWorker for every set of runs and  *)
(* workers and every bound; the second in the deployments the docs allow   *)
(* (Exclusive).                                                            *)
(***************************************************************************)
EXTENDS RiskRunInvariant, FiniteSetTheorems, TLAPS

\* The places of pc and the caches, as functions.
PlaceType == pc \in [Proc -> [Runs -> PC]]
BooksType == books \in [Proc -> [Runs -> 0..MaxVersion]]

\* The initial state has the type of every variable.
LEMMA InitType == Init => TypeOK
<1>. SUFFICES ASSUME Init PROVE TypeOK
  OBVIOUS
<1>1. /\ status \in [Runs -> Status]
      /\ created \in [Runs -> Nat]
      /\ pver \in [Runs -> 0..MaxVersion]
      /\ snap \in [Runs -> Snaps \cup {NoSnap}]
      /\ result \in [Runs -> Bound \cup {NoResult}]
      /\ book \in 1..MaxVersion
      /\ markets \subseteq Snaps
  BY ConstantsAssumption DEF Init, Status
<1>2. /\ poll \in [Workers -> {"idle", "selected", "claimed", "stopping", "stopped"}]
      /\ locked \in [Workers -> SUBSET Runs]
      /\ claimed \in [Workers -> SUBSET Runs]
      /\ faults \in Nat
      /\ crashes \in Nat
  BY DEF Init
<1>3. PlaceType
  BY DEF Init, PC, PlaceType
<1>4. pool \in [Proc -> Seq(Runs)]
  BY DEF Init
<1>5. BooksType
  BY ConstantsAssumption DEF Init, BooksType
<1>6. bound \in [Proc -> [Runs -> Bound]]
  BY ConstantsAssumption DEF Init, Bound, Unbound
<1>. QED
  BY <1>1, <1>2, <1>3, <1>4, <1>5, <1>6 DEF TypeOK, PlaceType, BooksType

\* A submitted run's rank is a natural number (SubmitEnqueue).
LEMMA RankIsNat ==
    1 + Cardinality({q \in Runs : status[q] # "NONE"}) \in Nat
<1>1. IsFiniteSet({q \in Runs : status[q] # "NONE"})
  BY ConstantsAssumption, FS_Subset
<1>. QED
  BY <1>1, FS_CardinalityType

\* Goto and EndTask keep the types of what they assign.
LEMMA GotoType ==
    ASSUME TypeOK, NEW p \in Proc, NEW r \in Runs, NEW l \in PC, Goto(p, r, l)
    PROVE  PlaceType'
  BY DEF Goto, TypeOK, PlaceType

LEMMA EndTaskType ==
    ASSUME TypeOK, NEW p \in Proc, NEW r \in Runs, EndTask(p, r)
    PROVE  PlaceType' /\ BooksType'
<1>1. "none" \in PC
  BY DEF PC
<1>2. PlaceType'
  BY <1>1, GotoType DEF EndTask
<1>3. BooksType'
  BY ConstantsAssumption DEF EndTask, TypeOK, BooksType
<1>. QED
  BY <1>2, <1>3

\* Enqueue appends a run to a process's queue.
LEMMA EnqueueType ==
    ASSUME TypeOK, NEW p \in Proc, NEW r \in Runs, Enqueue(p, r)
    PROVE  pool' \in [Proc -> Seq(Runs)]
<1>1. pool \in [Proc -> Seq(Runs)]
  BY DEF TypeOK
<1>2. Append(pool[p], r) \in Seq(Runs)
  BY <1>1
<1>. QED
  BY <1>1, <1>2 DEF Enqueue

\* What a task prices is a book and a market.
LEMMA BoundType ==
    ASSUME TypeOK, NEW p \in Proc, NEW r \in Runs, NEW b \in Bound,
           bound' = [bound EXCEPT ![p][r] = b]
    PROVE  bound' \in [Proc -> [Runs -> Bound]]
  BY DEF TypeOK

LEMMA BoundBookType ==
    ASSUME TypeOK, NEW p \in Proc, NEW r \in Runs, NEW v \in 0..MaxVersion,
           bound' = [bound EXCEPT ![p][r].book = v]
    PROVE  bound' \in [Proc -> [Runs -> Bound]]
<1>1. bound[p][r] \in Bound
  BY DEF TypeOK
<1>2. [bound[p][r] EXCEPT !.book = v] \in Bound
  BY <1>1 DEF Bound
<1>. QED
  BY <1>2, BoundType

\* Acked and Fault count errors.
LEMMA FaultsType ==
    ASSUME TypeOK, NEW ack \in BOOLEAN, Acked(ack) \/ Fault
    PROVE  faults' \in Nat
  BY DEF Acked, Fault, TypeOK

\* The API's steps keep the types.
LEMMA SubmitType ==
    ASSUME TypeOK, NEW r \in Runs, Submit(r)
    PROVE  TypeOK'
<1>a. Api \in Proc
  BY DEF Proc
<1>1. CASE SubmitBook(r)
  <2>1. PlaceType'
    BY <1>1, <1>a, GotoType DEF SubmitBook, PC
  <2>2. BooksType'
    BY <1>1, <1>a DEF SubmitBook, TypeOK, BooksType
  <2>. QED
    BY <1>1, <2>1, <2>2 DEF SubmitBook, TypeOK, PlaceType, BooksType, store, rows, claim
<1>2. ASSUME NEW s \in markets \cup {NoSnap}, NEW ack \in BOOLEAN, SubmitEnqueue(r, s, ack)
      PROVE  TypeOK'
  <2>1. created' \in [Runs -> Nat]
    BY <1>2, RankIsNat DEF SubmitEnqueue, TypeOK
  <2>2. faults' \in Nat
    BY <1>2, FaultsType DEF SubmitEnqueue
  <2>3. /\ status' \in [Runs -> Status]
        /\ pver' \in [Runs -> 0..MaxVersion]
        /\ snap' \in [Runs -> Snaps \cup {NoSnap}]
    BY <1>2, <1>a DEF SubmitEnqueue, TypeOK, Status
  <2>4. PlaceType' /\ BooksType'
    <3>1. CASE ack
      <4>1. (IF External THEN "none" ELSE "enqueued") \in PC
        BY DEF PC
      <4>. QED
        BY <1>2, <3>1, <4>1, <1>a, GotoType DEF SubmitEnqueue, TypeOK, BooksType
    <3>2. CASE ~ack
      BY <1>2, <3>2, <1>a, EndTaskType DEF SubmitEnqueue
    <3>. QED
      BY <3>1, <3>2
  <2>5. bound' \in [Proc -> [Runs -> Bound]]
    <3>1. books[Api][r] \in 0..MaxVersion
      BY <1>a DEF TypeOK
    <3>. QED
      BY <1>2, <1>a, <3>1, BoundBookType DEF SubmitEnqueue, TypeOK
  <2>. QED
    BY <1>2, <2>1, <2>2, <2>3, <2>4, <2>5
       DEF SubmitEnqueue, TypeOK, PlaceType, BooksType, claim
<1>3. CASE SubmitSchedule(r)
  <2>1. PlaceType'
    BY <1>3, <1>a, GotoType DEF SubmitSchedule, PC
  <2>2. pool' \in [Proc -> Seq(Runs)]
    BY <1>3, <1>a, EnqueueType DEF SubmitSchedule
  <2>. QED
    BY <1>3, <2>1, <2>2 DEF SubmitSchedule, TypeOK, PlaceType, store, rows, claim
<1>. QED
  BY <1>1, <1>2, <1>3 DEF Submit

\* The worker loop's steps keep the types.
LEMMA PollType ==
    ASSUME TypeOK, NEW w \in Workers, Poll(w) \/ PollError(w) \/ Stop(w)
    PROVE  TypeOK'
<1>a. w \in Proc
  BY DEF Proc
<1>1. CASE ClaimSelect(w)
  <2>1. FirstRows \subseteq Runs
    BY DEF FirstRows, Claimable
  <2>. QED
    BY <1>1, <2>1 DEF ClaimSelect, TypeOK, store, rows, task
<1>2. ASSUME NEW ack \in BOOLEAN, ClaimCommit(w, ack)
      PROVE  TypeOK'
  <2>1. faults' \in Nat
    BY <1>2, FaultsType DEF ClaimCommit
  <2>2. status' \in [Runs -> Status]
    BY <1>2 DEF ClaimCommit, TypeOK, Status
  <2>3. /\ poll' \in [Workers -> {"idle", "selected", "claimed", "stopping", "stopped"}]
        /\ locked' \in [Workers -> SUBSET Runs]
        /\ claimed' \in [Workers -> SUBSET Runs]
    BY <1>2 DEF ClaimCommit, TypeOK
  <2>. QED
    BY <1>2, <2>1, <2>2, <2>3 DEF ClaimCommit, TypeOK, task
<1>3. ASSUME NEW r \in Runs, ScheduleClaimed(w, r)
      PROVE  TypeOK'
  <2>1. PlaceType'
    BY <1>3, <1>a, GotoType DEF ScheduleClaimed, PC
  <2>2. BooksType'
    BY <1>3, <1>a DEF ScheduleClaimed, TypeOK, BooksType
  <2>3. pool' \in [Proc -> Seq(Runs)]
    BY <1>3, <1>a, EnqueueType DEF ScheduleClaimed
  <2>4. bound' \in [Proc -> [Runs -> Bound]]
    <3>1. book \in 0..MaxVersion
      BY ConstantsAssumption DEF TypeOK
    <3>. QED
      BY <1>3, <1>a, <3>1, BoundBookType DEF ScheduleClaimed
  <2>5. /\ poll' \in [Workers -> {"idle", "selected", "claimed", "stopping", "stopped"}]
        /\ claimed' \in [Workers -> SUBSET Runs]
    BY <1>3 DEF ScheduleClaimed, TypeOK
  <2>. QED
    BY <1>3, <2>1, <2>2, <2>3, <2>4, <2>5
       DEF ScheduleClaimed, TypeOK, PlaceType, BooksType, store, rows
<1>4. CASE Drained(w)
  BY <1>4 DEF Drained, TypeOK, store, rows, task
<1>5. CASE PollError(w)
  BY <1>5 DEF PollError, Fault, TypeOK, store, rows, task
<1>6. CASE Stop(w)
  BY <1>6 DEF Stop, TypeOK, store, rows, task
<1>. QED
  BY <1>1, <1>2, <1>3, <1>4, <1>5, <1>6 DEF Poll

\* A thread's steps keep the types: the ones without a commit.
LEMMA TaskReadType ==
    ASSUME TypeOK, NEW p \in Proc, NEW r \in Runs,
           \/ ReadHeader(p, r) \/ StartRead(p, r) \/ LoadRun(p, r) \/ ReadMarket(p, r)
           \/ CompleteRead(p, r) \/ FindResult(p, r) \/ FailRead(p, r)
           \/ ComputeRaises(p, r) \/ DbError(p, r)
    PROVE  TypeOK'
<1>. USE GotoType, EndTaskType DEF PC, Executing
<1>b. BooksType
  BY DEF TypeOK, BooksType
<1>1. CASE ReadHeader(p, r)
  <2>1. PlaceType' /\ BooksType'
    BY <1>1, <1>b DEF ReadHeader, BooksType
  <2>. QED
    BY <1>1, <2>1 DEF ReadHeader, TypeOK, PlaceType, BooksType, store, rows, claim
<1>2. CASE StartRead(p, r)
  <2>1. PlaceType' /\ BooksType'
    BY <1>2, <1>b DEF StartRead, BooksType
  <2>. QED
    BY <1>2, <2>1 DEF StartRead, TypeOK, PlaceType, BooksType, store, rows, claim
<1>3. CASE LoadRun(p, r)
  <2>1. PlaceType'
    BY <1>3 DEF LoadRun
  <2>2. Portfolio(p, r) \in 0..MaxVersion
    BY ConstantsAssumption DEF Portfolio, TypeOK
  <2>3. bound' \in [Proc -> [Runs -> Bound]]
    <3>1. [book |-> Portfolio(p, r), market |-> snap[r]] \in Bound
      BY <2>2 DEF TypeOK, Bound
    <3>. QED
      BY <1>3, <3>1, BoundType DEF LoadRun, TypeOK
  <2>. QED
    BY <1>3, <2>1, <2>3 DEF LoadRun, TypeOK, PlaceType, store, rows, claim
<1>4. CASE ReadMarket(p, r)
  <2>1. PlaceType'
    BY <1>4 DEF ReadMarket
  <2>. QED
    BY <1>4, <2>1 DEF ReadMarket, TypeOK, PlaceType, store, rows, claim
<1>5. CASE CompleteRead(p, r)
  <2>1. PlaceType'
    BY <1>5 DEF CompleteRead
  <2>. QED
    BY <1>5, <2>1 DEF CompleteRead, TypeOK, PlaceType, store, rows, claim
<1>6. CASE FailRead(p, r)
  <2>1. PlaceType' /\ BooksType'
    BY <1>6, <1>b DEF FailRead, BooksType
  <2>. QED
    BY <1>6, <2>1 DEF FailRead, TypeOK, PlaceType, BooksType, store, rows, claim
<1>7. CASE ComputeRaises(p, r)
  <2>1. PlaceType'
    BY <1>7 DEF ComputeRaises
  <2>. QED
    BY <1>7, <2>1 DEF ComputeRaises, TypeOK, PlaceType, store, rows, claim
<1>8. CASE DbError(p, r)
  <2>1. PlaceType' /\ BooksType'
    BY <1>8, <1>b DEF DbError, BooksType
  <2>2. faults' \in Nat
    BY <1>8 DEF DbError, Fault, TypeOK
  <2>. QED
    BY <1>8, <2>1, <2>2 DEF DbError, TypeOK, PlaceType, BooksType, store, rows, claim
<1>9. CASE FindResult(p, r)
  <2>1. PlaceType'
    BY <1>9 DEF FindResult
  <2>. QED
    BY <1>9, <2>1 DEF FindResult, TypeOK, PlaceType, store, rows, claim
<1>. QED
  BY <1>1, <1>2, <1>3, <1>4, <1>5, <1>6, <1>7, <1>8, <1>9

\* A thread's steps keep the types: the ones that commit.
LEMMA TaskWriteType ==
    ASSUME TypeOK, NEW p \in Proc, NEW r \in Runs, NEW ack \in BOOLEAN,
           \/ StartWrite(p, r, ack) \/ InsertMarket(p, r, ack)
           \/ BindMarket(p, r, ack) \/ CompleteWrite(p, r, ack) \/ FailWrite(p, r)
    PROVE  TypeOK'
<1>. USE GotoType, EndTaskType DEF PC, Executing
<1>b. BooksType
  BY DEF TypeOK, BooksType
<1>1. CASE StartWrite(p, r, ack)
  <2>1. PlaceType'
    BY <1>1 DEF StartWrite
  <2>2. faults' \in Nat
    BY <1>1, FaultsType DEF StartWrite
  <2>. QED
    BY <1>1, <2>1, <2>2 DEF StartWrite, TypeOK, PlaceType, Status, claim
<1>2. CASE InsertMarket(p, r, ack)
  <2>1. PlaceType'
    BY <1>2 DEF InsertMarket
  <2>2. faults' \in Nat /\ markets' \subseteq Snaps
    BY <1>2, FaultsType, ConstantsAssumption DEF InsertMarket, TypeOK
  <2>. QED
    BY <1>2, <2>1, <2>2 DEF InsertMarket, TypeOK, PlaceType, rows, claim
<1>3. CASE BindMarket(p, r, ack)
  <2>1. PlaceType'
    BY <1>3 DEF BindMarket
  <2>2. Portfolio(p, r) \in 0..MaxVersion
    BY ConstantsAssumption DEF Portfolio, TypeOK
  <2>3. bound' \in [Proc -> [Runs -> Bound]]
    <3>1. [book |-> Portfolio(p, r), market |-> Live] \in Bound
      BY <2>2, ConstantsAssumption DEF Bound
    <3>. QED
      BY <1>3, <3>1, BoundType DEF BindMarket, TypeOK
  <2>4. faults' \in Nat
    BY <1>3, FaultsType DEF BindMarket, TypeOK
  <2>5. snap' \in [Runs -> Snaps \cup {NoSnap}]
    BY <1>3, ConstantsAssumption DEF BindMarket, TypeOK
  <2>. QED
    BY <1>3, <2>1, <2>3, <2>4, <2>5 DEF BindMarket, TypeOK, PlaceType, claim
<1>4. CASE CompleteWrite(p, r, ack)
  <2>1. PlaceType' /\ BooksType'
    BY <1>4, <1>b DEF CompleteWrite, BooksType
  <2>2. faults' \in Nat
    BY <1>4, FaultsType DEF CompleteWrite, TypeOK
  <2>3. /\ status' \in [Runs -> Status]
        /\ result' \in [Runs -> Bound \cup {NoResult}]
    <3>1. bound[p][r] \in Bound
      BY DEF TypeOK
    <3>2. CASE result[r] = NoResult \/ pc[p][r] = "replaceResult"
      BY <1>4, <3>1, <3>2 DEF CompleteWrite, TypeOK, Status
    <3>3. CASE ~(result[r] = NoResult \/ pc[p][r] = "replaceResult")
      BY <1>4, <3>3 DEF CompleteWrite, TypeOK
    <3>. QED
      BY <3>2, <3>3
  <2>. QED
    BY <1>4, <2>1, <2>2, <2>3 DEF CompleteWrite, TypeOK, PlaceType, BooksType, claim
<1>5. CASE FailWrite(p, r)
  <2>1. PlaceType' /\ BooksType'
    BY <1>5 DEF FailWrite
  <2>2. status' \in [Runs -> Status]
    BY <1>5 DEF FailWrite, TypeOK, Status
  <2>. QED
    BY <1>5, <2>1, <2>2 DEF FailWrite, TypeOK, PlaceType, BooksType, claim
<1>. QED
  BY <1>1, <1>2, <1>3, <1>4, <1>5

\* Every step keeps the types.
LEMMA NextType == TypeOK /\ [Next]_vars => TypeOK'
<1>. SUFFICES ASSUME TypeOK, [Next]_vars
              PROVE  TypeOK'
  OBVIOUS
<1>1. CASE UpdateBook
  BY <1>1, ConstantsAssumption DEF UpdateBook, TypeOK, rows, claim, task
<1>2. ASSUME NEW r \in Runs, Submit(r) PROVE TypeOK'
  BY <1>2, SubmitType
<1>3. ASSUME NEW w \in Workers, Poll(w) \/ PollError(w) \/ Stop(w) PROVE TypeOK'
  BY <1>3, PollType
<1>4. ASSUME NEW p \in Proc, TakeUp(p) PROVE TypeOK'
  BY <1>4 DEF TakeUp, Goto, TypeOK, PC, Executing, store, rows, claim
<1>5. ASSUME NEW p \in Proc, Crash(p) PROVE TypeOK'
  BY <1>5, ConstantsAssumption DEF Crash, TypeOK, store, rows, PC, Unbound, Bound
<1>6. ASSUME NEW p \in Proc, NEW r \in Runs,
             Task(p, r) \/ ComputeRaises(p, r) \/ DbError(p, r)
      PROVE  TypeOK'
  BY <1>6, TaskReadType, TaskWriteType DEF Task
<1>7. CASE UNCHANGED vars
  BY <1>7 DEF vars, store, rows, claim, task, TypeOK
<1>. QED
  BY <1>1, <1>2, <1>3, <1>4, <1>5, <1>6, <1>7 DEF Next, Quiet

(***************************************************************************)
(* Every variable keeps its type, for all constants.                       *)
(***************************************************************************)
THEOREM TypeCorrect == Spec => []TypeOK
  BY InitType, NextType, PTL DEF Spec

-----------------------------------------------------------------------------
(* Who holds what.                                                            *)

Ownership == TypeOK /\ ClaimInv /\ TaskInv /\ PoolInv /\ OwnerInv

\* What every step of a thread on a run leaves alone.
TaskShape(p, r) ==
    /\ pc[p][r] \in Executing
    /\ pc'[p][r] \in {"none"} \cup Executing
    /\ \A q \in Proc, s \in Runs : q # p \/ s # r => pc'[q][s] = pc[q][s]
    /\ \A s \in Runs : s # r => status'[s] = status[s]
    /\ UNCHANGED <<claim, pool>>

TaskStep(p, r) == Task(p, r) \/ ComputeRaises(p, r) \/ DbError(p, r)

\* The frame of Goto and EndTask.
LEMMA GotoFrame ==
    ASSUME TypeOK, NEW p \in Proc, NEW r \in Runs, NEW l, Goto(p, r, l)
    PROVE  /\ pc'[p][r] = l
           /\ \A q \in Proc, s \in Runs : q # p \/ s # r => pc'[q][s] = pc[q][s]
  BY DEF Goto, TypeOK

LEMMA EndTaskFrame ==
    ASSUME TypeOK, NEW p \in Proc, NEW r \in Runs, EndTask(p, r)
    PROVE  /\ pc'[p][r] = "none"
           /\ \A q \in Proc, s \in Runs : q # p \/ s # r => pc'[q][s] = pc[q][s]
  BY GotoFrame DEF EndTask

(***************************************************************************)
(* Each step of a thread has the shape, and leaves its own run in a state  *)
(* its new place allows.                                                   *)
(***************************************************************************)
LEMMA ReadStepShape ==
    ASSUME TypeOK, NEW p \in Proc, NEW r \in Runs, TaskAt(p, r),
           \/ ReadHeader(p, r) \/ StartRead(p, r) \/ LoadRun(p, r) \/ ReadMarket(p, r)
           \/ CompleteRead(p, r) \/ FindResult(p, r) \/ FailRead(p, r)
           \/ ComputeRaises(p, r) \/ DbError(p, r)
    PROVE  TaskShape(p, r) /\ TaskAt(p, r)'
<1>. USE GotoFrame, EndTaskFrame DEF Executing, TaskShape, TaskAt, AfterStart
<1>a. status[r] \in Status /\ pc[p][r] \in PC
  BY DEF TypeOK
<1>1. CASE ReadHeader(p, r)
  BY <1>1, <1>a DEF ReadHeader, store, rows, Terminal
<1>2. CASE StartRead(p, r)
  BY <1>2, <1>a DEF StartRead, store, rows
<1>3. CASE LoadRun(p, r)
  BY <1>3 DEF LoadRun, store, rows
<1>4. CASE ReadMarket(p, r)
  BY <1>4 DEF ReadMarket, store, rows
<1>5. CASE CompleteRead(p, r)
  BY <1>5 DEF CompleteRead, store, rows
<1>6. CASE FailRead(p, r)
  BY <1>6 DEF FailRead, store, rows
<1>7. CASE ComputeRaises(p, r)
  BY <1>7 DEF ComputeRaises, store, rows
<1>8. CASE DbError(p, r)
  BY <1>8 DEF DbError, store, rows
<1>9. CASE FindResult(p, r)
  BY <1>9 DEF FindResult, store, rows
<1>. QED
  BY <1>1, <1>2, <1>3, <1>4, <1>5, <1>6, <1>7, <1>8, <1>9

LEMMA WriteStepShape ==
    ASSUME TypeOK, NEW p \in Proc, NEW r \in Runs, NEW ack \in BOOLEAN, TaskAt(p, r),
           \/ StartWrite(p, r, ack) \/ InsertMarket(p, r, ack)
           \/ BindMarket(p, r, ack) \/ CompleteWrite(p, r, ack) \/ FailWrite(p, r)
    PROVE  TaskShape(p, r) /\ TaskAt(p, r)'
<1>. USE GotoFrame, EndTaskFrame DEF Executing, TaskShape, TaskAt, AfterStart
<1>a. status \in [Runs -> Status]
  BY DEF TypeOK
<1>1. CASE StartWrite(p, r, ack)
  BY <1>1, <1>a DEF StartWrite
<1>2. CASE InsertMarket(p, r, ack)
  BY <1>2 DEF InsertMarket, rows
<1>3. CASE BindMarket(p, r, ack)
  BY <1>3 DEF BindMarket
<1>4. CASE CompleteWrite(p, r, ack)
  BY <1>4, <1>a DEF CompleteWrite
<1>5. CASE FailWrite(p, r)
  BY <1>5, <1>a DEF FailWrite
<1>. QED
  BY <1>1, <1>2, <1>3, <1>4, <1>5

LEMMA TaskStepShape ==
    ASSUME TypeOK, NEW p \in Proc, NEW r \in Runs, TaskAt(p, r), TaskStep(p, r)
    PROVE  TaskShape(p, r) /\ TaskAt(p, r)'
  BY ReadStepShape, WriteStepShape DEF TaskStep, Task

\* The queue stays as it is while its tasks wait.
LEMMA PoolFrame ==
    ASSUME TypeOK, PoolInv, pool' = pool,
           \A q \in Proc, s \in Runs : pc[q][s] = "waiting" => pc'[q][s] = "waiting"
    PROVE  PoolInv'
<1>1. \A q \in Proc : \A i \in 1..Len(pool[q]) : pool[q][i] \in Runs
  BY DEF TypeOK
<1>. QED
  BY <1>1 DEF PoolInv

\* A thread's step disturbs neither the other owners nor the claims.
LEMMA TaskKeepsOwnership ==
    ASSUME Ownership, TypeOK', NEW p \in Proc, NEW r \in Runs,
           TaskShape(p, r), TaskAt(p, r)'
    PROVE  Ownership'
<1>. USE DEF Ownership
<1>1. \A q \in Proc, s \in Runs : Owns(q, s)' => Owns(q, s)
  BY DEF TaskShape, Owns, claim, Executing
<1>2. Owns(p, r)
  BY DEF TaskShape, Owns
<1>3. OwnerInv'
  <2>1. OneExecutor'
    BY <1>1 DEF OwnerInv, OneExecutor
  <2>2. ASSUME NEW w \in Workers, NEW s \in Runs, s \in (locked[w] \cup claimed[w])'
        PROVE  pc'[w][s] = "none"
    <3>1. s \in locked[w] \cup claimed[w] /\ w \in Proc
      BY <2>2 DEF TaskShape, claim, Proc
    <3>2. pc[w][s] = "none"
      BY <3>1 DEF OwnerInv
    <3>. QED
      BY <3>1, <3>2 DEF TaskShape, Executing
  <2>. QED
    BY <2>1, <2>2 DEF OwnerInv
<1>4. ClaimInv'
  <2>1. ASSUME NEW w \in Workers PROVE r \notin locked[w] \cup claimed[w]
    <3>1. w \in Proc
      BY DEF Proc
    <3>2. SUFFICES ASSUME r \in locked[w] \cup claimed[w] PROVE FALSE
      OBVIOUS
    <3>3. Owns(w, r) /\ pc[w][r] = "none"
      BY <3>2 DEF Owns, OwnerInv
    <3>4. w = p
      BY <3>1, <3>3, <1>2 DEF OwnerInv, OneExecutor
    <3>. QED
      BY <3>3, <3>4 DEF TaskShape, Executing
  <2>. QED
    BY <2>1 DEF ClaimInv, TaskShape, claim, TypeOK
<1>5. TaskInv'
  <2>. SUFFICES ASSUME NEW q \in Proc, NEW s \in Runs PROVE TaskAt(q, s)'
    BY DEF TaskInv
  <2>1. CASE s # r
    BY <2>1 DEF TaskInv, TaskAt, TaskShape
  <2>2. CASE s = r /\ q = p
    BY <2>2
  <2>3. CASE s = r /\ q # p
    <3>1. ~Owns(q, r)
      BY <1>2, <2>3 DEF OwnerInv, OneExecutor
    <3>2. pc[q][r] \in {"none", "booked"}
      BY <3>1 DEF Owns, TypeOK, PC
    <3>3. status[r] # "NONE"
      BY DEF TaskInv, TaskAt, TaskShape, Executing, AfterStart
    <3>4. pc'[q][s] = "none"
      BY <3>2, <3>3, <2>3 DEF TaskInv, TaskAt, TaskShape
    <3>. QED
      BY <3>4 DEF TaskAt, AfterStart
  <2>. QED
    BY <2>1, <2>2, <2>3
<1>6. PoolInv'
  BY PoolFrame DEF TaskShape, Executing
<1>. QED
  BY <1>3, <1>4, <1>5, <1>6

\* A run that becomes a waiting task enters the queue once.
LEMMA EnqueueKeepsPool ==
    ASSUME TypeOK, PoolInv, NEW p \in Proc, NEW r \in Runs, Enqueue(p, r),
           pc[p][r] # "waiting", pc'[p][r] = "waiting",
           \A q \in Proc, s \in Runs : q # p \/ s # r => pc'[q][s] = pc[q][s]
    PROVE  PoolInv'
<1>1. pool \in [Proc -> Seq(Runs)]
  BY DEF TypeOK
<1>2. pool' = [pool EXCEPT ![p] = Append(pool[p], r)]
  BY DEF Enqueue
<1>. SUFFICES ASSUME NEW q \in Proc, NEW i \in 1..Len(pool'[q])
              PROVE  /\ pc'[q][pool'[q][i]] = "waiting"
                     /\ \A j \in 1..Len(pool'[q]) : pool'[q][i] = pool'[q][j] => i = j
  BY DEF PoolInv
<1>3. CASE q # p
  BY <1>1, <1>2, <1>3 DEF PoolInv
<1>4. CASE q = p
  <2>1. /\ Len(pool'[p]) = Len(pool[p]) + 1
        /\ pool'[p][Len(pool[p]) + 1] = r
        /\ \A k \in 1..Len(pool[p]) : pool'[p][k] = pool[p][k]
        /\ Len(pool[p]) \in Nat
    BY <1>1, <1>2
  <2>2. \A k \in 1..Len(pool[p]) : pool[p][k] # r /\ pool[p][k] \in Runs
    BY <1>1 DEF PoolInv
  <2>3. CASE i = Len(pool[p]) + 1
    <3>1. \A j \in 1..Len(pool'[p]) : j # i => j \in 1..Len(pool[p])
      BY <2>1, <2>3
    <3>. QED
      BY <1>4, <2>1, <2>2, <2>3, <3>1
  <2>4. CASE i # Len(pool[p]) + 1
    <3>1. i \in 1..Len(pool[p])
      BY <1>4, <2>1, <2>4
    <3>2. pc[p][pool[p][i]] = "waiting" /\ pc'[p][pool[p][i]] = "waiting"
      BY <3>1, <2>2 DEF PoolInv
    <3>3. \A j \in 1..Len(pool[p]) : pool[p][i] = pool[p][j] => i = j
      BY <3>1 DEF PoolInv
    <3>4. \A j \in 1..Len(pool'[p]) : j = Len(pool[p]) + 1 \/ j \in 1..Len(pool[p])
      BY <2>1
    <3>. QED
      BY <1>4, <2>1, <2>2, <3>1, <3>2, <3>3, <3>4
  <2>. QED
    BY <2>3, <2>4
<1>. QED
  BY <1>3, <1>4

\* The steps of the submitting request.
LEMMA SubmitKeepsOwnership ==
    ASSUME Ownership, TypeOK', NEW r \in Runs, Submit(r)
    PROVE  Ownership'
<1>. USE DEF Ownership
<1>a. Api \in Proc /\ Workers \subseteq Proc /\ External \in BOOLEAN /\ Api \notin Workers
  BY ConstantsAssumption DEF Proc
<1>1. CASE SubmitBook(r)
  <2>1. /\ pc'[Api][r] = "booked" /\ status[r] = "NONE"
        /\ \A q \in Proc, s \in Runs : q # Api \/ s # r => pc'[q][s] = pc[q][s]
        /\ UNCHANGED <<status, claim, pool>>
    BY <1>1, <1>a, GotoFrame DEF SubmitBook, store, rows
  <2>2. ClaimInv'
    BY <2>1 DEF ClaimInv, claim
  <2>3. TaskInv'
    BY <2>1 DEF TaskInv, TaskAt, AfterStart
  <2>4. \A q \in Proc, s \in Runs : Owns(q, s)' => Owns(q, s)
    BY <2>1 DEF Owns, Executing, claim
  <2>5. OwnerInv'
    BY <2>1, <2>4, <1>a DEF OwnerInv, OneExecutor, claim
  <2>6. pc[Api][r] = "none"
    BY <1>1 DEF SubmitBook
  <2>7. PoolInv'
    BY <2>1, <2>6, PoolFrame
  <2>. QED
    BY <2>2, <2>3, <2>5, <2>7
<1>2. ASSUME NEW s0 \in markets \cup {NoSnap}, NEW ack \in BOOLEAN,
             SubmitEnqueue(r, s0, ack)
      PROVE  Ownership'
  <2>1. /\ pc[Api][r] = "booked"
        /\ pc'[Api][r] = "none" \/ (~External /\ pc'[Api][r] = "enqueued")
        /\ \A q \in Proc, s \in Runs : q # Api \/ s # r => pc'[q][s] = pc[q][s]
    BY <1>2, <1>a, GotoFrame, EndTaskFrame DEF SubmitEnqueue
  <2>2. /\ status'[r] = "QUEUED"
        /\ \A s \in Runs : s # r => status'[s] = status[s]
        /\ UNCHANGED <<claim, pool>>
    BY <1>2 DEF SubmitEnqueue, TypeOK
  <2>3. status[r] = "NONE"
    BY <2>1, <1>a DEF TaskInv, TaskAt
  <2>4. \A q \in Proc : pc[q][r] \in {"none", "booked"}
    <3>. SUFFICES ASSUME NEW q \in Proc PROVE pc[q][r] \in {"none", "booked"}
      OBVIOUS
    <3>1. TaskAt(q, r) /\ pc[q][r] \in PC
      BY DEF TaskInv, TypeOK
    <3>2. pc[q][r] \notin {"waiting", "header"}
      BY <3>1, <2>3 DEF TaskAt
    <3>. QED
      BY <3>1, <3>2, <2>3 DEF TaskAt, PC, Executing, AfterStart
  <2>5. \A q \in Proc : q # Api => pc[q][r] = "none"
    BY <2>4 DEF TaskInv, TaskAt
  <2>6. \A w \in Workers : r \notin locked[w] \cup claimed[w]
    BY <2>3 DEF ClaimInv
  <2>7. ClaimInv'
    BY <2>2, <2>6 DEF ClaimInv, claim, TypeOK
  <2>8. TaskInv'
    <3>. SUFFICES ASSUME NEW q \in Proc, NEW s \in Runs PROVE TaskAt(q, s)'
      BY DEF TaskInv
    <3>1. CASE s # r
      BY <3>1, <2>1, <2>2 DEF TaskInv, TaskAt
    <3>2. CASE s = r /\ q # Api
      BY <3>2, <2>1, <2>2, <2>5 DEF TaskAt, AfterStart
    <3>3. CASE s = r /\ q = Api
      BY <3>3, <2>1, <2>2, <1>a DEF TaskAt, AfterStart
    <3>. QED
      BY <3>1, <3>2, <3>3
  <2>9. ASSUME NEW q \in Proc, NEW s \in Runs, Owns(q, s)'
        PROVE  Owns(q, s) \/ (q = Api /\ s = r)
    BY <2>9, <2>1, <2>2 DEF Owns, claim
  <2>10. \A q \in Proc : ~Owns(q, r)
    BY <2>4, <2>6 DEF Owns, Executing
  <2>11. OwnerInv'
    <3>1. ASSUME NEW q \in Proc, Owns(q, r)' PROVE q = Api
      BY <3>1, <2>9, <2>10
    <3>2. OneExecutor'
      BY <2>9, <3>1 DEF OwnerInv, OneExecutor
    <3>. QED
      BY <3>2, <2>1, <2>2, <2>6, <1>a DEF OwnerInv, claim
  <2>12. PoolInv'
    BY <2>1, <2>2, PoolFrame
  <2>. QED
    BY <2>7, <2>8, <2>11, <2>12
<1>3. CASE SubmitSchedule(r)
  <2>1. /\ pc[Api][r] = "enqueued" /\ pc'[Api][r] = "waiting"
        /\ \A q \in Proc, s \in Runs : q # Api \/ s # r => pc'[q][s] = pc[q][s]
        /\ UNCHANGED <<status, claim>>
        /\ Enqueue(Api, r)
    BY <1>3, <1>a, GotoFrame DEF SubmitSchedule, store, rows
  <2>2. ClaimInv'
    BY <2>1 DEF ClaimInv, claim
  <2>3. TaskInv'
    <3>1. status[r] = "QUEUED" /\ ~External
      BY <2>1, <1>a DEF TaskInv, TaskAt
    <3>. QED
      BY <2>1, <3>1 DEF TaskInv, TaskAt, AfterStart
  <2>4. \A q \in Proc, s \in Runs : Owns(q, s)' => Owns(q, s)
    BY <2>1 DEF Owns, claim
  <2>5. OwnerInv'
    BY <2>1, <2>4, <1>a DEF OwnerInv, OneExecutor, claim
  <2>6. PoolInv'
    BY <2>1, <1>a, EnqueueKeepsPool
  <2>. QED
    BY <2>2, <2>3, <2>5, <2>6
<1>. QED
  BY <1>1, <1>2, <1>3 DEF Submit

\* The steps of a worker's main loop.
LEMMA ClaimSelectKeepsOwnership ==
    ASSUME Exclusive, Ownership, TypeOK', NEW w \in Workers, ClaimSelect(w)
    PROVE  Ownership'
<1>. USE DEF Ownership
<1>a. Workers \subseteq Proc /\ External /\ Api \notin Workers
  BY ConstantsAssumption DEF Proc, Exclusive
<1>1. /\ poll[w] = "idle" /\ poll'[w] = "selected" /\ locked'[w] = FirstRows
      /\ \A v \in Workers : v # w => locked'[v] = locked[v] /\ poll'[v] = poll[v]
      /\ UNCHANGED <<status, pc, pool, claimed>>
  BY DEF ClaimSelect, store, rows, task, TypeOK
<1>2. \A r \in FirstRows : r \in Runs /\ status[r] = "QUEUED"
  BY DEF FirstRows, Claimable
<1>3. ClaimInv'
  BY <1>1, <1>2 DEF ClaimInv
<1>4. TaskInv'
  BY <1>1 DEF TaskInv, TaskAt
<1>5. PoolInv'
  BY <1>1 DEF PoolInv
<1>6. ASSUME NEW r \in FirstRows, NEW q \in Proc
      PROVE  ~Owns(q, r) /\ (q # Api => pc[q][r] = "none")
  <2>1. r \in Runs /\ status[r] = "QUEUED" /\ \A v \in Workers : r \notin locked[v]
    BY DEF FirstRows, Claimable, RowFree
  <2>2. \A v \in Workers : r \notin claimed[v]
    BY <2>1 DEF ClaimInv
  <2>3. pc[q][r] \in {"none", "booked"} /\ (q # Api => pc[q][r] = "none")
    <3>1. TaskAt(q, r) /\ pc[q][r] \in PC
      BY <2>1 DEF TaskInv, TypeOK
    <3>. QED
      BY <3>1, <2>1, <1>a DEF TaskAt, PC, Executing, AfterStart
  <2>. QED
    BY <2>1, <2>2, <2>3 DEF Owns, Executing
<1>7. ASSUME NEW q \in Proc, NEW r \in Runs, Owns(q, r)'
      PROVE  Owns(q, r) \/ (q = w /\ r \in FirstRows)
  BY <1>7, <1>1 DEF Owns
<1>8. OneExecutor'
  BY <1>6, <1>7 DEF OwnerInv, OneExecutor
<1>9. OwnerInv'
  BY <1>1, <1>6, <1>8, <1>a DEF OwnerInv
<1>. QED
  BY <1>3, <1>4, <1>5, <1>9

LEMMA ClaimCommitKeepsOwnership ==
    ASSUME Exclusive, Ownership, TypeOK', NEW w \in Workers, NEW ack \in BOOLEAN,
           ClaimCommit(w, ack)
    PROVE  Ownership'
<1>. USE DEF Ownership
<1>a. Workers \subseteq Proc /\ External /\ Api \notin Workers
  BY ConstantsAssumption DEF Proc, Exclusive
<1>1. /\ \A r \in Runs : status'[r] = IF r \in locked[w] THEN "RUNNING" ELSE status[r]
      /\ locked'[w] = {}
      /\ UNCHANGED <<pc, pool>>
      /\ \A v \in Workers : v # w =>
            locked'[v] = locked[v] /\ claimed'[v] = claimed[v] /\ poll'[v] = poll[v]
      /\ poll[w] = "selected"
  BY DEF ClaimCommit, task, TypeOK
<1>2. \/ claimed'[w] = locked[w] /\ poll'[w] = "claimed"
      \/ claimed'[w] = {}
  <2>1. poll[w] = "selected" /\ claimed[w] = {}
    BY DEF ClaimCommit, ClaimInv
  <2>2. CASE ack
    BY <2>2 DEF ClaimCommit, TypeOK
  <2>3. CASE ~ack
    BY <2>1, <2>3 DEF ClaimCommit, TypeOK
  <2>. QED
    BY <2>2, <2>3
<1>3. ASSUME NEW v \in Workers, v # w, NEW r \in locked[w]
      PROVE  r \notin locked[v] \cup claimed[v]
  <2>1. r \in Runs
    BY DEF TypeOK
  <2>. QED
    BY <1>3, <1>a, <2>1 DEF OwnerInv, OneExecutor, Owns
<1>4. ClaimInv'
  <2>. SUFFICES ASSUME NEW v \in Workers
                PROVE  /\ locked'[v] # {} => poll'[v] = "selected"
                       /\ claimed'[v] # {} => poll'[v] = "claimed"
                       /\ \A r \in locked'[v] : status'[r] = "QUEUED"
                       /\ \A r \in claimed'[v] : status'[r] = "RUNNING"
    BY DEF ClaimInv
  <2>1. CASE v = w
    BY <2>1, <1>1, <1>2 DEF ClaimInv, TypeOK
  <2>2. CASE v # w
    BY <2>2, <1>1, <1>3 DEF ClaimInv, TypeOK
  <2>. QED
    BY <2>1, <2>2
<1>5. ASSUME NEW r \in locked[w], NEW q \in Proc
      PROVE  pc[q][r] = "none"
  <2>1. r \in Runs /\ status[r] = "QUEUED" /\ Owns(w, r) /\ pc[w][r] = "none"
    BY <1>a DEF Owns, OwnerInv, ClaimInv, TypeOK
  <2>2. q # w => ~Owns(q, r)
    BY <2>1, <1>a DEF OwnerInv, OneExecutor
  <2>3. pc[q][r] \in {"none", "booked"}
    BY <2>1, <2>2 DEF Owns, TypeOK, PC
  <2>. QED
    BY <2>1, <2>3 DEF TaskInv, TaskAt
<1>6. TaskInv'
  <2>. SUFFICES ASSUME NEW q \in Proc, NEW r \in Runs PROVE TaskAt(q, r)'
    BY DEF TaskInv
  <2>1. CASE r \in locked[w]
    BY <2>1, <1>1, <1>5 DEF TaskAt, AfterStart
  <2>2. CASE r \notin locked[w]
    BY <2>2, <1>1 DEF TaskInv, TaskAt
  <2>. QED
    BY <2>1, <2>2
<1>7. PoolInv'
  BY <1>1 DEF PoolInv
<1>8. \A q \in Proc, r \in Runs : Owns(q, r)' => Owns(q, r)
  BY <1>1, <1>2 DEF Owns
<1>9. OwnerInv'
  <2>1. OneExecutor'
    BY <1>8 DEF OwnerInv, OneExecutor
  <2>2. \A v \in Workers : locked'[v] \cup claimed'[v] \subseteq locked[v] \cup claimed[v]
    BY <1>1, <1>2
  <2>. QED
    BY <2>1, <2>2, <1>1 DEF OwnerInv
<1>. QED
  BY <1>4, <1>6, <1>7, <1>9

LEMMA ScheduleKeepsOwnership ==
    ASSUME Exclusive, Ownership, TypeOK', NEW w \in Workers, NEW r \in Runs,
           ScheduleClaimed(w, r)
    PROVE  Ownership'
<1>. USE DEF Ownership
<1>a. w \in Proc /\ Workers \subseteq Proc /\ External /\ Api \notin Workers /\ w # Api
  BY ConstantsAssumption DEF Proc, Exclusive
<1>1. /\ r \in claimed[w] /\ pc'[w][r] = "waiting"
      /\ \A q \in Proc, s \in Runs : q # w \/ s # r => pc'[q][s] = pc[q][s]
      /\ Enqueue(w, r)
      /\ UNCHANGED <<status, locked>>
      /\ claimed'[w] = claimed[w] \ {r}
      /\ claimed'[w] # {} => poll'[w] = "claimed"
      /\ poll[w] = "claimed"
      /\ \A v \in Workers : v # w => claimed'[v] = claimed[v] /\ poll'[v] = poll[v]
  <2>1. /\ pc'[w][r] = "waiting"
        /\ \A q \in Proc, s \in Runs : q # w \/ s # r => pc'[q][s] = pc[q][s]
    BY <1>a, GotoFrame DEF ScheduleClaimed
  <2>2. claimed' = [claimed EXCEPT ![w] = claimed[w] \ {r}]
    BY DEF ScheduleClaimed
  <2>3. /\ poll[w] = "claimed"
        /\ claimed[w] # {r} => poll' = poll
        /\ \A v \in Workers : v # w => poll'[v] = poll[v]
    BY DEF ScheduleClaimed, TypeOK
  <2>4. claimed \in [Workers -> SUBSET Runs] /\ r \in claimed[w]
    BY DEF TypeOK, ScheduleClaimed
  <2>5. claimed'[w] # {} => claimed[w] # {r}
    BY <2>2, <2>4
  <2>6. Enqueue(w, r) /\ UNCHANGED <<status, locked>>
    BY DEF ScheduleClaimed, store, rows
  <2>. QED
    BY <2>1, <2>2, <2>3, <2>4, <2>5, <2>6
<1>2. pc[w][r] = "none" /\ Owns(w, r) /\ status[r] = "RUNNING"
  BY <1>1, <1>a DEF OwnerInv, Owns, ClaimInv
<1>3. ClaimInv'
  BY <1>1 DEF ClaimInv
<1>4. TaskInv'
  BY <1>1, <1>2, <1>a DEF TaskInv, TaskAt, AfterStart
<1>5. PoolInv'
  BY <1>1, <1>2, <1>a, EnqueueKeepsPool
<1>6. \A q \in Proc, s \in Runs : Owns(q, s)' => Owns(q, s)
  BY <1>1, <1>2 DEF Owns
<1>7. OneExecutor'
  BY <1>6 DEF OwnerInv, OneExecutor
<1>8. \A v \in Workers : r \notin locked'[v] \cup claimed'[v]
  <2>1. r \notin locked[w]
    BY <1>1 DEF ClaimInv
  <2>2. \A v \in Workers : v # w => ~Owns(v, r)
    BY <1>2, <1>a DEF OwnerInv, OneExecutor
  <2>. QED
    BY <1>1, <2>1, <2>2 DEF Owns
<1>9. OwnerInv'
  BY <1>1, <1>7, <1>8, <1>a DEF OwnerInv
<1>. QED
  BY <1>3, <1>4, <1>5, <1>9

LEMMA PollKeepsOwnership ==
    ASSUME Exclusive, Ownership, TypeOK', NEW w \in Workers,
           Poll(w) \/ PollError(w) \/ Stop(w)
    PROVE  Ownership'
<1>1. CASE PollError(w) \/ Stop(w) \/ Drained(w)
  <2>1. /\ UNCHANGED <<status, pc, pool>>
        /\ \A v \in Workers : \/ UNCHANGED <<locked[v], claimed[v], poll[v]>>
                              \/ locked'[v] = {} /\ claimed'[v] = {}
    BY <1>1 DEF PollError, Stop, Drained, store, rows, task, Ownership, TypeOK, ClaimInv
  <2>2. ClaimInv' /\ TaskInv' /\ PoolInv'
    BY <2>1 DEF Ownership, ClaimInv, TaskInv, TaskAt, PoolInv
  <2>3. \A q \in Proc, s \in Runs : Owns(q, s)' => Owns(q, s)
    BY <2>1 DEF Owns
  <2>4. OwnerInv'
    BY <2>1, <2>3 DEF Ownership, OwnerInv, OneExecutor
  <2>. QED
    BY <2>2, <2>4 DEF Ownership
<1>. QED
  BY <1>1, ClaimSelectKeepsOwnership, ClaimCommitKeepsOwnership, ScheduleKeepsOwnership
     DEF Poll

\* A thread takes the oldest waiting task.
LEMMA TakeUpKeepsOwnership ==
    ASSUME Ownership, TypeOK', NEW p \in Proc, TakeUp(p)
    PROVE  Ownership'
<1>. USE DEF Ownership
<1>0. pool \in [Proc -> Seq(Runs)] /\ pool[p] # <<>>
  BY DEF TypeOK, TakeUp
<1> DEFINE r == Head(pool[p])
<1>1. /\ Len(pool[p]) \in Nat \ {0}
      /\ r = pool[p][1] /\ r \in Runs
      /\ 1 \in 1..Len(pool[p])
  BY <1>0
<1>2. pc[p][r] = "waiting"
  BY <1>1 DEF PoolInv
<1>3. /\ pc'[p][r] = "header"
      /\ \A q \in Proc, s \in Runs : q # p \/ s # r => pc'[q][s] = pc[q][s]
      /\ UNCHANGED <<status, claim>>
      /\ pool' = [pool EXCEPT ![p] = Tail(pool[p])]
  BY <1>1, GotoFrame DEF TakeUp, store, rows
<1>4. ClaimInv'
  BY <1>3 DEF ClaimInv, claim
<1>5. TaskInv'
  BY <1>1, <1>2, <1>3 DEF TaskInv, TaskAt, AfterStart
<1>6. \A q \in Proc, s \in Runs : Owns(q, s)' => Owns(q, s)
  BY <1>2, <1>3 DEF Owns, claim
<1>7. OwnerInv'
  <2>1. \A w \in Workers : p = w => r \notin locked[w] \cup claimed[w]
    BY <1>1, <1>2 DEF OwnerInv
  <2>. QED
    BY <1>3, <1>6, <2>1 DEF OwnerInv, OneExecutor, claim, Proc
<1>8. PoolInv'
  <2>. SUFFICES ASSUME NEW q \in Proc, NEW i \in 1..Len(pool'[q])
                PROVE  /\ pc'[q][pool'[q][i]] = "waiting"
                       /\ \A j \in 1..Len(pool'[q]) : pool'[q][i] = pool'[q][j] => i = j
    BY DEF PoolInv
  <2>1. CASE q # p
    <3>1. pool[q][i] \in Runs
      BY <1>0, <1>3, <2>1
    <3>. QED
      BY <1>0, <1>3, <2>1, <3>1 DEF PoolInv
  <2>2. CASE q = p
    <3>1. /\ Len(pool'[p]) = Len(pool[p]) - 1
          /\ \A k \in 1..Len(pool'[p]) : pool'[p][k] = pool[p][k + 1]
      BY <1>0, <1>1, <1>3
    <3>2. \A k \in 1..Len(pool'[p]) : k + 1 \in 1..Len(pool[p])
      BY <1>1, <3>1
    <3>3. \A k \in 1..Len(pool'[p]) :
             pool[p][k + 1] # r /\ pool[p][k + 1] \in Runs
      BY <1>0, <1>1, <3>2 DEF PoolInv
    <3>4. pc'[p][pool'[p][i]] = "waiting"
      <4>1. i \in 1..Len(pool'[p]) /\ i + 1 \in 1..Len(pool[p])
        BY <2>2, <3>2
      <4>2. pc[p][pool[p][i + 1]] = "waiting"
        BY <4>1 DEF PoolInv
      <4>. QED
        BY <3>1, <3>3, <4>1, <4>2, <1>3
    <3>5. ASSUME NEW j \in 1..Len(pool'[p]), pool'[p][i] = pool'[p][j]
          PROVE  i = j
      <4>1. i \in 1..Len(pool'[p]) /\ i + 1 \in 1..Len(pool[p]) /\ j + 1 \in 1..Len(pool[p])
        BY <2>2, <3>2
      <4>2. pool[p][i + 1] = pool[p][j + 1]
        BY <3>1, <3>5, <4>1
      <4>3. i + 1 = j + 1
        BY <4>1, <4>2 DEF PoolInv
      <4>4. i \in Nat /\ j \in Nat
        BY <4>1
      <4>. QED
        BY <4>3, <4>4
    <3>. QED
      BY <2>2, <3>4, <3>5
  <2>. QED
    BY <2>1, <2>2
<1>. QED
  BY <1>4, <1>5, <1>7, <1>8

\* A process dies: it owns nothing, nobody else notices.
LEMMA CrashKeepsOwnership ==
    ASSUME Ownership, TypeOK', NEW p \in Proc, Crash(p)
    PROVE  Ownership'
<1>. USE DEF Ownership
<1>1. /\ \A q \in Proc, s \in Runs : pc'[q][s] = IF q = p THEN "none" ELSE pc[q][s]
      /\ UNCHANGED status
  BY DEF Crash, store, rows, TypeOK
<1>2. \A w \in Workers :
         /\ w # p => UNCHANGED <<locked[w], claimed[w], poll[w]>>
         /\ w = p => locked'[w] = {} /\ claimed'[w] = {}
  BY DEF Crash
<1>3. \A q \in Proc : pool'[q] = IF q = p THEN <<>> ELSE pool[q]
  BY DEF Crash, TypeOK
<1>4. ClaimInv'
  BY <1>1, <1>2 DEF ClaimInv
<1>5. TaskInv'
  BY <1>1 DEF TaskInv, TaskAt, AfterStart
<1>6. PoolInv'
  <2>1. \A q \in Proc : \A i \in 1..Len(pool[q]) : pool[q][i] \in Runs
    BY DEF TypeOK
  <2>. QED
    BY <1>1, <1>3, <2>1 DEF PoolInv
<1>7. \A q \in Proc, s \in Runs : Owns(q, s)' => Owns(q, s)
  BY <1>1, <1>2 DEF Owns, Executing
<1>8. OwnerInv'
  BY <1>1, <1>2, <1>7 DEF OwnerInv, OneExecutor, Proc
<1>. QED
  BY <1>4, <1>5, <1>6, <1>8

\* Nobody owns anything at first.
LEMMA InitOwnership == Init => Ownership
<1>. SUFFICES ASSUME Init PROVE Ownership
  OBVIOUS
<1>1. TypeOK
  BY InitType
<1>2. /\ \A p \in Proc, r \in Runs : pc[p][r] = "none"
      /\ \A w \in Workers : locked[w] = {} /\ claimed[w] = {}
      /\ \A p \in Proc : pool[p] = <<>>
  BY DEF Init
<1>3. OwnerInv
  BY <1>2 DEF OwnerInv, OneExecutor, Owns, Executing
<1>. QED
  BY <1>1, <1>2, <1>3 DEF Ownership, ClaimInv, TaskInv, TaskAt, PoolInv, AfterStart

(***************************************************************************)
(* Every step keeps the ownership invariant: the claim hands a run to one  *)
(* worker, and only its owner moves it until the task ends.                *)
(***************************************************************************)
LEMMA NextOwnership ==
    ASSUME Exclusive, Ownership, [Next]_vars
    PROVE  Ownership'
<1>0. TypeOK'
  BY NextType DEF Ownership
<1>1. CASE UpdateBook
  BY <1>0, <1>1 DEF UpdateBook, rows, claim, task, Ownership, ClaimInv, TaskInv, TaskAt,
     PoolInv, OwnerInv, OneExecutor, Owns
<1>2. ASSUME NEW r \in Runs, Submit(r) PROVE Ownership'
  BY <1>0, <1>2, SubmitKeepsOwnership
<1>3. ASSUME NEW w \in Workers, Poll(w) \/ PollError(w) \/ Stop(w) PROVE Ownership'
  BY <1>0, <1>3, PollKeepsOwnership
<1>4. ASSUME NEW p \in Proc, TakeUp(p) PROVE Ownership'
  BY <1>0, <1>4, TakeUpKeepsOwnership
<1>5. ASSUME NEW p \in Proc, Crash(p) PROVE Ownership'
  BY <1>0, <1>5, CrashKeepsOwnership
<1>6. ASSUME NEW p \in Proc, NEW r \in Runs, TaskStep(p, r) PROVE Ownership'
  BY <1>0, <1>6, TaskStepShape, TaskKeepsOwnership DEF Ownership, TaskInv
<1>7. CASE UNCHANGED vars
  BY <1>0, <1>7 DEF vars, store, rows, claim, task, Ownership, ClaimInv, TaskInv, TaskAt,
     PoolInv, OwnerInv, OneExecutor, Owns
<1>. QED
  BY <1>1, <1>2, <1>3, <1>4, <1>5, <1>6, <1>7 DEF Next, Quiet, TaskStep

(***************************************************************************)
(* No two processes ever work on the same run (poll_once: "two workers     *)
(* cannot own the same row").                                              *)
(***************************************************************************)
THEOREM OneExecutorAlways ==
    ASSUME Exclusive
    PROVE  Spec => []OneExecutor
<1>1. Ownership /\ [Next]_vars => Ownership'
  BY NextOwnership
<1>2. Ownership => OneExecutor
  BY DEF Ownership, OwnerInv
<1>. QED
  BY InitOwnership, <1>1, <1>2, PTL DEF Spec
==============================================================================
