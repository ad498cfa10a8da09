------------------------- MODULE RiskRunOutcomeProofs -------------------------
(***************************************************************************)
(* What becomes of a run. The book a result was priced on is never one     *)
(* older than the header's, and where only the submitting process executes *)
(* the header's own; the submitting process's own copy of the book is the  *)
(* header's in every deployment. Without a failed transaction or a crash   *)
(* no run is ever left RUNNING (or QUEUED, where only the submitting       *)
(* process executes) with nobody working on it.                            *)
(***************************************************************************)
EXTENDS RiskRunLineageProofs

\* A book that run r may be priced on.
Fits(r, b) ==
    /\ b \in pver[r]..book
    /\ Workers = {} => b = pver[r]

\* Where the thread holds the book and the market it prices.
Bounds == {"compute", "findResult", "addResult", "replaceResult"}

RowBook(r) ==
    /\ pver[r] <= book
    /\ result[r] # NoResult => Fits(r, result[r].book)

\* The cached book of a run that is not stored yet is the submitter's; in the
\* submitting process it stays until the task ends.
TaskBook(p, r) ==
    /\ books[p][r] <= book
    /\ books[p][r] # 0 => IF status[r] = "NONE" THEN p = Api /\ pc[p][r] = "booked"
                                                ELSE Fits(r, books[p][r])
    /\ pc[p][r] = "booked" => books[p][r] # 0
    /\ Workers = {} /\ pc[p][r] \in {"enqueued", "waiting"} \cup Executing => books[p][r] # 0
    /\ pc[p][r] \in Bounds => Fits(r, bound[p][r].book)

BookInv == (\A r \in Runs : RowBook(r)) /\ \A p \in Proc, r \in Runs : TaskBook(p, r)

Booked == Lineage /\ BookInv

\* What a step of a thread on a run leaves alone.
BookShape(p, r) ==
    /\ UNCHANGED <<pver, book>>
    /\ \A s \in Runs : s # r => result'[s] = result[s]
    /\ \A q \in Proc, s \in Runs : q # p \/ s # r => books'[q][s] = books[q][s] /\ bound'[q][s] = bound[q][s]
    /\ status'[r] # "NONE"

\* The end of a task forgets its book and no other.
LEMMA EndTaskBooks ==
    ASSUME TypeOK, NEW p \in Proc, NEW r \in Runs, EndTask(p, r)
    PROVE  /\ books'[p][r] = 0
           /\ \A q \in Proc, s \in Runs : q # p \/ s # r => books'[q][s] = books[q][s]
BY DEF EndTask, TypeOK

\* The book a task prices is one its run may be priced on.
LEMMA PortfolioFits ==
    ASSUME TypeOK, NEW p \in Proc, NEW r \in Runs, RowBook(r), TaskBook(p, r),
           pc[p][r] \in Executing, status[r] # "NONE"
    PROVE  Fits(r, Portfolio(p, r))
<1>1. /\ books[p][r] \in Nat /\ book \in Nat /\ pver[r] \in Nat
  BY ConstantsAssumption DEF TypeOK
<1>2. CASE books[p][r] # 0
  BY <1>2 DEF Portfolio, TaskBook
<1>3. CASE books[p][r] = 0
  <2>1. Workers # {}
    BY <1>3 DEF TaskBook
  <2> QED BY <1>1, <1>3, <2>1 DEF Portfolio, Fits, RowBook
<1> QED BY <1>2, <1>3

\* A step that ends the task, or goes on with the same books, keeps the book.
LEMMA SameBooks ==
    ASSUME TypeOK, NEW p \in Proc, NEW r \in Runs, RowBook(r), TaskBook(p, r),
           pc[p][r] \in Executing, status[r] # "NONE", status'[r] # "NONE",
           UNCHANGED <<pver, book, bound, result>>,
           \/ EndTask(p, r)
           \/ UNCHANGED books /\ pc'[p][r] \in Executing
                 /\ (pc'[p][r] \in Bounds => pc[p][r] \in Bounds)
    PROVE  BookShape(p, r) /\ RowBook(r)' /\ TaskBook(p, r)'
<1>1. RowBook(r)'
  BY DEF RowBook, Fits
<1>2. BookShape(p, r)
  BY EndTaskBooks DEF BookShape
<1>3. book \in Nat
  BY ConstantsAssumption DEF TypeOK
<1>4. CASE EndTask(p, r)
  <2>1. pc'[p][r] = "none" /\ books'[p][r] = 0
    BY <1>4, EndTaskFrame, EndTaskBooks
  <2> QED BY <1>1, <1>2, <1>3, <2>1 DEF TaskBook, Executing, Bounds
<1>5. CASE UNCHANGED books /\ pc'[p][r] \in Executing /\ (pc'[p][r] \in Bounds => pc[p][r] \in Bounds)
  <2>1. pc'[p][r] # "booked"
    BY <1>5 DEF Executing
  <2> QED BY <1>1, <1>2, <1>5, <2>1 DEF TaskBook, Fits
<1> QED BY <1>4, <1>5

\* A step that binds the book and the market keeps the book.
LEMMA BindsBook ==
    ASSUME TypeOK, NEW p \in Proc, NEW r \in Runs, RowBook(r), TaskBook(p, r),
           pc[p][r] \in Executing, status[r] # "NONE", UNCHANGED <<status, pver, book, books, result>>,
           NEW m, bound' = [bound EXCEPT ![p][r] = [book |-> Portfolio(p, r), market |-> m]],
           pc'[p][r] = "compute"
    PROVE  BookShape(p, r) /\ RowBook(r)' /\ TaskBook(p, r)'
<1>1. /\ bound'[p][r].book = Portfolio(p, r)
      /\ \A q \in Proc, s \in Runs : q # p \/ s # r => bound'[q][s] = bound[q][s]
  BY DEF TypeOK
<1>2. Fits(r, Portfolio(p, r))
  BY PortfolioFits
<1>3. Fits(r, bound[p][r].book)'
  BY <1>1, <1>2 DEF Fits
<1>4. RowBook(r)'
  BY DEF RowBook, Fits
<1>5. BookShape(p, r)
  BY <1>1 DEF BookShape
<1> QED BY <1>3, <1>4, <1>5 DEF TaskBook, Fits, Executing

\* Each step of a thread has the shape and keeps its own run's book.
LEMMA TaskStepBook ==
    ASSUME TypeOK, NEW p \in Proc, NEW r \in Runs, TaskAt(p, r), RowMarket(r), TaskMarket(p, r),
           RowBook(r), TaskBook(p, r), TaskStep(p, r)
    PROVE  BookShape(p, r) /\ RowBook(r)' /\ TaskBook(p, r)'
<1>1. TaskShape(p, r) /\ TaskAt(p, r)'
  BY TaskStepShape
<1>2. pc[p][r] \in Executing
  BY <1>1 DEF TaskShape
<1>3. status[r] # "NONE"
  BY <1>2 DEF TaskAt, Executing, AfterStart
<1>4. status \in [Runs -> Status]
  BY DEF TypeOK
<1> DEFINE Goal == BookShape(p, r) /\ RowBook(r)' /\ TaskBook(p, r)'
<1>5. ASSUME UNCHANGED <<pver, book, bound, result, books>>, status'[r] # "NONE",
             NEW l \in Executing, Goto(p, r, l), l \in Bounds => pc[p][r] \in Bounds
      PROVE  Goal
  <2>1. pc'[p][r] = l
    BY <1>5, GotoFrame
  <2> QED BY <1>2, <1>3, <1>5, <2>1, SameBooks
<1>6. ASSUME UNCHANGED <<pver, book, bound, result>>, status'[r] # "NONE", EndTask(p, r) PROVE Goal
  BY <1>2, <1>3, <1>6, SameBooks
<1>7. CASE ReadHeader(p, r) \/ StartRead(p, r) \/ ReadMarket(p, r) \/ CompleteRead(p, r) \/ FindResult(p, r)
           \/ FailRead(p, r) \/ ComputeRaises(p, r) \/ DbError(p, r)
  <2>1. UNCHANGED <<status, pver, book, bound, result>>
    BY <1>7 DEF ReadHeader, StartRead, ReadMarket, CompleteRead, FindResult, FailRead, ComputeRaises,
                DbError, store, rows
  <2>2. \/ EndTask(p, r)
        \/ UNCHANGED books /\ \E l \in Executing : Goto(p, r, l) /\ (l \in Bounds => pc[p][r] \in Bounds)
    <3>1. CASE ReadHeader(p, r) \/ StartRead(p, r)
      BY <3>1 DEF ReadHeader, StartRead, Executing, Bounds
    <3>2. CASE ReadMarket(p, r) \/ CompleteRead(p, r) \/ FindResult(p, r)
      BY <3>2 DEF ReadMarket, CompleteRead, FindResult, Executing, Bounds
    <3>3. CASE FailRead(p, r) \/ ComputeRaises(p, r) \/ DbError(p, r)
      BY <3>3 DEF FailRead, ComputeRaises, DbError, Executing, Bounds
    <3> QED BY <1>7, <3>1, <3>2, <3>3
  <2> QED BY <1>3, <1>5, <1>6, <2>1, <2>2
<1>8. CASE LoadRun(p, r)
  <2>1. UNCHANGED <<status, pver, book, result, books>>
    BY <1>8 DEF LoadRun, store, rows
  <2>2. CASE snap[r] # NoSnap
    <3>1. bound' = [bound EXCEPT ![p][r] = [book |-> Portfolio(p, r), market |-> snap[r]]]
          /\ pc'[p][r] = "compute"
      BY <1>8, <2>2, GotoFrame DEF LoadRun
    <3> QED BY <1>2, <1>3, <2>1, <3>1, BindsBook
  <2>3. CASE snap[r] = NoSnap
    BY <1>3, <1>5, <1>8, <2>1, <2>3 DEF LoadRun, Executing, Bounds
  <2> QED BY <2>2, <2>3
<1>9. ASSUME NEW ack \in BOOLEAN, StartWrite(p, r, ack) PROVE Goal
  <2>1. UNCHANGED <<pver, book, bound, result, books>> /\ status'[r] # "NONE"
    BY <1>4, <1>9 DEF StartWrite
  <2>2. \E l \in {"load", "failing"} : Goto(p, r, l)
    BY <1>9 DEF StartWrite
  <2> QED BY <1>5, <2>1, <2>2 DEF Executing, Bounds
<1>10. ASSUME NEW ack \in BOOLEAN, InsertMarket(p, r, ack) PROVE Goal
  <2>1. UNCHANGED <<status, pver, book, bound, result, books>>
    BY <1>10 DEF InsertMarket, rows
  <2>2. \E l \in {"bind", "failing"} : Goto(p, r, l)
    BY <1>10 DEF InsertMarket
  <2> QED BY <1>3, <1>5, <2>1, <2>2 DEF Executing, Bounds
<1>11. ASSUME NEW ack \in BOOLEAN, BindMarket(p, r, ack) PROVE Goal
  <2>1. UNCHANGED <<status, pver, book, result, books>>
    BY <1>11 DEF BindMarket
  <2>2. \/ /\ bound' = [bound EXCEPT ![p][r] = [book |-> Portfolio(p, r), market |-> Live]]
           /\ Goto(p, r, "compute")
        \/ UNCHANGED bound /\ Goto(p, r, "failing")
    BY <1>11 DEF BindMarket
  <2>3. CASE bound' = [bound EXCEPT ![p][r] = [book |-> Portfolio(p, r), market |-> Live]]
             /\ Goto(p, r, "compute")
    <3>1. pc'[p][r] = "compute"
      BY <2>3, GotoFrame
    <3> QED BY <1>2, <1>3, <2>1, <2>3, <3>1, BindsBook
  <2>4. CASE UNCHANGED bound /\ Goto(p, r, "failing")
    BY <1>3, <1>5, <2>1, <2>4 DEF Executing, Bounds
  <2> QED BY <2>2, <2>3, <2>4
<1>12. ASSUME NEW ack \in BOOLEAN, CompleteWrite(p, r, ack) PROVE Goal
  <2>1. UNCHANGED <<pver, book, bound>> /\ pc[p][r] \in Bounds
    BY <1>12 DEF CompleteWrite, Bounds
  <2>2. CASE result[r] = NoResult \/ pc[p][r] = "replaceResult"
    <3>1. /\ status' = [status EXCEPT ![r] = "COMPLETED"]
          /\ result' = [result EXCEPT ![r] = bound[p][r]]
          /\ EndTask(p, r) \/ (Goto(p, r, "failing") /\ UNCHANGED books)
      BY <1>12, <2>2 DEF CompleteWrite
    <3>2. /\ status'[r] = "COMPLETED" /\ result'[r] = bound[p][r]
          /\ \A s \in Runs : s # r => result'[s] = result[s]
      BY <1>4, <3>1 DEF TypeOK
    <3>3. Fits(r, result[r].book)'
      BY <2>1, <3>2 DEF TaskBook, Fits
    <3>4. RowBook(r)'
      BY <2>1, <3>3 DEF RowBook
    <3>5. \/ pc'[p][r] = "none" /\ books'[p][r] = 0
          \/ pc'[p][r] = "failing" /\ UNCHANGED books
      BY <3>1, GotoFrame, EndTaskFrame, EndTaskBooks
    <3>6. BookShape(p, r)
      BY <2>1, <3>1, <3>2, EndTaskBooks DEF BookShape
    <3>7. TaskBook(p, r)'
      <4>1. book \in Nat
        BY ConstantsAssumption DEF TypeOK
      <4> QED BY <1>2, <1>3, <2>1, <3>2, <3>5, <4>1 DEF TaskBook, Fits, Executing, Bounds
    <3> QED BY <3>4, <3>6, <3>7
  <2>3. CASE ~(result[r] = NoResult \/ pc[p][r] = "replaceResult")
    BY <1>3, <1>5, <1>12, <2>1, <2>3 DEF CompleteWrite, Executing, Bounds
  <2> QED BY <2>2, <2>3
<1>13. CASE FailWrite(p, r)
  BY <1>4, <1>6, <1>13 DEF FailWrite
<1> QED BY <1>7, <1>8, <1>9, <1>10, <1>11, <1>12, <1>13 DEF TaskStep, Task

\* The book of every run survives a step of a thread on one run.
LEMMA TaskKeepsBook ==
    ASSUME Booked, NEW p \in Proc, NEW r \in Runs, TaskStep(p, r)
    PROVE  BookInv'
<1> USE DEF Booked, Lineage, Ownership
<1>0. TaskAt(p, r) /\ RowMarket(r) /\ TaskMarket(p, r) /\ RowBook(r) /\ TaskBook(p, r)
  BY DEF TaskInv, LineageInv, BookInv
<1>1. TaskShape(p, r)
  BY <1>0, TaskStepShape
<1>2. BookShape(p, r) /\ RowBook(r)' /\ TaskBook(p, r)'
  BY <1>0, TaskStepBook
<1>3. status[r] # "NONE"
  BY <1>0, <1>1 DEF TaskShape, TaskAt, Executing, AfterStart
<1>4. ASSUME NEW s \in Runs, s # r PROVE RowBook(s)'
  BY <1>2, <1>4 DEF BookShape, BookInv, RowBook, Fits
<1>5. ASSUME NEW q \in Proc, NEW s \in Runs, q # p \/ s # r PROVE TaskBook(q, s)'
  <2>1. TaskBook(q, s)
    BY DEF BookInv
  <2>2. UNCHANGED <<pver, book, books[q][s], bound[q][s], pc[q][s]>>
    BY <1>1, <1>2, <1>5 DEF BookShape, TaskShape
  <2>3. status'[s] = status[s] \/ (status[s] # "NONE" /\ status'[s] # "NONE")
    BY <1>1, <1>2, <1>3 DEF TaskShape, BookShape
  <2> QED BY <2>1, <2>2, <2>3 DEF TaskBook, Fits
<1> QED BY <1>2, <1>4, <1>5 DEF BookInv

\* A step that keeps the rows, or stores a newer book, and puts no thread where
\* it needs a book it did not have.
LEMMA QuietKeepsBook ==
    ASSUME Booked, TypeOK',
           UNCHANGED <<pver, result>>, book <= book',
           \A s \in Runs : status[s] = "NONE" <=> status'[s] = "NONE",
           \A q \in Proc, s \in Runs :
              \/ UNCHANGED <<pc[q][s], books[q][s], bound[q][s]>>
              \/ pc'[q][s] = "none" /\ books'[q][s] = 0
              \/ /\ pc'[q][s] \in {"waiting", "header"}
                 /\ books'[q][s] = books[q][s] /\ pc[q][s] \in {"enqueued", "waiting"}
    PROVE  BookInv'
<1>1. /\ book \in Nat /\ book' \in Nat /\ \A s \in Runs : pver[s] \in Nat
      /\ \A q \in Proc, s \in Runs : books[q][s] \in Nat
  BY ConstantsAssumption DEF Booked, Lineage, Ownership, TypeOK
<1>2. \A s \in Runs : \A b : Fits(s, b) => Fits(s, b)'
  BY <1>1 DEF Fits
<1>3. ASSUME NEW s \in Runs PROVE RowBook(s)'
  BY <1>1, <1>2 DEF Booked, BookInv, RowBook
<1>4. ASSUME NEW q \in Proc, NEW s \in Runs PROVE TaskBook(q, s)'
  <2>1. TaskBook(q, s)
    BY DEF Booked, BookInv
  <2>2. CASE UNCHANGED <<pc[q][s], books[q][s], bound[q][s]>>
    BY <1>1, <1>2, <2>1, <2>2 DEF TaskBook
  <2>3. CASE pc'[q][s] = "none" /\ books'[q][s] = 0
    BY <1>1, <2>3 DEF TaskBook, Executing, Bounds
  <2>4. CASE /\ pc'[q][s] \in {"waiting", "header"}
             /\ books'[q][s] = books[q][s] /\ pc[q][s] \in {"enqueued", "waiting"}
    BY <1>1, <1>2, <2>1, <2>4 DEF TaskBook, Executing, Bounds
  <2> QED BY <2>2, <2>3, <2>4
<1> QED BY <1>3, <1>4 DEF BookInv

\* Every step keeps the books.
LEMMA NextBook ==
    ASSUME Exclusive, Booked, [Next]_vars
    PROVE  Booked'
<1> USE DEF Booked
<1>a. TypeOK /\ TypeOK' /\ Lineage' /\ Api \in Proc /\ Workers \subseteq Proc /\ Api \notin Workers
  BY NextLineage, ConstantsAssumption DEF Lineage, Ownership, Proc
<1>b. book \in Nat /\ book' \in Nat /\ \A s \in Runs : pver[s] \in Nat
  BY <1>a, ConstantsAssumption DEF TypeOK
<1>1. CASE UpdateBook \/ UNCHANGED vars
  <2>1. UNCHANGED <<pver, result, status, pc, books, bound>> /\ book <= book'
    BY <1>1, <1>b DEF UpdateBook, vars, store, rows, task
  <2> QED BY <1>a, <2>1, QuietKeepsBook
<1>2. ASSUME NEW r \in Runs, SubmitBook(r) PROVE Booked'
  <2>1. /\ pc[Api][r] = "none" /\ status[r] = "NONE" /\ UNCHANGED <<status, pver, result, book, bound>>
    BY <1>2 DEF SubmitBook, store, rows
  <2>2. /\ pc'[Api][r] = "booked"
        /\ \A q \in Proc, s \in Runs : q # Api \/ s # r => pc'[q][s] = pc[q][s]
    BY <1>2, <1>a, GotoFrame DEF SubmitBook
  <2>3. /\ books'[Api][r] = book
        /\ \A q \in Proc, s \in Runs : q # Api \/ s # r => books'[q][s] = books[q][s]
    BY <1>2, <1>a DEF SubmitBook, TypeOK
  <2>4. \A s \in Runs : RowBook(s)'
    BY <2>1 DEF BookInv, RowBook, Fits
  <2>5. book # 0
    BY <1>a, ConstantsAssumption DEF TypeOK
  <2>6. TaskBook(Api, r)'
    BY <1>b, <2>1, <2>2, <2>3, <2>5 DEF TaskBook, Executing, Bounds
  <2>7. ASSUME NEW q \in Proc, NEW s \in Runs, q # Api \/ s # r PROVE TaskBook(q, s)'
    <3>1. TaskBook(q, s)
      BY DEF BookInv
    <3> QED BY <2>1, <2>2, <2>3, <2>7, <3>1 DEF TaskBook, Fits
  <2> QED BY <1>a, <2>4, <2>6, <2>7 DEF BookInv
<1>3. ASSUME NEW r \in Runs, NEW s0 \in markets \cup {NoSnap}, NEW ack \in BOOLEAN,
             SubmitEnqueue(r, s0, ack)
      PROVE  Booked'
  <2>1. /\ pc[Api][r] = "booked" /\ status[r] = "NONE" /\ UNCHANGED <<result, book>>
    BY <1>3, <1>a DEF SubmitEnqueue, Lineage, Ownership, TaskInv, TaskAt
  <2>2. /\ pc'[Api][r] \in {"none", "enqueued"}
        /\ \A q \in Proc, s \in Runs : q # Api \/ s # r => pc'[q][s] = pc[q][s]
    BY <1>3, <1>a, GotoFrame, EndTaskFrame DEF SubmitEnqueue
  <2>3. /\ status'[r] = "QUEUED" /\ pver'[r] = books[Api][r]
        /\ \A s \in Runs : s # r => status'[s] = status[s] /\ pver'[s] = pver[s]
    BY <1>3, <1>a DEF SubmitEnqueue, TypeOK
  <2>4. /\ books'[Api][r] = books[Api][r] \/ (pc'[Api][r] = "none" /\ books'[Api][r] = 0)
        /\ \A q \in Proc, s \in Runs : q # Api \/ s # r => books'[q][s] = books[q][s]
    BY <1>3, <1>a, EndTaskBooks, EndTaskFrame DEF SubmitEnqueue
  <2>5. \A q \in Proc, s \in Runs : q # Api \/ s # r => bound'[q][s] = bound[q][s]
    <3>1. bound \in [Proc -> [Runs -> Bound]]
      BY <1>a DEF TypeOK
    <3>2. CASE ack
      <4>1. bound' = [bound EXCEPT ![Api][r].book = books[Api][r]]
        BY <1>3, <3>2 DEF SubmitEnqueue
      <4> QED BY <3>1, <4>1
    <3>3. CASE ~ack
      BY <1>3, <3>3 DEF SubmitEnqueue
    <3> QED BY <3>2, <3>3
  <2>6. books[Api][r] \in 1..book
    <3>1. TaskBook(Api, r) /\ books[Api][r] \in Nat
      BY <1>a, ConstantsAssumption DEF BookInv, TypeOK
    <3> QED BY <1>b, <2>1, <3>1 DEF TaskBook
  <2>7. ASSUME NEW s \in Runs PROVE RowBook(s)'
    <3>1. RowBook(s)
      BY DEF BookInv
    <3>2. CASE s = r
      <4>1. result[r] = NoResult
        BY <2>1 DEF Lineage, LineageInv, RowMarket
      <4> QED BY <1>b, <2>1, <2>3, <2>6, <3>2, <4>1 DEF RowBook
    <3>3. CASE s # r
      BY <2>1, <2>3, <3>1, <3>3 DEF RowBook, Fits
    <3> QED BY <3>2, <3>3
  <2>8. ASSUME NEW q \in Proc, NEW s \in Runs PROVE TaskBook(q, s)'
    <3>1. TaskBook(q, s)
      BY DEF BookInv
    <3>2. CASE s # r
      BY <2>1, <2>2, <2>3, <2>4, <2>5, <3>1, <3>2 DEF TaskBook, Fits
    <3>3. CASE s = r /\ q = Api
      <4>1. books'[Api][r] <= book' /\ (books'[Api][r] # 0 => Fits(r, books[Api][r])')
        BY <1>b, <2>1, <2>3, <2>4, <2>6 DEF Fits
      <4>2. pc'[Api][r] = "enqueued" => books'[Api][r] # 0
        BY <1>b, <2>2, <2>4, <2>6
      <4> QED BY <2>2, <2>3, <3>3, <4>1, <4>2 DEF TaskBook, Executing, Bounds
    <3>4. CASE s = r /\ q # Api
      <4>1. pc[q][r] = "none"
        <5>1. TaskAt(q, r) /\ pc[q][r] \in PC
          BY <1>a DEF Lineage, Ownership, TaskInv, TypeOK
        <5> QED BY <2>1, <3>4, <5>1 DEF TaskAt, PC, Executing, AfterStart
      <4>2. books[q][r] = 0
        BY <2>1, <3>1, <3>4 DEF TaskBook
      <4> QED BY <1>b, <2>1, <2>2, <2>4, <3>4, <4>1, <4>2 DEF TaskBook, Executing, Bounds
    <3> QED BY <3>2, <3>3, <3>4
  <2> QED BY <1>a, <2>7, <2>8 DEF BookInv
<1>4. ASSUME NEW r \in Runs, SubmitSchedule(r) PROVE Booked'
  <2>1. UNCHANGED <<pver, result, status, book, books, bound>> /\ pc[Api][r] = "enqueued"
    BY <1>4 DEF SubmitSchedule, store, rows
  <2>2. /\ pc'[Api][r] = "waiting"
        /\ \A q \in Proc, s \in Runs : q # Api \/ s # r => pc'[q][s] = pc[q][s]
    BY <1>4, <1>a, GotoFrame DEF SubmitSchedule
  <2>3. \A q \in Proc, s \in Runs :
           \/ UNCHANGED <<pc[q][s], books[q][s], bound[q][s]>>
           \/ /\ pc'[q][s] \in {"waiting", "header"}
              /\ books'[q][s] = books[q][s] /\ pc[q][s] \in {"enqueued", "waiting"}
    BY <2>1, <2>2
  <2> QED BY <1>a, <1>b, <2>1, <2>3, QuietKeepsBook
<1>5. ASSUME NEW w \in Workers, ClaimSelect(w) \/ Drained(w) \/ PollError(w) \/ Stop(w)
      PROVE  Booked'
  <2>1. UNCHANGED <<pver, result, status, book, pc, books, bound>>
    BY <1>5 DEF ClaimSelect, Drained, PollError, Stop, store, rows, task
  <2> QED BY <1>a, <1>b, <2>1, QuietKeepsBook
<1>6. ASSUME NEW w \in Workers, NEW ack \in BOOLEAN, ClaimCommit(w, ack) PROVE Booked'
  <2>1. UNCHANGED <<pver, result, book, pc, books, bound>>
    BY <1>6 DEF ClaimCommit, task
  <2>2. \A r \in Runs : status'[r] = IF r \in locked[w] THEN "RUNNING" ELSE status[r]
    BY <1>6 DEF ClaimCommit
  <2>3. \A r \in locked[w] : status[r] = "QUEUED"
    BY DEF Lineage, Ownership, ClaimInv
  <2>4. \A r \in Runs : status[r] = "NONE" <=> status'[r] = "NONE"
    BY <2>2, <2>3
  <2> QED BY <1>a, <1>b, <2>1, <2>4, QuietKeepsBook
<1>7. ASSUME NEW w \in Workers, NEW r \in Runs, ScheduleClaimed(w, r) PROVE Booked'
  <2>1. UNCHANGED <<pver, result, status, book>> /\ status[r] = "RUNNING"
    BY <1>7 DEF ScheduleClaimed, store, rows, Lineage, Ownership, ClaimInv
  <2>2. /\ pc'[w][r] = "waiting"
        /\ \A q \in Proc, s \in Runs : q # w \/ s # r => pc'[q][s] = pc[q][s]
    BY <1>7, <1>a, GotoFrame DEF ScheduleClaimed
  <2>3. /\ books'[w][r] = book
        /\ \A q \in Proc, s \in Runs : q # w \/ s # r => books'[q][s] = books[q][s] /\ bound'[q][s] = bound[q][s]
    <3>1. /\ books \in [Proc -> [Runs -> 0..MaxVersion]] /\ bound \in [Proc -> [Runs -> Bound]]
          /\ w \in Proc
      BY <1>a DEF TypeOK
    <3>2. books' = [books EXCEPT ![w][r] = book] /\ bound' = [bound EXCEPT ![w][r].book = book]
      BY <1>7 DEF ScheduleClaimed
    <3>3. \A q \in Proc, s \in Runs : q # w \/ s # r => bound'[q][s] = bound[q][s]
      BY <3>1, <3>2
    <3> QED BY <3>1, <3>2, <3>3
  <2>4. \A s \in Runs : RowBook(s)'
    BY <2>1 DEF BookInv, RowBook, Fits
  <2>5. Fits(r, books[w][r])'
    <3>1. pver[r] <= book /\ Workers # {}
      BY DEF BookInv, RowBook
    <3> QED BY <1>b, <2>1, <2>3, <3>1 DEF Fits
  <2>6. TaskBook(w, r)'
    BY <1>b, <2>1, <2>2, <2>3, <2>5 DEF TaskBook, Bounds
  <2>7. ASSUME NEW q \in Proc, NEW s \in Runs, q # w \/ s # r PROVE TaskBook(q, s)'
    <3>1. TaskBook(q, s)
      BY DEF BookInv
    <3> QED BY <2>1, <2>2, <2>3, <2>7, <3>1 DEF TaskBook, Fits
  <2> QED BY <1>a, <2>4, <2>6, <2>7 DEF BookInv
<1>8. ASSUME NEW p \in Proc, TakeUp(p) PROVE Booked'
  <2>1. Head(pool[p]) \in Runs /\ UNCHANGED <<pver, result, status, book, books, bound>>
    BY <1>8, <1>a DEF TakeUp, TypeOK, store, rows
  <2>2. /\ pc'[p][Head(pool[p])] = "header"
        /\ \A q \in Proc, s \in Runs : q # p \/ s # Head(pool[p]) => pc'[q][s] = pc[q][s]
    BY <1>8, <1>a, <2>1, GotoFrame DEF TakeUp
  <2>3. pc[p][Head(pool[p])] = "waiting"
    <3>1. pool[p] \in Seq(Runs) /\ pool[p] # <<>>
      BY <1>8, <1>a DEF TakeUp, TypeOK
    <3>2. 1 \in 1..Len(pool[p]) /\ Head(pool[p]) = pool[p][1]
      BY <3>1
    <3> QED BY <3>2 DEF Lineage, Ownership, PoolInv
  <2>4. \A q \in Proc, s \in Runs :
           \/ UNCHANGED <<pc[q][s], books[q][s], bound[q][s]>>
           \/ /\ pc'[q][s] \in {"waiting", "header"}
              /\ books'[q][s] = books[q][s] /\ pc[q][s] \in {"enqueued", "waiting"}
    BY <2>1, <2>2, <2>3
  <2> QED BY <1>a, <1>b, <2>1, <2>4, QuietKeepsBook
<1>9. ASSUME NEW p \in Proc, Crash(p) PROVE Booked'
  <2>1. UNCHANGED <<pver, result, status, book>>
    BY <1>9 DEF Crash, store, rows
  <2>2. \A q \in Proc, s \in Runs :
           \/ UNCHANGED <<pc[q][s], books[q][s], bound[q][s]>>
           \/ pc'[q][s] = "none" /\ books'[q][s] = 0
    BY <1>9, <1>a DEF Crash, TypeOK
  <2> QED BY <1>a, <1>b, <2>1, <2>2, QuietKeepsBook
<1>10. ASSUME NEW p \in Proc, NEW r \in Runs, TaskStep(p, r) PROVE Booked'
  BY <1>10, <1>a, TaskKeepsBook
<1> QED BY <1>1, <1>2, <1>3, <1>4, <1>5, <1>6, <1>7, <1>8, <1>9, <1>10
        DEF Next, Submit, Poll, Quiet, TaskStep

\* Nothing is stored and nothing cached at the start.
LEMMA InitBook == Init => Booked
<1> SUFFICES ASSUME Init PROVE Booked
  OBVIOUS
<1>1. /\ \A r \in Runs : pver[r] = 0 /\ result[r] = NoResult /\ book = 1
      /\ \A p \in Proc, r \in Runs : pc[p][r] = "none" /\ books[p][r] = 0
  BY DEF Init
<1>2. BookInv
  BY <1>1 DEF BookInv, RowBook, TaskBook, Executing, Bounds
<1> QED BY <1>2, InitLineage DEF Booked

\* The books of every run are as BookInv says, always.
LEMMA BookedAlways == ASSUME Exclusive PROVE Spec => []Booked
<1>1. Booked /\ [Next]_vars => Booked'
  BY NextBook
<1> QED BY <1>1, InitBook, PTL DEF Spec

(***************************************************************************)
(* No result is priced on a book older than the header's, or on one that   *)
(* was never stored (_load_portfolio reads the live book).                 *)
(***************************************************************************)
THEOREM ResultBookNeverOlder ==
    ASSUME Exclusive
    PROVE  Spec => []ResultBookNotOlder
<1>1. Booked => ResultBookNotOlder
  BY DEF Booked, BookInv, RowBook, Fits, ResultBookNotOlder
<1> QED BY <1>1, BookedAlways, PTL

(***************************************************************************)
(* Where the submitting process executes its runs itself, the result is    *)
(* priced on the very book its header names (submit keeps it in            *)
(* _portfolios; with a worker of its own it does not reach it).            *)
(***************************************************************************)
THEOREM InProcessBookIsHeaderBook ==
    ASSUME Workers = {}
    PROVE  Spec => []ResultBookIsHeaderBook
<1>1. Exclusive
  BY DEF Exclusive
<1>2. Booked => ResultBookIsHeaderBook
  BY DEF Booked, Lineage, LineageInv, RowMarket, BookInv, RowBook, Fits, ResultBookIsHeaderBook
<1> QED BY <1>1, <1>2, BookedAlways, PTL

-----------------------------------------------------------------------------
(* The submitting process prices its own copy, in every deployment.           *)

\* Where the submitter's process has the run and keeps its book.
Given == {"enqueued", "waiting"} \cup Executing

ApiBook(r) ==
    /\ bound[Api][r].book \in {0, pver[r]}
    /\ status[r] = "NONE" => bound[Api][r].book = 0 /\ pc[Api][r] \in {"none", "booked"}
    /\ pc[Api][r] = "booked" => bound[Api][r].book = 0 /\ books[Api][r] # 0
    /\ pc[Api][r] \in Given => books[Api][r] = pver[r] /\ books[Api][r] # 0

\* Its queue holds waiting tasks, each once.
ApiPool ==
    \A i \in 1..Len(pool[Api]) :
        /\ pc[Api][pool[Api][i]] = "waiting"
        /\ \A j \in 1..Len(pool[Api]) : pool[Api][i] = pool[Api][j] => i = j

ApiInv == TypeOK /\ ApiPool /\ \A r \in Runs : ApiBook(r)

\* A step that does not touch the run in this process, and does not undo its row.
LEMMA ApiBookFrame ==
    ASSUME NEW r \in Runs, ApiBook(r),
           UNCHANGED <<pver[r], pc[Api][r], books[Api][r], bound[Api][r]>>,
           status'[r] = "NONE" => status[r] = "NONE"
    PROVE  ApiBook(r)'
  BY DEF ApiBook

LEMMA ApiPoolFrame ==
    ASSUME TypeOK, ApiPool, pool'[Api] = pool[Api],
           \A r \in Runs : pc[Api][r] = "waiting" => pc'[Api][r] = "waiting"
    PROVE  ApiPool'
<1>1. \A i \in 1..Len(pool[Api]) : pool[Api][i] \in Runs
  BY DEF TypeOK, Proc
<1> QED BY <1>1 DEF ApiPool

\* A step of a thread moves its own run, keeps its book until the task ends and
\* binds what it had bound or the book it prices.
ThreadStep(p, r) ==
    /\ UNCHANGED <<pver, pool>>
    /\ \A q \in Proc, s \in Runs : q # p \/ s # r => UNCHANGED <<pc[q][s], books[q][s], bound[q][s]>>
    /\ \A s \in Runs : status'[s] = "NONE" => status[s] = "NONE"
    /\ pc[p][r] \in Executing
    /\ \/ pc'[p][r] = "none"
       \/ pc'[p][r] \in Executing /\ books'[p][r] = books[p][r]
    /\ bound'[p][r].book \in {bound[p][r].book, Portfolio(p, r)}

LEMMA TaskIsThreadStep ==
    ASSUME TypeOK, NEW p \in Proc, NEW r \in Runs, TaskStep(p, r)
    PROVE  ThreadStep(p, r)
<1>1. ASSUME UNCHANGED <<pver, pool, bound>>, pc[p][r] \in Executing,
             \A s \in Runs : status'[s] = "NONE" => status[s] = "NONE",
             EndTask(p, r) \/ (UNCHANGED books /\ \E l \in Executing : Goto(p, r, l))
      PROVE  ThreadStep(p, r)
  BY <1>1, GotoFrame, EndTaskFrame, EndTaskBooks DEF ThreadStep
<1>2. ASSUME UNCHANGED <<status, pver, pool, books>>, pc[p][r] \in Executing, NEW m,
             bound' = [bound EXCEPT ![p][r] = [book |-> Portfolio(p, r), market |-> m]],
             Goto(p, r, "compute")
      PROVE  ThreadStep(p, r)
  <2>1. /\ bound'[p][r].book = Portfolio(p, r)
        /\ \A q \in Proc, s \in Runs : q # p \/ s # r => bound'[q][s] = bound[q][s]
    BY <1>2 DEF TypeOK
  <2>2. /\ pc'[p][r] = "compute"
        /\ \A q \in Proc, s \in Runs : q # p \/ s # r => pc'[q][s] = pc[q][s]
    BY <1>2, GotoFrame
  <2> QED BY <1>2, <2>1, <2>2 DEF ThreadStep, Executing
<1>3. CASE \/ ReadHeader(p, r) \/ StartRead(p, r) \/ ReadMarket(p, r) \/ CompleteRead(p, r)
           \/ FindResult(p, r) \/ FailRead(p, r) \/ ComputeRaises(p, r) \/ DbError(p, r)
  <2>1. UNCHANGED <<status, pver, pool, bound>> /\ pc[p][r] \in Executing
    BY <1>3 DEF ReadHeader, StartRead, ReadMarket, CompleteRead, FindResult, FailRead, ComputeRaises,
                DbError, store, rows, Executing
  <2>2. EndTask(p, r) \/ (UNCHANGED books /\ \E l \in Executing : Goto(p, r, l))
    BY <1>3 DEF ReadHeader, StartRead, ReadMarket, CompleteRead, FindResult, FailRead, ComputeRaises,
                DbError, Executing
  <2> QED BY <1>1, <2>1, <2>2
<1>4. CASE LoadRun(p, r)
  <2>1. UNCHANGED <<status, pver, pool, books>> /\ pc[p][r] \in Executing
    BY <1>4 DEF LoadRun, store, rows, Executing
  <2> QED BY <1>1, <1>2, <1>4, <2>1 DEF LoadRun, Executing
<1>5. ASSUME NEW ack \in BOOLEAN, BindMarket(p, r, ack) PROVE ThreadStep(p, r)
  <2>1. UNCHANGED <<status, pver, pool, books>> /\ pc[p][r] \in Executing
    BY <1>5 DEF BindMarket, Executing
  <2>2. \/ /\ bound' = [bound EXCEPT ![p][r] = [book |-> Portfolio(p, r), market |-> Live]]
           /\ Goto(p, r, "compute")
        \/ UNCHANGED bound /\ Goto(p, r, "failing")
    BY <1>5 DEF BindMarket
  <2> QED BY <1>1, <1>2, <2>1, <2>2 DEF Executing
<1>6. ASSUME NEW ack \in BOOLEAN,
             StartWrite(p, r, ack) \/ InsertMarket(p, r, ack) \/ CompleteWrite(p, r, ack) \/ FailWrite(p, r)
      PROVE  ThreadStep(p, r)
  <2>1. UNCHANGED <<pver, pool, bound>> /\ pc[p][r] \in Executing
    BY <1>6 DEF StartWrite, InsertMarket, CompleteWrite, FailWrite, rows, Executing
  <2>2. \A s \in Runs : status'[s] = "NONE" => status[s] = "NONE"
    BY <1>6 DEF StartWrite, InsertMarket, CompleteWrite, FailWrite, rows, TypeOK
  <2>3. EndTask(p, r) \/ (UNCHANGED books /\ \E l \in Executing : Goto(p, r, l))
    BY <1>6 DEF StartWrite, InsertMarket, CompleteWrite, FailWrite, Executing
  <2> QED BY <1>1, <2>1, <2>2, <2>3
<1> QED BY <1>3, <1>4, <1>5, <1>6 DEF TaskStep, Task

LEMMA ThreadKeepsApi ==
    ASSUME ApiInv, NEW p \in Proc, NEW r \in Runs, ThreadStep(p, r)
    PROVE  ApiPool' /\ \A s \in Runs : ApiBook(s)'
<1> USE DEF ApiInv, ThreadStep
<1>a. Api \in Proc
  BY DEF Proc
<1>1. ApiPool'
  <2>1. \A s \in Runs : pc[Api][s] = "waiting" => pc'[Api][s] = "waiting"
    BY <1>a DEF Executing
  <2> QED BY <2>1, ApiPoolFrame
<1>2. ASSUME NEW s \in Runs PROVE ApiBook(s)'
  <2>1. CASE p # Api \/ s # r
    BY <1>a, <2>1, ApiBookFrame
  <2>2. CASE p = Api /\ s = r
    <3>1. pc[Api][r] \in Given /\ status[r] # "NONE"
      BY <2>2 DEF ApiBook, Given, Executing
    <3>2. books[Api][r] = pver[r] /\ books[Api][r] # 0 /\ Portfolio(Api, r) = pver[r]
      BY <3>1 DEF ApiBook, Portfolio
    <3>3. bound'[Api][r].book \in {0, pver[r]}
      BY <2>2, <3>2 DEF ApiBook
    <3>4. pc'[Api][r] # "booked"
      BY <2>2 DEF Executing
    <3>5. pc'[Api][r] \in Given => books'[Api][r] = pver[r]
      BY <2>2, <3>2 DEF Given, Executing
    <3> QED BY <2>2, <3>1, <3>2, <3>3, <3>4, <3>5 DEF ApiBook
  <2> QED BY <2>1, <2>2
<1> QED BY <1>1, <1>2

LEMMA SubmitKeepsApi ==
    ASSUME ApiInv, NEW r \in Runs, Submit(r)
    PROVE  ApiPool' /\ \A s \in Runs : ApiBook(s)'
<1> USE DEF ApiInv
<1>a. Api \in Proc /\ ApiBook(r)
  BY DEF Proc
<1>1. CASE SubmitBook(r)
  <2>1. /\ status[r] = "NONE" /\ pc[Api][r] = "none" /\ UNCHANGED <<status, pver, bound, pool>>
    BY <1>1 DEF SubmitBook, store, rows
  <2>2. /\ pc'[Api][r] = "booked" /\ \A s \in Runs : s # r => pc'[Api][s] = pc[Api][s]
    BY <1>1, <1>a, GotoFrame DEF SubmitBook
  <2>3. /\ books'[Api][r] = book /\ book # 0 /\ \A s \in Runs : s # r => books'[Api][s] = books[Api][s]
    BY <1>1, <1>a, ConstantsAssumption DEF SubmitBook, TypeOK
  <2>4. ApiBook(r)'
    BY <1>a, <2>1, <2>2, <2>3 DEF ApiBook, Given, Executing
  <2>5. \A s \in Runs : s # r => ApiBook(s)'
    BY <2>1, <2>2, <2>3, ApiBookFrame
  <2> QED BY <2>1, <2>2, <2>4, <2>5, ApiPoolFrame
<1>2. ASSUME NEW m \in markets \cup {NoSnap}, NEW ack \in BOOLEAN, SubmitEnqueue(r, m, ack)
      PROVE  ApiPool' /\ \A s \in Runs : ApiBook(s)'
  <2>1. pc[Api][r] = "booked" /\ bound[Api][r].book = 0 /\ books[Api][r] # 0 /\ UNCHANGED pool
    BY <1>2, <1>a DEF SubmitEnqueue, ApiBook
  <2>2. /\ status'[r] = "QUEUED" /\ pver'[r] = books[Api][r]
        /\ \A s \in Runs : s # r => status'[s] = status[s] /\ pver'[s] = pver[s]
    BY <1>2 DEF SubmitEnqueue, TypeOK
  <2>3. /\ pc'[Api][r] \in {"none", "enqueued"} /\ \A s \in Runs : s # r => pc'[Api][s] = pc[Api][s]
    BY <1>2, <1>a, GotoFrame, EndTaskFrame DEF SubmitEnqueue
  <2>4. /\ books'[Api][r] = books[Api][r] \/ pc'[Api][r] = "none"
        /\ \A s \in Runs : s # r => books'[Api][s] = books[Api][s]
    BY <1>2, <1>a, EndTaskBooks, EndTaskFrame DEF SubmitEnqueue
  <2>5. /\ bound'[Api][r].book \in {0, books[Api][r]}
        /\ \A s \in Runs : s # r => bound'[Api][s] = bound[Api][s]
    <3>1. bound \in [Proc -> [Runs -> Bound]]
      BY DEF TypeOK
    <3>2. CASE ack
      <4>1. bound' = [bound EXCEPT ![Api][r].book = books[Api][r]]
        BY <1>2, <3>2 DEF SubmitEnqueue
      <4>2. bound[Api][r] \in Bound
        BY <1>a, <3>1
      <4> QED BY <1>a, <3>1, <4>1, <4>2 DEF Bound
    <3>3. CASE ~ack
      BY <1>2, <2>1, <3>3 DEF SubmitEnqueue
    <3> QED BY <3>2, <3>3
  <2>6. ApiBook(r)'
    BY <2>1, <2>2, <2>3, <2>4, <2>5 DEF ApiBook, Given, Executing
  <2>7. \A s \in Runs : s # r => ApiBook(s)'
    BY <2>2, <2>3, <2>4, <2>5, ApiBookFrame
  <2>8. \A s \in Runs : pc[Api][s] = "waiting" => pc'[Api][s] = "waiting"
    BY <2>1, <2>3
  <2> QED BY <2>1, <2>6, <2>7, <2>8, ApiPoolFrame
<1>3. CASE SubmitSchedule(r)
  <2>1. pc[Api][r] = "enqueued" /\ UNCHANGED <<status, pver, books, bound>>
    BY <1>3 DEF SubmitSchedule, store, rows
  <2>2. /\ pc'[Api][r] = "waiting" /\ \A s \in Runs : s # r => pc'[Api][s] = pc[Api][s]
    BY <1>3, <1>a, GotoFrame DEF SubmitSchedule
  <2>3. ApiBook(r)'
    BY <1>a, <2>1, <2>2 DEF ApiBook, Given, Executing
  <2>4. \A s \in Runs : s # r => ApiBook(s)'
    BY <2>1, <2>2, ApiBookFrame
  <2>5. pool[Api] \in Seq(Runs) /\ pool'[Api] = Append(pool[Api], r)
    BY <1>3, <1>a DEF SubmitSchedule, Enqueue, TypeOK
  <2>6. \A i \in 1..Len(pool[Api]) : pool[Api][i] \in Runs /\ pool[Api][i] # r
    BY <2>1, <2>5 DEF ApiPool
  <2>7. /\ Len(pool'[Api]) = Len(pool[Api]) + 1
        /\ pool'[Api][Len(pool[Api]) + 1] = r
        /\ \A i \in 1..Len(pool[Api]) : pool'[Api][i] = pool[Api][i]
    BY <2>5
  <2>8. ApiPool'
    <3> SUFFICES ASSUME NEW i \in 1..Len(pool'[Api])
                 PROVE  /\ pc'[Api][pool'[Api][i]] = "waiting"
                        /\ \A j \in 1..Len(pool'[Api]) : pool'[Api][i] = pool'[Api][j] => i = j
      BY DEF ApiPool
    <3>1. i \in 1..Len(pool[Api]) \/ i = Len(pool[Api]) + 1
      BY <2>5, <2>7
    <3>2. \A j \in 1..Len(pool'[Api]) : j \in 1..Len(pool[Api]) \/ j = Len(pool[Api]) + 1
      BY <2>5, <2>7
    <3>3. CASE i \in 1..Len(pool[Api])
      <4>1. pool'[Api][i] = pool[Api][i] /\ pool[Api][i] \in Runs /\ pool[Api][i] # r
        BY <2>6, <2>7, <3>3
      <4>2. pc'[Api][pool'[Api][i]] = "waiting"
        BY <2>2, <3>3, <4>1 DEF ApiPool
      <4> QED BY <2>7, <3>2, <3>3, <4>1, <4>2 DEF ApiPool
    <3>4. CASE i = Len(pool[Api]) + 1
      BY <2>2, <2>6, <2>7, <3>2, <3>4
    <3> QED BY <3>1, <3>3, <3>4
  <2> QED BY <2>3, <2>4, <2>8
<1> QED BY <1>1, <1>2, <1>3 DEF Submit

LEMMA NextApi == ApiInv /\ [Next]_vars => ApiInv'
<1> SUFFICES ASSUME ApiInv, [Next]_vars PROVE ApiInv'
  OBVIOUS
<1> USE DEF ApiInv
<1>a. TypeOK' /\ Api \in Proc /\ Workers \subseteq Proc /\ Api \notin Workers
  BY NextType, ConstantsAssumption DEF Proc
<1> DEFINE Goal == ApiPool' /\ \A r \in Runs : ApiBook(r)'
<1>1. ASSUME UNCHANGED pver, UNCHANGED <<pc[Api], pool[Api], books[Api], bound[Api]>>,
             \A r \in Runs : status'[r] = "NONE" => status[r] = "NONE"
      PROVE  Goal
  BY <1>1, ApiPoolFrame, ApiBookFrame
<1>2. ASSUME UpdateBook \/ UNCHANGED vars PROVE Goal
  <2>1. UNCHANGED <<status, pver, pc, pool, books, bound>>
    BY <1>2 DEF UpdateBook, vars, store, rows, task
  <2> QED BY <1>1, <2>1
<1>3. ASSUME NEW r \in Runs, Submit(r) PROVE Goal
  BY <1>3, SubmitKeepsApi
<1>4. ASSUME NEW w \in Workers, Poll(w) \/ PollError(w) \/ Stop(w) PROVE Goal
  <2>1. CASE ClaimSelect(w) \/ Drained(w) \/ PollError(w) \/ Stop(w)
    <3>1. UNCHANGED <<status, pver, pc, pool, books, bound>>
      BY <2>1 DEF ClaimSelect, Drained, PollError, Stop, store, rows, task
    <3> QED BY <1>1, <3>1
  <2>2. ASSUME NEW ack \in BOOLEAN, ClaimCommit(w, ack) PROVE Goal
    <3>1. UNCHANGED <<pver, pc, pool, books, bound>> /\ \A r \in Runs : status'[r] \in {"RUNNING", status[r]}
      BY <2>2 DEF ClaimCommit, task
    <3> QED BY <1>1, <3>1
  <2>3. ASSUME NEW r \in Runs, ScheduleClaimed(w, r) PROVE Goal
    <3>1. w \in Proc /\ w # Api /\ UNCHANGED <<status, pver>>
      BY <1>a, <2>3 DEF ScheduleClaimed, store, rows
    <3>2. UNCHANGED <<pc[Api], pool[Api], books[Api], bound[Api]>>
      BY <1>a, <2>3, <3>1 DEF ScheduleClaimed, Goto, Enqueue, TypeOK
    <3> QED BY <1>1, <3>1, <3>2
  <2> QED BY <1>4, <2>1, <2>2, <2>3 DEF Poll
<1>5. ASSUME NEW p \in Proc, TakeUp(p) PROVE Goal
  <2>1. UNCHANGED <<status, pver, books, bound>>
    BY <1>5 DEF TakeUp, store, rows
  <2>2. CASE p # Api
    <3>1. UNCHANGED <<pc[Api], pool[Api]>>
      BY <1>5, <1>a, <2>2 DEF TakeUp, Goto, TypeOK
    <3> QED BY <1>1, <2>1, <3>1
  <2>3. CASE p = Api
    <3>1. pool[Api] \in Seq(Runs) /\ pool[Api] # <<>> /\ pool'[Api] = Tail(pool[Api])
      BY <1>5, <1>a, <2>3 DEF TakeUp, TypeOK
    <3>2. PICK s \in Runs : s = Head(pool[Api]) /\ s = pool[Api][1] /\ 1 \in 1..Len(pool[Api])
      BY <3>1
    <3>3. pc[Api][s] = "waiting"
      BY <3>2 DEF ApiPool
    <3>4. pc'[Api][s] = "header" /\ \A r \in Runs : r # s => pc'[Api][r] = pc[Api][r]
      <4>1. Goto(Api, s, "header")
        BY <1>5, <2>3, <3>2 DEF TakeUp
      <4> QED BY <1>a, <4>1, GotoFrame
    <3>5. ApiBook(s)'
      BY <2>1, <3>3, <3>4 DEF ApiBook, Given, Executing
    <3>6. \A r \in Runs : r # s => ApiBook(r)'
      BY <2>1, <3>4, ApiBookFrame
    <3>7. /\ Len(pool'[Api]) = Len(pool[Api]) - 1
          /\ \A i \in 1..Len(pool'[Api]) : i + 1 \in 1..Len(pool[Api]) /\ pool'[Api][i] = pool[Api][i + 1]
      BY <3>1
    <3>8. ApiPool'
      <4> SUFFICES ASSUME NEW i \in 1..Len(pool'[Api])
                   PROVE  /\ pc'[Api][pool'[Api][i]] = "waiting"
                          /\ \A j \in 1..Len(pool'[Api]) : pool'[Api][i] = pool'[Api][j] => i = j
        BY DEF ApiPool
      <4>1. i + 1 \in 1..Len(pool[Api]) /\ i + 1 # 1 /\ pool'[Api][i] = pool[Api][i + 1]
        BY <3>7
      <4>2. pool[Api][i + 1] # s /\ pool[Api][i + 1] \in Runs
        BY <3>1, <3>2, <4>1 DEF ApiPool
      <4>3. pc'[Api][pool'[Api][i]] = "waiting"
        BY <3>4, <4>1, <4>2 DEF ApiPool
      <4>4. ASSUME NEW j \in 1..Len(pool'[Api]), pool'[Api][i] = pool'[Api][j] PROVE i = j
        <5>1. j + 1 \in 1..Len(pool[Api]) /\ pool[Api][i + 1] = pool[Api][j + 1]
          BY <3>7, <4>1, <4>4
        <5>2. i + 1 = j + 1
          BY <4>1, <5>1 DEF ApiPool
        <5> QED BY <5>2
      <4> QED BY <4>3, <4>4
    <3> QED BY <3>5, <3>6, <3>8
  <2> QED BY <2>2, <2>3
<1>6. ASSUME NEW p \in Proc, Crash(p) PROVE Goal
  <2>1. UNCHANGED <<status, pver>>
    BY <1>6 DEF Crash, store, rows
  <2>2. CASE p # Api
    <3>1. UNCHANGED <<pc[Api], pool[Api], books[Api], bound[Api]>>
      BY <1>6, <1>a, <2>2 DEF Crash, TypeOK
    <3> QED BY <1>1, <2>1, <3>1
  <2>3. CASE p = Api
    <3>1. /\ pool'[Api] = <<>>
          /\ \A r \in Runs : pc'[Api][r] = "none" /\ bound'[Api][r].book = 0
      BY <1>6, <1>a, <2>3 DEF Crash, TypeOK, Unbound
    <3>2. ApiPool'
      BY <3>1 DEF ApiPool
    <3>3. \A r \in Runs : ApiBook(r)'
      BY <3>1 DEF ApiBook, Given, Executing
    <3> QED BY <3>2, <3>3
  <2> QED BY <2>2, <2>3
<1>7. ASSUME NEW p \in Proc, NEW r \in Runs, TaskStep(p, r) PROVE Goal
  BY <1>7, TaskIsThreadStep, ThreadKeepsApi
<1> QED BY <1>a, <1>2, <1>3, <1>4, <1>5, <1>6, <1>7 DEF Next, Quiet, TaskStep

(***************************************************************************)
(* What the submitting process binds a run to, and prices it on, is the    *)
(* book the header names, in every deployment and whatever else executes   *)
(* the run (submit keeps the book in _portfolios, _execute takes it).      *)
(***************************************************************************)
THEOREM ApiBookAlways == Spec => []ApiBookIsHeaderBook
<1>1. Init => ApiInv
  <2>1. ASSUME Init PROVE ApiPool /\ \A r \in Runs : ApiBook(r)
    <3>1. /\ Api \in Proc /\ pool[Api] = <<>>
          /\ \A r \in Runs : pc[Api][r] = "none" /\ bound[Api][r].book = 0
      BY <2>1 DEF Init, Proc, Unbound
    <3> QED BY <3>1 DEF ApiPool, ApiBook, Given, Executing
  <2> QED BY <2>1, InitType DEF ApiInv
<1>2. ApiInv => ApiBookIsHeaderBook
  BY DEF ApiInv, ApiBook, ApiBookIsHeaderBook
<1> QED BY <1>1, <1>2, NextApi, PTL DEF Spec

-----------------------------------------------------------------------------
(* Nobody is lost.                                                            *)

Held(r) == \E p \in Proc : Owns(p, r)

Calm == faults = 0 /\ crashes = 0

\* LossInv, without its premise.
Attended(r) ==
    /\ \A p \in Proc : pc[p][r] = "failing" => status[r] = "RUNNING"
    /\ status[r] = "RUNNING" \/ (status[r] = "QUEUED" /\ ~External) => Held(r)

LEMMA LossIsAttended == LossInv <=> (Calm => \A r \in Runs : Attended(r))
  BY DEF LossInv, Calm, Attended, Abandoned, Held

\* Errors are never taken back.
LEMMA FaultsGrow ==
    ASSUME TypeOK, NEW ack \in BOOLEAN, Acked(ack), faults' = 0
    PROVE  ack /\ faults = 0
  BY DEF Acked, TypeOK

\* A step that keeps the rows, the failing threads and the owners loses nothing.
LEMMA OwnersKept ==
    ASSUME \A r \in Runs : Attended(r),
           status' = status,
           \A q \in Proc, s \in Runs : Owns(q, s) => Owns(q, s)',
           \A q \in Proc, s \in Runs : pc'[q][s] = "failing" => pc[q][s] = "failing"
    PROVE  \A r \in Runs : Attended(r)'
  BY DEF Attended, Held

\* A thread drops its run only when the run has ended.
LEMMA ReadStepAttended ==
    ASSUME TypeOK, NEW p \in Proc, NEW r \in Runs, TaskAt(p, r), Attended(r),
           \/ ReadHeader(p, r) \/ StartRead(p, r) \/ LoadRun(p, r) \/ ReadMarket(p, r)
           \/ CompleteRead(p, r) \/ FindResult(p, r) \/ FailRead(p, r)
           \/ ComputeRaises(p, r)
    PROVE  /\ pc'[p][r] = "none" => status'[r] \in Terminal
           /\ pc'[p][r] = "failing" => status'[r] = "RUNNING"
           /\ faults' = faults /\ crashes' = crashes
<1>. USE GotoFrame, EndTaskFrame DEF Attended, TaskAt, AfterStart
<1>1. CASE ReadHeader(p, r)
  BY <1>1 DEF ReadHeader, store, rows
<1>2. CASE StartRead(p, r)
  BY <1>2 DEF StartRead, store, rows
<1>3. CASE LoadRun(p, r)
  BY <1>3 DEF LoadRun, store, rows
<1>4. CASE ReadMarket(p, r)
  BY <1>4 DEF ReadMarket, store, rows
<1>5. CASE CompleteRead(p, r)
  BY <1>5 DEF CompleteRead, store, rows
<1>6. CASE FailRead(p, r)
  BY <1>6 DEF FailRead, store, rows
<1>7. CASE ComputeRaises(p, r)
  BY <1>7 DEF ComputeRaises, store, rows
<1>8. CASE FindResult(p, r)
  BY <1>8 DEF FindResult, store, rows
<1>. QED
  BY <1>1, <1>2, <1>3, <1>4, <1>5, <1>6, <1>7, <1>8

LEMMA WriteStepAttended ==
    ASSUME TypeOK, NEW p \in Proc, NEW r \in Runs, NEW ack \in BOOLEAN, TaskAt(p, r),
           \/ StartWrite(p, r, ack) \/ InsertMarket(p, r, ack)
           \/ BindMarket(p, r, ack) \/ CompleteWrite(p, r, ack) \/ FailWrite(p, r),
           faults' = 0
    PROVE  /\ pc'[p][r] = "none" => status'[r] \in Terminal
           /\ pc'[p][r] = "failing" => status'[r] = "RUNNING"
           /\ faults = 0 /\ crashes' = crashes
<1>. USE GotoFrame, EndTaskFrame, FaultsGrow DEF TaskAt, AfterStart, Terminal
<1>a. status \in [Runs -> Status]
  BY DEF TypeOK
<1>1. CASE StartWrite(p, r, ack)
  BY <1>1, <1>a DEF StartWrite
<1>2. CASE InsertMarket(p, r, ack)
  BY <1>2 DEF InsertMarket, rows
<1>3. CASE BindMarket(p, r, ack)
  BY <1>3 DEF BindMarket
<1>4. CASE CompleteWrite(p, r, ack)
  <2>1. status[r] = "RUNNING" /\ crashes' = crashes
    BY <1>4 DEF CompleteWrite
  <2>2. CASE result[r] = NoResult \/ pc[p][r] = "replaceResult"
    <3>1. ack /\ faults = 0 /\ EndTask(p, r)
      BY <1>4, <2>2 DEF CompleteWrite
    <3>. QED
      BY <1>4, <1>a, <2>1, <2>2, <3>1 DEF CompleteWrite
  <2>3. CASE ~(result[r] = NoResult \/ pc[p][r] = "replaceResult")
    BY <1>4, <2>1, <2>3 DEF CompleteWrite
  <2>. QED
    BY <2>2, <2>3
<1>5. CASE FailWrite(p, r)
  BY <1>5, <1>a DEF FailWrite
<1>. QED
  BY <1>1, <1>2, <1>3, <1>4, <1>5

LEMMA TaskKeepsAttended ==
    ASSUME Ownership, LossInv, NEW p \in Proc, NEW r \in Runs, TaskStep(p, r), Calm'
    PROVE  \A s \in Runs : Attended(s)'
<1>. USE DEF Ownership
<1>0. TaskAt(p, r) /\ TaskShape(p, r)
  BY TaskStepShape DEF TaskInv
<1>1. ~DbError(p, r)
  BY DEF DbError, Fault, Calm, TypeOK
<1>2. Calm
  BY <1>0, <1>1, WriteStepAttended
     DEF TaskStep, Task, Calm, ReadHeader, StartRead, LoadRun, ReadMarket, CompleteRead,
         FindResult, FailRead, ComputeRaises
<1>3. \A s \in Runs : Attended(s)
  BY <1>2, LossIsAttended
<1>4. /\ pc'[p][r] = "none" => status'[r] \in Terminal
      /\ pc'[p][r] = "failing" => status'[r] = "RUNNING"
  BY <1>0, <1>1, <1>3, ReadStepAttended, WriteStepAttended DEF TaskStep, Task, Calm
<1>5. ASSUME NEW s \in Runs, s # r PROVE Attended(s)'
  BY <1>0, <1>3, <1>5 DEF TaskShape, Attended, Held, Owns, claim
<1>6. Attended(r)'
  <2>1. ASSUME NEW q \in Proc, q # p PROVE pc'[q][r] # "failing"
    <3>1. ~Owns(q, r)
      BY <1>0, <2>1 DEF TaskShape, OwnerInv, OneExecutor, Owns
    <3>. QED
      BY <1>0, <2>1, <3>1 DEF TaskShape, Owns, Executing
  <2>2. status'[r] \in {"RUNNING", "QUEUED"} => pc'[p][r] \in Executing
    BY <1>0, <1>4 DEF TaskShape, Terminal
  <2>3. status'[r] \in {"RUNNING", "QUEUED"} => Held(r)'
    BY <2>2 DEF Held, Owns
  <2>. QED
    BY <1>4, <2>1, <2>3 DEF Attended
<1>. QED
  BY <1>5, <1>6

\* Every step keeps LossInv.
LEMMA NextLoss ==
    ASSUME Exclusive, Ownership, LossInv, [Next]_vars
    PROVE  LossInv'
<1>. USE DEF Ownership
<1>a. Api \in Proc /\ Workers \subseteq Proc
  BY DEF Proc
<1>. SUFFICES ASSUME Calm' PROVE \A s \in Runs : Attended(s)'
  BY LossIsAttended DEF LossInv, Calm, Attended, Abandoned, Held
<1>1. CASE UpdateBook \/ UNCHANGED vars
  <2>1. UNCHANGED <<status, pc, locked, claimed, faults, crashes>>
    BY <1>1 DEF UpdateBook, vars, store, rows, claim, task
  <2>. QED
    BY <2>1, LossIsAttended, OwnersKept DEF Calm, Owns
<1>2. ASSUME NEW r \in Runs, SubmitBook(r) \/ SubmitSchedule(r)
      PROVE  \A s \in Runs : Attended(s)'
  <2>1. /\ UNCHANGED <<status, locked, claimed, faults, crashes>>
        /\ pc'[Api][r] \in {"booked", "waiting"}
        /\ pc'[Api][r] = "booked" => pc[Api][r] = "none"
        /\ \A q \in Proc, s \in Runs : q # Api \/ s # r => pc'[q][s] = pc[q][s]
    BY <1>2, <1>a, GotoFrame DEF SubmitBook, SubmitSchedule, store, rows, claim
  <2>2. ASSUME NEW w \in Workers PROVE w # Api
    BY ConstantsAssumption
  <2>3. \A q \in Proc, s \in Runs : Owns(q, s) => Owns(q, s)'
    BY <2>1, <2>2 DEF Owns, Executing
  <2>. QED
    BY <2>1, <2>3, LossIsAttended, OwnersKept DEF Calm
<1>3. ASSUME NEW r \in Runs, NEW s0 \in markets \cup {NoSnap}, NEW ack \in BOOLEAN,
             SubmitEnqueue(r, s0, ack)
      PROVE  \A s \in Runs : Attended(s)'
  <2>1. ack /\ Calm
    BY <1>3, FaultsGrow DEF SubmitEnqueue, Calm
  <2>2. /\ pc'[Api][r] = IF External THEN "none" ELSE "enqueued"
        /\ \A q \in Proc, s \in Runs : q # Api \/ s # r => pc'[q][s] = pc[q][s]
    BY <1>3, <1>a, <2>1, GotoFrame DEF SubmitEnqueue
  <2>3. /\ status'[r] = "QUEUED"
        /\ \A s \in Runs : s # r => status'[s] = status[s]
        /\ UNCHANGED claim
    BY <1>3 DEF SubmitEnqueue, TypeOK
  <2>4. \A s \in Runs : Attended(s)
    BY <2>1, LossIsAttended
  <2>5. ASSUME NEW s \in Runs, s # r PROVE Attended(s)'
    BY <2>2, <2>3, <2>4, <2>5 DEF Attended, Held, Owns, claim
  <2>6. \A q \in Proc : pc'[q][r] # "failing"
    <3>1. pc[Api][r] = "booked"
      BY <1>3 DEF SubmitEnqueue
    <3>2. status[r] = "NONE"
      BY <1>a, <3>1 DEF TaskInv, TaskAt
    <3>3. \A q \in Proc : pc[q][r] # "failing"
      BY <2>4, <3>2 DEF Attended
    <3>. QED
      BY <2>2, <3>3
  <2>7. ~External => Held(r)'
    BY <1>a, <2>2 DEF Held, Owns
  <2>8. Attended(r)'
    BY <2>3, <2>6, <2>7 DEF Attended
  <2>. QED
    BY <2>5, <2>8
<1>4. ASSUME NEW w \in Workers, ClaimSelect(w) \/ Stop(w) \/ Drained(w)
      PROVE  \A s \in Runs : Attended(s)'
  <2>1. /\ UNCHANGED <<status, pc, claimed, faults, crashes>>
        /\ \A v \in Workers : locked[v] \subseteq locked'[v]
    <3>1. CASE ClaimSelect(w)
      <4>1. locked[w] = {}
        BY <3>1 DEF ClaimSelect, ClaimInv
      <4>2. \A v \in Workers : v # w => locked'[v] = locked[v]
        BY <3>1 DEF ClaimSelect, TypeOK
      <4>. QED
        BY <3>1, <4>1, <4>2 DEF ClaimSelect, store, rows, task
    <3>2. CASE Stop(w) \/ Drained(w)
      BY <3>2 DEF Stop, Drained, store, rows, task
    <3>. QED
      BY <1>4, <3>1, <3>2
  <2>2. \A q \in Proc, s \in Runs : Owns(q, s) => Owns(q, s)'
    BY <2>1 DEF Owns
  <2>. QED
    BY <2>1, <2>2, LossIsAttended, OwnersKept DEF Calm
<1>5. ASSUME NEW w \in Workers, PollError(w)
      PROVE  \A s \in Runs : Attended(s)'
  BY <1>5 DEF PollError, Fault, Calm, TypeOK
<1>6. ASSUME NEW w \in Workers, NEW ack \in BOOLEAN, ClaimCommit(w, ack)
      PROVE  \A s \in Runs : Attended(s)'
  <2>1. ack /\ Calm
    BY <1>6, FaultsGrow DEF ClaimCommit, Calm
  <2>2. /\ pc' = pc /\ claimed'[w] = locked[w] /\ claimed[w] = {}
        /\ \A v \in Workers : v # w => locked'[v] = locked[v] /\ claimed'[v] = claimed[v]
        /\ \A r \in Runs : status'[r] = IF r \in locked[w] THEN "RUNNING" ELSE status[r]
    <3>1. claimed[w] = {}
      BY <1>6 DEF ClaimCommit, ClaimInv
    <3>2. /\ claimed' = [claimed EXCEPT ![w] = locked[w]]
          /\ locked' = [locked EXCEPT ![w] = {}]
          /\ pc' = pc
      BY <1>6, <2>1 DEF ClaimCommit, task
    <3>3. \A r \in Runs : status'[r] = IF r \in locked[w] THEN "RUNNING" ELSE status[r]
      BY <1>6 DEF ClaimCommit
    <3>. QED
      BY <3>1, <3>2, <3>3 DEF TypeOK
  <2>3. \A q \in Proc, s \in Runs : Owns(q, s) => Owns(q, s)'
    BY <2>2 DEF Owns
  <2>4. \A s \in locked[w] : Owns(w, s) /\ w \in Proc
    BY <1>a DEF Owns
  <2>5. \A s \in Runs : Attended(s)
    BY <2>1, LossIsAttended
  <2>. QED
    BY <2>2, <2>3, <2>4, <2>5 DEF Attended, Held
<1>7. ASSUME NEW w \in Workers, NEW r \in Runs, ScheduleClaimed(w, r)
      PROVE  \A s \in Runs : Attended(s)'
  <2>1. /\ pc'[w][r] = "waiting"
        /\ \A q \in Proc, s \in Runs : q # w \/ s # r => pc'[q][s] = pc[q][s]
    BY <1>7, <1>a, GotoFrame DEF ScheduleClaimed
  <2>2. /\ UNCHANGED <<status, locked, faults, crashes>>
        /\ claimed'[w] = claimed[w] \ {r}
        /\ \A v \in Workers : v # w => claimed'[v] = claimed[v]
    BY <1>7 DEF ScheduleClaimed, store, rows, TypeOK
  <2>3. \A q \in Proc, s \in Runs : Owns(q, s) => Owns(q, s)'
    BY <2>1, <2>2 DEF Owns
  <2>4. \A q \in Proc, s \in Runs : pc'[q][s] = "failing" => pc[q][s] = "failing"
    BY <2>1
  <2>. QED
    BY <2>2, <2>3, <2>4, LossIsAttended, OwnersKept DEF Calm
<1>8. ASSUME NEW p \in Proc, TakeUp(p)
      PROVE  \A s \in Runs : Attended(s)'
  <2>1. Head(pool[p]) \in Runs
    BY <1>8 DEF TakeUp, TypeOK
  <2>. PICK r \in Runs : r = Head(pool[p])
    BY <2>1
  <2>2. /\ pc'[p][r] = "header"
        /\ \A q \in Proc, s \in Runs : q # p \/ s # r => pc'[q][s] = pc[q][s]
        /\ UNCHANGED <<status, locked, claimed, faults, crashes>>
    BY <1>8, GotoFrame DEF TakeUp, store, rows, claim
  <2>3. \A q \in Proc, s \in Runs : Owns(q, s) => Owns(q, s)'
    BY <2>2 DEF Owns, Executing
  <2>4. \A q \in Proc, s \in Runs : pc'[q][s] = "failing" => pc[q][s] = "failing"
    BY <2>2
  <2>. QED
    BY <2>2, <2>3, <2>4, LossIsAttended, OwnersKept DEF Calm
<1>9. ASSUME NEW p \in Proc, Crash(p)
      PROVE  \A s \in Runs : Attended(s)'
  BY <1>9 DEF Crash, Calm, TypeOK
<1>10. ASSUME NEW p \in Proc, NEW r \in Runs, TaskStep(p, r)
       PROVE  \A s \in Runs : Attended(s)'
  BY <1>10, TaskKeepsAttended
<1>. QED
  BY <1>1, <1>2, <1>3, <1>4, <1>5, <1>6, <1>7, <1>8, <1>9, <1>10
     DEF Next, Submit, Poll, Quiet, TaskStep

(***************************************************************************)
(* Only a failed transaction or a crash can strand a run (poll_once,       *)
(* _execute and shutdown never lose one).                                  *)
(***************************************************************************)
THEOREM NoSilentLossAlways ==
    ASSUME Exclusive
    PROVE  Spec => []NoSilentLoss
<1>1. Init => LossInv
  BY DEF Init, LossInv, Abandoned
<1>2. Ownership /\ LossInv /\ [Next]_vars => Ownership' /\ LossInv'
  BY NextOwnership, NextLoss
<1>3. LossInv => NoSilentLoss
  BY DEF LossInv, NoSilentLoss
<1>. QED
  BY InitOwnership, <1>1, <1>2, <1>3, PTL DEF Spec
==============================================================================
