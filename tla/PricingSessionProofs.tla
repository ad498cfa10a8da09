------------------------- MODULE PricingSessionProofs -------------------------
(***************************************************************************)
(* Safety theorems about PricingSession for any number of threads, engines *)
(* and items and any size of the cache.                                    *)
(***************************************************************************)
EXTENDS PricingSession, SequenceTheorems, TLAPS

USE SessionAssumption, PriceAssumption

-----------------------------------------------------------------------------
(* Types.                                                                  *)

Places     == {"idle", "date", "enter", "handle", "npv", "exit", "put"}
LocalsType ==
    /\ pc \in [Threads -> Places]
    /\ req \in [Threads -> Request]
    /\ bypass \in [Threads -> BOOLEAN]
    /\ date \in [Threads -> Dates]
    /\ saved \in [Threads -> [engine : Dates, settings : Dates]]
    /\ price \in [Threads -> Price \cup {NoPrice}]
AnswerType == answer \in [Threads -> [req : Request, price : Price \cup {NoPrice}]]
QlType ==
    /\ owner \in Threads \cup {NoThread}
    /\ depth \in Nat
    /\ engineDate \in [Engines -> Dates]
    /\ settings \in Dates
    /\ fixings \subseteq Swaps
CacheType == cache \in [Engines -> Seq(Entry)]

\* TypeOK in the groups the actions write.
LEMMA TypeParts == TypeOK <=> LocalsType /\ AnswerType /\ QlType /\ CacheType /\ asked \in 0..MaxRequests
BY DEF TypeOK, LocalsType, Places, AnswerType, QlType, CacheType

\* The request and the answer of an idle thread have their types.
LEMMA NoRequestType == NoRequest \in Request /\ NoAnswer \in [req : Request, price : Price \cup {NoPrice}]
<1>1. (CHOOSE i \in Items : TRUE) \in Items
  OBVIOUS
<1> QED BY <1>1 DEF NoRequest, NoAnswer, Request

\* The process before any valuation has its types.
LEMMA TypeInit == Init => TypeOK
<1> SUFFICES ASSUME Init PROVE TypeOK
  OBVIOUS
<1>1. LocalsType
  <2>1. req \in [Threads -> Request]
    BY NoRequestType DEF Init
  <2>2. saved \in [Threads -> [engine : Dates, settings : Dates]]
    BY DEF Init
  <2>3. price \in [Threads -> Price \cup {NoPrice}]
    BY DEF Init
  <2> QED BY <2>1, <2>2, <2>3 DEF Init, LocalsType, Places
<1>2. AnswerType
  BY NoRequestType DEF Init, AnswerType
<1>3. QlType
  BY DEF Init, QlType
<1>4. CacheType
  BY DEF Init, CacheType
<1> QED BY <1>1, <1>2, <1>3, <1>4, TypeParts DEF Init

\* A thread that is done forgets into values of the right types.
LEMMA DoneType == ASSUME LocalsType, NEW t \in Threads, Done(t) PROVE LocalsType'
<1>1. req' \in [Threads -> Request]
  BY NoRequestType DEF LocalsType, Done
<1>2. saved' \in [Threads -> [engine : Dates, settings : Dates]]
  BY DEF LocalsType, Done
<1>3. price' \in [Threads -> Price \cup {NoPrice}]
  BY DEF LocalsType, Done
<1>4. pc' \in [Threads -> Places]
  BY DEF LocalsType, Done, Goto, Places
<1>5. bypass' \in [Threads -> BOOLEAN] /\ date' \in [Threads -> Dates]
  BY DEF LocalsType, Done
<1> QED BY <1>1, <1>2, <1>3, <1>4, <1>5 DEF LocalsType

\* A thread moves to a place.
LEMMA GotoType ==
    ASSUME LocalsType, NEW t \in Threads, NEW l \in Places, Goto(t, l)
    PROVE  pc' \in [Threads -> Places]
BY DEF LocalsType, Goto

\* An answer is a request and a price, or none.
LEMMA GivesType ==
    ASSUME AnswerType, NEW t \in Threads, NEW k \in Request, NEW v \in Price \cup {NoPrice}, Answer(t, k, v)
    PROVE  AnswerType'
<1>1. [req |-> k, price |-> v] \in [req : Request, price : Price \cup {NoPrice}]
  OBVIOUS
<1> QED BY <1>1 DEF AnswerType, Answer

-----------------------------------------------------------------------------
(* The cache's sequences.                                                  *)

\* A removed element leaves the others in their order.
LEMMA RemoveShape ==
    ASSUME NEW S, NEW s \in Seq(S), NEW i \in 1..Len(s)
    PROVE  /\ RemoveAt(s, i) \in Seq(S)
           /\ Len(RemoveAt(s, i)) = Len(s) - 1
           /\ \A j \in 1..Len(s) - 1 : RemoveAt(s, i)[j] = IF j < i THEN s[j] ELSE s[j + 1]
<1> DEFINE a == SubSeq(s, 1, i - 1)
           b == SubSeq(s, i + 1, Len(s))
<1>1. a \in Seq(S) /\ Len(a) = i - 1 /\ \A j \in 1..i - 1 : a[j] = s[j]
  <2>1. \A j \in 1..i - 1 : s[j] \in S
    OBVIOUS
  <2> QED BY <2>1, SubSeqProperties
<1>2. b \in Seq(S) /\ Len(b) = Len(s) - i /\ \A j \in 1..Len(s) - i : b[j] = s[i + j]
  <2>1. \A j \in i + 1..Len(s) : s[j] \in S
    OBVIOUS
  <2> QED BY <2>1, SubSeqProperties
<1>3. RemoveAt(s, i) = a \o b
  BY DEF RemoveAt
<1> HIDE DEF a, b
<1>4. /\ a \o b \in Seq(S) /\ Len(a \o b) = Len(s) - 1
      /\ \A j \in 1..Len(s) - 1 : (a \o b)[j] = IF j <= i - 1 THEN a[j] ELSE b[j - (i - 1)]
  <2>1. Len(a) + Len(b) = Len(s) - 1
    BY <1>1, <1>2
  <2>2. /\ a \o b \in Seq(S) /\ Len(a \o b) = Len(a) + Len(b)
        /\ \A j \in 1..Len(a) + Len(b) : (a \o b)[j] = IF j <= Len(a) THEN a[j] ELSE b[j - Len(a)]
    <3>1. a \in Seq(S) /\ b \in Seq(S)
      BY <1>1, <1>2
    <3> QED BY ONLY <3>1, ConcatProperties
  <2>3. Len(a) = i - 1
    BY <1>1
  <2> QED BY <2>1, <2>2, <2>3
<1>5. ASSUME NEW j \in 1..Len(s) - 1 PROVE (a \o b)[j] = IF j < i THEN s[j] ELSE s[j + 1]
  <2>1. CASE j < i
    BY <1>1, <1>4, <2>1
  <2>2. CASE ~(j < i)
    <3>1. j - (i - 1) \in 1..Len(s) - i /\ i + (j - (i - 1)) = j + 1 /\ ~(j <= i - 1)
      BY <2>2
    <3>2. b[j - (i - 1)] = s[i + (j - (i - 1))]
      BY <1>2, <3>1
    <3> QED BY <1>4, <2>2, <3>1, <3>2
  <2> QED BY <2>1, <2>2
<1> QED BY <1>3, <1>4, <1>5

\* Where the entry at j stood before a hit at i, in a cache of n entries.
From(j, i, n) == IF j < i THEN j ELSE IF j < n THEN j + 1 ELSE i

\* Two entries never come from one place.
LEMMA FromInjective ==
    ASSUME NEW n \in Nat, NEW i \in 1..n, NEW j \in 1..n, NEW h \in 1..n
    PROVE  From(j, i, n) \in 1..n /\ (From(j, i, n) = From(h, i, n) => j = h)
BY DEF From

\* A hit goes to the end; every entry keeps a place of its own.
LEMMA TouchShape ==
    ASSUME CacheType, NEW e \in Engines, NEW i \in DOMAIN cache[e]
    PROVE  /\ Touch(e, i) \in Seq(Entry)
           /\ Len(Touch(e, i)) = Len(cache[e])
           /\ \A j \in DOMAIN cache[e] : Touch(e, i)[j] = cache[e][From(j, i, Len(cache[e]))]
<1> DEFINE s == cache[e]
           n == Len(s)
           r == RemoveAt(s, i)
<1>1. s \in Seq(Entry) /\ i \in 1..n /\ n \in Nat /\ s[i] \in Entry /\ DOMAIN s = 1..n
  BY DEF CacheType
<1>2. Touch(e, i) = Append(r, s[i])
  BY DEF Touch
<1> HIDE DEF s, n
<1>3. /\ r \in Seq(Entry) /\ Len(r) = n - 1
      /\ \A j \in 1..n - 1 : r[j] = IF j < i THEN s[j] ELSE s[j + 1]
  BY <1>1, RemoveShape DEF n
<1> HIDE DEF r
<1>4. /\ Append(r, s[i]) \in Seq(Entry) /\ Len(Append(r, s[i])) = n
      /\ Append(r, s[i])[n] = s[i]
      /\ \A j \in 1..n - 1 : Append(r, s[i])[j] = r[j]
  BY <1>1, <1>3
<1>5. ASSUME NEW j \in 1..n PROVE Append(r, s[i])[j] = s[From(j, i, n)]
  <2>1. CASE j = n
    BY <1>1, <1>4, <2>1 DEF From
  <2>2. CASE j < n /\ j < i
    BY <1>1, <1>3, <1>4, <2>2 DEF From
  <2>3. CASE j < n /\ ~(j < i)
    BY <1>1, <1>3, <1>4, <2>3 DEF From
  <2>4. j = n \/ (j < n /\ j < i) \/ (j < n /\ ~(j < i))
    BY <1>1
  <2> QED BY <2>1, <2>2, <2>3, <2>4
<1> QED BY <1>1, <1>2, <1>4, <1>5 DEF s, n

\* All of w but its last element stands in s, at most one place further on.
MovedUp(w, s) == \E d \in {0, 1} : \A j \in 1..Len(w) - 1 : j + d \in DOMAIN s /\ w[j] = s[j + d]

\* A new entry goes to the end; the first one makes room for it.
LEMMA PutShape ==
    ASSUME CacheType, NEW e \in Engines, NEW k \in Request, NEW v \in Price, Len(cache[e]) <= MaxSize
    PROVE  /\ PutIn(e, k, v) \in Seq(Entry)
           /\ Len(PutIn(e, k, v)) \in 1..MaxSize
           /\ PutIn(e, k, v)[Len(PutIn(e, k, v))] = [key |-> k, price |-> v]
           /\ MovedUp(PutIn(e, k, v), cache[e])
<1> DEFINE s == cache[e]
           x == [key |-> k, price |-> v]
           l == Append(s, x)
<1>1. s \in Seq(Entry) /\ Len(s) \in Nat /\ x \in Entry /\ DOMAIN s = 1..Len(s) /\ Len(s) <= MaxSize
  <2>1. s \in Seq(Entry)
    BY DEF CacheType
  <2>2. x \in Entry
    BY DEF Entry
  <2> QED BY <2>1, <2>2
<1>2. PutIn(e, k, v) = IF Len(l) > MaxSize THEN Tail(l) ELSE l
  BY DEF PutIn
<1> HIDE DEF s, x
<1>3. /\ l \in Seq(Entry) /\ Len(l) = Len(s) + 1 /\ l[Len(s) + 1] = x /\ l # <<>>
      /\ \A j \in 1..Len(s) : l[j] = s[j]
  BY <1>1
<1> HIDE DEF l
<1>4. /\ Tail(l) \in Seq(Entry) /\ Len(Tail(l)) = Len(s)
      /\ \A j \in 1..Len(s) : Tail(l)[j] = l[j + 1]
  BY <1>1, <1>3, HeadTailProperties
<1>5. CASE Len(l) > MaxSize
  <2>1. Len(s) = MaxSize /\ PutIn(e, k, v) = Tail(l) /\ Len(s) \in 1..MaxSize
    <3>1. MaxSize \in Nat /\ MaxSize >= 1
      OBVIOUS
    <3>2. Len(l) = Len(s) + 1 /\ Len(s) \in Nat /\ Len(s) <= MaxSize
      BY <1>1, <1>3
    <3>3. Len(s) = MaxSize /\ Len(s) \in 1..MaxSize
      BY <1>5, <3>1, <3>2
    <3> QED BY <1>2, <1>5, <3>3
  <2>2. \A j \in 1..Len(s) - 1 : j + 1 \in 1..Len(s) /\ Tail(l)[j] = s[j + 1]
    BY <1>1, <1>3, <1>4
  <2>3. Tail(l)[Len(s)] = x
    BY <1>1, <1>3, <1>4, <2>1
  <2>4. MovedUp(Tail(l), s)
    <3>1. \E d \in {0, 1} : \A j \in 1..Len(s) - 1 : j + d \in DOMAIN s /\ Tail(l)[j] = s[j + d]
      <4> WITNESS 1 \in {0, 1}
      <4> QED BY <1>1, <2>2
    <3> QED BY <1>4, <3>1 DEF MovedUp
  <2> QED BY <1>4, <2>1, <2>3, <2>4 DEF s, x
<1>6. CASE ~(Len(l) > MaxSize)
  <2>1. PutIn(e, k, v) = l /\ Len(l) \in 1..MaxSize /\ Len(l) - 1 = Len(s)
    <3>1. MaxSize \in Nat /\ MaxSize >= 1
      OBVIOUS
    <3>2. Len(l) = Len(s) + 1 /\ Len(s) \in Nat /\ Len(s) <= MaxSize
      BY <1>1, <1>3
    <3>3. Len(l) \in 1..MaxSize /\ Len(l) - 1 = Len(s)
      BY <1>6, <3>1, <3>2
    <3> QED BY <1>2, <1>6, <3>3
  <2>2. MovedUp(l, s)
    <3> SUFFICES \E d \in {0, 1} : \A j \in 1..Len(l) - 1 : j + d \in DOMAIN s /\ l[j] = s[j + d]
      BY DEF MovedUp
    <3> WITNESS 0 \in {0, 1}
    <3> QED BY <1>1, <1>3, <2>1
  <2> QED BY <1>3, <2>1, <2>2 DEF s, x
<1> QED BY <1>5, <1>6

-----------------------------------------------------------------------------
(* The lock and what it guards.                                            *)

InSession(t) == pc[t] \in {"handle", "npv", "exit"}

\* At most one thread is in a session: the one that holds the lock.
LockInv == \A t \in Threads : InSession(t) <=> owner = t

\* A request that names a date is priced on it, from session_date on.
DateInv ==
    \A t \in Threads :
        pc[t] \in {"enter", "handle", "npv", "exit"} /\ req[t].asOf \in Dates => date[t] = req[t].asOf

\* Where an engine is when no session is open on it.
Resting == {Base} \cup NoQlDates

\* In a session the process is at the session's date and will be put back; the
\* outermost began without fixings, and every one is outermost while no engine
\* was left off its date.
SessionOf(t) ==
    /\ saved[t].engine \in Resting /\ saved[t].settings = Today
    /\ settings = date[t] /\ date[t] \notin NoQlDates
    /\ engineDate[EngineOf[t]] = date[t]
    /\ \A e \in Engines \ {EngineOf[t]} : engineDate[e] \in Resting
    /\ depth # 0
    /\ saved[t].engine = Base /\ (\A e \in Engines \ {EngineOf[t]} : engineDate[e] = Base) => depth = 1
    /\ pc[t] = "handle" => fixings = {} \/ Miscounted
    /\ pc[t] = "npv" =>
          /\ {req[t].item} \cap Swaps \subseteq fixings
          /\ fixings = {req[t].item} \cap Swaps \/ Miscounted

SessionInv == SessionRestored /\ \A t \in Threads : InSession(t) => SessionOf(t)

\* A price for the request k, on the date it names if it names one.
Right(k, v) ==
    /\ PricedOn(k, v, v.engine) /\ v.engine \notin NoQlDates
    /\ v.fixings = {k.item} \cap Swaps \/ Miscounted
    /\ k.asOf \in Dates => v.engine = k.asOf

PriceInv ==
    \A t \in Threads :
        /\ pc[t] \in {"idle", "date", "enter", "handle", "npv"} => price[t] = NoPrice
        /\ pc[t] = "put" => price[t] # NoPrice
        /\ price[t] # NoPrice => Right(req[t], price[t])

AnswerInv == \A t \in Threads : answer[t].price # NoPrice => Right(answer[t].req, answer[t].price)

CacheOf(s) ==
    /\ Len(s) <= MaxSize
    /\ \A i, j \in DOMAIN s : s[i].key = s[j].key => i = j
    /\ \A i \in DOMAIN s : Right(s[i].key, s[i].price)

CacheInv == \A e \in Engines : CacheOf(cache[e])

PricingInv == TypeOK /\ LockInv /\ DateInv /\ SessionInv /\ PriceInv /\ AnswerInv /\ CacheInv

\* The invariant holds at the start.
LEMMA PricingInvInit == Init => PricingInv
<1> SUFFICES ASSUME Init PROVE PricingInv
  OBVIOUS
<1>1. TypeOK
  BY TypeInit
<1>2. \A t \in Threads : pc[t] = "idle" /\ price[t] = NoPrice /\ answer[t] = NoAnswer /\ owner # t
  BY DEF Init
<1>3. LockInv /\ DateInv
  BY <1>2 DEF LockInv, DateInv, InSession
<1>4. SessionInv
  BY <1>2 DEF SessionInv, SessionRestored, InSession, Init
<1>5. PriceInv
  BY <1>2 DEF PriceInv
<1>6. AnswerInv
  BY <1>2 DEF AnswerInv, NoAnswer
<1>7. CacheInv
  BY DEF Init, CacheInv, CacheOf
<1> QED BY <1>1, <1>3, <1>4, <1>5, <1>6, <1>7 DEF PricingInv

-----------------------------------------------------------------------------
(* Types step by step.                                                     *)

\* A hit, like any other position of a cache, holds an entry.
LEMMA HitType ==
    ASSUME CacheType, NEW e \in Engines, NEW i \in DOMAIN cache[e]
    PROVE  cache[e][i] \in Entry /\ cache[e][i].key \in Request /\ cache[e][i].price \in Price
<1>1. cache[e] \in Seq(Entry)
  BY DEF CacheType
<1>2. cache[e][i] \in Entry
  BY <1>1
<1> QED BY <1>2 DEF Entry

\* A write of one engine's cache leaves sequences of entries.
LEMMA CacheWriteType ==
    ASSUME CacheType, NEW e \in Engines, NEW s \in Seq(Entry), cache' = [cache EXCEPT ![e] = s]
    PROVE  CacheType'
BY DEF CacheType

\* Every action keeps the types, given that the caches are within their size.
LEMMA TypeStep == ASSUME PricingInv, [Next]_vars PROVE TypeOK'
<1>1. LocalsType /\ AnswerType /\ QlType /\ CacheType /\ asked \in 0..MaxRequests
  BY TypeParts DEF PricingInv
<1> SUFFICES LocalsType' /\ AnswerType' /\ QlType' /\ CacheType' /\ (asked \in 0..MaxRequests)'
  BY TypeParts DEF TypeOK, LocalsType, Places, AnswerType, QlType, CacheType
<1>2. ASSUME UNCHANGED vars PROVE LocalsType' /\ AnswerType' /\ QlType' /\ CacheType' /\ (asked \in 0..MaxRequests)'
  BY <1>1, <1>2 DEF vars, locals, ql, LocalsType, AnswerType, QlType, CacheType
<1>3. ASSUME NEW t \in Threads, NEW k \in Request, NEW b \in BOOLEAN, Ask(t, k, b)
      PROVE  LocalsType' /\ AnswerType' /\ QlType' /\ CacheType' /\ (asked \in 0..MaxRequests)'
  <2> DEFINE e == EngineOf[t]
  <2>1. e \in Engines
    OBVIOUS
  <2> HIDE DEF e
  <2>2. (asked \in 0..MaxRequests)'
    BY <1>1, <1>3 DEF Ask
  <2>3. QlType'
    BY <1>1, <1>3 DEF Ask, ql, QlType
  <2>4. CASE ~b /\ Hits(e, k) # {}
    <3>1. PICK i \in Hits(e, k) :
             /\ cache' = [cache EXCEPT ![e] = Touch(e, i)]
             /\ Answer(t, k, cache[e][i].price)
             /\ UNCHANGED <<pc, locals>>
      BY <1>3, <2>4 DEF Ask, e
    <3>2. i \in DOMAIN cache[e] /\ cache[e][i].price \in Price
      BY <1>1, <2>1, HitType DEF Hits
    <3>3. CacheType'
      BY <1>1, <2>1, <3>1, <3>2, TouchShape, CacheWriteType
    <3>4. AnswerType'
      BY <1>1, <3>1, <3>2, GivesType
    <3>5. LocalsType'
      BY <1>1, <3>1 DEF LocalsType, locals
    <3> QED BY <2>2, <2>3, <3>3, <3>4, <3>5
  <2>5. CASE ~(~b /\ Hits(e, k) # {})
    <3>1. /\ Goto(t, "date")
          /\ req' = [req EXCEPT ![t] = k]
          /\ bypass' = [bypass EXCEPT ![t] = b]
          /\ answer' = [answer EXCEPT ![t] = NoAnswer]
          /\ UNCHANGED <<cache, date, saved, price>>
      BY <1>3, <2>5 DEF Ask, e
    <3>2. pc' \in [Threads -> Places]
      BY <1>1, <3>1, GotoType DEF Places
    <3>3. LocalsType'
      BY <1>1, <3>1, <3>2 DEF LocalsType
    <3>4. AnswerType'
      BY <1>1, <3>1, NoRequestType DEF AnswerType
    <3>5. CacheType'
      BY <1>1, <3>1 DEF CacheType
    <3> QED BY <2>2, <2>3, <3>3, <3>4, <3>5
  <2> QED BY <2>4, <2>5
<1>4. ASSUME NEW t \in Threads, ReadDate(t)
      PROVE  LocalsType' /\ AnswerType' /\ QlType' /\ CacheType' /\ (asked \in 0..MaxRequests)'
  <2>1. pc' \in [Threads -> Places]
    BY <1>1, <1>4, GotoType DEF ReadDate, Places
  <2>2. (IF req[t].asOf \in Dates THEN req[t].asOf ELSE engineDate[EngineOf[t]]) \in Dates
    BY <1>1 DEF QlType
  <2>3. date' \in [Threads -> Dates]
    BY <1>1, <1>4, <2>2 DEF ReadDate, LocalsType
  <2>4. LocalsType'
    BY <1>1, <1>4, <2>1, <2>3 DEF ReadDate, LocalsType
  <2> QED BY <1>1, <1>4, <2>4 DEF ReadDate, AnswerType, QlType, CacheType, ql
<1>5. ASSUME NEW t \in Threads, Enter(t)
      PROVE  LocalsType' /\ AnswerType' /\ QlType' /\ CacheType' /\ (asked \in 0..MaxRequests)'
  <2>1. pc' \in [Threads -> Places]
    BY <1>1, <1>5, GotoType DEF Enter, Places
  <2>2. EngineOf[t] \in Engines
    OBVIOUS
  <2>3. [engine |-> engineDate[EngineOf[t]], settings |-> settings] \in [engine : Dates, settings : Dates]
    BY <1>1, <2>2 DEF QlType
  <2>4. saved' \in [Threads -> [engine : Dates, settings : Dates]]
    BY <1>1, <1>5, <2>3 DEF Enter, LocalsType
  <2>5. LocalsType'
    BY <1>1, <1>5, <2>1, <2>4 DEF Enter, LocalsType
  <2>6. date[t] \in Dates
    BY <1>1 DEF LocalsType
  <2>7. QlType'
    BY <1>1, <1>5, <2>2, <2>6 DEF Enter, CountEntry, QlType
  <2> QED BY <1>1, <1>5, <2>5, <2>7 DEF Enter, AnswerType, CacheType
<1>55. ASSUME NEW t \in Threads, EnterRaises(t)
      PROVE  LocalsType' /\ AnswerType' /\ QlType' /\ CacheType' /\ (asked \in 0..MaxRequests)'
  <2>1. EngineOf[t] \in Engines /\ date[t] \in Dates /\ req[t] \in Request
    BY <1>1 DEF LocalsType
  <2>2. QlType'
    BY <1>1, <1>55, <2>1 DEF EnterRaises, CountEntry, QlType
  <2>3. LocalsType' /\ AnswerType'
    BY <1>1, <1>55, <2>1, DoneType, GivesType DEF EnterRaises
  <2> QED BY <1>1, <1>55, <2>2, <2>3 DEF EnterRaises, CacheType
<1>6. ASSUME NEW t \in Threads, Seed(t)
      PROVE  LocalsType' /\ AnswerType' /\ QlType' /\ CacheType' /\ (asked \in 0..MaxRequests)'
  <2>1. pc' \in [Threads -> Places]
    BY <1>1, <1>6, GotoType DEF Seed, Places
  <2>2. LocalsType'
    BY <1>1, <1>6, <2>1 DEF Seed, LocalsType, locals
  <2>3. QlType'
    BY <1>1, <1>6 DEF Seed, QlType
  <2> QED BY <1>1, <1>6, <2>2, <2>3 DEF Seed, AnswerType, CacheType
<1>7. ASSUME NEW t \in Threads, Npv(t)
      PROVE  LocalsType' /\ AnswerType' /\ QlType' /\ CacheType' /\ (asked \in 0..MaxRequests)'
  <2>1. pc' \in [Threads -> Places]
    BY <1>1, <1>7, GotoType DEF Npv, Places
  <2>2. req[t].item \in Items
    BY <1>1 DEF LocalsType, Request
  <2>3. engineDate[EngineOf[t]] \in Dates /\ settings \in Dates /\ fixings \in SUBSET Items
    BY <1>1 DEF QlType
  <2>4. [item |-> req[t].item, engine |-> engineDate[EngineOf[t]], settings |-> settings, fixings |-> fixings] \in Price
    BY <2>2, <2>3 DEF Price
  <2>5. price' \in [Threads -> Price \cup {NoPrice}]
    BY <1>1, <1>7, <2>4 DEF Npv, LocalsType
  <2>6. LocalsType'
    BY <1>1, <1>7, <2>1, <2>5 DEF Npv, LocalsType
  <2> QED BY <1>1, <1>7, <2>6 DEF Npv, AnswerType, CacheType, QlType, ql
<1>8. ASSUME NEW t \in Threads, HandlerRaises(t)
      PROVE  LocalsType' /\ AnswerType' /\ QlType' /\ CacheType' /\ (asked \in 0..MaxRequests)'
  <2>1. pc' \in [Threads -> Places]
    BY <1>1, <1>8, GotoType DEF HandlerRaises, Places
  <2>2. LocalsType'
    BY <1>1, <1>8, <2>1 DEF HandlerRaises, LocalsType, locals
  <2> QED BY <1>1, <1>8, <2>2 DEF HandlerRaises, AnswerType, CacheType, QlType, ql
<1>9. ASSUME NEW t \in Threads, Exit(t)
      PROVE  LocalsType' /\ AnswerType' /\ QlType' /\ CacheType' /\ (asked \in 0..MaxRequests)'
  <2>1. saved[t].engine \in Dates /\ saved[t].settings \in Dates /\ req[t] \in Request /\ price[t] \in Price \cup {NoPrice}
    BY <1>1 DEF LocalsType
  <2>2. QlType'
    <3>1. depth - 1 \in Nat
      BY <1>1, <1>9 DEF Exit, PricingInv, SessionInv, InSession, SessionOf, QlType
    <3> QED BY <1>1, <1>9, <2>1, <3>1 DEF Exit, CountExit, QlType
  <2>3. CacheType' /\ (asked \in 0..MaxRequests)'
    BY <1>1, <1>9 DEF Exit, CacheType
  <2>4. CASE price[t] # NoPrice /\ ~bypass[t]
    <3>1. Goto(t, "put") /\ UNCHANGED <<locals, answer>>
      BY <1>9, <2>4 DEF Exit
    <3>2. pc' \in [Threads -> Places]
      BY <1>1, <3>1, GotoType DEF Places
    <3>3. LocalsType' /\ AnswerType'
      BY <1>1, <3>1, <3>2 DEF LocalsType, locals, AnswerType
    <3> QED BY <2>2, <2>3, <3>3
  <2>5. CASE ~(price[t] # NoPrice /\ ~bypass[t])
    <3>1. Done(t) /\ Answer(t, req[t], price[t])
      BY <1>9, <2>5 DEF Exit
    <3> QED BY <1>1, <2>1, <2>2, <2>3, <3>1, DoneType, GivesType
  <2> QED BY <2>4, <2>5
<1>10. ASSUME NEW t \in Threads, Put(t)
      PROVE  LocalsType' /\ AnswerType' /\ QlType' /\ CacheType' /\ (asked \in 0..MaxRequests)'
  <2> DEFINE e == EngineOf[t]
  <2>1. e \in Engines
    OBVIOUS
  <2> HIDE DEF e
  <2>2. QlType' /\ (asked \in 0..MaxRequests)' /\ LocalsType'
    BY <1>1, <1>10, DoneType DEF Put, ql, QlType
  <2>3. req[t] \in Request
    BY <1>1 DEF LocalsType
  <2>4. CASE Hits(e, req[t]) # {}
    <3>1. PICK i \in Hits(e, req[t]) :
             /\ cache' = [cache EXCEPT ![e] = Touch(e, i)]
             /\ Answer(t, req[t], cache[e][i].price)
      BY <1>10, <2>4 DEF Put, e
    <3>2. i \in DOMAIN cache[e] /\ cache[e][i].price \in Price
      BY <1>1, <2>1, HitType DEF Hits
    <3>3. CacheType'
      BY <1>1, <2>1, <3>1, <3>2, TouchShape, CacheWriteType
    <3>4. AnswerType'
      BY <1>1, <2>3, <3>1, <3>2, GivesType
    <3> QED BY <2>2, <3>3, <3>4
  <2>5. CASE ~(Hits(e, req[t]) # {})
    <3>1. /\ cache' = [cache EXCEPT ![e] = PutIn(e, req[t], price[t])]
          /\ Answer(t, req[t], price[t])
      BY <1>10, <2>5 DEF Put, e
    <3>2. price[t] \in Price
      BY <1>1, <1>10 DEF Put, PricingInv, PriceInv, LocalsType
    <3>3. Len(cache[e]) <= MaxSize
      BY <2>1 DEF PricingInv, CacheInv, CacheOf
    <3>4. PutIn(e, req[t], price[t]) \in Seq(Entry)
      BY <1>1, <2>1, <2>3, <3>2, <3>3, PutShape
    <3>5. CacheType'
      BY <1>1, <2>1, <3>1, <3>4, CacheWriteType
    <3>6. AnswerType'
      BY <1>1, <2>3, <3>1, <3>2, GivesType
    <3> QED BY <2>2, <3>5, <3>6
  <2> QED BY <2>4, <2>5
<1> QED BY <1>2, <1>3, <1>4, <1>5, <1>55, <1>6, <1>7, <1>8, <1>9, <1>10 DEF Next, AllAnswered

-----------------------------------------------------------------------------
(* The session step by step.                                               *)

\* What a thread holds locally; a step of another thread leaves it alone.
Keeps(u) ==
    /\ pc'[u] = pc[u] /\ req'[u] = req[u] /\ date'[u] = date[u]
    /\ saved'[u] = saved[u] /\ price'[u] = price[u]

\* Only the thread that takes a step moves, and it moves as Next says.
LEMMA OthersKeep ==
    ASSUME TypeOK, NEW t \in Threads,
           \/ \E k \in Request, b \in BOOLEAN : Ask(t, k, b)
           \/ ReadDate(t) \/ Enter(t) \/ EnterRaises(t) \/ Seed(t) \/ Npv(t) \/ HandlerRaises(t)
           \/ Exit(t) \/ Put(t)
    PROVE  \A u \in Threads \ {t} : Keeps(u)
<1>1. LocalsType
  BY TypeParts
<1>2. ASSUME Done(t) PROVE \A u \in Threads \ {t} : Keeps(u)
  BY <1>1, <1>2 DEF Done, Goto, Keeps, LocalsType
<1>3. ASSUME NEW l, Goto(t, l), UNCHANGED <<req, date, saved, price>> PROVE \A u \in Threads \ {t} : Keeps(u)
  BY <1>1, <1>3 DEF Goto, Keeps, LocalsType
<1>4. ASSUME NEW k \in Request, NEW b \in BOOLEAN, Ask(t, k, b) PROVE \A u \in Threads \ {t} : Keeps(u)
  <2>1. \/ UNCHANGED <<pc, locals>>
        \/ Goto(t, "date") /\ req' = [req EXCEPT ![t] = k] /\ UNCHANGED <<date, saved, price>>
    BY <1>4 DEF Ask
  <2> QED BY <1>1, <2>1 DEF Goto, Keeps, LocalsType, locals
<1>5. ASSUME ReadDate(t) PROVE \A u \in Threads \ {t} : Keeps(u)
  BY <1>1, <1>5 DEF ReadDate, Goto, Keeps, LocalsType
<1>6. ASSUME Enter(t) PROVE \A u \in Threads \ {t} : Keeps(u)
  BY <1>1, <1>6 DEF Enter, Goto, Keeps, LocalsType
<1>7. ASSUME Seed(t) \/ Npv(t) \/ HandlerRaises(t) PROVE \A u \in Threads \ {t} : Keeps(u)
  <2>1. CASE Seed(t) \/ HandlerRaises(t)
    BY <1>3, <2>1 DEF Seed, HandlerRaises, locals
  <2>2. CASE Npv(t)
    BY <1>1, <2>2 DEF Npv, Goto, Keeps, LocalsType
  <2> QED BY <1>7, <2>1, <2>2
<1>8. ASSUME Exit(t) PROVE \A u \in Threads \ {t} : Keeps(u)
  BY <1>2, <1>3, <1>8 DEF Exit, locals
<1>9. ASSUME Put(t) \/ EnterRaises(t) PROVE \A u \in Threads \ {t} : Keeps(u)
  BY <1>2, <1>9 DEF Put, EnterRaises
<1> QED BY <1>4, <1>5, <1>6, <1>7, <1>8, <1>9

\* A step outside the lock leaves the session of whoever holds it.
LEMMA OutsideStep ==
    ASSUME LockInv, SessionInv, UNCHANGED ql, NEW t \in Threads, ~InSession(t), ~InSession(t)',
           \A u \in Threads \ {t} : Keeps(u)
    PROVE  LockInv' /\ SessionInv'
<1>1. LockInv'
  BY DEF LockInv, InSession, Keeps, ql
<1>2. SessionRestored'
  BY DEF SessionInv, SessionRestored, ql
<1>3. ASSUME NEW u \in Threads, InSession(u)' PROVE SessionOf(u)'
  <2>1. u # t /\ InSession(u) /\ Keeps(u)
    BY <1>3 DEF InSession, Keeps
  <2>2. SessionOf(u)
    BY <2>1 DEF SessionInv
  <2> QED BY <2>1, <2>2 DEF SessionOf, Keeps, ql, Miscounted
<1> QED BY <1>1, <1>2, <1>3 DEF SessionInv

\* While one thread is in its session no other is, and the lock is its own.
LEMMA InsideStep ==
    ASSUME LockInv, NEW t \in Threads, InSession(t), InSession(t)', SessionOf(t)', owner' = owner,
           \A u \in Threads \ {t} : Keeps(u)
    PROVE  LockInv' /\ SessionInv'
<1>1. owner = t /\ \A u \in Threads \ {t} : ~InSession(u)
  BY DEF LockInv
<1>2. \A u \in Threads \ {t} : ~InSession(u)'
  BY <1>1 DEF InSession, Keeps
<1>3. LockInv'
  BY <1>1, <1>2 DEF LockInv
<1>4. SessionRestored'
  BY <1>1 DEF SessionRestored
<1> QED BY <1>2, <1>3, <1>4 DEF SessionInv

\* Every step keeps the lock and what it guards, and a dated request keeps its date.
LEMMA SessionStep == ASSUME PricingInv, [Next]_vars PROVE LockInv' /\ SessionInv' /\ DateInv'
<1>1. TypeOK /\ LockInv /\ SessionInv /\ DateInv
  BY DEF PricingInv
<1>2. LocalsType /\ QlType
  BY <1>1, TypeParts
<1>3. CASE UNCHANGED vars
  BY <1>1, <1>3 DEF vars, locals, ql, LockInv, SessionInv, SessionRestored, SessionOf, DateInv, InSession, Miscounted
<1>4. ASSUME NEW t \in Threads, pc'[t] \in {"idle", "date", "put"}, \A u \in Threads \ {t} : Keeps(u)
      PROVE  DateInv'
  BY <1>1, <1>4 DEF DateInv, Keeps
<1>5. ASSUME NEW t \in Threads, pc[t] \in {"enter", "handle", "npv", "exit"}, Keeps(t) \/ (req'[t] = req[t] /\ date'[t] = date[t]),
             \A u \in Threads \ {t} : Keeps(u)
      PROVE  DateInv'
  BY <1>1, <1>5 DEF DateInv, Keeps
<1>6. ASSUME NEW t \in Threads, NEW k \in Request, NEW b \in BOOLEAN, Ask(t, k, b)
      PROVE  LockInv' /\ SessionInv' /\ DateInv'
  <2>1. \A u \in Threads \ {t} : Keeps(u)
    BY <1>1, <1>6, OthersKeep
  <2>2. pc[t] = "idle" /\ UNCHANGED ql
    BY <1>6 DEF Ask
  <2>3. pc' = pc \/ Goto(t, "date")
    BY <1>6 DEF Ask
  <2>4. pc'[t] \in {"idle", "date"}
    BY <1>2, <2>2, <2>3 DEF Goto, LocalsType
  <2>5. ~InSession(t) /\ ~InSession(t)'
    BY <2>2, <2>4 DEF InSession
  <2> QED BY <1>1, <1>4, <2>1, <2>2, <2>4, <2>5, OutsideStep
<1>7. ASSUME NEW t \in Threads, ReadDate(t) PROVE LockInv' /\ SessionInv' /\ DateInv'
  <2>1. \A u \in Threads \ {t} : Keeps(u)
    BY <1>1, <1>7, OthersKeep
  <2>2. /\ pc[t] = "date" /\ pc'[t] = "enter" /\ UNCHANGED ql /\ req' = req
        /\ date'[t] = IF req[t].asOf \in Dates THEN req[t].asOf ELSE engineDate[EngineOf[t]]
    BY <1>2, <1>7 DEF ReadDate, Goto, LocalsType
  <2>3. ~InSession(t) /\ ~InSession(t)'
    BY <2>2 DEF InSession
  <2>4. DateInv'
    BY <1>1, <2>1, <2>2 DEF DateInv, Keeps
  <2> QED BY <1>1, <2>1, <2>2, <2>3, <2>4, OutsideStep
<1>8. ASSUME NEW t \in Threads, Enter(t) PROVE LockInv' /\ SessionInv' /\ DateInv'
  <2>1. \A u \in Threads \ {t} : Keeps(u)
    BY <1>1, <1>8, OthersKeep
  <2>2. /\ pc[t] = "enter" /\ pc'[t] = "handle" /\ owner = NoThread /\ owner' = t
        /\ req' = req /\ date' = date /\ settings' = date[t] /\ date[t] \notin NoQlDates
        /\ depth' = depth + 1 /\ fixings' = IF depth = 0 THEN {} ELSE fixings
        /\ saved'[t] = [engine |-> engineDate[EngineOf[t]], settings |-> settings]
        /\ engineDate' = [engineDate EXCEPT ![EngineOf[t]] = date[t]]
    BY <1>2, <1>8 DEF Enter, CountEntry, Goto, LocalsType
  <2>3. /\ settings = Today /\ \A e \in Engines : engineDate[e] \in Resting
        /\ (\A e \in Engines : engineDate[e] = Base) => depth = 0
    BY <1>1, <2>2 DEF SessionInv, SessionRestored, Resting
  <2>4. EngineOf[t] \in Engines /\ depth \in Nat
    BY <1>2 DEF QlType
  <2>5. saved'[t].engine = engineDate[EngineOf[t]] /\ saved'[t].engine \in Resting /\ saved'[t].settings = Today
    BY <2>2, <2>3, <2>4
  <2>6. engineDate'[EngineOf[t]] = date'[t] /\ \A e \in Engines \ {EngineOf[t]} : engineDate'[e] = engineDate[e]
    BY <1>2, <2>2, <2>4 DEF QlType
  <2>7. depth' # 0 /\ (fixings' = {} \/ Miscounted')
    BY <2>2, <2>4 DEF Miscounted
  <2>8. saved'[t].engine = Base /\ (\A e \in Engines \ {EngineOf[t]} : engineDate'[e] = Base) => depth' = 1
    <3> SUFFICES ASSUME saved'[t].engine = Base, \A e \in Engines \ {EngineOf[t]} : engineDate'[e] = Base
                 PROVE  depth' = 1
      OBVIOUS
    <3>1. \A e \in Engines : engineDate[e] = Base
      BY <2>5, <2>6
    <3> QED BY <2>2, <2>3, <3>1
  <2>9. SessionOf(t)'
    BY <2>2, <2>3, <2>5, <2>6, <2>7, <2>8 DEF SessionOf, Resting
  <2>10. \A u \in Threads : ~InSession(u)
    BY <1>1, <2>2 DEF LockInv
  <2>11. \A u \in Threads \ {t} : ~InSession(u)'
    BY <2>1, <2>10 DEF InSession, Keeps
  <2>12. InSession(t)' /\ owner' # NoThread
    BY <2>2 DEF InSession
  <2>13. LockInv' /\ SessionInv'
    BY <2>2, <2>9, <2>11, <2>12 DEF LockInv, SessionInv, SessionRestored
  <2> QED BY <1>5, <2>1, <2>2, <2>13
<1>85. ASSUME NEW t \in Threads, EnterRaises(t) PROVE LockInv' /\ SessionInv' /\ DateInv'
  <2>1. \A u \in Threads \ {t} : Keeps(u)
    BY <1>1, <1>85, OthersKeep
  <2>2. /\ pc[t] = "enter" /\ pc'[t] = "idle" /\ owner = NoThread /\ owner' = owner /\ settings' = settings
        /\ date[t] \in NoQlDates /\ engineDate' = [engineDate EXCEPT ![EngineOf[t]] = date[t]]
    BY <1>2, <1>85 DEF EnterRaises, Done, Goto, LocalsType
  <2>3. settings = Today /\ \A e \in Engines : engineDate[e] \in {Base} \cup NoQlDates
    BY <1>1, <2>2 DEF SessionInv, SessionRestored
  <2>4. EngineOf[t] \in Engines /\ engineDate'[EngineOf[t]] = date[t] /\ date[t] # Base
    BY <1>2, <2>2 DEF QlType
  <2>5. \A e \in Engines : engineDate'[e] \in {Base} \cup NoQlDates
    BY <1>2, <2>2, <2>3 DEF QlType
  <2>6. SessionRestored'
    BY <2>2, <2>3, <2>4, <2>5 DEF SessionRestored
  <2>7. \A u \in Threads : ~InSession(u)'
    BY <1>1, <2>1, <2>2 DEF LockInv, InSession, Keeps
  <2> QED BY <1>4, <2>1, <2>2, <2>6, <2>7 DEF LockInv, SessionInv
<1>9. ASSUME NEW t \in Threads, Seed(t) PROVE LockInv' /\ SessionInv' /\ DateInv'
  <2>1. \A u \in Threads \ {t} : Keeps(u)
    BY <1>1, <1>9, OthersKeep
  <2>2. /\ pc[t] = "handle" /\ pc'[t] = "npv" /\ UNCHANGED <<locals, owner, depth, engineDate, settings>>
        /\ fixings' = IF req[t].item \in Swaps THEN fixings \cup {req[t].item} ELSE fixings
    BY <1>2, <1>9 DEF Seed, Goto, LocalsType
  <2>3. InSession(t) /\ InSession(t)'
    BY <2>2 DEF InSession
  <2>4. SessionOf(t)
    BY <1>1, <2>3 DEF SessionInv
  <2>5. {req[t].item} \cap Swaps \subseteq fixings' /\ (fixings' = {req[t].item} \cap Swaps \/ Miscounted')
    BY <2>2, <2>4 DEF SessionOf, Miscounted
  <2>6. SessionOf(t)'
    BY <2>2, <2>4, <2>5 DEF SessionOf, locals
  <2> QED BY <1>1, <1>5, <2>1, <2>2, <2>3, <2>6, InsideStep DEF locals
<1>10. ASSUME NEW t \in Threads, Npv(t) \/ HandlerRaises(t) PROVE LockInv' /\ SessionInv' /\ DateInv'
  <2>1. \A u \in Threads \ {t} : Keeps(u)
    BY <1>1, <1>10, OthersKeep
  <2>2. pc[t] \in {"handle", "npv"} /\ pc'[t] = "exit" /\ UNCHANGED <<req, date, saved, ql>>
    BY <1>2, <1>10 DEF Npv, HandlerRaises, Goto, LocalsType, locals
  <2>3. InSession(t) /\ InSession(t)'
    BY <2>2 DEF InSession
  <2>4. SessionOf(t)
    BY <1>1, <2>3 DEF SessionInv
  <2>5. SessionOf(t)'
    BY <2>2, <2>4 DEF SessionOf, ql
  <2> QED BY <1>1, <1>5, <2>1, <2>2, <2>3, <2>5, InsideStep DEF ql
<1>11. ASSUME NEW t \in Threads, Exit(t) PROVE LockInv' /\ SessionInv' /\ DateInv'
  <2>1. \A u \in Threads \ {t} : Keeps(u)
    BY <1>1, <1>11, OthersKeep
  <2>2. /\ pc[t] = "exit" /\ owner' = NoThread /\ settings' = saved[t].settings
        /\ depth' = depth - 1 /\ fixings' = IF depth = 1 THEN {} ELSE fixings
        /\ engineDate' = [engineDate EXCEPT ![EngineOf[t]] = saved[t].engine]
    BY <1>11 DEF Exit, CountExit
  <2>3. Goto(t, "put") \/ Goto(t, "idle")
    BY <1>11 DEF Exit, Done
  <2>4. pc'[t] \in {"put", "idle"}
    BY <1>2, <2>3 DEF Goto, LocalsType
  <2>5. InSession(t) /\ ~InSession(t)'
    BY <2>2, <2>4 DEF InSession
  <2>6. SessionOf(t) /\ \A u \in Threads \ {t} : ~InSession(u)
    BY <1>1, <2>5 DEF SessionInv, LockInv
  <2>7. \A u \in Threads : ~InSession(u)'
    BY <2>1, <2>5, <2>6 DEF InSession, Keeps
  <2>8. EngineOf[t] \in Engines
    OBVIOUS
  <2>9. /\ engineDate'[EngineOf[t]] = saved[t].engine
        /\ \A e \in Engines \ {EngineOf[t]} : engineDate'[e] = engineDate[e]
    BY <1>2, <2>2, <2>8 DEF QlType
  <2>10. settings' = Today /\ \A e \in Engines : engineDate'[e] \in {Base} \cup NoQlDates
    BY <2>2, <2>6, <2>9 DEF SessionOf, Resting
  <2>11. (\A e \in Engines : engineDate'[e] = Base) => depth' = 0 /\ fixings' = {}
    BY <2>2, <2>6, <2>8, <2>9 DEF SessionOf
  <2>12. LockInv' /\ SessionInv'
    BY <2>2, <2>7, <2>10, <2>11 DEF LockInv, SessionInv, SessionRestored
  <2> QED BY <1>4, <2>1, <2>4, <2>12
<1>12. ASSUME NEW t \in Threads, Put(t) PROVE LockInv' /\ SessionInv' /\ DateInv'
  <2>1. \A u \in Threads \ {t} : Keeps(u)
    BY <1>1, <1>12, OthersKeep
  <2>2. pc[t] = "put" /\ UNCHANGED ql /\ pc'[t] = "idle"
    BY <1>2, <1>12 DEF Put, Done, Goto, LocalsType
  <2>3. ~InSession(t) /\ ~InSession(t)'
    BY <2>2 DEF InSession
  <2> QED BY <1>1, <1>4, <2>1, <2>2, <2>3, OutsideStep
<1> QED BY <1>3, <1>6, <1>7, <1>8, <1>85, <1>9, <1>10, <1>11, <1>12 DEF Next, AllAnswered

-----------------------------------------------------------------------------
(* Prices, answers and the cache step by step.                             *)

\* What is counted too much stays so.
LEMMA MiscountedStays == ASSUME PricingInv, [Next]_vars, Miscounted PROVE Miscounted'
<1>1. depth \in Nat /\ depth > (IF owner = NoThread THEN 0 ELSE 1)
  BY DEF PricingInv, TypeOK, Miscounted
<1>2. ASSUME NEW t \in Threads, Enter(t) \/ EnterRaises(t) PROVE Miscounted'
  BY <1>1, <1>2 DEF Enter, EnterRaises, CountEntry, Miscounted
<1>3. ASSUME NEW t \in Threads, Exit(t) PROVE Miscounted'
  <2>1. owner = t /\ owner # NoThread
    BY <1>3 DEF Exit, PricingInv, LockInv, InSession
  <2> QED BY <1>1, <1>3, <2>1 DEF Exit, CountExit, Miscounted
<1>4. CASE UNCHANGED <<depth, owner>>
  BY <1>4 DEF Miscounted
<1> QED BY <1>2, <1>3, <1>4 DEF Next, AllAnswered, Ask, ReadDate, Seed, Npv, HandlerRaises, Put, vars, ql

\* A right answer to one thread leaves every answer right.
LEMMA AnswerStep ==
    ASSUME Miscounted => Miscounted', AnswerType, AnswerInv, NEW t \in Threads, NEW k, NEW v, Answer(t, k, v),
           v # NoPrice => Right(k, v)
    PROVE  AnswerInv'
<1> SUFFICES ASSUME NEW u \in Threads, answer'[u].price # NoPrice
             PROVE  Right(answer'[u].req, answer'[u].price)
  BY DEF AnswerInv, Right, PricedOn
<1>1. CASE u = t
  <2>1. answer'[u] = [req |-> k, price |-> v]
    BY <1>1 DEF Answer, AnswerType
  <2> QED BY <2>1
<1>2. CASE u # t
  <2>1. answer'[u] = answer[u]
    BY <1>2 DEF Answer, AnswerType
  <2> QED BY <2>1 DEF AnswerInv
<1> QED BY <1>1, <1>2

\* A hit reorders a sound cache into a sound one.
LEMMA TouchKeeps ==
    ASSUME CacheType, NEW e \in Engines, CacheOf(cache[e]), NEW i \in DOMAIN cache[e]
    PROVE  CacheOf(Touch(e, i))
<1> DEFINE s == cache[e]
           n == Len(s)
           w == Touch(e, i)
<1>1. /\ s \in Seq(Entry) /\ n \in Nat /\ DOMAIN s = 1..n /\ i \in 1..n
  BY DEF CacheType
<1>2. /\ w \in Seq(Entry) /\ Len(w) = n
      /\ \A j \in 1..n : w[j] = s[From(j, i, n)]
  BY <1>1, TouchShape
<1>3. DOMAIN w = 1..n
  BY <1>2
<1>4. n <= MaxSize
  BY DEF CacheOf
<1>5. \A j, h \in 1..n : s[j].key = s[h].key => j = h
  BY <1>1 DEF CacheOf
<1>6. \A j \in 1..n : Right(s[j].key, s[j].price)
  BY <1>1 DEF CacheOf
<1> HIDE DEF s, n, w
<1>7. ASSUME NEW j \in 1..n, NEW h \in 1..n, w[j].key = w[h].key PROVE j = h
  <2>1. From(j, i, n) \in 1..n /\ From(h, i, n) \in 1..n
    BY <1>1, FromInjective
  <2>2. From(j, i, n) = From(h, i, n)
    BY <1>2, <1>5, <1>7, <2>1
  <2> QED BY <1>1, <2>2, FromInjective
<1>8. ASSUME NEW j \in 1..n PROVE Right(w[j].key, w[j].price)
  <2>1. From(j, i, n) \in 1..n
    BY <1>1, FromInjective
  <2> QED BY <1>2, <1>6, <2>1
<1>9. CacheOf(w)
  BY <1>2, <1>3, <1>4, <1>7, <1>8 DEF CacheOf
<1> QED BY <1>9 DEF w

\* A right price under a new key leaves a sound cache sound.
LEMMA PutKeeps ==
    ASSUME CacheType, NEW e \in Engines, CacheOf(cache[e]), NEW k \in Request, NEW v \in Price,
           Hits(e, k) = {}, Right(k, v)
    PROVE  CacheOf(PutIn(e, k, v))
<1> DEFINE s == cache[e]
           w == PutIn(e, k, v)
           m == Len(w)
<1>1. s \in Seq(Entry) /\ DOMAIN s = 1..Len(s) /\ Len(s) \in Nat
  BY DEF CacheType
<1>2. Len(s) <= MaxSize
  BY DEF CacheOf
<1>3. w \in Seq(Entry) /\ m \in 1..MaxSize /\ w[m] = [key |-> k, price |-> v]
  BY <1>2, PutShape
<1>4. PICK d \in {0, 1} : \A j \in 1..m - 1 : j + d \in DOMAIN s /\ w[j] = s[j + d]
  <2>1. MovedUp(w, s)
    BY <1>2, PutShape
  <2> HIDE DEF w, s
  <2> QED BY <2>1 DEF MovedUp, m
<1>5. DOMAIN w = 1..m /\ m \in Nat /\ m <= MaxSize
  BY <1>3
<1>6. \A j, h \in DOMAIN s : s[j].key = s[h].key => j = h
  BY DEF CacheOf
<1>7. \A j \in DOMAIN s : Right(s[j].key, s[j].price)
  BY DEF CacheOf
<1>8. \A j \in DOMAIN s : s[j].key # k
  BY DEF Hits
<1> HIDE DEF s, w, m
<1>9. w[m].key = k /\ w[m].price = v
  BY <1>3
<1>10. \A j \in 1..m - 1 : w[j].key # k
  BY <1>4, <1>8
<1>11. ASSUME NEW j \in 1..m, NEW h \in 1..m, w[j].key = w[h].key PROVE j = h
  <2>1. CASE j = m \/ h = m
    <3>1. (j = m \/ j \in 1..m - 1) /\ (h = m \/ h \in 1..m - 1)
      BY <1>5
    <3> QED BY <1>9, <1>10, <1>11, <2>1, <3>1
  <2>2. CASE j # m /\ h # m
    <3>1. j \in 1..m - 1 /\ h \in 1..m - 1
      BY <1>5, <2>2
    <3>2. j + d \in DOMAIN s /\ h + d \in DOMAIN s /\ w[j] = s[j + d] /\ w[h] = s[h + d]
      BY <1>4, <3>1
    <3>3. j + d = h + d
      BY <1>6, <1>11, <3>2
    <3>4. j \in Int /\ h \in Int /\ d \in Int
      BY <1>5
    <3> QED BY <3>3, <3>4
  <2> QED BY <2>1, <2>2
<1>12. ASSUME NEW j \in 1..m PROVE Right(w[j].key, w[j].price)
  <2>1. CASE j = m
    BY <1>9, <2>1
  <2>2. CASE j # m
    <3>1. j \in 1..m - 1
      BY <1>5, <2>2
    <3> QED BY <1>4, <1>7, <3>1
  <2> QED BY <2>1, <2>2
<1>13. CacheOf(w)
  BY <1>5, <1>11, <1>12 DEF CacheOf, m
<1> QED BY <1>13 DEF w

\* Only the stepping thread's price and place matter to PriceInv.
LEMMA PriceKeep ==
    ASSUME Miscounted => Miscounted', PriceInv, NEW t \in Threads, \A u \in Threads \ {t} : Keeps(u),
           pc'[t] \in {"idle", "date", "enter", "handle", "npv"} => price'[t] = NoPrice,
           pc'[t] = "put" => price'[t] # NoPrice,
           price'[t] # NoPrice => Right(req'[t], price'[t])
    PROVE  PriceInv'
<1>1. ASSUME NEW u \in Threads \ {t}
      PROVE  /\ pc'[u] \in {"idle", "date", "enter", "handle", "npv"} => price'[u] = NoPrice
             /\ pc'[u] = "put" => price'[u] # NoPrice
             /\ price'[u] # NoPrice => Right(req'[u], price'[u])
  BY DEF PriceInv, Keeps
<1> QED BY <1>1 DEF PriceInv, Right, PricedOn

\* Every step keeps prices, answers and cached entries right.
LEMMA PriceStep == ASSUME PricingInv, [Next]_vars PROVE PriceInv' /\ AnswerInv' /\ CacheInv'
<1>1. TypeOK /\ PriceInv /\ AnswerInv /\ CacheInv /\ (Miscounted => Miscounted')
  BY MiscountedStays DEF PricingInv
<1>2. LocalsType /\ AnswerType /\ QlType /\ CacheType
  BY <1>1, TypeParts
<1>3. CASE UNCHANGED vars
  BY <1>1, <1>3 DEF vars, locals, PriceInv, AnswerInv, CacheInv, CacheOf, Right, PricedOn
<1>4. ASSUME UNCHANGED answer PROVE AnswerInv'
  BY <1>1, <1>4 DEF AnswerInv, Right, PricedOn
<1>5. ASSUME UNCHANGED cache PROVE CacheInv'
  BY <1>1, <1>5 DEF CacheInv, CacheOf, Right, PricedOn
<1>6. ASSUME NEW e \in Engines, NEW s, CacheOf(s), cache' = [cache EXCEPT ![e] = s] PROVE CacheInv'
  <2> SUFFICES ASSUME NEW f \in Engines PROVE CacheOf(cache'[f])
    BY <1>1 DEF CacheInv, CacheOf, Right, PricedOn
  <2>1. cache'[f] = s \/ cache'[f] = cache[f]
    BY <1>2, <1>6 DEF CacheType
  <2> QED BY <1>1, <1>6, <2>1 DEF CacheInv
<1>7. ASSUME NEW t \in Threads, NEW k \in Request, NEW b \in BOOLEAN, Ask(t, k, b)
      PROVE  PriceInv' /\ AnswerInv' /\ CacheInv'
  <2> DEFINE e == EngineOf[t]
  <2>1. e \in Engines
    OBVIOUS
  <2> HIDE DEF e
  <2>2. \A u \in Threads \ {t} : Keeps(u)
    BY <1>1, <1>7, OthersKeep
  <2>3. pc[t] = "idle" /\ price[t] = NoPrice /\ price' = price
    BY <1>1, <1>7 DEF Ask, PriceInv, locals
  <2>4. CASE ~b /\ Hits(e, k) # {}
    <3>1. PICK i \in Hits(e, k) :
             /\ cache' = [cache EXCEPT ![e] = Touch(e, i)]
             /\ Answer(t, k, cache[e][i].price)
             /\ UNCHANGED <<pc, locals>>
      BY <1>7, <2>4 DEF Ask, e
    <3>2. i \in DOMAIN cache[e] /\ cache[e][i].key = k
      BY DEF Hits
    <3>3. Right(k, cache[e][i].price)
      BY <1>1, <2>1, <3>2 DEF CacheInv, CacheOf
    <3>4. AnswerInv'
      BY <1>1, <1>2, <3>1, <3>3, AnswerStep
    <3>5. CacheOf(Touch(e, i))
      BY <1>1, <1>2, <2>1, <3>2, TouchKeeps DEF CacheInv
    <3>6. CacheInv'
      BY <1>6, <2>1, <3>1, <3>5
    <3>7. PriceInv'
      BY <1>1, <3>1 DEF PriceInv, Right, PricedOn, locals
    <3> QED BY <3>4, <3>6, <3>7
  <2>5. CASE ~(~b /\ Hits(e, k) # {})
    <3>1. /\ Goto(t, "date") /\ answer' = [answer EXCEPT ![t] = NoAnswer] /\ UNCHANGED cache
      BY <1>7, <2>5 DEF Ask, e
    <3>2. pc'[t] = "date"
      BY <1>2, <3>1 DEF Goto, LocalsType
    <3>3. PriceInv'
      BY <1>1, <2>2, <2>3, <3>2, PriceKeep
    <3>4. Answer(t, NoRequest, NoPrice)
      BY <3>1 DEF Answer, NoAnswer
    <3>5. AnswerInv'
      BY <1>1, <1>2, <3>4, AnswerStep
    <3> QED BY <1>5, <3>1, <3>3, <3>5
  <2> QED BY <2>4, <2>5
<1>75. ASSUME NEW t \in Threads, EnterRaises(t) PROVE PriceInv' /\ AnswerInv' /\ CacheInv'
  <2>1. \A u \in Threads \ {t} : Keeps(u)
    BY <1>1, <1>75, OthersKeep
  <2>2. Done(t) /\ Answer(t, req[t], NoPrice) /\ UNCHANGED cache
    BY <1>75 DEF EnterRaises
  <2>3. pc'[t] = "idle" /\ price'[t] = NoPrice
    BY <1>2, <2>2 DEF Done, Goto, LocalsType
  <2>4. PriceInv'
    BY <1>1, <2>1, <2>3, PriceKeep
  <2>5. AnswerInv'
    BY <1>1, <1>2, <2>2, AnswerStep
  <2> QED BY <1>5, <2>2, <2>4, <2>5
<1>8. ASSUME NEW t \in Threads, ReadDate(t) \/ Enter(t) \/ Seed(t) \/ HandlerRaises(t)
      PROVE  PriceInv' /\ AnswerInv' /\ CacheInv'
  <2>1. \A u \in Threads \ {t} : Keeps(u)
    BY <1>1, <1>8, OthersKeep
  <2>2. /\ pc[t] \in {"date", "enter", "handle", "npv"} /\ pc'[t] \in {"enter", "handle", "npv", "exit"}
        /\ price' = price /\ UNCHANGED <<answer, cache>>
    BY <1>2, <1>8 DEF ReadDate, Enter, Seed, HandlerRaises, Goto, LocalsType, locals
  <2>3. price[t] = NoPrice
    BY <1>1, <2>2 DEF PriceInv
  <2>4. PriceInv'
    BY <1>1, <2>1, <2>2, <2>3, PriceKeep
  <2> QED BY <1>4, <1>5, <2>2, <2>4
<1>9. ASSUME NEW t \in Threads, Npv(t) PROVE PriceInv' /\ AnswerInv' /\ CacheInv'
  <2> DEFINE v == [item |-> req[t].item, engine |-> engineDate[EngineOf[t]],
                   settings |-> settings, fixings |-> fixings]
  <2>1. \A u \in Threads \ {t} : Keeps(u)
    BY <1>1, <1>9, OthersKeep
  <2>2. pc[t] = "npv" /\ pc'[t] = "exit" /\ price'[t] = v /\ req' = req /\ UNCHANGED <<answer, cache>>
    BY <1>2, <1>9 DEF Npv, Goto, LocalsType
  <2>3. SessionOf(t)
    BY <2>2 DEF PricingInv, SessionInv, InSession
  <2>4. /\ v.item = req[t].item /\ v.engine = date[t] /\ v.settings = date[t] /\ date[t] \notin NoQlDates
        /\ {req[t].item} \cap Swaps \subseteq v.fixings
        /\ v.fixings = {req[t].item} \cap Swaps \/ Miscounted
    BY <2>2, <2>3 DEF SessionOf
  <2>5. req[t].asOf \in Dates => date[t] = req[t].asOf
    BY <2>2 DEF PricingInv, DateInv
  <2>6. Right(req'[t], price'[t])
    BY <2>2, <2>4, <2>5 DEF Right, PricedOn
  <2>7. PriceInv'
    BY <1>1, <2>1, <2>2, <2>6, PriceKeep
  <2> QED BY <1>4, <1>5, <2>2, <2>7
<1>10. ASSUME NEW t \in Threads, Exit(t) PROVE PriceInv' /\ AnswerInv' /\ CacheInv'
  <2>1. \A u \in Threads \ {t} : Keeps(u)
    BY <1>1, <1>10, OthersKeep
  <2>2. UNCHANGED cache
    BY <1>10 DEF Exit
  <2>3. CASE price[t] # NoPrice /\ ~bypass[t]
    <3>1. Goto(t, "put") /\ UNCHANGED <<locals, answer>>
      BY <1>10, <2>3 DEF Exit
    <3>2. pc'[t] = "put" /\ price'[t] = price[t] /\ req'[t] = req[t]
      BY <1>2, <3>1 DEF Goto, LocalsType, locals
    <3>3. Right(req[t], price[t])
      BY <1>1, <2>3 DEF PriceInv
    <3>4. PriceInv'
      BY <1>1, <2>1, <2>3, <3>2, <3>3, PriceKeep
    <3> QED BY <1>4, <1>5, <2>2, <3>1, <3>4
  <2>4. CASE ~(price[t] # NoPrice /\ ~bypass[t])
    <3>1. Done(t) /\ Answer(t, req[t], price[t])
      BY <1>10, <2>4 DEF Exit
    <3>2. pc'[t] = "idle" /\ price'[t] = NoPrice
      BY <1>2, <3>1 DEF Done, Goto, LocalsType
    <3>3. PriceInv'
      BY <1>1, <2>1, <3>2, PriceKeep
    <3>4. price[t] # NoPrice => Right(req[t], price[t])
      BY <1>1 DEF PriceInv
    <3>5. AnswerInv'
      BY <1>1, <1>2, <3>1, <3>4, AnswerStep
    <3> QED BY <1>5, <2>2, <3>3, <3>5
  <2> QED BY <2>3, <2>4
<1>11. ASSUME NEW t \in Threads, Put(t) PROVE PriceInv' /\ AnswerInv' /\ CacheInv'
  <2> DEFINE e == EngineOf[t]
  <2>1. e \in Engines
    OBVIOUS
  <2> HIDE DEF e
  <2>2. \A u \in Threads \ {t} : Keeps(u)
    BY <1>1, <1>11, OthersKeep
  <2>3. pc[t] = "put" /\ pc'[t] = "idle" /\ price'[t] = NoPrice
    BY <1>2, <1>11 DEF Put, Done, Goto, LocalsType
  <2>4. PriceInv'
    BY <1>1, <2>2, <2>3, PriceKeep
  <2>5. price[t] \in Price /\ req[t] \in Request /\ Right(req[t], price[t])
    BY <1>1, <1>2, <2>3 DEF PriceInv, LocalsType
  <2>6. CASE Hits(e, req[t]) # {}
    <3>1. PICK i \in Hits(e, req[t]) :
             /\ cache' = [cache EXCEPT ![e] = Touch(e, i)]
             /\ Answer(t, req[t], cache[e][i].price)
      BY <1>11, <2>6 DEF Put, e
    <3>2. i \in DOMAIN cache[e] /\ cache[e][i].key = req[t]
      BY DEF Hits
    <3>3. Right(req[t], cache[e][i].price)
      BY <1>1, <2>1, <3>2 DEF CacheInv, CacheOf
    <3>4. AnswerInv'
      BY <1>1, <1>2, <3>1, <3>3, AnswerStep
    <3>5. CacheOf(Touch(e, i))
      BY <1>1, <1>2, <2>1, <3>2, TouchKeeps DEF CacheInv
    <3>6. CacheInv'
      BY <1>6, <2>1, <3>1, <3>5
    <3> QED BY <2>4, <3>4, <3>6
  <2>7. CASE ~(Hits(e, req[t]) # {})
    <3>1. /\ cache' = [cache EXCEPT ![e] = PutIn(e, req[t], price[t])]
          /\ Answer(t, req[t], price[t])
      BY <1>11, <2>7 DEF Put, e
    <3>2. AnswerInv'
      BY <1>1, <1>2, <2>5, <3>1, AnswerStep
    <3>3. CacheOf(PutIn(e, req[t], price[t]))
      BY <1>1, <1>2, <2>1, <2>5, <2>7, PutKeeps DEF CacheInv
    <3>4. CacheInv'
      BY <1>6, <2>1, <3>1, <3>3
    <3> QED BY <2>4, <3>2, <3>4
  <2> QED BY <2>6, <2>7
<1> QED BY <1>3, <1>7, <1>75, <1>8, <1>9, <1>10, <1>11 DEF Next, AllAnswered

-----------------------------------------------------------------------------
(* What is cached under a key stays.                                       *)

Stable(s, w) == \A i \in DOMAIN s, j \in DOMAIN w : s[i].key = w[j].key => w[j] = s[i]

\* A hit moves entries and changes none.
LEMMA TouchStable ==
    ASSUME CacheType, NEW e \in Engines, CacheOf(cache[e]), NEW i \in DOMAIN cache[e]
    PROVE  Stable(cache[e], Touch(e, i))
<1> SUFFICES ASSUME NEW j \in DOMAIN cache[e], NEW h \in DOMAIN Touch(e, i),
                    cache[e][j].key = Touch(e, i)[h].key
             PROVE  Touch(e, i)[h] = cache[e][j]
  BY DEF Stable
<1> DEFINE n == Len(cache[e])
<1>1. DOMAIN cache[e] = 1..n /\ n \in Nat
  BY DEF CacheType
<1>2. h \in 1..n /\ Touch(e, i)[h] = cache[e][From(h, i, n)]
  BY <1>1, TouchShape
<1> HIDE DEF n
<1>3. From(h, i, n) \in DOMAIN cache[e]
  BY <1>1, <1>2, FromInjective
<1>4. From(h, i, n) = j
  BY <1>2, <1>3 DEF CacheOf
<1> QED BY <1>2, <1>4

\* A new key leaves the entries of the others.
LEMMA PutStable ==
    ASSUME CacheType, NEW e \in Engines, CacheOf(cache[e]), NEW k \in Request, NEW v \in Price,
           Hits(e, k) = {}
    PROVE  Stable(cache[e], PutIn(e, k, v))
<1> SUFFICES ASSUME NEW i \in DOMAIN cache[e], NEW j \in DOMAIN PutIn(e, k, v),
                    cache[e][i].key = PutIn(e, k, v)[j].key
             PROVE  PutIn(e, k, v)[j] = cache[e][i]
  BY DEF Stable
<1> DEFINE s == cache[e]
           w == PutIn(e, k, v)
           m == Len(w)
<1>1. Len(s) <= MaxSize
  BY DEF CacheOf
<1>2. w \in Seq(Entry) /\ m \in 1..MaxSize /\ w[m] = [key |-> k, price |-> v] /\ MovedUp(w, s)
  BY <1>1, PutShape
<1>3. i \in DOMAIN s /\ j \in 1..m /\ m \in Nat /\ s[i].key = w[j].key /\ s[i].key # k
  BY <1>2 DEF Hits
<1>4. \A a, b \in DOMAIN s : s[a].key = s[b].key => a = b
  BY DEF CacheOf
<1>5. w[j] = s[i]
  <2> HIDE DEF w, s
  <2>1. PICK d \in {0, 1} : \A a \in 1..m - 1 : a + d \in DOMAIN s /\ w[a] = s[a + d]
    BY <1>2 DEF MovedUp
  <2> HIDE DEF m
  <2>2. j # m
    BY <1>2, <1>3
  <2>3. j \in 1..m - 1
    BY <1>3, <2>2
  <2>4. j + d \in DOMAIN s /\ w[j] = s[j + d]
    BY <2>1, <2>3
  <2>5. j + d = i
    BY <1>3, <1>4, <2>4
  <2> QED BY <2>4, <2>5
<1> QED BY <1>5

\* Every step keeps what is cached under a key, unless it is evicted.
LEMMA StableStep ==
    ASSUME PricingInv, [Next]_vars
    PROVE  \A e \in Engines : Stable(cache[e], cache'[e])
<1>1. TypeOK /\ CacheInv /\ PriceInv
  BY DEF PricingInv
<1>2. LocalsType /\ CacheType
  BY <1>1, TypeParts
<1>3. ASSUME NEW e \in Engines PROVE Stable(cache[e], cache[e])
  BY <1>1, <1>3 DEF CacheInv, CacheOf, Stable
<1>4. ASSUME NEW e \in Engines, NEW w, Stable(cache[e], w), cache' = [cache EXCEPT ![e] = w]
      PROVE  \A f \in Engines : Stable(cache[f], cache'[f])
  <2> SUFFICES ASSUME NEW f \in Engines PROVE Stable(cache[f], cache'[f])
    OBVIOUS
  <2>1. CASE f = e
    BY <1>2, <1>4, <2>1 DEF CacheType
  <2>2. CASE f # e
    BY <1>2, <1>3, <1>4, <2>2 DEF CacheType
  <2> QED BY <2>1, <2>2
<1>5. CASE UNCHANGED cache
  BY <1>3, <1>5
<1>6. ASSUME NEW t \in Threads, NEW e \in Engines, e = EngineOf[t], NEW k \in Request, NEW i \in Hits(e, k),
             cache' = [cache EXCEPT ![e] = Touch(e, i)]
      PROVE  \A f \in Engines : Stable(cache[f], cache'[f])
  <2>1. i \in DOMAIN cache[e]
    BY <1>6 DEF Hits
  <2> QED BY <1>1, <1>2, <1>4, <1>6, <2>1, TouchStable DEF CacheInv
<1>7. ASSUME NEW t \in Threads, NEW k \in Request, NEW b \in BOOLEAN, Ask(t, k, b)
      PROVE  \A f \in Engines : Stable(cache[f], cache'[f])
  <2>1. EngineOf[t] \in Engines
    OBVIOUS
  <2>2. UNCHANGED cache \/ \E i \in Hits(EngineOf[t], k) :
                              cache' = [cache EXCEPT ![EngineOf[t]] = Touch(EngineOf[t], i)]
    BY <1>7 DEF Ask
  <2> QED BY <1>5, <1>6, <2>1, <2>2
<1>8. ASSUME NEW t \in Threads, Put(t) PROVE \A f \in Engines : Stable(cache[f], cache'[f])
  <2>1. EngineOf[t] \in Engines
    OBVIOUS
  <2>2. req[t] \in Request /\ price[t] \in Price
    BY <1>1, <1>2, <1>8 DEF Put, PriceInv, LocalsType
  <2>3. CASE Hits(EngineOf[t], req[t]) # {}
    <3>1. \E i \in Hits(EngineOf[t], req[t]) : cache' = [cache EXCEPT ![EngineOf[t]] = Touch(EngineOf[t], i)]
      BY <1>8, <2>3 DEF Put
    <3> QED BY <1>6, <2>1, <2>2, <3>1
  <2>4. CASE Hits(EngineOf[t], req[t]) = {}
    <3>1. cache' = [cache EXCEPT ![EngineOf[t]] = PutIn(EngineOf[t], req[t], price[t])]
      BY <1>8, <2>4 DEF Put
    <3>2. CacheOf(cache[EngineOf[t]])
      BY <1>1, <2>1 DEF CacheInv
    <3>3. Stable(cache[EngineOf[t]], PutIn(EngineOf[t], req[t], price[t]))
      BY <1>2, <2>1, <2>2, <2>4, <3>2, PutStable
    <3> QED BY <1>4, <2>1, <3>1, <3>3
  <2> QED BY <2>3, <2>4
<1>9. ASSUME NEW t \in Threads,
             ReadDate(t) \/ Enter(t) \/ EnterRaises(t) \/ Seed(t) \/ Npv(t) \/ HandlerRaises(t) \/ Exit(t)
      PROVE  UNCHANGED cache
  BY <1>9 DEF ReadDate, Enter, EnterRaises, Seed, Npv, HandlerRaises, Exit
<1> QED BY <1>5, <1>7, <1>8, <1>9 DEF Next, AllAnswered, vars

-----------------------------------------------------------------------------
(* The theorems.                                                           *)

\* The inductive invariant of sessions and caches holds always.
THEOREM PricingInvariant == Spec => []PricingInv
<1>1. PricingInv /\ [Next]_vars => PricingInv'
  BY TypeStep, SessionStep, PriceStep DEF PricingInv
<1> QED BY <1>1, PricingInvInit, PTL DEF Spec

\* Type correctness (pricing/cache.py, pricing/quantlib.py).
THEOREM PricingTypeCorrect == Spec => []TypeOK
<1>1. PricingInv => TypeOK
  BY DEF PricingInv
<1> QED BY <1>1, PricingInvariant, PTL

\* Between sessions QuantLib's date is the initial one, an engine is off its date
\* only at a day without a ql.Date, and nothing else is left of a session while
\* none is (_session), for any number of threads, raising handlers and sessions
\* that could not be entered.
THEOREM SessionAlwaysRestored == Spec => []SessionRestored
<1>1. PricingInv => SessionRestored
  BY DEF PricingInv, SessionInv
<1> QED BY <1>1, PricingInvariant, PTL

\* A request that names a calendar date is priced on it, whichever threads, cached
\* entries and failed sessions it met, and from its own fixings alone unless a
\* session could not be entered (session_date, _session, value).
THEOREM DatedAnswersAlwaysRight == Spec => []DatedAnswersRight
<1>1. PricingInv => DatedAnswersRight
  BY DEF PricingInv, AnswerInv, DatedAnswersRight, Right, PricedAlone
<1> QED BY <1>1, PricingInvariant, PTL

\* The cache keeps its size and holds a key once, each price computed on one date
\* that QuantLib has, with its own fixings alone unless a session could not be
\* entered (_get and _put under the cache's lock).
THEOREM CacheAlwaysSound == Spec => []CacheIsSound
<1>1. PricingInv => CacheIsSound
  BY DEF PricingInv, CacheInv, CacheOf, CacheIsSound, Right, PricedAlone
<1> QED BY <1>1, PricingInvariant, PTL

\* What the first writer cached under a key stays until it is evicted (_put).
THEOREM EntriesAlwaysStable == Spec => EntriesStable
<1>1. PricingInv /\ [Next]_vars
         => [\A e \in Engines : \A i \in DOMAIN cache[e], j \in DOMAIN cache'[e] :
                cache[e][i].key = cache'[e][j].key => cache'[e][j] = cache[e][i]]_cache
  BY StableStep DEF Stable
<1> QED BY <1>1, PricingInvariant, PTL DEF Spec, EntriesStable
=============================================================================
