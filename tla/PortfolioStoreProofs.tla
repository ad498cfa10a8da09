------------------------- MODULE PortfolioStoreProofs -------------------------
(***************************************************************************)
(* Safety theorems about PortfolioStore for any number of requests and     *)
(* trades, however the requests overlap.                                   *)
(***************************************************************************)
EXTENDS PortfolioStore, FiniteSetTheorems, TLAPS

-----------------------------------------------------------------------------
(* The inductive invariant.                                                *)

\* A trades row is in the store only if its writer has committed, so whoever
\* has read one has read it from such a writer.
SeenInv == \A w \in Requests : \A t \in seen[w].trades : pc[t.by] \in Committed

\* Once something is committed the portfolio is stored, and stays.
CreatedInv == (\E w \in Requests : pc[w] \in Committed) => row # NoRow

\* What a request alone in progress has read of the store is still so.
Position(w) ==
    /\ pc[w] = "insert" => row = NoRow
    /\ pc[w] \in {"loadOld", "write"} => row # NoRow /\ seen[w].version = row.version
    /\ pc[w] = "write" => seen[w].trades = trades

\* While requests come one after another there is at most one in progress.
SerialInv == ~overlapped => (\A u, w \in Busy : u = w) /\ \A w \in Requests : Position(w)

\* However requests overlap.
OverlapInv == WritesAreWhole /\ SeenInv /\ SupersededTradesGone /\ CreatedInv /\ CreatedOnce

StoreInv == TypeOK /\ OverlapInv /\ SerialInv /\ SerialBook

-----------------------------------------------------------------------------
(* Every step is of one request.                                           *)

Arrival(w) ==
    \/ \E ids \in SUBSET TradeIds : Arrive(w, "toCreate", 1, ids)
    \/ \E v \in 1..MaxVersion, ids \in SUBSET TradeIds : Arrive(w, "toUpdate", v, ids)
    \/ Arrive(w, "toGet", 1, {})

\* A step is the stutter of a finished store or one request's.
LEMMA StepOfOne ==
    ASSUME Next
    PROVE  UNCHANGED vars \/ \E w \in Requests : Arrival(w) \/ Request(w)
BY DEF Next, Arrival, AllAnswered

\* What a request does when it arrives.
Arrived(w) ==
    /\ pc[w] = "new"
    /\ \E l \in {"toCreate", "toUpdate", "toGet"} : pc' = [pc EXCEPT ![w] = l]
    /\ \E b \in [version : 1..MaxVersion, ids : SUBSET TradeIds] : body' = [body EXCEPT ![w] = b]
    /\ overlapped' = (overlapped \/ Busy # {})
    /\ UNCHANGED <<row, trades, seen>>

\* An arriving request brings a body of the right shape.
LEMMA ArriveShape ==
    ASSUME NEW w \in Requests, NEW l \in {"toCreate", "toUpdate", "toGet"},
           NEW v \in 1..MaxVersion, NEW ids \in SUBSET TradeIds, Arrive(w, l, v, ids)
    PROVE  Arrived(w)
<1>1. body' = [body EXCEPT ![w] = [version |-> v, ids |-> ids]]
  BY DEF Arrive
<1>2. [version |-> v, ids |-> ids] \in [version : 1..MaxVersion, ids : SUBSET TradeIds]
  OBVIOUS
<1>3. \E b \in [version : 1..MaxVersion, ids : SUBSET TradeIds] : body' = [body EXCEPT ![w] = b]
  BY <1>1, <1>2
<1> QED BY <1>3 DEF Arrive, Arrived

\* So does one of any of the three kinds.
LEMMA ArrivalShape ==
    ASSUME StoreAssumption, NEW w \in Requests, Arrival(w)
    PROVE  Arrived(w)
<1>1. 1 \in 1..MaxVersion /\ {} \in SUBSET TradeIds
  BY DEF StoreAssumption
<1>2. CASE \E ids \in SUBSET TradeIds : Arrive(w, "toCreate", 1, ids)
  BY <1>1, <1>2, ArriveShape
<1>3. CASE \E v \in 1..MaxVersion, ids \in SUBSET TradeIds : Arrive(w, "toUpdate", v, ids)
  BY <1>3, ArriveShape
<1>4. CASE Arrive(w, "toGet", 1, {})
  BY <1>1, <1>4, ArriveShape
<1> QED BY <1>2, <1>3, <1>4 DEF Arrival

-----------------------------------------------------------------------------
(* Types.                                                                  *)

\* The empty store has its types.
LEMMA TypeInit == ASSUME StoreAssumption PROVE Init => TypeOK
<1> SUFFICES ASSUME Init PROVE TypeOK
  OBVIOUS
<1>1. pc \in [Requests -> Open \cup Closed]
  BY DEF Init, Closed
<1>2. body \in [Requests -> [version : 1..MaxVersion, ids : SUBSET TradeIds]]
  BY DEF Init, StoreAssumption
<1>3. seen \in [Requests -> [version : Nat, trades : SUBSET AllTrades]]
  BY DEF Init
<1> QED BY <1>1, <1>2, <1>3 DEF Init, TypeOK

\* What the steps of a request write has its type.
LEMMA CloseType ==
    ASSUME TypeOK, NEW w \in Requests, NEW l \in Open \cup Closed, Close(w, l)
    PROVE  pc' \in [Requests -> Open \cup Closed]
BY DEF TypeOK, Close

\* The trades a request would write, or keep, are trades.
LEMMA TradesType ==
    ASSUME TypeOK, NEW w \in Requests
    PROVE  Trades(body[w].ids, w) \subseteq AllTrades /\ Kept(w) \subseteq AllTrades
<1>1. body[w].ids \subseteq TradeIds
  BY DEF TypeOK
<1> QED BY <1>1 DEF TypeOK, Trades, AllTrades, Kept

\* What a request reads is a version and a set of trades.
LEMMA SeenType ==
    ASSUME TypeOK, NEW w \in Requests
    PROVE  /\ row # NoRow =>
                 [seen EXCEPT ![w].version = row.version]
                    \in [Requests -> [version : Nat, trades : SUBSET AllTrades]]
           /\ [seen EXCEPT ![w].trades = trades]
                 \in [Requests -> [version : Nat, trades : SUBSET AllTrades]]
<1>1. row # NoRow => row.version \in Nat
  BY DEF TypeOK
<1>2. trades \in SUBSET AllTrades
  BY DEF TypeOK
<1>3. seen \in [Requests -> [version : Nat, trades : SUBSET AllTrades]]
  BY DEF TypeOK
<1> QED BY <1>1, <1>2, <1>3

\* Every statement of a request keeps the types.
LEMMA RequestType ==
    ASSUME StoreAssumption, TypeOK, NEW w \in Requests, Request(w)
    PROVE  TypeOK'
<1>1. \A l \in Open \cup Closed : Close(w, l) => pc' \in [Requests -> Open \cup Closed]
  BY CloseType
<1>2. /\ \A l \in {"insert", "loadOld", "write", "loadBook", "got", "refused", "failed", "created", "updated"} :
            l \in Open \cup Closed
  BY DEF Open, Closed, Committed
<1>3. CASE CreateRead(w)
  BY <1>1, <1>2, <1>3 DEF CreateRead, TypeOK
<1>4. CASE CreateCommit(w)
  <2>1. pc' \in [Requests -> Open \cup Closed]
    BY <1>1, <1>2, <1>4 DEF CreateCommit
  <2>2. row' \in [version : Nat, by : Requests] \cup {NoRow}
    BY <1>4 DEF CreateCommit, TypeOK
  <2>3. trades' \subseteq AllTrades
    BY <1>4, TradesType DEF CreateCommit, TypeOK
  <2> QED BY <1>4, <2>1, <2>2, <2>3 DEF CreateCommit, TypeOK
<1>5. CASE UpdateRead(w)
  <2>1. pc' \in [Requests -> Open \cup Closed]
    BY <1>1, <1>2, <1>5 DEF UpdateRead
  <2>2. seen' \in [Requests -> [version : Nat, trades : SUBSET AllTrades]]
    <3>1. \/ UNCHANGED seen
          \/ row # NoRow /\ seen' = [seen EXCEPT ![w].version = row.version]
      BY <1>5 DEF UpdateRead
    <3>2. CASE UNCHANGED seen
      BY <3>2 DEF TypeOK
    <3>3. CASE row # NoRow /\ seen' = [seen EXCEPT ![w].version = row.version]
      BY <3>3, SeenType
    <3> QED BY <3>1, <3>2, <3>3
  <2> QED BY <1>5, <2>1, <2>2 DEF UpdateRead, TypeOK
<1>6. CASE UpdateLoad(w)
  <2>1. pc' \in [Requests -> Open \cup Closed]
    BY <1>1, <1>2, <1>6 DEF UpdateLoad
  <2>2. seen' \in [Requests -> [version : Nat, trades : SUBSET AllTrades]]
    BY <1>6, SeenType DEF UpdateLoad
  <2> QED BY <1>6, <2>1, <2>2 DEF UpdateLoad, TypeOK
<1>7. CASE UpdateCommit(w)
  <2>1. pc' \in [Requests -> Open \cup Closed]
    BY <1>1, <1>2, <1>7 DEF UpdateCommit
  <2>2. row' \in [version : Nat, by : Requests] \cup {NoRow}
    <3>1. seen[w].version + 1 \in Nat
      BY DEF TypeOK
    <3> QED BY <1>7, <3>1 DEF UpdateCommit, TypeOK
  <2>3. trades' \subseteq AllTrades
    BY <1>7, TradesType DEF UpdateCommit, TypeOK
  <2> QED BY <1>7, <2>1, <2>2, <2>3 DEF UpdateCommit, TypeOK
<1>8. CASE GetRow(w)
  <2>1. pc' \in [Requests -> Open \cup Closed]
    BY <1>1, <1>2, <1>8 DEF GetRow
  <2>2. seen' \in [Requests -> [version : Nat, trades : SUBSET AllTrades]]
    <3>1. \/ UNCHANGED seen
          \/ row # NoRow /\ seen' = [seen EXCEPT ![w].version = row.version]
      BY <1>8 DEF GetRow
    <3>2. CASE UNCHANGED seen
      BY <3>2 DEF TypeOK
    <3>3. CASE row # NoRow /\ seen' = [seen EXCEPT ![w].version = row.version]
      BY <3>3, SeenType
    <3> QED BY <3>1, <3>2, <3>3
  <2> QED BY <1>8, <2>1, <2>2 DEF GetRow, TypeOK
<1>9. CASE GetTrades(w)
  <2>1. pc' \in [Requests -> Open \cup Closed]
    BY <1>1, <1>2, <1>9 DEF GetTrades
  <2>2. seen' \in [Requests -> [version : Nat, trades : SUBSET AllTrades]]
    BY <1>9, SeenType DEF GetTrades
  <2> QED BY <1>9, <2>1, <2>2 DEF GetTrades, TypeOK
<1>10. CASE Rollback(w)
  BY <1>1, <1>2, <1>10 DEF Rollback, TypeOK
<1> QED BY <1>3, <1>4, <1>5, <1>6, <1>7, <1>8, <1>9, <1>10 DEF Request

\* So does every step.
LEMMA TypeStep ==
    ASSUME StoreAssumption, TypeOK, [Next]_vars
    PROVE  TypeOK'
<1>1. CASE UNCHANGED vars
  BY <1>1 DEF TypeOK, vars
<1>2. ASSUME NEW w \in Requests, Arrival(w) PROVE TypeOK'
  <2>1. Arrived(w)
    BY <1>2, ArrivalShape
  <2>2. pc' \in [Requests -> Open \cup Closed]
    BY <2>1 DEF Arrived, TypeOK, Open
  <2>3. body' \in [Requests -> [version : 1..MaxVersion, ids : SUBSET TradeIds]]
    BY <2>1 DEF Arrived, TypeOK
  <2>4. overlapped' \in BOOLEAN
    BY <2>1, Zenon DEF Arrived, TypeOK
  <2> QED BY <2>1, <2>2, <2>3, <2>4 DEF Arrived, TypeOK
<1>3. ASSUME NEW w \in Requests, Request(w) PROVE TypeOK'
  BY <1>3, RequestType
<1> QED BY <1>1, <1>2, <1>3, StepOfOne

-----------------------------------------------------------------------------
(* What a step of one request does to the others and to the store.         *)

Frame(w) ==
    /\ pc[w] \notin Committed
    /\ \A u \in Requests \ {w} : pc'[u] = pc[u] /\ body'[u] = body[u] /\ seen'[u] = seen[u]

Reads(w) ==
    /\ UNCHANGED <<row, trades>>
    /\ pc'[w] \notin Committed
    /\ seen'[w].trades \in {seen[w].trades, trades}

Creates(w) ==
    /\ pc[w] = "insert" /\ row = NoRow
    /\ row' = [version |-> 1, by |-> w]
    /\ trades' = trades \cup Trades(body[w].ids, w)
    /\ pc'[w] = "created"
    /\ UNCHANGED <<body, seen>>

Replaces(w) ==
    /\ pc[w] = "write"
    /\ row' = [version |-> seen[w].version + 1, by |-> w]
    /\ trades' = Kept(w) \cup Trades(body[w].ids, w)
    /\ pc'[w] = "updated"
    /\ UNCHANGED <<body, seen>>

\* An arrival changes nothing but its own place and body.
LEMMA ArrivalReads ==
    ASSUME TypeOK, NEW w \in Requests, Arrived(w)
    PROVE  Frame(w) /\ Reads(w)
BY DEF Arrived, TypeOK, Frame, Reads, Committed

\* Where a request that closes stands, and that it alone has moved.
LEMMA CloseFrame ==
    ASSUME TypeOK, NEW w \in Requests, NEW l, Close(w, l)
    PROVE  /\ pc'[w] = l
           /\ (pc[w] \notin Committed /\ UNCHANGED <<body, seen>>) => Frame(w)
BY DEF TypeOK, Close, Frame

\* A statement of a request reads, creates or replaces.
LEMMA RequestReadsOrWrites ==
    ASSUME TypeOK, NEW w \in Requests, Request(w)
    PROVE  Frame(w) /\ (Reads(w) \/ Creates(w) \/ Replaces(w))
<1>1. CASE CreateRead(w)
  BY <1>1 DEF CreateRead, Close, TypeOK, Frame, Reads, Committed
<1>2. CASE CreateCommit(w)
  <2>1. Close(w, "created") \/ Close(w, "failed")
    BY <1>2 DEF CreateCommit
  <2>2. Frame(w)
    BY <1>2, <2>1, CloseFrame DEF CreateCommit, Committed
  <2>3. CASE row = NoRow
    BY <1>2, <2>2, <2>3, CloseFrame DEF CreateCommit, Creates
  <2>4. CASE row # NoRow
    BY <1>2, <2>2, <2>4, CloseFrame DEF CreateCommit, Reads, Committed
  <2> QED BY <2>3, <2>4
<1>3. CASE UpdateRead(w)
  BY <1>3 DEF UpdateRead, Close, TypeOK, Frame, Reads, Committed
<1>4. CASE UpdateLoad(w)
  BY <1>4 DEF UpdateLoad, Close, TypeOK, Frame, Reads, Committed
<1>5. CASE UpdateCommit(w)
  <2>1. Close(w, "updated") \/ Close(w, "failed")
    BY <1>5 DEF UpdateCommit
  <2>2. Frame(w)
    BY <1>5, <2>1, CloseFrame DEF UpdateCommit, Committed
  <2>3. CASE Clash(w)
    BY <1>5, <2>2, <2>3, CloseFrame DEF UpdateCommit, Reads, Committed
  <2>4. CASE ~Clash(w)
    BY <1>5, <2>2, <2>4, CloseFrame DEF UpdateCommit, Replaces
  <2> QED BY <2>3, <2>4
<1>6. CASE GetRow(w)
  BY <1>6 DEF GetRow, Close, TypeOK, Frame, Reads, Committed
<1>7. CASE GetTrades(w)
  BY <1>7 DEF GetTrades, Close, TypeOK, Frame, Reads, Committed
<1>8. CASE Rollback(w)
  BY <1>8 DEF Rollback, Close, TypeOK, Frame, Reads, Committed, Open
<1> QED BY <1>1, <1>2, <1>3, <1>4, <1>5, <1>6, <1>7, <1>8 DEF Request

\* So does every step of a request; nobody else moves.
LEMMA StepShape ==
    ASSUME StoreAssumption, TypeOK, NEW w \in Requests, Arrival(w) \/ Request(w)
    PROVE  Frame(w) /\ (Reads(w) \/ Creates(w) \/ Replaces(w))
BY ArrivalShape, ArrivalReads, RequestReadsOrWrites

-----------------------------------------------------------------------------
(* However requests overlap.                                               *)

\* Whoever has committed keeps its place, its positions and what it had read.
LEMMA CommittedStays ==
    ASSUME NEW w \in Requests, Frame(w), NEW u \in Requests, pc[u] \in Committed
    PROVE  u # w /\ pc'[u] = pc[u] /\ body'[u] = body[u] /\ seen'[u] = seen[u]
BY DEF Frame

\* Whoever wrote a trade or the header is a request.
LEMMA TypesOfTrades ==
    ASSUME TypeOK
    PROVE  /\ \A t \in trades : t.by \in Requests
           /\ \A w \in Requests : \A t \in seen[w].trades : t.by \in Requests
           /\ row # NoRow => row.by \in Requests
<1>1. \A w \in Requests : seen[w].trades \subseteq AllTrades
  BY DEF TypeOK
<1>2. trades \subseteq AllTrades /\ (row # NoRow => row \in [version : Nat, by : Requests])
  BY DEF TypeOK
<1> QED BY <1>1, <1>2 DEF AllTrades

\* A read, a refusal and a rollback keep the invariant of overlapping requests.
LEMMA ReadsKeep ==
    ASSUME TypeOK, OverlapInv, NEW w \in Requests, Frame(w), Reads(w)
    PROVE  OverlapInv'
<1>1. WritesAreWhole'
  BY CommittedStays, TypesOfTrades DEF OverlapInv, WritesAreWhole, LastBook, Reads
<1>2. SeenInv'
  <2> SUFFICES ASSUME NEW u \in Requests, NEW t \in seen'[u].trades
               PROVE  pc'[t.by] \in Committed
    BY DEF SeenInv
  <2>1. t \in seen[u].trades \/ t \in trades
    BY DEF Frame, Reads
  <2>2. t.by \in Requests /\ pc[t.by] \in Committed
    BY <2>1, TypesOfTrades DEF OverlapInv, SeenInv, WritesAreWhole
  <2> QED BY <2>2, CommittedStays
<1>3. \A u \in Requests : pc'[u] \in Committed => u # w /\ pc'[u] = pc[u] /\ seen'[u] = seen[u]
  BY DEF Frame, Reads
<1>4. SupersededTradesGone'
  BY <1>3 DEF OverlapInv, SupersededTradesGone, Updated, Reads, Committed
<1>5. CreatedInv' /\ CreatedOnce'
  BY <1>3 DEF OverlapInv, CreatedInv, CreatedOnce, Reads, Committed
<1> QED BY <1>1, <1>2, <1>4, <1>5 DEF OverlapInv

\* The trades a commit adds are its own, and nobody has read them yet.
LEMMA NewTrades ==
    ASSUME TypeOK, OverlapInv, NEW w \in Requests, Frame(w)
    PROVE  \A u \in Requests : seen[u].trades \cap Trades(body[w].ids, w) = {}
BY DEF OverlapInv, SeenInv, Frame, Trades

\* So does a commit that creates the portfolio or replaces its trades.
LEMMA WritesKeep ==
    ASSUME StoreAssumption, TypeOK, OverlapInv, NEW w \in Requests, Frame(w), Creates(w) \/ Replaces(w)
    PROVE  OverlapInv'
<1>1. /\ row' \in [version : Nat, by : {w}]
      /\ Trades(body[w].ids, w) \subseteq trades'
      /\ trades' \subseteq trades \cup Trades(body[w].ids, w)
      /\ pc'[w] \in Committed
      /\ UNCHANGED <<body, seen>>
  <2>1. seen[w].version + 1 \in Nat
    BY DEF TypeOK
  <2> QED BY <2>1 DEF Creates, Replaces, Kept, Committed
<1>2. row' # NoRow /\ row'.by = w
  BY <1>1 DEF StoreAssumption
<1>3. \A t \in Trades(body[w].ids, w) : t.by = w
  BY DEF Trades
<1>4. \A u \in Requests : pc[u] \in Committed => pc'[u] \in Committed
  BY CommittedStays
<1>5. WritesAreWhole'
  <2>1. \A t \in trades' : pc'[t.by] \in Committed
    BY <1>1, <1>3, <1>4, TypesOfTrades DEF OverlapInv, WritesAreWhole
  <2> QED BY <1>1, <1>2, <2>1 DEF WritesAreWhole, LastBook
<1>6. SeenInv'
  BY <1>1, <1>4, TypesOfTrades DEF OverlapInv, SeenInv
<1>7. SupersededTradesGone'
  <2> SUFFICES ASSUME NEW u \in Requests, pc'[u] = "updated" PROVE seen[u].trades \cap trades' = {}
    BY <1>1 DEF SupersededTradesGone, Updated
  <2>1. seen[u].trades \cap Trades(body[w].ids, w) = {}
    BY NewTrades
  <2>2. CASE u = w
    BY <2>1, <2>2 DEF Creates, Replaces, Kept
  <2>3. CASE u # w
    <3>1. seen[u].trades \cap trades = {}
      BY <2>3 DEF Frame, OverlapInv, SupersededTradesGone, Updated
    <3> QED BY <1>1, <2>1, <3>1
  <2> QED BY <2>2, <2>3
<1>8. CreatedInv'
  BY <1>2 DEF CreatedInv
<1>9. CreatedOnce'
  <2>1. CASE Creates(w)
    <3>1. \A u \in Requests : pc[u] # "created"
      BY <2>1 DEF Creates, OverlapInv, CreatedInv, Committed
    <3> QED BY <3>1 DEF Frame, CreatedOnce
  <2>2. CASE Replaces(w)
    BY <2>2 DEF Replaces, Frame, OverlapInv, CreatedOnce
  <2> QED BY <2>1, <2>2
<1> QED BY <1>5, <1>6, <1>7, <1>8, <1>9 DEF OverlapInv

-----------------------------------------------------------------------------
(* While requests come one after another.                                  *)

Alone(w) == ~overlapped /\ \A u \in Requests \ {w} : pc[u] \notin Open

\* Before anyone has overlapped, the request that steps is alone.
LEMMA AloneStep ==
    ASSUME StoreAssumption, TypeOK, SerialInv, NEW w \in Requests, Arrival(w) \/ Request(w), ~overlapped'
    PROVE  Alone(w)
<1>1. CASE Arrival(w)
  BY <1>1, ArrivalShape DEF Arrived, Alone, Busy
<1>2. CASE Request(w)
  <2>1. pc[w] \in Open
    BY <1>2 DEF Request, CreateRead, CreateCommit, UpdateRead, UpdateLoad, UpdateCommit, GetRow, GetTrades,
                Rollback, Open
  <2>2. ~overlapped
    BY <1>2 DEF Request, CreateRead, CreateCommit, UpdateRead, UpdateLoad, UpdateCommit, GetRow, GetTrades,
                Rollback
  <2> QED BY <2>1, <2>2 DEF SerialInv, Alone, Busy
<1> QED BY <1>1, <1>2

\* A request that steps still knows what it read.
LEMMA PositionStep ==
    ASSUME StoreAssumption, TypeOK, NEW w \in Requests, Position(w), Arrival(w) \/ Request(w)
    PROVE  Position(w)'
<1>1. CASE Arrival(w)
  BY <1>1, ArrivalShape DEF Arrived, TypeOK, Position
<1>2. CASE CreateRead(w)
  BY <1>2 DEF CreateRead, Close, TypeOK, Position
<1>3. CASE CreateCommit(w)
  <2>1. pc'[w] \in {"created", "failed"}
    BY <1>3, CloseFrame DEF CreateCommit
  <2> QED BY <2>1 DEF Position
<1>4. CASE UpdateRead(w)
  <2>1. CASE row # NoRow /\ row.version = body[w].version
    BY <1>4, <2>1 DEF UpdateRead, Close, TypeOK, Position
  <2>2. CASE ~(row # NoRow /\ row.version = body[w].version)
    BY <1>4, <2>2, CloseFrame DEF UpdateRead, Position
  <2> QED BY <2>1, <2>2
<1>5. CASE UpdateLoad(w)
  BY <1>5 DEF UpdateLoad, Close, TypeOK, Position
<1>6. CASE UpdateCommit(w)
  <2>1. pc'[w] \in {"updated", "failed"}
    BY <1>6, CloseFrame DEF UpdateCommit
  <2> QED BY <2>1 DEF Position
<1>7. CASE GetRow(w)
  <2>1. pc'[w] \in {"refused", "loadBook"}
    BY <1>7, CloseFrame DEF GetRow
  <2> QED BY <2>1 DEF Position
<1>8. CASE GetTrades(w)
  BY <1>8, CloseFrame DEF GetTrades, Position
<1>9. CASE Rollback(w)
  BY <1>9, CloseFrame DEF Rollback, Position
<1> QED BY <1>1, <1>2, <1>3, <1>4, <1>5, <1>6, <1>7, <1>8, <1>9 DEF Request

\* While nobody overlaps, at most one request is open and it has read the latest.
LEMMA SerialInvKeep ==
    ASSUME StoreAssumption, TypeOK, SerialInv, NEW w \in Requests, Arrival(w) \/ Request(w)
    PROVE  SerialInv'
<1> SUFFICES ASSUME ~overlapped' PROVE (\A u, v \in Busy : u = v)' /\ \A u \in Requests : Position(u)'
  BY DEF SerialInv
<1>1. Alone(w) /\ Frame(w)
  BY AloneStep, StepShape
<1>2. \A u \in Requests \ {w} : pc'[u] \notin Open
  BY <1>1 DEF Alone, Frame
<1>3. Position(w)'
  BY <1>1, PositionStep DEF SerialInv, Alone
<1>4. \A u \in Requests \ {w} : Position(u)'
  BY <1>2 DEF Position, Open
<1> QED BY <1>2, <1>3, <1>4 DEF Busy

\* A commit of a request that is alone adds one version and is the last book.
LEMMA SerialBookKeep ==
    ASSUME StoreAssumption, TypeOK, OverlapInv, SerialInv, SerialBook,
           NEW w \in Requests, Arrival(w) \/ Request(w)
    PROVE  SerialBook'
<1> SUFFICES ASSUME ~overlapped'
             PROVE (trades = LastBook /\ (row # NoRow => row.version = 1 + Cardinality(Updated)))'
  BY DEF SerialBook
<1>1. /\ Frame(w) /\ ~overlapped /\ Position(w)
      /\ trades = LastBook
      /\ row # NoRow => row.version = 1 + Cardinality(Updated)
  BY AloneStep, StepShape DEF Alone, SerialInv, SerialBook
<1>2. CASE Reads(w)
  <2>1. Updated' = Updated
    BY <1>1, <1>2 DEF Frame, Reads, Updated, Committed
  <2>2. LastBook' = LastBook
    <3>1. row # NoRow => row.by \in Requests /\ pc[row.by] \in Committed
      BY TypesOfTrades DEF OverlapInv, WritesAreWhole
    <3>2. row # NoRow => body'[row.by] = body[row.by]
      BY <1>1, <3>1 DEF Frame
    <3> QED BY <1>2, <3>2 DEF Reads, LastBook
  <2> QED BY <1>1, <1>2, <2>1, <2>2 DEF Reads
<1>3. CASE Creates(w)
  <2>1. row' # NoRow /\ row'.by = w /\ row'.version = 1
    BY <1>3 DEF Creates, StoreAssumption
  <2>2. LastBook' = trades'
    BY <1>1, <1>3, <2>1 DEF Creates, LastBook
  <2>3. Updated' = {}
    BY <1>1, <1>3 DEF Creates, OverlapInv, CreatedInv, Frame, Updated, Committed
  <2> QED BY <2>1, <2>2, <2>3, FS_EmptySet
<1>4. CASE Replaces(w)
  <2>1. row # NoRow /\ seen[w].version = row.version /\ Kept(w) = {}
    BY <1>1, <1>4 DEF Replaces, Position, Kept
  <2>2. seen[w].version + 1 \in Nat
    BY DEF TypeOK
  <2>3. row' # NoRow /\ row'.by = w /\ row'.version = row.version + 1
    BY <1>4, <2>1, <2>2 DEF Replaces, StoreAssumption
  <2>4. LastBook' = trades'
    BY <1>4, <2>1, <2>3 DEF Replaces, LastBook
  <2>5. Updated' = Updated \cup {w} /\ w \notin Updated
    BY <1>1, <1>4 DEF Replaces, Frame, Updated, Committed
  <2>6. IsFiniteSet(Updated)
    BY FS_Subset DEF StoreAssumption, Updated
  <2>7. Cardinality(Updated') = Cardinality(Updated) + 1 /\ Cardinality(Updated) \in Nat
    BY <2>5, <2>6, FS_AddElement, FS_CardinalityType
  <2> QED BY <1>1, <2>1, <2>3, <2>4, <2>7
<1> QED BY <1>2, <1>3, <1>4, StepShape

-----------------------------------------------------------------------------
(* The theorems.                                                           *)

\* The invariant holds in the empty store.
LEMMA StoreInvInit == ASSUME StoreAssumption, Init PROVE StoreInv
<1>1. TypeOK
  BY TypeInit
<1>2. OverlapInv
  BY DEF Init, OverlapInv, WritesAreWhole, SeenInv, SupersededTradesGone, CreatedInv, CreatedOnce, Updated,
         Committed
<1>3. SerialInv
  BY DEF Init, SerialInv, Position, Busy, Open
<1>4. SerialBook
  BY DEF Init, SerialBook, LastBook
<1> QED BY <1>1, <1>2, <1>3, <1>4 DEF StoreInv

\* Every step keeps the invariant.
LEMMA StoreInvStep == ASSUME StoreAssumption, StoreInv, [Next]_vars PROVE StoreInv'
<1>1. TypeOK'
  BY TypeStep DEF StoreInv
<1>2. CASE UNCHANGED vars
  <2>1. OverlapInv'
    BY <1>2 DEF vars, StoreInv, OverlapInv, WritesAreWhole, LastBook, SeenInv, SupersededTradesGone,
                CreatedInv, CreatedOnce, Updated
  <2>2. SerialInv' /\ SerialBook'
    BY <1>2 DEF vars, StoreInv, SerialInv, Position, Busy, SerialBook, LastBook, Updated
  <2> QED BY <1>1, <2>1, <2>2 DEF StoreInv
<1>3. ASSUME NEW w \in Requests, Arrival(w) \/ Request(w) PROVE StoreInv'
  <2>1. OverlapInv'
    BY <1>3, StepShape, ReadsKeep, WritesKeep DEF StoreInv
  <2>2. SerialInv' /\ SerialBook'
    BY <1>3, SerialInvKeep, SerialBookKeep DEF StoreInv
  <2> QED BY <1>1, <2>1, <2>2 DEF StoreInv
<1> QED BY <1>2, <1>3, StepOfOne

\* The inductive invariant of the portfolio store holds always.
THEOREM StoreInvariant == Spec => []StoreInv
BY StoreInvInit, StoreInvStep, StoreAssumption, PTL DEF Spec

\* Type correctness (persistence/sqlalchemy_repos.py, the portfolio repository).
THEOREM StoreTypeCorrect == Spec => []TypeOK
BY StoreInvariant, PTL DEF StoreInv

\* What create, update and get promise however requests overlap: a trade that
\* an update replaced never comes back (_write), refused and failed requests
\* leave nothing and the header's writer has all of its trades (session_scope).
THEOREM ReplacedTradesStayGone == Spec => []SupersededTradesGone
BY StoreInvariant, PTL DEF StoreInv, OverlapInv

\* Refused and failed requests leave nothing, and the header's writer has all of
\* its trades (one session_scope per request).
THEOREM WritesAlwaysWhole == Spec => []WritesAreWhole
BY StoreInvariant, PTL DEF StoreInv, OverlapInv

\* The portfolio is created once, whoever races on its id (_book_for_run and
\* _seed_sqlalchemy_defaults).
THEOREM AlwaysCreatedOnce == Spec => []CreatedOnce
BY StoreInvariant, PTL DEF StoreInv, OverlapInv

\* While requests come one after another the version counts the updates and the
\* trades are the last writer's (repositories.py, PortfolioRepository.update).
THEOREM SerialBookAlways == Spec => []SerialBook
BY StoreInvariant, PTL DEF StoreInv
=============================================================================
