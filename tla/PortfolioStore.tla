---------------------------- MODULE PortfolioStore ----------------------------
(***************************************************************************)
(* One stored portfolio and the requests that read and replace it          *)
(* (backend/app/persistence/sqlalchemy_repos.py).  A request is one        *)
(* session_scope at the database's default READ COMMITTED: its reads see   *)
(* what is committed when each is made, its writes appear at its commit    *)
(* and wait for the row's other writer, so what a request writes is one    *)
(* step and what it reads is one step per SELECT: the portfolios row, then *)
(* the trades, which the relationship loads on first access.               *)
(***************************************************************************)
EXTENDS Naturals, FiniteSets

CONSTANTS
    Requests,    \* one call of create, update or get each
    TradeIds,    \* position ids a client may use
    NoRow,       \* the portfolio is not stored
    MaxVersion   \* bound: versions a client may send

ASSUME StoreAssumption ==
    /\ IsFiniteSet(Requests)
    /\ MaxVersion \in Nat \ {0}
    /\ NoRow \notin [version : Nat, by : Requests]

VARIABLES
    row,       \* the portfolios row: its version, and the request that wrote it
    trades,    \* the trades rows: the position's id, and the request that wrote it
    pc,        \* where each request stands
    body,      \* what it sends: the version last read, and the positions
    seen,      \* what it has read: the version and the trades rows
    overlapped \* two requests have been open at once

vars == <<row, trades, pc, body, seen, overlapped>>

Trades(ids, w) == [id : ids, by : {w}]
AllTrades      == [id : TradeIds, by : Requests]
Open           == {"toCreate", "insert", "toUpdate", "loadOld", "write", "toGet", "loadBook"}
Committed      == {"created", "updated"}
Closed         == {"new", "got", "refused", "failed"} \cup Committed
Busy           == {w \in Requests : pc[w] \in Open}

Init ==
    /\ row = NoRow
    /\ trades = {}
    /\ pc = [w \in Requests |-> "new"]
    /\ body = [w \in Requests |-> [version |-> 1, ids |-> {}]]
    /\ seen = [w \in Requests |-> [version |-> 0, trades |-> {}]]
    /\ overlapped = FALSE

\* Fault: the client sends the version it expects to get.
ArriveAhead(w, l, v, ids) ==
    /\ pc[w] = "new"
    /\ pc' = [pc EXCEPT ![w] = l]
    /\ body' = [body EXCEPT ![w] = [version |-> v + 1, ids |-> ids]]
    /\ overlapped' = (overlapped \/ Busy # {})
    /\ UNCHANGED <<row, trades, seen>>

\* A request arrives and opens its session.
Arrive(w, l, v, ids) ==
    /\ pc[w] = "new"
    /\ pc' = [pc EXCEPT ![w] = l]
    /\ body' = [body EXCEPT ![w] = [version |-> v, ids |-> ids]]
    /\ overlapped' = (overlapped \/ Busy # {})
    /\ UNCHANGED <<row, trades, seen>>

Close(w, l) == pc' = [pc EXCEPT ![w] = l]

-----------------------------------------------------------------------------
(* create, and save as the seed calls it: only for an id it did not find *)

CreateRead(w) ==
    /\ pc[w] = "toCreate"
    /\ Close(w, IF row = NoRow THEN "insert" ELSE "refused")
    /\ UNCHANGED <<row, trades, body, seen, overlapped>>

\* Fault: the insert is an upsert.
CreateUpserts(w) ==
    /\ pc[w] = "insert"
    /\ row' = [version |-> 1, by |-> w]
    /\ trades' = trades \cup Trades(body[w].ids, w)
    /\ Close(w, "created")
    /\ UNCHANGED <<body, seen, overlapped>>

\* The insert meets the primary key of a row committed in between.
CreateCommit(w) ==
    /\ pc[w] = "insert"
    /\ IF row = NoRow
       THEN /\ row' = [version |-> 1, by |-> w]
            /\ trades' = trades \cup Trades(body[w].ids, w)
            /\ Close(w, "created")
       ELSE Close(w, "failed") /\ UNCHANGED <<row, trades>>
    /\ UNCHANGED <<body, seen, overlapped>>

-----------------------------------------------------------------------------
(* update: PUT /portfolios/{id} *)

\* PortfolioNotFound, PortfolioVersionConflict, or the row in the session.
UpdateRead(w) ==
    /\ pc[w] = "toUpdate"
    /\ IF row # NoRow /\ row.version = body[w].version
       THEN Close(w, "loadOld") /\ seen' = [seen EXCEPT ![w].version = row.version]
       ELSE Close(w, "refused") /\ UNCHANGED seen
    /\ UNCHANGED <<row, trades, body, overlapped>>

\* row.trades.clear() loads the rows it is about to delete.
UpdateLoad(w) ==
    /\ pc[w] = "loadOld"
    /\ seen' = [seen EXCEPT ![w].trades = trades]
    /\ Close(w, "write")
    /\ UNCHANGED <<row, trades, body, overlapped>>

\* Fault: the old trades are not deleted.
KeptAll(w) == trades

\* _write: UPDATE portfolios by id, DELETE the loaded trades by key, INSERT the
\* new ones under UNIQUE(portfolio_id, id).
Kept(w) == trades \ seen[w].trades
Clash(w) == \E t \in Kept(w) : t.id \in body[w].ids

\* Fault: the version is written back as it was read.
UpdateCommitSameVersion(w) ==
    /\ pc[w] = "write"
    /\ IF Clash(w)
       THEN Close(w, "failed") /\ UNCHANGED <<row, trades>>
       ELSE /\ row' = [version |-> seen[w].version, by |-> w]
            /\ trades' = Kept(w) \cup Trades(body[w].ids, w)
            /\ Close(w, "updated")
    /\ UNCHANGED <<body, seen, overlapped>>

UpdateCommit(w) ==
    /\ pc[w] = "write"
    /\ IF Clash(w)
       THEN Close(w, "failed") /\ UNCHANGED <<row, trades>>
       ELSE /\ row' = [version |-> seen[w].version + 1, by |-> w]
            /\ trades' = Kept(w) \cup Trades(body[w].ids, w)
            /\ Close(w, "updated")
    /\ UNCHANGED <<body, seen, overlapped>>

-----------------------------------------------------------------------------
(* get: what a run prices and what its header records *)

GetRow(w) ==
    /\ pc[w] = "toGet"
    /\ IF row = NoRow
       THEN Close(w, "refused") /\ UNCHANGED seen
       ELSE Close(w, "loadBook") /\ seen' = [seen EXCEPT ![w].version = row.version]
    /\ UNCHANGED <<row, trades, body, overlapped>>

GetTrades(w) ==
    /\ pc[w] = "loadBook"
    /\ seen' = [seen EXCEPT ![w].trades = trades]
    /\ Close(w, "got")
    /\ UNCHANGED <<row, trades, body, overlapped>>

\* Fault: the header was committed on its own.
RollbackPartial(w) ==
    /\ pc[w] \in Open
    /\ Close(w, "failed")
    /\ row' = IF pc[w] = "insert" /\ row = NoRow THEN [version |-> 1, by |-> w] ELSE row
    /\ UNCHANGED <<trades, body, seen, overlapped>>

\* An exception inside session_scope: rollback.
Rollback(w) ==
    /\ pc[w] \in Open
    /\ Close(w, "failed")
    /\ UNCHANGED <<row, trades, body, seen, overlapped>>

\* Every request has been answered.
AllAnswered ==
    /\ \A w \in Requests : pc[w] \in Closed \ {"new"}
    /\ UNCHANGED vars

Request(w) ==
    \/ CreateRead(w) \/ CreateCommit(w)
    \/ UpdateRead(w) \/ UpdateLoad(w) \/ UpdateCommit(w)
    \/ GetRow(w) \/ GetTrades(w)
    \/ Rollback(w)

Next ==
    \/ \E w \in Requests, ids \in SUBSET TradeIds : Arrive(w, "toCreate", 1, ids)
    \/ \E w \in Requests, v \in 1..MaxVersion, ids \in SUBSET TradeIds :
          Arrive(w, "toUpdate", v, ids)
    \/ \E w \in Requests : Arrive(w, "toGet", 1, {})
    \/ \E w \in Requests : Request(w)
    \/ AllAnswered

Spec == Init /\ [][Next]_vars

-----------------------------------------------------------------------------
(* Properties *)

TypeOK ==
    /\ row \in [version : Nat, by : Requests] \cup {NoRow}
    /\ trades \subseteq AllTrades
    /\ pc \in [Requests -> Open \cup Closed]
    /\ body \in [Requests -> [version : 1..MaxVersion, ids : SUBSET TradeIds]]
    /\ seen \in [Requests -> [version : Nat, trades : SUBSET AllTrades]]
    /\ overlapped \in BOOLEAN

Updated == {w \in Requests : pc[w] = "updated"}

\* The trades of the book as its last writer sent it.
LastBook == IF row = NoRow THEN {} ELSE Trades(body[row.by].ids, row.by)

(***************************************************************************)
(* While requests come one after another the store is what update promises *)
(* (repositories.py): each committed update raises the version by one and  *)
(* the trades are exactly the last writer's.                               *)
(***************************************************************************)
SerialBook ==
    ~overlapped =>
        /\ trades = LastBook
        /\ row # NoRow => row.version = 1 + Cardinality(Updated)

(***************************************************************************)
(* Deleted positions stay deleted: a trade an update loaded and replaced   *)
(* never comes back, whatever other requests do (_write, "Replace trades   *)
(* wholesale so deleted positions disappear").                             *)
(***************************************************************************)
SupersededTradesGone == \A w \in Updated : seen[w].trades \cap trades = {}

(***************************************************************************)
(* A request that is refused or fails leaves no row behind (session_scope  *)
(* rolls back the header and the trades together), and the header's writer *)
(* has all of its trades in the store.                                     *)
(***************************************************************************)
WritesAreWhole ==
    /\ \A t \in trades : pc[t.by] \in Committed
    /\ row # NoRow => pc[row.by] \in Committed /\ LastBook \subseteq trades

(***************************************************************************)
(* The portfolio is created once, however many submitters and seeders race *)
(* on the id (_book_for_run, _seed_sqlalchemy_defaults).                   *)
(***************************************************************************)
CreatedOnce == \A u, w \in Requests : pc[u] = "created" /\ pc[w] = "created" => u = w

(***************************************************************************)
(* Compare-and-swap on version: of the updates that name one version at    *)
(* most one is accepted (repositories.py, PortfolioRepository.update).     *)
(***************************************************************************)
AcceptedOncePerVersion ==
    \A u, w \in Updated : body[u].version = body[w].version => u = w
=============================================================================
