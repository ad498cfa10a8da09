---------------------------- MODULE PricingSession ----------------------------
(***************************************************************************)
(* Threads that price positions through the one engine of each service     *)
(* (backend/app/pricing/cache.py in front of backend/app/pricing/          *)
(* quantlib.py).  QuantLib's evaluation date and index fixings belong to   *)
(* the process; _QL_PROCESS_LOCK guards them for every engine.  The cache  *)
(* has a lock of its own that is never held while pricing.                 *)
(*                                                                         *)
(* A session may raise while it is entered: the days before 1901 and after *)
(* 2199 are calendar dates and no ql.Date, and _session makes the ql.Date  *)
(* when it has set its counter and the engine's date, before its `try`.    *)
(*                                                                         *)
(* A price is abstracted to what it was computed from.                     *)
(***************************************************************************)
EXTENDS Naturals, SequencesExt

CONSTANTS
    Threads,     \* the threads of the process that price
    Engines,     \* QuantLibPricingEngine instances, each behind its cache
    EngineOf,    \* the engine a thread uses
    Items,       \* a position and the market content it is priced on
    Swaps,       \* the items whose handler seeds index fixings
    Dates,       \* calendar dates
    NoQlDates,   \* those that ql.Date refuses
    Label,       \* as_of is an engine label, "current" or "t0"
    Base,        \* the evaluation_date the engines are made with
    Today,       \* QuantLib's own evaluation date before any session
    NoThread,    \* the process lock is free
    NoPrice,     \* the handler raised
    MaxSize,     \* QUANTLINEAGE_PRICING_CACHE_SIZE
    MaxRequests  \* bound: valuations asked for

ASSUME SessionAssumption ==
    /\ EngineOf \in [Threads -> Engines] /\ Items # {}
    /\ Swaps \subseteq Items
    /\ NoQlDates \subseteq Dates
    /\ Base \in Dates \ NoQlDates /\ Today \in Dates \ NoQlDates
    /\ Label \notin Dates
    /\ NoThread \notin Threads
    /\ MaxSize \in Nat \ {0}
    /\ MaxRequests \in Nat

Request == [item : Items, asOf : Dates \cup {Label}]
Price   == [item : Items, engine : Dates, settings : Dates, fixings : SUBSET Items]

ASSUME PriceAssumption == NoPrice \notin Price

VARIABLES
    pc,          \* where a thread stands in CachedPricingEngine.value
    req,         \* what it was asked for
    bypass,      \* whether it is inside bypass_valuation_lru
    date,        \* session_date
    saved,       \* previous_engine_date, previous_settings
    price,       \* what its handler computed
    answer,      \* the last request it answered, and with what
    owner,       \* the thread that holds _QL_PROCESS_LOCK
    depth,       \* _QL_SESSION_DEPTH
    engineDate,  \* evaluation_date of each engine
    settings,    \* ql.Settings.instance().evaluationDate
    fixings,     \* the items whose fixings are in IndexManager
    cache,       \* the OrderedDict of each engine, least recently used first
    asked        \* valuations asked for so far

ql     == <<owner, depth, engineDate, settings, fixings>>
locals == <<req, bypass, date, saved, price>>
vars   == <<pc, locals, answer, ql, cache, asked>>

NoRequest == [item |-> CHOOSE i \in Items : TRUE, asOf |-> Label]
NoAnswer  == [req |-> NoRequest, price |-> NoPrice]

Init ==
    /\ pc = [t \in Threads |-> "idle"]
    /\ req = [t \in Threads |-> NoRequest]
    /\ bypass = [t \in Threads |-> FALSE]
    /\ date = [t \in Threads |-> Base]
    /\ saved = [t \in Threads |-> [engine |-> Base, settings |-> Base]]
    /\ price = [t \in Threads |-> NoPrice]
    /\ answer = [t \in Threads |-> NoAnswer]
    /\ owner = NoThread
    /\ depth = 0
    /\ engineDate = [e \in Engines |-> Base]
    /\ settings = Today
    /\ fixings = {}
    /\ cache = [e \in Engines |-> <<>>]
    /\ asked = 0

-----------------------------------------------------------------------------
(* The cache.  A key holds the calendar as_of; labels share one key, under the  *)
(* engine's configured date, so a request is its own key.                       *)

Hits(e, k) == {i \in DOMAIN cache[e] : cache[e][i].key = k}

\* move_to_end
Touch(e, i) == Append(RemoveAt(cache[e], i), cache[e][i])

\* Fault: evicts one entry too late.
PutInLate(e, k, v) ==
    LET longer == Append(cache[e], [key |-> k, price |-> v])
    IN  IF Len(longer) > MaxSize + 1 THEN Tail(longer) ELSE longer

\* The first writer's entry stays; a new one evicts the least recently used.
PutIn(e, k, v) ==
    LET longer == Append(cache[e], [key |-> k, price |-> v])
    IN  IF Len(longer) > MaxSize THEN Tail(longer) ELSE longer

Answer(t, k, v) == answer' = [answer EXCEPT ![t] = [req |-> k, price |-> v]]

Goto(t, l) == pc' = [pc EXCEPT ![t] = l]

\* The thread is done with the request; what it held locally is gone.
Done(t) ==
    /\ Goto(t, "idle")
    /\ req' = [req EXCEPT ![t] = NoRequest]
    /\ bypass' = [bypass EXCEPT ![t] = FALSE]
    /\ date' = [date EXCEPT ![t] = Base]
    /\ saved' = [saved EXCEPT ![t] = [engine |-> Base, settings |-> Base]]
    /\ price' = [price EXCEPT ![t] = NoPrice]

\* value: under bypass the cache is not consulted; a hit is answered at once.
Ask(t, k, b) ==
    LET e == EngineOf[t] IN
    /\ pc[t] = "idle"
    /\ asked < MaxRequests
    /\ asked' = asked + 1
    /\ IF ~b /\ Hits(e, k) # {}
       THEN \E i \in Hits(e, k) :
               /\ cache' = [cache EXCEPT ![e] = Touch(e, i)]
               /\ Answer(t, k, cache[e][i].price)
               /\ UNCHANGED <<pc, locals>>
       ELSE /\ Goto(t, "date")
            /\ req' = [req EXCEPT ![t] = k]
            /\ bypass' = [bypass EXCEPT ![t] = b]
            /\ answer' = [answer EXCEPT ![t] = NoAnswer]
            /\ UNCHANGED <<cache, date, saved, price>>
    /\ UNCHANGED ql

\* Fault: the last writer's entry stays.
PutLastWriter(t) ==
    LET e == EngineOf[t] IN
    /\ pc[t] = "put"
    /\ cache' = [cache EXCEPT ![e] =
                    Append(SelectSeq(@, LAMBDA c : c.key # req[t]),
                           [key |-> req[t], price |-> price[t]])]
    /\ Answer(t, req[t], price[t])
    /\ Done(t)
    /\ UNCHANGED <<ql, asked>>

Put(t) ==
    LET e == EngineOf[t] IN
    /\ pc[t] = "put"
    /\ IF Hits(e, req[t]) # {}
       THEN \E i \in Hits(e, req[t]) :
               /\ cache' = [cache EXCEPT ![e] = Touch(e, i)]
               /\ Answer(t, req[t], cache[e][i].price)
       ELSE /\ cache' = [cache EXCEPT ![e] = PutIn(e, req[t], price[t])]
            /\ Answer(t, req[t], price[t])
    /\ Done(t)
    /\ UNCHANGED <<ql, asked>>

-----------------------------------------------------------------------------
(* QuantLibPricingEngine.value and its session                                  *)

\* session_date: the snapshot's calendar date, else evaluation_date as it stands.
ReadDate(t) ==
    /\ pc[t] = "date"
    /\ date' = [date EXCEPT ![t] = IF req[t].asOf \in Dates
                                   THEN req[t].asOf ELSE engineDate[EngineOf[t]]]
    /\ Goto(t, "enter")
    /\ UNCHANGED <<req, bypass, saved, price, answer, ql, cache, asked>>

\* The session counts itself; the outermost clears the fixings.
CountEntry == depth' = depth + 1 /\ fixings' = IF depth = 0 THEN {} ELSE fixings
CountExit  == depth' = depth - 1 /\ fixings' = IF depth = 1 THEN {} ELSE fixings

\* Fault: each engine has a lock of its own.
EnterPrivateLock(t) ==
    LET e == EngineOf[t] IN
    /\ pc[t] = "enter"
    /\ date[t] \notin NoQlDates
    /\ \A u \in Threads : EngineOf[u] = e => pc[u] \notin {"handle", "npv", "exit"}
    /\ owner' = t
    /\ saved' = [saved EXCEPT ![t] = [engine |-> engineDate[e], settings |-> settings]]
    /\ CountEntry
    /\ engineDate' = [engineDate EXCEPT ![e] = date[t]]
    /\ settings' = date[t]
    /\ Goto(t, "handle")
    /\ UNCHANGED <<req, bypass, date, price, answer, cache, asked>>

\* _session takes the lock, keeps both dates and sets them. No handler opens a
\* second session.
Enter(t) ==
    LET e == EngineOf[t] IN
    /\ pc[t] = "enter"
    /\ owner = NoThread
    /\ date[t] \notin NoQlDates
    /\ owner' = t
    /\ saved' = [saved EXCEPT ![t] = [engine |-> engineDate[e], settings |-> settings]]
    /\ CountEntry
    /\ engineDate' = [engineDate EXCEPT ![e] = date[t]]
    /\ settings' = date[t]
    /\ Goto(t, "handle")
    /\ UNCHANGED <<req, bypass, date, price, answer, cache, asked>>

\* There is no ql.Date for the session's date: the lock is given back and the
\* caller has the exception; the engine's date and the counter stay.
EnterRaises(t) ==
    /\ pc[t] = "enter"
    /\ owner = NoThread
    /\ date[t] \in NoQlDates
    /\ CountEntry
    /\ engineDate' = [engineDate EXCEPT ![EngineOf[t]] = date[t]]
    /\ Done(t) /\ Answer(t, req[t], NoPrice)
    /\ UNCHANGED <<owner, settings, cache, asked>>

\* The handler seeds the fixings it needs and prices, or raises before or after.
Seed(t) ==
    /\ pc[t] = "handle"
    /\ fixings' = IF req[t].item \in Swaps THEN fixings \cup {req[t].item} ELSE fixings
    /\ Goto(t, "npv")
    /\ UNCHANGED <<locals, answer, owner, depth, engineDate, settings, cache, asked>>

Npv(t) ==
    /\ pc[t] = "npv"
    /\ price' = [price EXCEPT ![t] =
                    [item |-> req[t].item, engine |-> engineDate[EngineOf[t]],
                     settings |-> settings, fixings |-> fixings]]
    /\ Goto(t, "exit")
    /\ UNCHANGED <<req, bypass, date, saved, answer, ql, cache, asked>>

HandlerRaises(t) ==
    /\ pc[t] \in {"handle", "npv"}
    /\ Goto(t, "exit")
    /\ UNCHANGED <<locals, answer, ql, cache, asked>>

\* Faults: the fixings stay behind; what a handler that raised left is cached.
ExitLeavesFixings(t) ==
    LET e == EngineOf[t] IN
    /\ pc[t] = "exit"
    /\ owner' = NoThread
    /\ engineDate' = [engineDate EXCEPT ![e] = saved[t].engine]
    /\ settings' = saved[t].settings
    /\ depth' = depth - 1
    /\ Done(t) /\ Answer(t, req[t], price[t])
    /\ UNCHANGED <<fixings, cache, asked>>

ExitAlwaysPuts(t) ==
    LET e == EngineOf[t] IN
    /\ pc[t] = "exit"
    /\ owner' = NoThread
    /\ engineDate' = [engineDate EXCEPT ![e] = saved[t].engine]
    /\ settings' = saved[t].settings
    /\ CountExit
    /\ Goto(t, "put")
    /\ UNCHANGED <<locals, answer, cache, asked>>

\* The `finally` of _session, then the price goes to the cache or to the caller.
Exit(t) ==
    LET e == EngineOf[t] IN
    /\ pc[t] = "exit"
    /\ owner' = NoThread
    /\ engineDate' = [engineDate EXCEPT ![e] = saved[t].engine]
    /\ settings' = saved[t].settings
    /\ CountExit
    /\ IF price[t] # NoPrice /\ ~bypass[t]
       THEN Goto(t, "put") /\ UNCHANGED <<locals, answer>>
       ELSE Done(t) /\ Answer(t, req[t], price[t])
    /\ UNCHANGED <<cache, asked>>

\* Every valuation that was asked for is answered.
AllAnswered ==
    /\ asked = MaxRequests
    /\ \A t \in Threads : pc[t] = "idle"
    /\ UNCHANGED vars

Next ==
    \/ \E t \in Threads :
          \/ \E k \in Request, b \in BOOLEAN : Ask(t, k, b)
          \/ ReadDate(t) \/ Enter(t) \/ EnterRaises(t) \/ Seed(t) \/ Npv(t) \/ HandlerRaises(t)
          \/ Exit(t) \/ Put(t)
    \/ AllAnswered

Spec == Init /\ [][Next]_vars

-----------------------------------------------------------------------------
(* Properties *)

Entry == [key : Request, price : Price]

TypeOK ==
    /\ pc \in [Threads -> {"idle", "date", "enter", "handle", "npv", "exit", "put"}]
    /\ req \in [Threads -> Request]
    /\ bypass \in [Threads -> BOOLEAN]
    /\ date \in [Threads -> Dates]
    /\ saved \in [Threads -> [engine : Dates, settings : Dates]]
    /\ price \in [Threads -> Price \cup {NoPrice}]
    /\ answer \in [Threads -> [req : Request, price : Price \cup {NoPrice}]]
    /\ owner \in Threads \cup {NoThread}
    /\ depth \in Nat
    /\ engineDate \in [Engines -> Dates]
    /\ settings \in Dates
    /\ fixings \subseteq Swaps
    /\ cache \in [Engines -> Seq(Entry)]
    /\ asked \in 0..MaxRequests

(***************************************************************************)
(* Between sessions QuantLib's date is the initial one, also after a       *)
(* handler raised or a session could not be entered. An engine is off its  *)
(* date only at a day that has no ql.Date; as long as none is, nothing of  *)
(* any session is left (the `finally` of _session).                        *)
(***************************************************************************)
SessionRestored ==
    owner = NoThread =>
        /\ settings = Today
        /\ \A e \in Engines : engineDate[e] \in {Base} \cup NoQlDates
        /\ (\A e \in Engines : engineDate[e] = Base) => depth = 0 /\ fixings = {}

\* An entry that raised is still counted, beside the session that is open.
Miscounted == depth > IF owner = NoThread THEN 0 ELSE 1

\* Computed for k's item, all of it on date d, with its own fixings at hand.
PricedOn(k, v, d) ==
    /\ v.item = k.item
    /\ v.engine = d /\ v.settings = d
    /\ {k.item} \cap Swaps \subseteq v.fixings

\* Priced as a single-threaded program would price the request on date d.
PricedAlone(k, v, d) == PricedOn(k, v, d) /\ v.fixings = {k.item} \cap Swaps

(***************************************************************************)
(* A request that names a calendar date is answered with a price of its    *)
(* own item on that date, whichever threads, engines, earlier cache        *)
(* entries and failed sessions it met, and from no fixings but its own     *)
(* unless a session could not be entered ("A calendar as_of drives the     *)
(* evaluation date", "one valuation cannot leave fixings for the next").   *)
(***************************************************************************)
DatedAnswersRight ==
    \A t \in Threads :
        LET a == answer[t] IN
        a.price # NoPrice /\ a.req.asOf \in Dates =>
            /\ PricedOn(a.req, a.price, a.req.asOf)
            /\ PricedAlone(a.req, a.price, a.req.asOf) \/ Miscounted

(***************************************************************************)
(* The cache never exceeds its size and holds a key once; an entry, also   *)
(* of a label key, is one item on one date that QuantLib has, from no      *)
(* fixings but its own unless a session could not be entered.              *)
(***************************************************************************)
CacheIsSound ==
    \A e \in Engines :
        /\ Len(cache[e]) <= MaxSize
        /\ \A i, j \in DOMAIN cache[e] : cache[e][i].key = cache[e][j].key => i = j
        /\ \A i \in DOMAIN cache[e] :
              LET c == cache[e][i] IN
              /\ PricedOn(c.key, c.price, c.price.engine) /\ c.price.engine \notin NoQlDates
              /\ PricedAlone(c.key, c.price, c.price.engine) \/ Miscounted

(***************************************************************************)
(* The price under a key stays what the first writer put while the key is  *)
(* cached, even when two threads computed it differently ("prefer first    *)
(* writer"), so callers agree until it is evicted.                         *)
(***************************************************************************)
EntriesStable ==
    [][\A e \in Engines : \A i \in DOMAIN cache[e], j \in DOMAIN cache'[e] :
          cache[e][i].key = cache'[e][j].key => cache'[e][j] = cache[e][i]]_cache

(***************************************************************************)
(* A request with an engine label is priced on the engine's own date       *)
(* (quantlib.py: engine labels "keep evaluation_date"; cache.py keys it so). *)
(***************************************************************************)
LabelPricedOnEngineDate ==
    \A t \in Threads :
        LET a == answer[t] IN
        a.price # NoPrice /\ a.req.asOf = Label => PricedAlone(a.req, a.price, Base)
=============================================================================
