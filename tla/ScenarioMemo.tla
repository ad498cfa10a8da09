----------------------------- MODULE ScenarioMemo -----------------------------
(* The process-wide LRU caches of derived values: snapshots by scenario, and  *)
(* built curves by market. A cache is a sequence of entries, the least        *)
(* recently used first; get and put are each one step under the lock.         *)
EXTENDS Scenarios

CONSTANT MemoSize    \* QUANTLINEAGE_SCENARIO_CACHE_SIZE
ASSUME MemoSizeAssumption == MemoSize \in Nat \ {0}

Entry(key, value) == [key |-> key, value |-> value]
Holds(lru, key)   == \E i \in DOMAIN lru : lru[i].key = key
Cached(lru, key)  == CHOOSE v \in {e.value : e \in {x \in Range(lru) : x.key = key}} : TRUE

MoveToEnd(lru, key) ==
    LET i == CHOOSE j \in DOMAIN lru : lru[j].key = key
    IN  Append(RemoveAt(lru, i), lru[i])

\* What a hit returns, as a set, and the cache it leaves.
MemoGet(lru, key) ==
    IF Holds(lru, key)
    THEN [hit |-> {Cached(lru, key)}, lru |-> MoveToEnd(lru, key)]
    ELSE [hit |-> {}, lru |-> lru]

\* Fault: the entry that another thread stored meanwhile is not looked for.
MemoPutBlind(lru, key, value, size) ==
    LET grown == Append(lru, Entry(key, value))
    IN  [value |-> value,
         lru |-> IF Len(grown) > size THEN SubSeq(grown, Len(grown) - size + 1, Len(grown)) ELSE grown]

\* Another thread's entry wins; the oldest entries go beyond the size.
MemoPut(lru, key, value, size) ==
    IF Holds(lru, key)
    THEN [value |-> Cached(lru, key), lru |-> MoveToEnd(lru, key)]
    ELSE LET grown == Append(lru, Entry(key, value))
         IN  [value |-> value,
              lru |-> IF Len(grown) > size THEN SubSeq(grown, Len(grown) - size + 1, Len(grown)) ELSE grown]

\* Ordered shock identity: the factor's key, which has no tenor and no vol
\* bucket, and the amount.
shock_fingerprint(shocks) == [i \in DOMAIN shocks |-> <<Key(shocks[i].factor), shocks[i].amount>>]

\* Fault: snapshots of one id are taken for one market.
KeyByIds(base, shocks, tag) == <<base.id, shock_fingerprint(shocks), tag>>

scenario_memo_key(base, shocks, tag) ==
    <<base.id, Marks(base), shock_fingerprint(shocks), tag>>
===============================================================================
