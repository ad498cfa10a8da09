-------------------------- MODULE RiskServiceProofs ---------------------------
(* Proofs about RiskService: what the memo holds, and what is served from it.  *)
EXTENDS RiskService, SequenceTheorems, WellFoundedInduction, TLAPS

-----------------------------------------------------------------------------
(* Sequences.                                                                 *)

LEMMA OwnSeq ==
    ASSUME NEW S, NEW s \in Seq(S)
    PROVE  s \in Seq(Range(s)) /\ Len(s) \in Nat /\ DOMAIN s = 1..Len(s)
<1>1. Len(s) \in Nat /\ DOMAIN s = 1..Len(s) /\ s = [i \in 1..Len(s) |-> s[i]]
  OBVIOUS
<1>2. \A i \in 1..Len(s) : s[i] \in Range(s)
  BY <1>1 DEF Range
<1>3. s \in [1..Len(s) -> Range(s)]
  BY <1>1, <1>2
<1> QED BY <1>1, <1>3

LEMMA Extended ==
    ASSUME NEW s, s \in Seq(Range(s)), NEW x
    PROVE  LET t == Append(s, x) IN
           /\ t \in Seq(Range(t)) /\ Len(t) = Len(s) + 1 /\ DOMAIN t = 1..Len(s) + 1
           /\ t[Len(s) + 1] = x /\ \A i \in DOMAIN s : t[i] = s[i]
<1> DEFINE t == Append(s, x)
           S == Range(s) \cup {x}
<1>1. Len(s) \in Nat /\ DOMAIN s = 1..Len(s)
  OBVIOUS
<1>2. s \in Seq(S)
  <2>1. \A i \in DOMAIN s : s[i] \in Range(s)
    BY DEF Range
  <2> QED BY <1>1, <2>1
<1>3. x \in S
  OBVIOUS
<1> HIDE DEF S
<1>4. t \in Seq(S) /\ Len(t) = Len(s) + 1 /\ t[Len(s) + 1] = x /\ \A i \in 1..Len(s) : t[i] = s[i]
  BY <1>1, <1>2, <1>3
<1> HIDE DEF t
<1>5. t \in Seq(Range(t)) /\ DOMAIN t = 1..Len(s) + 1
  BY <1>4, OwnSeq
<1> QED BY <1>1, <1>4, <1>5 DEF t

LEMMA Dropped ==
    ASSUME NEW S, NEW s \in Seq(S), NEW i \in 1..Len(s)
    PROVE  /\ RemoveAt(s, i) \in Seq(S)
           /\ Len(RemoveAt(s, i)) = Len(s) - 1
           /\ \A j \in 1..Len(s) - 1 : RemoveAt(s, i)[j] = IF j < i THEN s[j] ELSE s[j + 1]
<1> DEFINE a == SubSeq(s, 1, i - 1)
           b == SubSeq(s, i + 1, Len(s))
<1>1. a \in Seq(S) /\ Len(a) = i - 1 /\ \A j \in 1..i - 1 : a[j] = s[j]
  <2>1. \A j \in 1..i - 1 : s[j] \in S
    OBVIOUS
  <2> QED BY <2>1, SubSeqProperties
<1>2. b \in Seq(S) /\ Len(b) = Len(s) - i /\ \A j \in 1..Len(s) - i : b[j] = s[i + j]
  <2>1. \A j \in i + 1..Len(s) : s[j] \in S
    OBVIOUS
  <2> QED BY <2>1, SubSeqProperties
<1>3. RemoveAt(s, i) = a \o b
  BY DEF RemoveAt
<1> HIDE DEF a, b
<1>4. /\ a \o b \in Seq(S) /\ Len(a \o b) = Len(s) - 1
      /\ \A j \in 1..Len(s) - 1 : (a \o b)[j] = IF j <= i - 1 THEN a[j] ELSE b[j - (i - 1)]
  <2>1. Len(a) + Len(b) = Len(s) - 1 /\ Len(a) = i - 1
    BY <1>1, <1>2
  <2>2. /\ a \o b \in Seq(S) /\ Len(a \o b) = Len(a) + Len(b)
        /\ \A j \in 1..Len(a) + Len(b) : (a \o b)[j] = IF j <= Len(a) THEN a[j] ELSE b[j - Len(a)]
    <3>1. a \in Seq(S) /\ b \in Seq(S)
      BY <1>1, <1>2
    <3> QED BY ONLY <3>1, ConcatProperties
  <2> QED BY <2>1, <2>2
<1>5. ASSUME NEW j \in 1..Len(s) - 1 PROVE (a \o b)[j] = IF j < i THEN s[j] ELSE s[j + 1]
  <2>1. CASE j < i
    BY <1>1, <1>4, <2>1
  <2>2. CASE ~(j < i)
    <3>1. j - (i - 1) \in 1..Len(s) - i /\ i + (j - (i - 1)) = j + 1 /\ ~(j <= i - 1)
      BY <2>2
    <3>2. b[j - (i - 1)] = s[i + (j - (i - 1))]
      BY <1>2, <3>1
    <3> QED BY <1>4, <2>2, <3>1, <3>2
  <2> QED BY <2>1, <2>2
<1> QED BY <1>3, <1>4, <1>5

-----------------------------------------------------------------------------
(* The memo.                                                                  *)

\* No two entries have one key.
DistinctKeys(lru) == \A i, j \in DOMAIN lru : i # j => lru[i].key # lru[j].key

\* Where an entry was before the one at place i was moved last.
Source(j, i, n) == IF j = n THEN i ELSE IF j < i THEN j ELSE j + 1

LEMMA MovedShape ==
    ASSUME NEW s, s \in Seq(Range(s)), NEW key, Holds(s, key)
    PROVE  LET t == MoveToEnd(s, key) IN
           /\ t \in Seq(Range(t)) /\ Len(t) = Len(s)
           /\ \E i \in 1..Len(s) : \A j \in 1..Len(s) : t[j] = s[Source(j, i, Len(s))]
<1> DEFINE n == Len(s)
           i == CHOOSE j \in DOMAIN s : s[j].key = key
           r == RemoveAt(s, i)
           t == Append(r, s[i])
<1>1. n \in Nat /\ DOMAIN s = 1..n
  OBVIOUS
<1>2. i \in 1..n
  <2>1. \E j \in DOMAIN s : s[j].key = key
    BY DEF Holds
  <2> QED BY <1>1, <2>1
<1>3. MoveToEnd(s, key) = t
  BY DEF MoveToEnd
<1> HIDE DEF i
<1>4. /\ r \in Seq(Range(s)) /\ Len(r) = n - 1
      /\ \A j \in 1..n - 1 : r[j] = IF j < i THEN s[j] ELSE s[j + 1]
  BY <1>2, Dropped
<1> HIDE DEF r
<1>5. r \in Seq(Range(r)) /\ DOMAIN r = 1..n - 1
  BY <1>4, OwnSeq
<1>6. /\ t \in Seq(Range(t)) /\ Len(t) = n - 1 + 1 /\ t[n - 1 + 1] = s[i]
      /\ \A j \in 1..n - 1 : t[j] = r[j]
  BY <1>4, <1>5, Extended
<1> HIDE DEF t
<1>7. Len(t) = n /\ t[n] = s[i]
  <2>1. n - 1 + 1 = n
    BY <1>1
  <2> QED BY <1>6, <2>1
<1>8. ASSUME NEW j \in 1..n PROVE t[j] = s[Source(j, i, n)]
  <2>1. CASE j = n
    BY <1>7, <2>1 DEF Source
  <2>2. CASE j # n
    <3> HIDE DEF n
    <3>1. j \in 1..n - 1
      BY <1>1, <2>2
    <3> QED BY <1>4, <1>6, <2>2, <3>1 DEF Source
  <2> QED BY <2>1, <2>2
<1> QED BY <1>2, <1>3, <1>6, <1>7, <1>8

\* An entry that is moved stays what it is.
LEMMA MovedKeeps ==
    ASSUME NEW s, s \in Seq(Range(s)), DistinctKeys(s), NEW key, Holds(s, key)
    PROVE  LET t == MoveToEnd(s, key) IN
           /\ t \in Seq(Range(t)) /\ Len(t) = Len(s) /\ DistinctKeys(t)
           /\ \A j \in DOMAIN t : \E i \in DOMAIN s : t[j] = s[i]
<1> DEFINE n == Len(s)
           t == MoveToEnd(s, key)
<1>1. n \in Nat /\ DOMAIN s = 1..n
  OBVIOUS
<1>2. t \in Seq(Range(t)) /\ Len(t) = n
  BY MovedShape
<1>3. PICK i \in 1..n : \A j \in 1..n : t[j] = s[Source(j, i, n)]
  BY MovedShape
<1> HIDE DEF t, n
<1>4. DOMAIN t = 1..n
  BY <1>2
<1>5. \A j \in 1..n : Source(j, i, n) \in 1..n
  BY <1>1 DEF Source
<1>6. \A j, k \in 1..n : j # k => Source(j, i, n) # Source(k, i, n)
  BY <1>1 DEF Source
<1>7. DistinctKeys(t)
  BY <1>1, <1>3, <1>4, <1>5, <1>6 DEF DistinctKeys
<1> QED BY <1>1, <1>2, <1>3, <1>4, <1>5, <1>7 DEF t, n

\* What is found under a key is an entry's value.
LEMMA Found ==
    ASSUME NEW s, NEW key, Holds(s, key)
    PROVE  \E i \in DOMAIN s : s[i].key = key /\ s[i].value = Cached(s, key)
<1> DEFINE V == {e.value : e \in {x \in Range(s) : x.key = key}}
<1>1. V # {}
  BY DEF Holds, Range
<1>2. Cached(s, key) \in V
  BY <1>1 DEF Cached
<1> QED BY <1>2 DEF Range

LEMMA GetKeeps ==
    ASSUME NEW s, s \in Seq(Range(s)), DistinctKeys(s), NEW key
    PROVE  LET got == MemoGet(s, key) IN
           /\ got.lru \in Seq(Range(got.lru)) /\ Len(got.lru) = Len(s) /\ DistinctKeys(got.lru)
           /\ \A j \in DOMAIN got.lru : \E i \in DOMAIN s : got.lru[j] = s[i]
           /\ \A v \in got.hit : \E i \in DOMAIN s : s[i].key = key /\ s[i].value = v
<1>1. CASE Holds(s, key)
  <2>1. MemoGet(s, key) = [hit |-> {Cached(s, key)}, lru |-> MoveToEnd(s, key)]
    BY <1>1 DEF MemoGet
  <2>2. MemoGet(s, key).lru = MoveToEnd(s, key) /\ MemoGet(s, key).hit = {Cached(s, key)}
    BY <2>1
  <2>3. LET t == MoveToEnd(s, key) IN
           /\ t \in Seq(Range(t)) /\ Len(t) = Len(s) /\ DistinctKeys(t)
           /\ \A j \in DOMAIN t : \E i \in DOMAIN s : t[j] = s[i]
    BY <1>1, MovedKeeps
  <2>4. \E i \in DOMAIN s : s[i].key = key /\ s[i].value = Cached(s, key)
    BY <1>1, Found
  <2> QED BY <2>2, <2>3, <2>4
<1>2. CASE ~Holds(s, key)
  <2>1. MemoGet(s, key).lru = s /\ MemoGet(s, key).hit = {}
    BY <1>2 DEF MemoGet
  <2> QED BY <2>1
<1> QED BY <1>1, <1>2

\* A store adds its entry, or takes the one that is there.
LEMMA PutKeeps ==
    ASSUME NEW s, s \in Seq(Range(s)), DistinctKeys(s), NEW key, NEW new, Len(s) <= MemoSize
    PROVE  LET put == MemoPut(s, key, new, MemoSize) IN
           /\ put.lru \in Seq(Range(put.lru)) /\ Len(put.lru) <= MemoSize /\ DistinctKeys(put.lru)
           /\ \A j \in DOMAIN put.lru :
                 put.lru[j] = Entry(key, new) \/ \E i \in DOMAIN s : put.lru[j] = s[i]
           /\ put.value = new \/ \E i \in DOMAIN s : s[i].key = key /\ s[i].value = put.value
<1> DEFINE put == MemoPut(s, key, new, MemoSize)
<1>0. Len(s) \in Nat /\ DOMAIN s = 1..Len(s) /\ MemoSize \in Nat /\ MemoSize >= 1 /\ Len(s) <= MemoSize
  BY MemoSizeAssumption
<1>1. CASE Holds(s, key)
  <2>1. put.lru = MoveToEnd(s, key) /\ put.value = Cached(s, key)
    BY <1>1 DEF MemoPut
  <2>2. LET t == MoveToEnd(s, key) IN
           /\ t \in Seq(Range(t)) /\ Len(t) = Len(s) /\ DistinctKeys(t)
           /\ \A j \in DOMAIN t : \E i \in DOMAIN s : t[j] = s[i]
    BY <1>1, MovedKeeps
  <2>3. \E i \in DOMAIN s : s[i].key = key /\ s[i].value = Cached(s, key)
    BY <1>1, Found
  <2> QED BY <2>1, <2>2, <2>3
<1>2. CASE ~Holds(s, key)
  <2> DEFINE x == Entry(key, new)
             n == Len(s)
             grown == Append(s, x)
             kept == SubSeq(grown, Len(grown) - MemoSize + 1, Len(grown))
  <2>1. put = [value |-> new, lru |-> IF Len(grown) > MemoSize THEN kept ELSE grown]
    BY <1>2 DEF MemoPut
  <2>2. put.value = new /\ put.lru = IF Len(grown) > MemoSize THEN kept ELSE grown
    BY <2>1
  <2>3. x.key = key
    BY DEF Entry
  <2> HIDE DEF put, x
  <2>4. /\ grown \in Seq(Range(grown)) /\ Len(grown) = n + 1 /\ DOMAIN grown = 1..n + 1
        /\ grown[n + 1] = x /\ \A i \in 1..n : grown[i] = s[i]
    BY <1>0, Extended
  <2> HIDE DEF grown
  <2>5. DistinctKeys(grown)
    <3>1. \A i \in 1..n : s[i].key # key
      BY <1>0, <1>2 DEF Holds
    <3>2. \A i \in 1..n + 1 : i \in 1..n \/ i = n + 1
      BY <1>0
    <3>3. ASSUME NEW i \in 1..n + 1, NEW j \in 1..n + 1, i # j PROVE grown[i].key # grown[j].key
      <4>1. CASE i \in 1..n /\ j \in 1..n
        BY <1>0, <2>4, <3>3, <4>1 DEF DistinctKeys
      <4>2. CASE i = n + 1 \/ j = n + 1
        BY <2>3, <2>4, <3>1, <3>2, <3>3, <4>2
      <4> QED BY <3>2, <4>1, <4>2
    <3> QED BY <2>4, <3>3 DEF DistinctKeys
  <2>6. \A j \in 1..n + 1 : grown[j] = x \/ \E i \in DOMAIN s : grown[j] = s[i]
    BY <1>0, <2>4
  <2>7. CASE Len(grown) > MemoSize
    <3>1. n = MemoSize /\ Len(grown) - MemoSize + 1 = 2
      <4> HIDE DEF n, kept
      <4>1. n \in Nat /\ MemoSize \in Nat /\ n <= MemoSize /\ n + 1 > MemoSize
        BY <1>0, <2>4, <2>7 DEF n
      <4> QED BY <2>4, <4>1
    <3>2. /\ kept \in Seq(Range(kept)) /\ Len(kept) = n /\ DOMAIN kept = 1..n
          /\ \A j \in 1..n : kept[j] = grown[j + 1]
      <4>1. \A j \in 2..n + 1 : grown[j] \in Range(grown)
        BY <1>0, <2>4 DEF Range
      <4>2. kept = SubSeq(grown, 2, n + 1)
        BY <2>4, <3>1
      <4>3. kept \in Seq(Range(grown)) /\ Len(kept) = n /\ \A j \in 1..n : kept[j] = grown[j + 1]
        BY <1>0, <2>4, <4>1, <4>2, SubSeqProperties
      <4> QED BY <4>3, OwnSeq
    <3> HIDE DEF kept
    <3>3. \A j \in 1..n : j + 1 \in 1..n + 1
      BY <1>0
    <3>4. \A i, j \in 1..n : i # j => i + 1 # j + 1
      BY <1>0
    <3>5. DistinctKeys(kept)
      <4>1. ASSUME NEW i \in 1..n, NEW j \in 1..n, i # j PROVE kept[i].key # kept[j].key
        <5>1. i + 1 \in DOMAIN grown /\ j + 1 \in DOMAIN grown /\ i + 1 # j + 1
          BY <2>4, <3>3, <3>4, <4>1
        <5>2. grown[i + 1].key # grown[j + 1].key
          BY <2>5, <5>1 DEF DistinctKeys
        <5> QED BY <3>2, <5>2
      <4> QED BY <3>2, <4>1 DEF DistinctKeys
    <3> QED BY <1>0, <2>2, <2>6, <2>7, <3>1, <3>2, <3>3, <3>5 DEF x, put
  <2>8. CASE ~(Len(grown) > MemoSize)
    <3>1. n + 1 <= MemoSize
      <4> HIDE DEF n
      <4> QED BY <1>0, <2>4, <2>8 DEF n
    <3> QED BY <2>2, <2>4, <2>5, <2>6, <2>8, <3>1 DEF x, put
  <2> QED BY <2>7, <2>8
<1> QED BY <1>1, <1>2

-----------------------------------------------------------------------------
(* The searches.                                                              *)

\* Numbers do not go down for ever.
LEMMA LeastCount ==
    ASSUME NEW T, T \subseteq Nat, NEW x0 \in T
    PROVE  \E x \in T : \A y \in T : x <= y
<1>1. PICK x \in T : \A y \in T : ~(<<y, x>> \in OpToRel(<, Nat))
  BY WFMin, NatLessThanWellFounded
<1>2. ASSUME NEW y \in T PROVE x <= y
  <2>1. x \in Nat /\ y \in Nat /\ ~(y < x)
    BY <1>1 DEF OpToRel
  <2> QED BY <2>1
<1> QED BY <1>2

\* Where not all of the first numbers are good, one is the first that is not.
LEMMA FirstBad ==
    ASSUME NEW n \in Nat, NEW Good, NEW k0 \in 0..n, k0 \notin Good
    PROVE  \E m \in 0..n : m \notin Good /\ \A k \in 0..n : k < m => k \in Good
<1> DEFINE T == {m \in 0..n : m \notin Good}
<1>1. T \subseteq Nat /\ k0 \in T
  OBVIOUS
<1>2. \E m \in T : \A y \in T : m <= y
  <2> HIDE DEF T
  <2> QED BY <1>1, LeastCount
<1>3. PICK m \in T : \A y \in T : m <= y
  BY <1>2
<1>4. \A k \in 0..n : k < m => k \in Good
  BY <1>3
<1> QED BY <1>3, <1>4

\* A list of numbers has a greatest.
LEMMA Greatest ==
    ASSUME NEW n \in Nat \ {0}, NEW g \in [1..n -> Int]
    PROVE  \E k \in 1..n : \A i \in 1..n : g[i] <= g[k]
<1> DEFINE Peaks(m) == m = 0 \/ \E k \in 1..m : \A i \in 1..m : g[i] <= g[k]
           Good == {m \in 0..n : Peaks(m)}
<1>1. SUFFICES ASSUME n \notin Good PROVE FALSE
  OBVIOUS
<1>2. PICK m \in 0..n : m \notin Good /\ \A k \in 0..n : k < m => k \in Good
  <2>1. n \in 0..n
    OBVIOUS
  <2> HIDE DEF Good
  <2> QED BY <1>1, <2>1, FirstBad
<1>0. ~Peaks(m) /\ \A k \in 0..n : k < m => Peaks(k)
  BY <1>2
<1>3. m # 0 /\ m # 1
  <2>1. Peaks(0)
    OBVIOUS
  <2>2. Peaks(1)
    <3>1. \A i \in 1..1 : i = 1
      OBVIOUS
    <3>2. g[1] \in Int /\ 1 \in 1..1
      OBVIOUS
    <3> QED BY <3>1, <3>2
  <2> HIDE DEF Peaks
  <2> QED BY <1>0, <2>1, <2>2
<1>4. m - 1 \in 1..n
  BY <1>2, <1>3
<1>5. PICK k \in 1..m - 1 : \A i \in 1..m - 1 : g[i] <= g[k]
  <2>1. Peaks(m - 1)
    <3> HIDE DEF Peaks
    <3> QED BY <1>0, <1>4
  <2> QED BY <1>4, <2>1
<1>6. \A i \in 1..m : i \in 1..m - 1 \/ i = m
  BY <1>2
<1>7. g[m] \in Int /\ g[k] \in Int /\ k \in 1..m /\ m \in 1..m
  BY <1>2, <1>5
<1>8. CASE g[m] <= g[k]
  <2>1. \A i \in 1..m : g[i] <= g[k]
    BY <1>5, <1>6, <1>8
  <2> QED BY <1>0, <1>7, <2>1
<1>9. CASE ~(g[m] <= g[k])
  <2>1. \A i \in 1..m - 1 : g[i] \in Int
    BY <1>2
  <2>2. \A i \in 1..m : g[i] <= g[m]
    BY <1>5, <1>6, <1>7, <1>9, <2>1
  <2> QED BY <1>0, <1>7, <2>2
<1> QED BY <1>8, <1>9

LEMMA WorstIsOne ==
    ASSUME NEW fs, fs \in Seq(Range(fs)), fs # <<>>, NEW w, \A f \in Range(fs) : w[f] \in Int
    PROVE  Worst({w[f] : f \in Range(fs)}) \in Int
<1> DEFINE V == {w[f] : f \in Range(fs)}
           n == Len(fs)
           g == [i \in 1..n |-> w[fs[i]]]
<1>1. n \in Nat \ {0} /\ DOMAIN fs = 1..n
  OBVIOUS
<1>2. V = {w[fs[i]] : i \in 1..n} /\ \A i \in 1..n : fs[i] \in Range(fs)
  BY <1>1 DEF Range
<1>3. g \in [1..n -> Int]
  BY <1>2
<1> HIDE DEF n
<1>4. \E k \in 1..n : \A i \in 1..n : g[i] <= g[k]
  <2> HIDE DEF g
  <2> QED BY <1>1, <1>3, Greatest
<1>5. \E x \in V : \A y \in V : y <= x
  BY <1>2, <1>4
<1>6. Worst(V) \in V
  <2> HIDE DEF V
  <2> QED BY <1>5 DEF Worst
<1> QED BY <1>6

\* The families, each once, in the order they are named.
Selects(fs, n, f) ==
    f = [i \in 0..n |-> IF i = 0 THEN <<>>
                        ELSE IF fs[i] \in Range(f[i - 1]) THEN f[i - 1] ELSE Append(f[i - 1], fs[i])]

LEMMA SelectionExists ==
    ASSUME NEW fs, NEW n \in Nat
    PROVE  \E f : Selects(fs, n, f)
<1> DEFINE Good == {m \in 0..n : \E f : Selects(fs, m, f)}
<1>1. SUFFICES ASSUME n \notin Good PROVE FALSE
  OBVIOUS
<1>2. PICK m \in 0..n : m \notin Good /\ \A k \in 0..n : k < m => k \in Good
  <2>1. n \in 0..n
    OBVIOUS
  <2> HIDE DEF Good
  <2> QED BY <1>1, <2>1, FirstBad
<1>3. m # 0
  <2>1. Selects(fs, 0, [i \in 0..0 |-> <<>>])
    <3>1. \A i \in 0..0 : i = 0
      OBVIOUS
    <3> QED BY <3>1 DEF Selects
  <2> QED BY <1>2, <2>1
<1>4. m - 1 \in 0..n /\ m - 1 < m
  BY <1>2, <1>3
<1>5. PICK f : Selects(fs, m - 1, f)
  BY <1>2, <1>4
<1> DEFINE before == f[m - 1]
           last == IF fs[m] \in Range(before) THEN before ELSE Append(before, fs[m])
           g == [i \in 0..m |-> IF i = m THEN last ELSE f[i]]
<1> HIDE DEF last
<1>6. m \in Nat \ {0}
  BY <1>2, <1>3
<1>7. \A i \in 0..m - 1 : g[i] = f[i] /\ i # m
  BY <1>6
<1>8. g[m] = last
  BY <1>6
<1>9. ASSUME NEW i \in 0..m
      PROVE  g[i] = IF i = 0 THEN <<>>
                    ELSE IF fs[i] \in Range(g[i - 1]) THEN g[i - 1] ELSE Append(g[i - 1], fs[i])
  <2>1. CASE i = m
    <3>1. g[i - 1] = before
      BY <1>6, <1>7, <2>1
    <3> QED BY <1>6, <1>8, <2>1, <3>1 DEF last
  <2>2. CASE i = 0
    BY <1>5, <1>6, <1>7, <2>2 DEF Selects
  <2>3. CASE i # m /\ i # 0
    <3>1. i \in 0..m - 1 /\ i - 1 \in 0..m - 1
      BY <1>6, <2>3
    <3>2. f[i] = IF fs[i] \in Range(f[i - 1]) THEN f[i - 1] ELSE Append(f[i - 1], fs[i])
      BY <1>5, <2>3, <3>1 DEF Selects
    <3> QED BY <1>7, <2>3, <3>1, <3>2
  <2> QED BY <2>1, <2>2, <2>3
<1>10. Selects(fs, m, g)
  BY <1>9 DEF Selects
<1> QED BY <1>2, <1>10

LEMMA SelectionIsOfNames ==
    ASSUME NEW fs, fs \in Seq(Range(fs)), NEW f, Selects(fs, Len(fs), f)
    PROVE  \A i \in 0..Len(fs) : /\ f[i] \in Seq(Range(fs)) /\ (i # 0 => f[i] # <<>>)
                                 /\ \A j \in 1..i : fs[j] \in Range(f[i])
<1> DEFINE n == Len(fs)
           S == Range(fs)
           Good(i) == f[i] \in Seq(S) /\ (i # 0 => f[i] # <<>>) /\ \A j \in 1..i : fs[j] \in Range(f[i])
           T == {i \in 0..n : Good(i)}
<1>1. n \in Nat /\ \A i \in 1..n : fs[i] \in S
  BY DEF Range
<1>2. SUFFICES ASSUME NEW i0 \in 0..n, i0 \notin T PROVE FALSE
  OBVIOUS
<1> HIDE DEF S, n
<1>3. PICK m \in 0..n : m \notin T /\ \A k \in 0..n : k < m => k \in T
  <2> HIDE DEF T
  <2> QED BY <1>1, <1>2, FirstBad
<1>4. f[0] = <<>> /\ \A i \in 0..n : i # 0 =>
         f[i] = IF fs[i] \in Range(f[i - 1]) THEN f[i - 1] ELSE Append(f[i - 1], fs[i])
  <2> DEFINE Turn(i) == IF i = 0 THEN <<>>
                        ELSE IF fs[i] \in Range(f[i - 1]) THEN f[i - 1] ELSE Append(f[i - 1], fs[i])
             g == [i \in 0..n |-> Turn(i)]
  <2>1. f = g
    BY DEF Selects, n
  <2>2. \A i \in 0..n : g[i] = Turn(i)
    <3> HIDE DEF Turn
    <3> QED OBVIOUS
  <2> HIDE DEF g
  <2>3. \A i \in 0..n : f[i] = Turn(i)
    BY <2>1, <2>2
  <2>4. 0 \in 0..n
    BY <1>1
  <2> QED BY <2>3, <2>4
<1>5. m # 0
  <2>1. Good(0)
    BY <1>4
  <2> QED BY <1>3, <2>1
<1>6. m - 1 \in 0..n /\ m - 1 < m /\ m \in 1..n
  BY <1>1, <1>3, <1>5
<1>7. f[m] = IF fs[m] \in Range(f[m - 1]) THEN f[m - 1] ELSE Append(f[m - 1], fs[m])
  BY <1>4, <1>5
<1>8. /\ f[m - 1] \in Seq(S) /\ fs[m] \in S
      /\ \A j \in 1..m : j # m => fs[j] \in Range(f[m - 1])
  BY <1>1, <1>3, <1>6
<1>9. CASE fs[m] \in Range(f[m - 1])
  <2>1. f[m - 1] # <<>>
    BY <1>9 DEF Range
  <2> QED BY <1>3, <1>7, <1>8, <1>9, <2>1
<1>10. CASE fs[m] \notin Range(f[m - 1])
  <2> DEFINE a == f[m - 1]
             b == Append(a, fs[m])
  <2>1. b \in Seq(S) /\ b # <<>>
    BY <1>8
  <2>2. a \in Seq(Range(a)) /\ DOMAIN a = 1..Len(a) /\ Len(a) \in Nat
    BY <1>8, OwnSeq
  <2>3. DOMAIN b = 1..Len(a) + 1 /\ b[Len(a) + 1] = fs[m] /\ \A k \in DOMAIN a : b[k] = a[k]
    BY <2>2, Extended
  <2> HIDE DEF a, b
  <2>4. Range(a) \subseteq Range(b) /\ fs[m] \in Range(b)
    <3>1. Len(a) + 1 \in DOMAIN b /\ DOMAIN a \subseteq DOMAIN b
      BY <2>2, <2>3
    <3> QED BY <2>3, <3>1 DEF Range
  <2>5. f[m] = b /\ \A j \in 1..m : fs[j] \in Range(b)
    BY <1>7, <1>8, <1>10, <2>4 DEF a, b
  <2> QED BY <1>3, <2>1, <2>5
<1> QED BY <1>9, <1>10

LEMMA UniqueIsOfNames ==
    ASSUME NEW fs, fs \in Seq(Range(fs)), fs # <<>>
    PROVE  Unique(fs) \in Seq(Range(fs)) /\ Unique(fs) # <<>> /\ Range(Unique(fs)) = Range(fs)
<1> DEFINE n == Len(fs)
           f == CHOOSE g : Selects(fs, n, g)
<1>1. n \in Nat /\ n # 0
  OBVIOUS
<1>2. Unique(fs) = f[n]
  BY DEF Unique, Selects
<1>3. Selects(fs, n, f)
  BY <1>1, SelectionExists
<1> HIDE DEF f
<1>4. \A i \in 0..Len(fs) : /\ f[i] \in Seq(Range(fs)) /\ (i # 0 => f[i] # <<>>)
                            /\ \A j \in 1..i : fs[j] \in Range(f[i])
  BY <1>3, SelectionIsOfNames
<1>5. f[n] \in Seq(Range(fs)) /\ f[n] # <<>> /\ \A j \in 1..n : fs[j] \in Range(f[n])
  BY <1>1, <1>4
<1>6. Range(f[n]) = Range(fs)
  <2>1. DOMAIN fs = 1..n
    OBVIOUS
  <2>2. Range(fs) \subseteq Range(f[n])
    BY <1>5, <2>1 DEF Range
  <2>3. \A k \in DOMAIN f[n] : f[n][k] \in Range(fs)
    BY <1>5
  <2> QED BY <2>2, <2>3 DEF Range
<1> QED BY <1>2, <1>5, <1>6

LEMMA WeightsAreCounts ==
    ASSUME NEW fs, fs \in Seq(Range(fs)), fs # <<>>, NEW w, \A f \in Range(fs) : w[f] \in Int,
           NEW v \in NormalizeWeights(fs, w)
    PROVE  v \in [Range(fs) -> Nat]
<1> DEFINE peak == Worst({w[f] : f \in Range(fs)})
<1>1. peak \in Int
  BY WorstIsOne
<1> HIDE DEF peak
<1>2. peak > 0 /\ (\A f \in Range(fs) : w[f] >= 0) /\ v = [f \in Range(fs) |-> (100 * w[f]) \div peak]
  BY <1>1 DEF NormalizeWeights, peak
<1>3. \A f \in Range(fs) : (100 * w[f]) \div peak \in Nat
  <2>0. peak \in Nat \ {0}
    BY <1>1, <1>2
  <2>1. ASSUME NEW x \in Nat PROVE x \div peak \in Nat
    BY <2>0
  <2>2. \A f \in Range(fs) : 100 * w[f] \in Nat
    BY <1>2
  <2> QED BY <2>1, <2>2
<1> QED BY <1>2, <1>3

\* A search begins before its first point.
LEMMA SolverBegins ==
    ASSUME NEW id \in SearchIds, NEW target, NEW fs, NEW B, fs \in Seq(B), fs # <<>>,
           Range(fs) = B, NEW bounds \in [B -> Nat], NEW ws, id = "reverse_multi" => ws \in [B -> Nat]
    PROVE  SolverInv(Solver(id, target, fs, ws, bounds))
<1> DEFINE s == Solver(id, target, fs, ws, bounds)
<1>1. /\ DOMAIN s = SolverFields /\ s.id = id /\ s.families = fs /\ s.coordinate = 1 /\ s.bounds = bounds
      /\ s.mags = [f \in B |-> 0] /\ s.weights = ws /\ s.lo = 0 /\ s.hi = 0 /\ s.pass = 1 /\ s.at = "zero"
  BY DEF Solver, SolverFields
<1>2. DOMAIN bounds = B /\ 1 \in 1..Len(fs)
  OBVIOUS
<1>3. s.mags \in [B -> Nat]
  BY <1>1
<1> HIDE DEF s
<1>4. Multi(s) => s.weights \in [B -> Nat]
  BY <1>1 DEF Multi
<1>5. Searching(s)
  BY <1>1, <1>2, <1>3, <1>4 DEF Searching
<1>6. s.at # "done" /\ s.at \in SolverPhases
  BY <1>1 DEF SolverPhases
<1>7. SolverInv(s)
  BY <1>5, <1>6 DEF SolverInv
<1> QED BY <1>7 DEF s

LEMMA Begun ==
    ASSUME NEW t \in Threads, NEW r \in Requests[t], Solves(r), NEW s \in StartSolver(r)
    PROVE  SolverInv(s)
<1>1. CASE r.op = "reverse_stress"
  <2> DEFINE f == r.families[1]
             bounds == [g \in {f} |-> r.max_shock]
             ws == [g \in {f} |-> 100]
  <2>1. s \in StartSingle(r.target, f, r.max_shock) /\ r.max_shock \in Int
    BY <1>1, SearchAssumption DEF StartSolver
  <2>2. r.max_shock > 0 /\ s = Solver("reverse", r.target, <<f>>, ws, bounds)
    BY <2>1 DEF StartSingle
  <2> HIDE DEF f
  <2>3. <<f>> \in Seq({f}) /\ <<f>> # <<>> /\ Range(<<f>>) = {f} /\ bounds \in [{f} -> Nat]
    BY <2>1, <2>2 DEF Range
  <2> HIDE DEF bounds, ws
  <2> QED BY <2>2, <2>3, SolverBegins DEF SearchIds
<1>2. CASE r.op = "reverse_stress_multi"
  <2> DEFINE fs == r.families
  <2>1. /\ s \in StartMulti(r.target, fs, r.weights, r.max_shock, r.max_shocks) /\ r.max_shock \in Int
        /\ fs \in Seq(Range(fs)) /\ \A f \in Range(fs) : r.weights[f] \in Int
        /\ \A f \in DOMAIN r.max_shocks : r.max_shocks[f] \in Int
    BY <1>2, SearchAssumption DEF StartSolver
  <2>2. fs # <<>> /\ \E w \in NormalizeWeights(fs, r.weights) :
           \E b \in ResolveBounds(fs, r.max_shock, r.max_shocks) :
               s = Solver("reverse_multi", r.target, Unique(fs), w, b)
    BY <2>1 DEF StartMulti
  <2>3. PICK w \in NormalizeWeights(fs, r.weights) :
           \E b \in ResolveBounds(fs, r.max_shock, r.max_shocks) :
               s = Solver("reverse_multi", r.target, Unique(fs), w, b)
    BY <2>2
  <2>4. PICK b \in ResolveBounds(fs, r.max_shock, r.max_shocks) :
           s = Solver("reverse_multi", r.target, Unique(fs), w, b)
    BY <2>3
  <2> HIDE DEF fs
  <2>5. w \in [Range(fs) -> Nat]
    BY <2>1, <2>2, WeightsAreCounts
  <2>6. b \in [Range(fs) -> Nat]
    BY <2>1 DEF ResolveBounds
  <2>7. Unique(fs) \in Seq(Range(fs)) /\ Unique(fs) # <<>> /\ Range(Unique(fs)) = Range(fs)
    BY <2>1, <2>2, UniqueIsOfNames
  <2> QED BY <2>4, <2>5, <2>6, <2>7, SolverBegins DEF SearchIds
<1> QED BY <1>1, <1>2 DEF Solves

\* What a search is that has moved on within its bounds.
LEMMA Stays ==
    ASSUME NEW s, Searching(s), NEW x, DOMAIN x = SolverFields, x.id = s.id, x.families = s.families,
           x.bounds = s.bounds, x.weights = s.weights, x.mags \in [DOMAIN s.bounds -> Nat],
           x.coordinate \in 1..Len(s.families), x.lo \in Nat, x.hi \in Nat, x.lo <= x.hi, x.pass \in Nat \ {0},
           x.at \in SolverPhases, x.at \in {"zero", "corner"} => x.lo = 0,
           x.at \in {"zero", "corner", "ray"} => x.pass = 1,
           x.at \in {"drop", "shrink"} => x.pass <= CoordinatePasses
    PROVE  SolverInv(x) /\ Searching(x)
<1>1. Multi(x) => x.weights \in [DOMAIN x.bounds -> Nat]
  BY DEF Searching, Multi
<1>2. /\ x.id \in SearchIds /\ x.families \in Seq(DOMAIN x.bounds) /\ x.coordinate \in 1..Len(x.families)
      /\ x.bounds \in [DOMAIN x.bounds -> Nat] /\ x.mags \in [DOMAIN x.bounds -> Nat]
  BY DEF Searching
<1>3. Searching(x)
  BY <1>1, <1>2 DEF Searching
<1> QED BY <1>3 DEF SolverInv

\* Five numbers of which the first to differ is less.
LEMMA LessAt ==
    ASSUME NEW a1 \in Nat, NEW a2 \in Nat, NEW a3 \in Nat, NEW a4 \in Nat, NEW a5 \in Nat,
           NEW b1, NEW b2, NEW b3, NEW b4, NEW b5,
           \/ a1 < b1
           \/ a1 = b1 /\ a2 < b2
           \/ a1 = b1 /\ a2 = b2 /\ a3 < b3
           \/ a1 = b1 /\ a2 = b2 /\ a3 = b3 /\ a4 < b4
           \/ a1 = b1 /\ a2 = b2 /\ a3 = b3 /\ a4 = b4 /\ a5 < b5
    PROVE  <<a1, a2, a3, a4, a5>> \in Counts /\ Less(<<a1, a2, a3, a4, a5>>, <<b1, b2, b3, b4, b5>>)
<1> DEFINE x == <<a1, a2, a3, a4, a5>>
           y == <<b1, b2, b3, b4, b5>>
<1>1. x \in Counts
  BY DEF Counts
<1>2. /\ x[1] = a1 /\ x[2] = a2 /\ x[3] = a3 /\ x[4] = a4 /\ x[5] = a5
      /\ y[1] = b1 /\ y[2] = b2 /\ y[3] = b3 /\ y[4] = b4 /\ y[5] = b5
  OBVIOUS
<1> HIDE DEF x, y
<1>3. /\ 1..1 - 1 = {} /\ 1..2 - 1 = {1} /\ 1..3 - 1 = {1, 2} /\ 1..4 - 1 = {1, 2, 3}
      /\ 1..5 - 1 = {1, 2, 3, 4}
  OBVIOUS
<1>4. \E k \in {1, 2, 3, 4, 5} : x[k] < y[k] /\ \A j \in 1..k - 1 : x[j] = y[j]
  BY <1>2, <1>3
<1>5. 1..5 = {1, 2, 3, 4, 5}
  OBVIOUS
<1> QED BY <1>1, <1>4, <1>5 DEF Less, x, y

\* A corner that is left for a pass, and a pass for the last point.
LEMMA LessPhase ==
    ASSUME NEW p \in Nat, NEW c \in Nat, NEW w
    PROVE  <<2, p, c, 1, 0>> \in Counts /\ Less(<<2, p, c, 1, 0>>, <<3, 0, 0, 0, w>>)
<1>1. 0 \in Nat /\ 1 \in Nat /\ 2 \in Nat /\ 2 < 3
  OBVIOUS
<1> QED BY <1>1, LessAt

\* The three of them that change within a pass.
LEMMA LessInTurn ==
    ASSUME NEW p \in Nat, NEW c \in Nat, NEW d \in Nat, NEW w \in Nat, NEW q \in Int, NEW e \in Int, NEW u \in Int,
           NEW v \in Int,
           p < q \/ (p = q /\ (c < e \/ (c = e /\ (d < u \/ (d = u /\ w < v)))))
    PROVE  <<2, p, c, d, w>> \in Counts /\ Less(<<2, p, c, d, w>>, <<2, q, e, u, v>>)
<1>1. CASE p < q
  BY <1>1, LessAt
<1>2. CASE p = q /\ c < e
  BY <1>2, LessAt
<1>3. CASE p = q /\ c = e /\ d < u
  BY <1>3, LessAt
<1>4. CASE p = q /\ c = e /\ d = u /\ w < v
  BY <1>4, LessAt
<1> QED BY <1>1, <1>2, <1>3, <1>4

\* What a search that goes on has less of.
Goes(s, next) ==
    /\ SolverInv(next)
    /\ Remaining(next) \in Counts /\ Less(Remaining(next), Remaining(s))

LEMMA DoneEnds ==
    ASSUME NEW s, Searching(s), s.at \in SolverPhases, NEW c, NEW h, NEW p
    PROVE  Goes(s, Done(s, c, h, p))
<1> DEFINE next == Done(s, c, h, p)
<1>1. next.at = "done"
  BY DEF Done, Put, Searching, SolverFields
<1> HIDE DEF next
<1>2. Remaining(next) = <<0, 0, 0, 0, 0>>
  BY <1>1 DEF Remaining
<1>3. \E b1, b2, b3, b4, b5 : Remaining(s) = <<b1, b2, b3, b4, b5>> /\ 0 < b1
  BY DEF Remaining, SolverPhases
<1> QED BY <1>1, <1>2, <1>3, LessAt DEF Goes, SolverInv, next

\* Another family, another pass, or the last point.
LEMMA NextGoes ==
    ASSUME NEW s, Searching(s), s.at \in {"drop", "shrink"}, NEW x, Searching(x), x.at = s.at,
           x.families = s.families, x.coordinate = s.coordinate, x.pass = s.pass
    PROVE  Goes(s, NextCoordinate(x))
<1> DEFINE next == NextCoordinate(x)
           n == Len(s.families)
<1>0. /\ n \in Nat /\ s.coordinate \in 1..n /\ s.pass \in Nat \ {0} /\ s.pass <= CoordinatePasses
      /\ CoordinatePasses \in Nat
      /\ x.mags \in [DOMAIN x.bounds -> Nat] /\ x.lo \in Nat /\ x.hi \in Nat /\ x.lo <= x.hi
  BY SolverAssumption DEF Searching
<1>1. PICK d \in Int, w \in Int : Remaining(s) = <<2, CoordinatePasses - s.pass, n - s.coordinate, d, w>>
  <2>1. Width(s) \in Int
    BY DEF Searching, Width
  <2> QED BY <2>1 DEF Remaining
<1>2. CASE x.coordinate < Len(x.families)
  <2>1. next = [x EXCEPT !.coordinate = x.coordinate + 1, !.at = "drop"]
    <3>1. ~(x.coordinate >= Len(x.families))
      BY <1>0, <1>2
    <3> QED BY <1>2, <3>1 DEF NextCoordinate
  <2>2. /\ DOMAIN next = SolverFields /\ next.id = x.id /\ next.families = x.families /\ next.bounds = x.bounds
        /\ next.mags = x.mags /\ next.weights = x.weights /\ next.lo = x.lo /\ next.hi = x.hi
        /\ next.pass = x.pass /\ next.coordinate = x.coordinate + 1 /\ next.at = "drop"
    BY <2>1 DEF Searching, SolverFields
  <2> HIDE DEF next
  <2>3. SolverInv(next)
    <3>1. s.coordinate + 1 \in 1..n /\ x.pass \in Nat \ {0} /\ x.pass <= CoordinatePasses
      BY <1>0, <1>2
    <3> QED BY <1>0, <2>2, <3>1, Stays DEF SolverPhases
  <2>4. Remaining(next) = <<2, CoordinatePasses - s.pass, n - (s.coordinate + 1), 1, 0>>
    BY <2>2 DEF Remaining
  <2> HIDE DEF n
  <2>5. n - (s.coordinate + 1) \in Nat /\ n - (s.coordinate + 1) < n - s.coordinate /\ CoordinatePasses - s.pass \in Nat
    BY <1>0, <1>2 DEF n
  <2>6. Remaining(next) \in Counts /\ Less(Remaining(next), Remaining(s))
    <3> DEFINE p == CoordinatePasses - s.pass
               c == n - (s.coordinate + 1)
               e == n - s.coordinate
    <3>1. p \in Nat /\ c \in Nat /\ e \in Int /\ c < e
      BY <1>0, <2>5 DEF n
    <3> HIDE DEF p, c, e
    <3>2. <<2, p, c, 1, 0>> \in Counts /\ Less(<<2, p, c, 1, 0>>, <<2, p, e, d, w>>)
      BY <3>1, LessInTurn
    <3> QED BY <1>1, <2>4, <3>2 DEF p, c, e
  <2> QED BY <2>3, <2>6 DEF Goes, next
<1>3. CASE ~(x.coordinate < Len(x.families)) /\ x.mags # x.before /\ x.pass < CoordinatePasses
  <2>1. next = [x EXCEPT !.coordinate = 1, !.pass = x.pass + 1, !.before = x.mags, !.at = "drop"]
    BY <1>0, <1>3 DEF NextCoordinate
  <2>2. /\ DOMAIN next = SolverFields /\ next.id = x.id /\ next.families = x.families /\ next.bounds = x.bounds
        /\ next.mags = x.mags /\ next.weights = x.weights /\ next.lo = x.lo /\ next.hi = x.hi
        /\ next.pass = x.pass + 1 /\ next.coordinate = 1 /\ next.at = "drop"
    BY <2>1 DEF Searching, SolverFields
  <2> HIDE DEF next
  <2>3. SolverInv(next)
    <3>1. 1 \in 1..n /\ x.pass + 1 \in Nat \ {0} /\ x.pass + 1 <= CoordinatePasses
      BY <1>0, <1>3
    <3> QED BY <1>0, <2>2, <3>1, Stays DEF SolverPhases
  <2>4. Remaining(next) = <<2, CoordinatePasses - (s.pass + 1), n - 1, 1, 0>>
    BY <2>2 DEF Remaining
  <2>5. n - 1 \in Nat /\ CoordinatePasses - (s.pass + 1) \in Nat
        /\ CoordinatePasses - (s.pass + 1) < CoordinatePasses - s.pass
    BY <1>0, <1>3
  <2> HIDE DEF n
  <2>6. Remaining(next) \in Counts /\ Less(Remaining(next), Remaining(s))
    <3> DEFINE p == CoordinatePasses - (s.pass + 1)
               q == CoordinatePasses - s.pass
               c == n - 1
               e == n - s.coordinate
    <3>1. p \in Nat /\ c \in Nat /\ q \in Int /\ e \in Int /\ p < q
      BY <1>0, <2>5 DEF n
    <3> HIDE DEF p, q, c, e
    <3>2. <<2, p, c, 1, 0>> \in Counts /\ Less(<<2, p, c, 1, 0>>, <<2, q, e, d, w>>)
      BY <3>1, LessInTurn
    <3> QED BY <1>1, <2>4, <3>2 DEF p, q, c, e
  <2> QED BY <2>3, <2>6 DEF Goes, next
<1>4. CASE ~(x.coordinate < Len(x.families)) /\ ~(x.mags # x.before /\ x.pass < CoordinatePasses)
  <2>1. next = [x EXCEPT !.at = "final"]
    BY <1>0, <1>4 DEF NextCoordinate
  <2>2. /\ DOMAIN next = SolverFields /\ next.id = x.id /\ next.families = x.families /\ next.bounds = x.bounds
        /\ next.mags = x.mags /\ next.weights = x.weights /\ next.lo = x.lo /\ next.hi = x.hi
        /\ next.pass = x.pass /\ next.coordinate = x.coordinate /\ next.at = "final"
    BY <2>1 DEF Searching, SolverFields
  <2> HIDE DEF next
  <2>3. SolverInv(next)
    BY <2>2 DEF SolverInv, Searching, SolverPhases, Multi
  <2>4. Remaining(next) = <<1, 0, 0, 0, 0>>
    BY <2>2 DEF Remaining
  <2> HIDE DEF n
  <2> QED BY <1>1, <2>3, <2>4, LessAt DEF Goes, next
<1> QED BY <1>2, <1>3, <1>4

\* A bracket that is not yet narrow has become narrower.
LEMMA BisectedGoes ==
    ASSUME NEW s, Searching(s), s.at \in {"ray", "drop", "shrink"}, NEW met
    PROVE  LET b == Bisected(s, met) IN
           /\ Searching(b) /\ b.at = s.at /\ b.families = s.families /\ b.coordinate = s.coordinate
           /\ b.pass = s.pass /\ b.mags = s.mags
           /\ ~Narrow(b) => Width(b) \in Nat /\ Width(b) < Width(s)
<1> DEFINE b == Bisected(s, met)
           mid == Middle(s)
<1>0. s.lo \in Nat /\ s.hi \in Nat /\ s.lo <= s.hi
  BY DEF Searching
<1>1. mid \in Nat /\ s.lo <= mid /\ mid <= s.hi /\ (s.hi - s.lo >= 2 => s.lo < mid /\ mid < s.hi)
      /\ (s.hi - s.lo = 1 => mid = s.lo)
  BY <1>0 DEF Middle
<1> HIDE DEF mid
<1>2. b = [s EXCEPT !.lo = IF met THEN s.lo ELSE mid, !.hi = IF met THEN mid ELSE s.hi,
                    !.iterations = s.iterations + 1]
  BY DEF Bisected, mid
<1>3. /\ DOMAIN b = SolverFields /\ b.id = s.id /\ b.families = s.families /\ b.bounds = s.bounds
      /\ b.mags = s.mags /\ b.weights = s.weights /\ b.pass = s.pass /\ b.coordinate = s.coordinate /\ b.at = s.at
      /\ b.lo = (IF met THEN s.lo ELSE mid) /\ b.hi = (IF met THEN mid ELSE s.hi)
  BY <1>2 DEF Searching, SolverFields
<1> HIDE DEF b
<1>4. b.lo \in Nat /\ b.hi \in Nat /\ b.lo <= b.hi
  BY <1>0, <1>1, <1>3
<1>5. Searching(b)
  <2>1. /\ s.mags \in [DOMAIN s.bounds -> Nat] /\ s.coordinate \in 1..Len(s.families) /\ s.pass \in Nat \ {0}
        /\ s.at = "ray" => s.pass = 1
        /\ s.at \in {"drop", "shrink"} => s.pass <= CoordinatePasses
    BY DEF Searching
  <2> QED BY <1>3, <1>4, <2>1, Stays DEF SolverPhases
<1>6. ASSUME ~Narrow(b) PROVE Width(b) \in Nat /\ Width(b) < Width(s)
  <2>1. ~(b.hi - b.lo <= 1)
    BY <1>6 DEF Narrow
  <2>2. s.hi - s.lo >= 2
    BY <1>0, <1>1, <1>3, <2>1
  <2> QED BY <1>0, <1>1, <1>3, <2>2 DEF Width
<1> QED BY <1>3, <1>5, <1>6 DEF b

\* A point of the ray, and a magnitude on trial, are numbers.
LEMMA RayIsCounts ==
    ASSUME NEW s, Searching(s), NEW scale \in Nat
    PROVE  RayPoint(s, scale) \in [DOMAIN s.bounds -> Nat]
<1>1. ASSUME NEW x \in Nat, NEW y \in Nat PROVE (scale * x * y) \div 10000 \in Nat
  <2>1. scale * x * y \in Nat
    OBVIOUS
  <2>2. ASSUME NEW z \in Nat PROVE z \div 10000 \in Nat
    OBVIOUS
  <2> QED BY <2>1, <2>2
<1>2. ASSUME Multi(s), NEW f \in DOMAIN s.bounds PROVE (scale * s.weights[f] * s.bounds[f]) \div 10000 \in Nat
  <2>1. s.weights[f] \in Nat /\ s.bounds[f] \in Nat
    BY <1>2 DEF Searching
  <2> QED BY <1>1, <2>1
<1> QED BY <1>2 DEF RayPoint

LEMMA TrialIsCounts ==
    ASSUME NEW s, Searching(s), NEW magnitude \in Nat
    PROVE  Trial(s, magnitude) \in [DOMAIN s.bounds -> Nat] /\ s.mags[Family(s)] \in Nat
<1>1. Family(s) \in DOMAIN s.bounds
  BY DEF Searching, Family
<1>2. s.mags \in [DOMAIN s.bounds -> Nat]
  BY DEF Searching
<1> QED BY <1>1, <1>2 DEF Trial

\* A search moved to another point of its bounds is where it was otherwise.
LEMMA PointKeeps ==
    ASSUME NEW s, Searching(s), NEW mags \in [DOMAIN s.bounds -> Nat]
    PROVE  LET x == [s EXCEPT !.mags = mags] IN
           Searching(x) /\ x.at = s.at /\ x.families = s.families /\ x.coordinate = s.coordinate /\ x.pass = s.pass
<1> DEFINE x == [s EXCEPT !.mags = mags]
<1>1. /\ DOMAIN x = SolverFields /\ x.id = s.id /\ x.families = s.families /\ x.bounds = s.bounds
      /\ x.mags = mags /\ x.weights = s.weights /\ x.lo = s.lo /\ x.hi = s.hi
      /\ x.pass = s.pass /\ x.coordinate = s.coordinate /\ x.at = s.at
  BY DEF Searching, SolverFields
<1> HIDE DEF x
<1>2. Searching(x)
  BY <1>1 DEF Searching, Multi
<1> QED BY <1>1, <1>2 DEF x

\* A search that may refine its point does, and one that may not is at its last.
LEMMA RefineGoes ==
    ASSUME NEW s, s.at = "ray", NEW x, Searching(x), x.at = "ray"
    PROVE  Goes(s, Refine(x))
<1>0. /\ x.pass = 1 /\ CoordinatePasses \in Nat
      /\ Len(x.families) \in Nat /\ x.coordinate \in 1..Len(x.families)
  BY SolverAssumption DEF Searching
<1>1. Remaining(s) = <<3, 0, 0, 0, Width(s)>>
  BY DEF Remaining
<1>2. CASE CoordinatePasses = 0 \/ ~Multi(x)
  <2> DEFINE next == [x EXCEPT !.at = "final"]
  <2>1. Refine(x) = next
    BY <1>2 DEF Refine
  <2>2. /\ DOMAIN next = SolverFields /\ next.id = x.id /\ next.families = x.families /\ next.bounds = x.bounds
        /\ next.mags = x.mags /\ next.weights = x.weights /\ next.lo = x.lo /\ next.hi = x.hi
        /\ next.pass = x.pass /\ next.coordinate = x.coordinate /\ next.at = "final"
    BY DEF Searching, SolverFields
  <2> HIDE DEF next
  <2>3. SolverInv(next)
    BY <2>2 DEF SolverInv, Searching, SolverPhases, Multi
  <2>4. Remaining(next) = <<1, 0, 0, 0, 0>>
    BY <2>2 DEF Remaining
  <2> QED BY <1>1, <2>1, <2>3, <2>4, LessAt DEF Goes
<1>3. CASE ~(CoordinatePasses = 0 \/ ~Multi(x))
  <2> DEFINE next == [x EXCEPT !.at = "drop", !.before = x.mags]
  <2>1. Refine(x) = next
    BY <1>3 DEF Refine
  <2>2. /\ DOMAIN next = SolverFields /\ next.id = x.id /\ next.families = x.families /\ next.bounds = x.bounds
        /\ next.mags = x.mags /\ next.weights = x.weights /\ next.lo = x.lo /\ next.hi = x.hi
        /\ next.pass = x.pass /\ next.coordinate = x.coordinate /\ next.at = "drop"
    BY DEF Searching, SolverFields
  <2> HIDE DEF next
  <2>3. SolverInv(next)
    BY <1>0, <1>3, <2>2 DEF SolverInv, Searching, SolverPhases, Multi
  <2>4. Remaining(next) = <<2, CoordinatePasses - x.pass, Len(x.families) - x.coordinate, 1, 0>>
    BY <2>2 DEF Remaining
  <2>5. CoordinatePasses - x.pass \in Nat /\ Len(x.families) - x.coordinate \in Nat
    BY <1>0, <1>3
  <2>6. Remaining(next) \in Counts /\ Less(Remaining(next), Remaining(s))
    <3> DEFINE p == CoordinatePasses - x.pass
               c == Len(x.families) - x.coordinate
    <3>1. p \in Nat /\ c \in Nat
      BY <2>5
    <3> HIDE DEF p, c
    <3>2. <<2, p, c, 1, 0>> \in Counts /\ Less(<<2, p, c, 1, 0>>, <<3, 0, 0, 0, Width(s)>>)
      BY <3>1, LessPhase
    <3> QED BY <1>1, <2>4, <3>2 DEF p, c
  <2> QED BY <2>1, <2>3, <2>6 DEF Goes
<1> QED BY <1>2, <1>3

\* Whatever a search hears, it is done or less of it is left.
LEMMA ToldGoes ==
    ASSUME NEW s, Searching(s), s.at \in SolverPhases, NEW met, NEW pnl
    PROVE  Goes(s, Told(s, met, pnl))
<1> DEFINE n == Len(s.families)
           b == Bisected(s, met)
<1>0. /\ n \in Nat /\ s.coordinate \in 1..n /\ s.pass \in Nat \ {0} /\ CoordinatePasses \in Nat
      /\ s.hi - s.lo \in Nat /\ s.families[1] \in DOMAIN s.bounds /\ \A f \in DOMAIN s.bounds : s.bounds[f] \in Nat
  <2>1. s.families \in Seq(DOMAIN s.bounds) /\ s.coordinate \in 1..n /\ s.bounds \in [DOMAIN s.bounds -> Nat]
    BY DEF Searching
  <2>2. s.lo \in Nat /\ s.hi \in Nat /\ s.lo <= s.hi /\ s.pass \in Nat \ {0} /\ CoordinatePasses \in Nat
    BY SolverAssumption DEF Searching
  <2>3. n \in Nat /\ 1 \in 1..n
    BY <2>1
  <2> QED BY <2>1, <2>2, <2>3
<1>1. CASE s.at = "zero"
  <2>1. CASE met
    BY <1>1, <2>1, DoneEnds DEF Told
  <2>2. CASE ~met
    <3> DEFINE next == [s EXCEPT !.at = "corner"]
    <3>1. Told(s, met, pnl) = next
      BY <1>1, <2>2 DEF Told
    <3>2. /\ DOMAIN next = SolverFields /\ next.id = s.id /\ next.families = s.families /\ next.bounds = s.bounds
          /\ next.mags = s.mags /\ next.weights = s.weights /\ next.lo = s.lo /\ next.hi = s.hi
          /\ next.pass = s.pass /\ next.coordinate = s.coordinate /\ next.at = "corner"
      BY DEF Searching, SolverFields
    <3> HIDE DEF next
    <3>3. SolverInv(next)
      BY <1>1, <3>2 DEF SolverInv, Searching, SolverPhases, Multi
    <3>4. Remaining(next) = <<4, 0, 0, 0, 0>> /\ Remaining(s) = <<5, 0, 0, 0, 0>>
      BY <1>1, <3>2 DEF Remaining
    <3> QED BY <3>1, <3>3, <3>4, LessAt DEF Goes
  <2> QED BY <2>1, <2>2
<1>2. CASE s.at = "corner"
  <2>1. CASE ~met
    BY <1>2, <2>1, DoneEnds DEF Told
  <2>2. CASE met
    <3> DEFINE top == IF Multi(s) THEN 100 ELSE s.bounds[s.families[1]]
               next == [s EXCEPT !.at = "ray", !.hi = top]
    <3>1. Told(s, met, pnl) = next
      BY <1>2, <2>2 DEF Told
    <3>2. top \in Nat
      BY <1>0
    <3> HIDE DEF top
    <3>3. /\ DOMAIN next = SolverFields /\ next.id = s.id /\ next.families = s.families /\ next.bounds = s.bounds
          /\ next.mags = s.mags /\ next.weights = s.weights /\ next.lo = s.lo /\ next.hi = top
          /\ next.pass = s.pass /\ next.coordinate = s.coordinate /\ next.at = "ray"
      BY DEF Searching, SolverFields
    <3> HIDE DEF next
    <3>4. s.lo = 0
      BY <1>2 DEF Searching
    <3>5. SolverInv(next)
      BY <1>2, <3>2, <3>3, <3>4 DEF SolverInv, Searching, SolverPhases, Multi
    <3>6. Remaining(next) = <<3, 0, 0, 0, top>> /\ Remaining(s) = <<4, 0, 0, 0, 0>>
      BY <1>2, <3>2, <3>3, <3>4 DEF Remaining, Width
    <3>7. Remaining(next) \in Counts /\ Less(Remaining(next), Remaining(s))
      BY <3>2, <3>6, LessAt
    <3> QED BY <3>1, <3>5, <3>7 DEF Goes
  <2> QED BY <2>1, <2>2
<1>3. CASE s.at = "ray"
  <2>1. /\ Searching(b) /\ b.at = "ray"
        /\ ~Narrow(b) => Width(b) \in Nat /\ Width(b) < Width(s)
    BY <1>3, BisectedGoes
  <2>2. CASE Narrow(b)
    <3> DEFINE x == [b EXCEPT !.mags = RayPoint(b, b.hi)]
    <3>1. Told(s, met, pnl) = Refine(x)
      BY <1>3, <2>2 DEF Told
    <3>0. b.hi \in Nat
      BY <2>1 DEF Searching
    <3>2. Searching(x) /\ x.at = "ray"
      <4> HIDE DEF b
      <4> QED BY <2>1, <3>0, PointKeeps, RayIsCounts
    <3> HIDE DEF x
    <3> QED BY <1>3, <3>1, <3>2, RefineGoes
  <2>3. CASE ~Narrow(b)
    <3>1. Told(s, met, pnl) = b
      BY <1>3, <2>3 DEF Told
    <3> HIDE DEF b
    <3>2. SolverInv(b) /\ Remaining(b) = <<3, 0, 0, 0, Width(b)>> /\ Remaining(s) = <<3, 0, 0, 0, Width(s)>>
      BY <1>3, <2>1 DEF Remaining, SolverInv, SolverPhases
    <3>3. Remaining(b) \in Counts /\ Less(Remaining(b), Remaining(s))
      BY <2>1, <2>3, <3>2, LessAt
    <3> QED BY <3>1, <3>2, <3>3 DEF Goes
  <2> QED BY <2>2, <2>3
<1>4. CASE s.at = "drop"
  <2>1. CASE met
    <3> DEFINE x == [s EXCEPT !.mags = Trial(s, 0)]
    <3>1. Told(s, met, pnl) = NextCoordinate(x)
      BY <1>4, <2>1 DEF Told
    <3>2. Searching(x) /\ x.at = s.at /\ x.families = s.families /\ x.coordinate = s.coordinate /\ x.pass = s.pass
      BY PointKeeps, TrialIsCounts
    <3> HIDE DEF x
    <3> QED BY <1>4, <3>1, <3>2, NextGoes
  <2>2. CASE ~met
    <3> DEFINE top == s.mags[Family(s)]
               next == [s EXCEPT !.at = "shrink", !.lo = 0, !.hi = top, !.iterations = 0]
    <3>1. Told(s, met, pnl) = next
      BY <1>4, <2>2 DEF Told
    <3>2. top \in Nat
      BY TrialIsCounts
    <3> HIDE DEF top
    <3>3. /\ DOMAIN next = SolverFields /\ next.id = s.id /\ next.families = s.families /\ next.bounds = s.bounds
          /\ next.mags = s.mags /\ next.weights = s.weights /\ next.lo = 0 /\ next.hi = top
          /\ next.pass = s.pass /\ next.coordinate = s.coordinate /\ next.at = "shrink"
      BY DEF Searching, SolverFields
    <3> HIDE DEF next
    <3>4. SolverInv(next) /\ s.pass <= CoordinatePasses
      BY <1>4, <3>2, <3>3 DEF SolverInv, Searching, SolverPhases, Multi
    <3>5. /\ Remaining(next) = <<2, CoordinatePasses - s.pass, n - s.coordinate, 0, top>>
          /\ Remaining(s) = <<2, CoordinatePasses - s.pass, n - s.coordinate, 1, 0>>
      BY <1>4, <3>2, <3>3 DEF Remaining, Width
    <3> HIDE DEF n
    <3>6. CoordinatePasses - s.pass \in Nat /\ n - s.coordinate \in Nat
      BY <1>0, <3>4
    <3>7. Remaining(next) \in Counts /\ Less(Remaining(next), Remaining(s))
      <4> DEFINE p == CoordinatePasses - s.pass
                 c == n - s.coordinate
      <4>1. p \in Nat /\ c \in Nat
        BY <3>6
      <4> HIDE DEF p, c
      <4>2. <<2, p, c, 0, top>> \in Counts /\ Less(<<2, p, c, 0, top>>, <<2, p, c, 1, 0>>)
        BY <3>2, <4>1, LessInTurn
      <4> QED BY <3>5, <4>2 DEF p, c
    <3> QED BY <3>1, <3>4, <3>7 DEF Goes
  <2> QED BY <2>1, <2>2
<1>5. CASE s.at = "shrink"
  <2>1. /\ Searching(b) /\ b.at = s.at /\ b.families = s.families /\ b.coordinate = s.coordinate
        /\ b.pass = s.pass /\ b.mags = s.mags
        /\ ~Narrow(b) => Width(b) \in Nat /\ Width(b) < Width(s)
    BY <1>5, BisectedGoes
  <2>2. CASE Narrow(b)
    <3> DEFINE x == [b EXCEPT !.mags = Trial(b, b.hi)]
    <3>1. Told(s, met, pnl) = NextCoordinate(x)
      BY <1>5, <2>2 DEF Told
    <3> HIDE DEF b
    <3>2. b.hi \in Nat
      BY <2>1 DEF Searching
    <3>3. Searching(x) /\ x.at = s.at /\ x.families = s.families /\ x.coordinate = s.coordinate /\ x.pass = s.pass
      BY <2>1, <3>2, PointKeeps, TrialIsCounts
    <3> HIDE DEF x
    <3> QED BY <1>5, <3>1, <3>3, NextGoes
  <2>3. CASE ~Narrow(b)
    <3>1. Told(s, met, pnl) = b
      BY <1>5, <2>3 DEF Told
    <3> HIDE DEF b
    <3>2. /\ SolverInv(b) /\ s.pass <= CoordinatePasses
          /\ Remaining(b) = <<2, CoordinatePasses - s.pass, n - s.coordinate, 0, Width(b)>>
          /\ Remaining(s) = <<2, CoordinatePasses - s.pass, n - s.coordinate, 0, Width(s)>>
      BY <1>5, <2>1 DEF Remaining, SolverInv, SolverPhases, Searching
    <3> HIDE DEF n
    <3>3. CoordinatePasses - s.pass \in Nat /\ n - s.coordinate \in Nat
      BY <1>0, <3>2
    <3>4. Remaining(b) \in Counts /\ Less(Remaining(b), Remaining(s))
      <4> DEFINE p == CoordinatePasses - s.pass
                 c == n - s.coordinate
                 w == Width(b)
                 v == Width(s)
      <4>1. p \in Nat /\ c \in Nat /\ w \in Nat /\ w < v
        BY <2>1, <2>3, <3>3
      <4>2. v \in Int
        BY DEF Searching, Width
      <4> HIDE DEF p, c, w, v
      <4>3. <<2, p, c, 0, w>> \in Counts /\ Less(<<2, p, c, 0, w>>, <<2, p, c, 0, v>>)
        BY <4>1, <4>2, LessInTurn
      <4> QED BY <3>2, <4>3 DEF p, c, w, v
    <3> QED BY <3>1, <3>2, <3>4 DEF Goes
  <2> QED BY <2>2, <2>3
<1>6. CASE s.at = "final"
  BY <1>6, DoneEnds DEF Told
<1> QED BY <1>1, <1>2, <1>3, <1>4, <1>5, <1>6 DEF SolverPhases

-----------------------------------------------------------------------------
(* The steps of a request.                                                    *)

\* What the steps of one thread have in common: the others' calls stay.
LEMMA ThreadStep ==
    ASSUME CallsInv, NEW t \in Threads, NEW c, NEW a,
           call' = [call EXCEPT ![t] = c], answer' = [answer EXCEPT ![t] = a],
           c # None => a = None /\ CallInv(t, c)
    PROVE  CallsInv'
  BY DEF CallsInv

LEMMA HandStep ==
    ASSUME CallsInv, NEW t \in Threads, call[t] # None, ~Exhausted(call[t]), NEW snap, Hand(t, snap)
    PROVE  CallsInv'
<1> DEFINE c == call[t]
           next == IF Solves(c.request) THEN [c EXCEPT !.at = "price", !.snaps = <<snap>>]
                   ELSE [c EXCEPT !.at = "get", !.snaps = Append(c.snaps, snap)]
<1>1. answer[t] = None /\ CallInv(t, c)
  BY DEF CallsInv
<1>2. call' = [call EXCEPT ![t] = next] /\ answer' = answer
  BY DEF Hand
<1>3. CallInv(t, next)
  <2>1. CASE Solves(c.request)
    <3> DEFINE n == [c EXCEPT !.at = "price", !.snaps = <<snap>>]
    <3>1. /\ DOMAIN n = {"request", "market", "at", "snaps", "solver"} /\ n.request = c.request
          /\ n.market = c.market /\ n.at = "price" /\ n.solver = c.solver
      BY <1>1 DEF CallInv
    <3> HIDE DEF n
    <3>2. ~Exhausted(n)
      BY <2>1, <3>1 DEF Exhausted
    <3>3. CallInv(t, n)
      BY <1>1, <2>1, <3>1, <3>2 DEF CallInv
    <3> QED BY <2>1, <3>3 DEF n
  <2>2. CASE ~Solves(c.request)
    <3> DEFINE n == [c EXCEPT !.at = "get", !.snaps = Append(c.snaps, snap)]
    <3>1. /\ DOMAIN n = {"request", "market", "at", "snaps", "solver"} /\ n.request = c.request
          /\ n.market = c.market /\ n.at = "get"
      BY <1>1 DEF CallInv
    <3> HIDE DEF n
    <3>2. CallInv(t, n)
      BY <1>1, <2>2, <3>1 DEF CallInv
    <3> QED BY <2>2, <3>2 DEF n
  <2> QED BY <2>1, <2>2
<1> HIDE DEF next
<1> QED BY <1>1, <1>2, <1>3 DEF CallsInv

\* A request that has been answered is not in progress.
LEMMA AnsweredStep ==
    ASSUME CallsInv, NEW t \in Threads, NEW c, NEW failed, Answered(t, c, failed)
    PROVE  CallsInv'
<1> DEFINE a == [request |-> c.request, market |-> c.market, snaps |-> c.snaps, solver |-> c.solver,
                 failed |-> failed]
<1>1. call' = [call EXCEPT ![t] = None] /\ answer' = [answer EXCEPT ![t] = a]
  BY DEF Answered
<1> HIDE DEF a
<1> QED BY <1>1 DEF CallsInv

LEMMA StartStep ==
    ASSUME CallsInv, NEW t \in Threads, Start(t)
    PROVE  CallsInv'
<1>1. PICK r \in Requests[t], m \in Markets :
         LET begun(s) == [request |-> r, market |-> m, at |-> "get", snaps |-> <<>>, solver |-> s]
         IN  IF StartSolver(r) = {} THEN Answered(t, begun(None), TRUE)
             ELSE /\ \E s \in StartSolver(r) : call' = [call EXCEPT ![t] = begun(s)]
                  /\ UNCHANGED answer
  BY DEF Start
<1>2. CASE StartSolver(r) = {}
  BY <1>1, <1>2, AnsweredStep
<1>3. CASE StartSolver(r) # {}
  <2>1. PICK s \in StartSolver(r) :
           call' = [call EXCEPT ![t] = [request |-> r, market |-> m, at |-> "get", snaps |-> <<>>, solver |-> s]]
    BY <1>1, <1>3
  <2>2. answer' = answer /\ answer[t] = None
    BY <1>1, <1>3 DEF Start
  <2> DEFINE c == [request |-> r, market |-> m, at |-> "get", snaps |-> <<>>, solver |-> s]
  <2>3. CallInv(t, c)
    <3>1. Solves(r) => SolverInv(s)
      BY Begun
    <3> QED BY <3>1 DEF CallInv
  <2>4. call' = [call EXCEPT ![t] = c]
    BY <2>1
  <2> HIDE DEF c
  <2> QED BY <2>2, <2>3, <2>4 DEF CallsInv
<1> QED BY <1>2, <1>3

LEMMA LookStep ==
    ASSUME ServiceInv, NEW t \in Threads, Look(t)
    PROVE  ServiceInv'
<1> DEFINE c == call[t]
           got == MemoGet(memo, KeyOf(c))
<1>1. /\ MemoInv /\ CallsInv /\ c # None /\ ~Exhausted(c) /\ c.at = "get" /\ memo' = got.lru
      /\ IF got.hit # {} THEN \E snap \in got.hit : Hand(t, snap)
         ELSE call' = [call EXCEPT ![t].at = "put"] /\ UNCHANGED answer
  BY DEF Look, ServiceInv
<1>2. MemoInv'
  <2>1. memo \in Seq(Range(memo)) /\ DistinctKeys(memo) /\ Len(memo) <= MemoSize
    BY <1>1 DEF MemoInv, DistinctKeys
  <2>2. memo' \in Seq(Range(memo')) /\ Len(memo') = Len(memo) /\ DistinctKeys(memo')
    BY <1>1, <2>1, GetKeeps
  <2> QED BY <2>1, <2>2 DEF MemoInv, DistinctKeys
<1>3. CallsInv'
  <2>1. CASE got.hit # {}
    BY <1>1, <2>1, HandStep
  <2>2. CASE got.hit = {}
    <3> DEFINE next == [c EXCEPT !.at = "put"]
    <3>1. call' = [call EXCEPT ![t] = next] /\ answer' = answer
      BY <1>1, <2>2
    <3>2. answer[t] = None /\ CallInv(t, c)
      BY <1>1 DEF CallsInv
    <3>3. /\ DOMAIN next = {"request", "market", "at", "snaps", "solver"} /\ next.request = c.request
          /\ next.market = c.market /\ next.at = "put" /\ next.solver = c.solver /\ next.snaps = c.snaps
      BY <3>2 DEF CallInv
    <3> HIDE DEF next
    <3>4. ~Exhausted(next)
      BY <1>1, <3>3 DEF Exhausted
    <3>5. CallInv(t, next)
      BY <3>2, <3>3, <3>4 DEF CallInv
    <3> QED BY <1>1, <3>1, <3>2, <3>5 DEF CallsInv
  <2> QED BY <2>1, <2>2
<1> QED BY <1>2, <1>3 DEF ServiceInv

LEMMA StoreStep ==
    ASSUME ServiceInv, NEW t \in Threads, Store(t)
    PROVE  ServiceInv'
<1> DEFINE c == call[t]
           out == ApplyUncached(c.market, Next1(c), None)
<1>1. /\ MemoInv /\ CallsInv /\ c # None /\ c.at = "put"
      /\ \/ Answered(t, c, TRUE) /\ UNCHANGED memo
         \/ \E snap \in out : LET put == MemoPut(memo, KeyOf(c), snap, MemoSize)
                              IN  memo' = put.lru /\ Hand(t, put.value)
  BY DEF Store, ServiceInv
<1>2. ~Exhausted(c)
  BY <1>1 DEF CallsInv, CallInv
<1>3. CASE Answered(t, c, TRUE) /\ UNCHANGED memo
  BY <1>1, <1>3, AnsweredStep DEF ServiceInv, MemoInv
<1>4. ASSUME NEW snap \in out, memo' = MemoPut(memo, KeyOf(c), snap, MemoSize).lru,
             Hand(t, MemoPut(memo, KeyOf(c), snap, MemoSize).value)
      PROVE  ServiceInv'
  <2>1. memo \in Seq(Range(memo)) /\ DistinctKeys(memo) /\ Len(memo) <= MemoSize
    BY <1>1 DEF MemoInv, DistinctKeys
  <2>2. memo' \in Seq(Range(memo')) /\ Len(memo') <= MemoSize /\ DistinctKeys(memo')
    BY <1>4, <2>1, PutKeeps
  <2>3. MemoInv'
    BY <2>2 DEF MemoInv, DistinctKeys
  <2>4. CallsInv'
    BY <1>1, <1>2, <1>4, HandStep
  <2> QED BY <2>3, <2>4 DEF ServiceInv
<1> QED BY <1>1, <1>3, <1>4

LEMMA PriceStep ==
    ASSUME ServiceInv, NEW t \in Threads, Price(t)
    PROVE  ServiceInv'
<1> DEFINE c == call[t]
<1>1. MemoInv /\ CallsInv /\ c # None /\ c.at = "price" /\ memo' = memo
  BY DEF Price, ServiceInv
<1>2. MemoInv'
  BY <1>1 DEF MemoInv
<1>3. /\ answer[t] = None /\ CallInv(t, c) /\ Solves(c.request)
      /\ Searching(c.solver) /\ c.solver.at \in SolverPhases
  BY <1>1 DEF CallsInv, CallInv, SolverInv, Exhausted
<1>4. \/ Answered(t, c, TRUE)
      \/ \E met, pnl : /\ call' = [call EXCEPT ![t].at = "get", ![t].snaps = <<>>,
                                     ![t].solver = Told(@, met, pnl)]
                       /\ UNCHANGED answer
  BY Zenon DEF Price
<1>5. CASE Answered(t, c, TRUE)
  BY <1>1, <1>2, <1>5, AnsweredStep DEF ServiceInv
<1>6. ASSUME NEW met, NEW pnl, call' = [call EXCEPT ![t].at = "get", ![t].snaps = <<>>,
                                          ![t].solver = Told(@, met, pnl)], UNCHANGED answer
      PROVE  ServiceInv'
  <2> DEFINE told == Told(c.solver, met, pnl)
             next == [c EXCEPT !.at = "get", !.snaps = <<>>, !.solver = told]
  <2>1. call' = [call EXCEPT ![t] = next]
    BY <1>6
  <2>2. SolverInv(told)
    BY <1>3, ToldGoes DEF Goes
  <2> HIDE DEF told
  <2>3. /\ DOMAIN next = {"request", "market", "at", "snaps", "solver"} /\ next.request = c.request
        /\ next.market = c.market /\ next.at = "get" /\ next.solver = told
    BY <1>3 DEF CallInv
  <2> HIDE DEF next
  <2>4. CallInv(t, next)
    BY <1>3, <2>2, <2>3 DEF CallInv
  <2>5. CallsInv'
    BY <1>1, <1>3, <1>6, <2>1, <2>4 DEF CallsInv
  <2> QED BY <1>2, <2>5 DEF ServiceInv
<1> QED BY <1>4, <1>5, <1>6

LEMMA AnswerStep ==
    ASSUME ServiceInv, NEW t \in Threads, Answer(t)
    PROVE  ServiceInv'
  BY AnsweredStep DEF Answer, ServiceInv, MemoInv

LEMMA ServiceInit ==
    ASSUME Init
    PROVE  ServiceInv
<1>1. MemoInv
  <2>1. memo = <<>> /\ Len(memo) = 0 /\ DOMAIN memo = {}
    BY DEF Init
  <2> QED BY <2>1, MemoSizeAssumption DEF MemoInv
<1>2. CallsInv
  BY DEF Init, CallsInv
<1> QED BY <1>1, <1>2 DEF ServiceInv

LEMMA ServiceStep ==
    ASSUME ServiceInv, [Next]_vars
    PROVE  ServiceInv'
<1>1. ASSUME NEW t \in Threads, Start(t) PROVE ServiceInv'
  BY <1>1, StartStep DEF Start, ServiceInv, MemoInv
<1>2. ASSUME NEW t \in Threads, Step(t) PROVE ServiceInv'
  BY <1>2, LookStep, StoreStep, PriceStep, AnswerStep DEF Step
<1>3. CASE UNCHANGED vars
  BY <1>3 DEF vars, ServiceInv, MemoInv, CallsInv, CallInv
<1> QED BY <1>1, <1>2, <1>3 DEF Next

LEMMA ServiceTypes ==
    ASSUME ServiceInv
    PROVE  TypeOK
  BY DEF ServiceInv, MemoInv, CallsInv, CallInv, TypeOK

-----------------------------------------------------------------------------
(* What is served from the memo.                                              *)

\* A scenario as it is on a snapshot has one shape, and what it makes of the
\* snapshot is a matter of its name and its shocks.
LEMMA PlannedShape ==
    ASSUME NEW m, NEW s \in Planned(m)
    PROVE  s.shape = "formal"
<1>1. PICK t \in Threads : \E r \in Requests[t] :
         \E k \in DOMAIN Plan(r) : s = to_canonical_scenario(Plan(r)[k], m)
  <2> DEFINE Asked == {q \in UNION {Requests[t] : t \in Threads} : ~Solves(q)}
  <2>1. PICK x \in UNION {{Plan(r)} \X DOMAIN Plan(r) : r \in Asked} : s = to_canonical_scenario(x[1][x[2]], m)
    BY DEF Planned
  <2>2. PICK r \in Asked : x \in {Plan(r)} \X DOMAIN Plan(r)
    BY <2>1
  <2>3. x[1] = Plan(r) /\ x[2] \in DOMAIN Plan(r)
    BY <2>2
  <2> QED BY <2>1, <2>2, <2>3
<1>0. PICK r \in Requests[t] : \E k \in DOMAIN Plan(r) : s = to_canonical_scenario(Plan(r)[k], m)
  BY <1>1
<1>2. PICK k \in DOMAIN Plan(r) : s = to_canonical_scenario(Plan(r)[k], m)
  BY <1>0
<1>3. Plan(r)[k].shape \in {"formal", "broadcast", "stress"}
  BY PlanAssumption
<1>4. CASE Plan(r)[k].shape = "formal"
  BY <1>2, <1>4 DEF to_canonical_scenario
<1>5. CASE Plan(r)[k].shape = "broadcast"
  BY <1>2, <1>5 DEF to_canonical_scenario, expand_broadcast_definition, Formal
<1>6. CASE Plan(r)[k].shape = "stress"
  BY <1>2, <1>6 DEF to_canonical_scenario, scenario_from_stress, Formal
<1> QED BY <1>3, <1>4, <1>5, <1>6

LEMMA SameKeySame ==
    ASSUME KeysTellApart, NEW m \in Markets, NEW n \in Markets, NEW s \in Planned(m), NEW u \in Planned(n),
           scenario_memo_key(m, s.shocks, s.id) = scenario_memo_key(n, u.shocks, u.id)
    PROVE  ApplyUncached(m, s, None) = ApplyUncached(n, u, None)
<1>1. /\ m.id = n.id /\ Marks(m) = Marks(n) /\ s.id = u.id
      /\ shock_fingerprint(s.shocks) = shock_fingerprint(u.shocks)
  BY DEF scenario_memo_key
<1>2. m = n
  BY <1>1 DEF KeysTellApart
<1>3. s.shocks = u.shocks
  BY <1>1, <1>2 DEF KeysTellApart
<1>4. ScenarioTag(s, None) = ScenarioTag(u, None)
  BY <1>1, PlannedShape DEF ScenarioTag
<1>5. expand_scenario(m, s) = expand_scenario(n, u)
  BY <1>2, <1>3, PlannedShape DEF expand_scenario
<1> QED BY <1>2, <1>4, <1>5 DEF ApplyUncached

\* The scenario a request is about to apply is one it has named.
LEMMA NextPlanned ==
    ASSUME NEW t \in Threads, NEW c, CallInv(t, c), ~Solves(c.request), Served(c), ~Exhausted(c)
    PROVE  LET n == Len(c.snaps) + 1 IN
           /\ n \in DOMAIN Plan(c.request) /\ n <= Len(Plan(c.request))
           /\ Next1(c) = ScenarioOf(c, n) /\ Next1(c) \in Planned(c.market)
<1> DEFINE n == Len(c.snaps) + 1
           plan == Plan(c.request)
<1>1. c.request \in Requests[t]
  BY DEF CallInv
<1>2. plan \in Seq(Range(plan)) /\ Len(plan) \in Nat /\ DOMAIN plan = 1..Len(plan)
  BY <1>1, PlanAssumption, OwnSeq
<1>3. Len(c.snaps) \in Nat /\ Len(c.snaps) <= Len(plan) /\ Len(c.snaps) # Len(plan)
  BY DEF Served, Exhausted
<1>4. n \in DOMAIN plan /\ n <= Len(plan)
  <2> HIDE DEF plan
  <2> QED BY <1>2, <1>3
<1>5. Next1(c) = ScenarioOf(c, n)
  BY DEF Next1, ScenarioOf
<1>6. ScenarioOf(c, n) \in Planned(c.market)
  <2> DEFINE Asked == {q \in UNION {Requests[u] : u \in Threads} : ~Solves(q)}
  <2>1. c.request \in Asked
    BY <1>1
  <2> HIDE DEF Asked
  <2>2. <<plan, n>> \in UNION {{Plan(r)} \X DOMAIN Plan(r) : r \in Asked}
    BY <1>4, <2>1
  <2>3. ScenarioOf(c, n) = to_canonical_scenario(<<plan, n>>[1][<<plan, n>>[2]], c.market)
    BY DEF ScenarioOf
  <2> QED BY <2>2, <2>3 DEF Planned, Asked
<1> QED BY <1>4, <1>5, <1>6

\* An entry is fresh when it is stored, and what it serves is what applying the
\* scenario gives.
LEMMA StoredFresh ==
    ASSUME KeysTellApart, NEW t \in Threads, NEW c, CallInv(t, c), ~Exhausted(c),
           ~Solves(c.request) => Served(c), NEW snap \in ApplyUncached(c.market, Next1(c), None)
    PROVE  EntryFresh(Entry(KeyOf(c), snap))
<1> SUFFICES ASSUME NEW m \in Markets, NEW s \in Planned(m), KeyOf(c) = scenario_memo_key(m, s.shocks, s.id)
             PROVE  snap \in ApplyUncached(m, s, None)
  BY DEF EntryFresh, Entry
<1>1. CASE Solves(c.request)
  <2>1. c.solver.id \in SearchIds
    BY <1>1 DEF CallInv, SolverInv, Searching, Exhausted
  <2>2. Next1(c).id = c.solver.id
    BY <1>1 DEF Next1, build_reverse_scenario, Formal
  <2>3. s.id = Next1(c).id
    BY DEF KeyOf, scenario_memo_key
  <2> QED BY <2>1, <2>2, <2>3 DEF KeysTellApart
<1>2. CASE ~Solves(c.request)
  <2>1. Next1(c) \in Planned(c.market) /\ c.market \in Markets
    BY <1>2, NextPlanned DEF CallInv
  <2>2. scenario_memo_key(c.market, Next1(c).shocks, Next1(c).id) = scenario_memo_key(m, s.shocks, s.id)
    BY DEF KeyOf
  <2>3. ApplyUncached(c.market, Next1(c), None) = ApplyUncached(m, s, None)
    BY <2>1, <2>2, SameKeySame
  <2> QED BY <2>3
<1> QED BY <1>1, <1>2

LEMMA ServedFresh ==
    ASSUME NEW t \in Threads, NEW c, CallInv(t, c), ~Exhausted(c), ~Solves(c.request), Served(c),
           NEW e, EntryFresh(e), e.key = KeyOf(c)
    PROVE  e.value \in ApplyUncached(c.market, Next1(c), None)
<1>1. Next1(c) \in Planned(c.market) /\ c.market \in Markets
  BY NextPlanned DEF CallInv
<1> QED BY <1>1 DEF EntryFresh, KeyOf

\* Each thread's request is served what it should be.
AllServed == \A t \in Threads : (call[t] # None /\ ~Solves(call[t].request)) => Served(call[t])

LEMMA HandFresh ==
    ASSUME CallsInv, AllServed, NEW t \in Threads, call[t] # None, ~Exhausted(call[t]), NEW snap, Hand(t, snap),
           ~Solves(call[t].request) => snap \in ApplyUncached(call[t].market, Next1(call[t]), None)
    PROVE  AllServed'
<1> DEFINE c == call[t]
<1>1. CallInv(t, c) /\ DOMAIN call = Threads
  BY DEF CallsInv
<1>2. DOMAIN c = {"request", "market", "at", "snaps", "solver"}
  BY <1>1 DEF CallInv
<1>3. \A u \in Threads : u # t => call'[u] = call[u]
  BY <1>1 DEF Hand
<1>4. CASE Solves(c.request)
  <2>1. call'[t] = [c EXCEPT !.at = "price", !.snaps = <<snap>>]
    BY <1>1, <1>4 DEF Hand
  <2>2. call'[t].request = c.request
    BY <1>2, <2>1
  <2> QED BY <1>3, <1>4, <2>2 DEF AllServed
<1>5. CASE ~Solves(c.request)
  <2> DEFINE n == Len(c.snaps) + 1
  <2>1. call'[t] = [c EXCEPT !.at = "get", !.snaps = Append(c.snaps, snap)]
    BY <1>1, <1>5 DEF Hand
  <2>2. /\ call'[t].request = c.request /\ call'[t].market = c.market
        /\ call'[t].snaps = Append(c.snaps, snap)
    BY <1>2, <2>1
  <2>3. Served(c)
    BY <1>5 DEF AllServed
  <2>4. /\ n <= Len(Plan(c.request)) /\ Next1(c) = ScenarioOf(c, n)
    BY <1>1, <1>5, <2>3, NextPlanned
  <2>5. /\ Append(c.snaps, snap) \in Seq(Range(Append(c.snaps, snap))) /\ Len(Append(c.snaps, snap)) = n
        /\ DOMAIN Append(c.snaps, snap) = 1..n /\ Append(c.snaps, snap)[n] = snap
        /\ \A k \in DOMAIN c.snaps : Append(c.snaps, snap)[k] = c.snaps[k]
    BY <2>3, Extended DEF Served
  <2> DEFINE x == call'[t]
  <2>6. \A k : ScenarioOf(x, k) = ScenarioOf(c, k)
    BY <2>2 DEF ScenarioOf
  <2>7. ASSUME NEW k \in DOMAIN x.snaps PROVE x.snaps[k] \in ApplyUncached(x.market, ScenarioOf(x, k), None)
    <3>1. CASE k \in DOMAIN c.snaps
      BY <2>2, <2>3, <2>5, <2>6, <3>1 DEF Served
    <3>2. CASE k \notin DOMAIN c.snaps
      <4>1. Len(c.snaps) \in Nat /\ DOMAIN c.snaps = 1..Len(c.snaps)
        BY <2>3, OwnSeq DEF Served
      <4>2. k = n
        BY <2>2, <2>5, <3>2, <4>1
      <4> QED BY <1>5, <2>2, <2>4, <2>5, <2>6, <4>2
    <3> QED BY <3>1, <3>2
  <2>8. Served(x)
    BY <2>2, <2>4, <2>5, <2>7 DEF Served
  <2> HIDE DEF x
  <2> QED BY <1>3, <2>8 DEF AllServed, x
<1> QED BY <1>4, <1>5

\* A request that ends leaves the others as they are.
LEMMA EndFresh ==
    ASSUME CallsInv, AllServed, NEW t \in Threads, NEW c, NEW failed, Answered(t, c, failed)
    PROVE  AllServed'
<1>1. DOMAIN call = Threads /\ call' = [call EXCEPT ![t] = None]
  BY DEF CallsInv, Answered
<1> QED BY <1>1 DEF AllServed

-----------------------------------------------------------------------------
(* Every step serves what it should.                                          *)

LEMMA FreshInit ==
    ASSUME Init
    PROVE  FreshInv
<1>1. DOMAIN memo = {}
  BY DEF Init
<1> QED BY <1>1 DEF Init, FreshInv, MemoFresh

LEMMA FreshBegins ==
    ASSUME CallsInv, AllServed, NEW t \in Threads, Start(t)
    PROVE  AllServed'
<1>0. PICK r \in Requests[t], m \in Markets :
         LET begun(s) == [request |-> r, market |-> m, at |-> "get", snaps |-> <<>>, solver |-> s]
         IN  IF StartSolver(r) = {} THEN Answered(t, begun(None), TRUE)
             ELSE /\ \E s \in StartSolver(r) : call' = [call EXCEPT ![t] = begun(s)]
                  /\ UNCHANGED answer
  BY DEF Start
<1>1. CASE StartSolver(r) = {}
  BY <1>0, <1>1, EndFresh
<1>2. CASE StartSolver(r) # {}
  <2>1. PICK s \in StartSolver(r) :
           call' = [call EXCEPT ![t] = [request |-> r, market |-> m, at |-> "get", snaps |-> <<>>, solver |-> s]]
    BY <1>0, <1>2
  <2> DEFINE c == [request |-> r, market |-> m, at |-> "get", snaps |-> <<>>, solver |-> s]
  <2>2. c.snaps = <<>> /\ c.request = r
    OBVIOUS
  <2>3. ASSUME ~Solves(r) PROVE Served(c)
    <3>1. Plan(r) \in Seq(Range(Plan(r)))
      BY PlanAssumption
    <3>2. 0 <= Len(Plan(r))
      BY <3>1, OwnSeq
    <3>3. <<>> \in Seq(Range(<<>>)) /\ Len(<<>>) = 0 /\ DOMAIN <<>> = {}
      OBVIOUS
    <3> HIDE DEF c
    <3> QED BY <2>2, <3>2, <3>3 DEF Served
  <2>4. call' = [call EXCEPT ![t] = c]
    BY <2>1
  <2> HIDE DEF c
  <2> QED BY <2>2, <2>3, <2>4 DEF AllServed, CallsInv
<1> QED BY <1>1, <1>2

LEMMA FreshLook ==
    ASSUME ServiceInv, FreshInv, NEW t \in Threads, Look(t)
    PROVE  FreshInv'
<1> DEFINE c == call[t]
           got == MemoGet(memo, KeyOf(c))
<1>1. /\ MemoInv /\ CallsInv /\ MemoFresh /\ AllServed
      /\ c # None /\ ~Exhausted(c) /\ c.at = "get" /\ memo' = got.lru
      /\ IF got.hit # {} THEN \E snap \in got.hit : Hand(t, snap)
         ELSE call' = [call EXCEPT ![t].at = "put"] /\ UNCHANGED answer
  BY DEF Look, ServiceInv, FreshInv, AllServed
<1>2. memo \in Seq(Range(memo)) /\ DistinctKeys(memo)
  BY <1>1 DEF MemoInv, DistinctKeys
<1>3. /\ \A j \in DOMAIN got.lru : \E i \in DOMAIN memo : got.lru[j] = memo[i]
      /\ \A v \in got.hit : \E i \in DOMAIN memo : memo[i].key = KeyOf(c) /\ memo[i].value = v
  <2> DEFINE key == KeyOf(c)
             x == MemoGet(memo, key)
  <2> HIDE DEF key
  <2>1. /\ \A j \in DOMAIN x.lru : \E i \in DOMAIN memo : x.lru[j] = memo[i]
        /\ \A v \in x.hit : \E i \in DOMAIN memo : memo[i].key = key /\ memo[i].value = v
    BY <1>2, GetKeeps
  <2> QED BY <2>1 DEF key
<1>4. CallInv(t, c)
  BY <1>1 DEF CallsInv
<1> HIDE DEF got
<1>5. MemoFresh'
  <2>1. \A e : EntryFresh(e)' <=> EntryFresh(e)
    BY DEF EntryFresh
  <2> QED BY <1>1, <1>3, <2>1 DEF MemoFresh
<1>6. AllServed'
  <2>1. ASSUME NEW snap \in got.hit, Hand(t, snap) PROVE AllServed'
    <3>1. PICK i \in DOMAIN memo : memo[i].key = KeyOf(c) /\ memo[i].value = snap
      BY <1>3, <2>1
    <3>2. EntryFresh(memo[i])
      BY <1>1, <3>1 DEF MemoFresh
    <3>3. ASSUME ~Solves(c.request) PROVE snap \in ApplyUncached(c.market, Next1(c), None)
      <4>1. Served(c)
        BY <1>1, <3>3 DEF AllServed
      <4> HIDE DEF c
      <4> QED BY <1>1, <1>4, <3>1, <3>2, <3>3, <4>1, ServedFresh
    <3> QED BY <1>1, <2>1, <3>3, HandFresh
  <2>2. CASE got.hit = {}
    <3> DEFINE next == [c EXCEPT !.at = "put"]
    <3>1. call' = [call EXCEPT ![t] = next] /\ DOMAIN call = Threads
      BY <1>1, <2>2 DEF CallsInv
    <3>2. next.request = c.request /\ next.market = c.market /\ next.snaps = c.snaps
      BY <1>4 DEF CallInv
    <3> HIDE DEF next
    <3>3. Served(c) => Served(next)
      BY <3>2 DEF Served, ScenarioOf
    <3> QED BY <1>1, <3>1, <3>2, <3>3 DEF AllServed
  <2> QED BY <1>1, <2>1, <2>2
<1> QED BY <1>5, <1>6 DEF FreshInv, AllServed

LEMMA FreshStore ==
    ASSUME KeysTellApart, ServiceInv, FreshInv, NEW t \in Threads, Store(t)
    PROVE  FreshInv'
<1> DEFINE c == call[t]
           out == ApplyUncached(c.market, Next1(c), None)
<1>1. /\ MemoInv /\ CallsInv /\ MemoFresh /\ AllServed /\ c # None /\ c.at = "put"
      /\ \/ Answered(t, c, TRUE) /\ UNCHANGED memo
         \/ \E snap \in out : LET put == MemoPut(memo, KeyOf(c), snap, MemoSize)
                              IN  memo' = put.lru /\ Hand(t, put.value)
  BY DEF Store, ServiceInv, FreshInv, AllServed
<1>2. CallInv(t, c) /\ ~Exhausted(c)
  BY <1>1 DEF CallsInv, CallInv
<1>3. \A e : EntryFresh(e)' <=> EntryFresh(e)
  BY DEF EntryFresh
<1>4. ~Solves(c.request) => Served(c)
  BY <1>1 DEF AllServed
<1>5. CASE Answered(t, c, TRUE) /\ UNCHANGED memo
  <2>1. AllServed'
    BY <1>1, <1>5, EndFresh
  <2>2. MemoFresh'
    BY <1>1, <1>3, <1>5 DEF MemoFresh
  <2> QED BY <2>1, <2>2 DEF FreshInv, AllServed
<1>6. ASSUME NEW snap \in out, memo' = MemoPut(memo, KeyOf(c), snap, MemoSize).lru,
             Hand(t, MemoPut(memo, KeyOf(c), snap, MemoSize).value)
      PROVE  FreshInv'
  <2> DEFINE put == MemoPut(memo, KeyOf(c), snap, MemoSize)
             e == Entry(KeyOf(c), snap)
  <2>1. memo \in Seq(Range(memo)) /\ DistinctKeys(memo) /\ Len(memo) <= MemoSize
    BY <1>1 DEF MemoInv, DistinctKeys
  <2>2. /\ \A j \in DOMAIN put.lru : put.lru[j] = e \/ \E i \in DOMAIN memo : put.lru[j] = memo[i]
        /\ put.value = snap \/ \E i \in DOMAIN memo : memo[i].key = KeyOf(c) /\ memo[i].value = put.value
    BY <2>1, PutKeeps
  <2>3. EntryFresh(e)
    <3> HIDE DEF c
    <3> QED BY <1>2, <1>4, <1>6, StoredFresh
  <2>4. memo' = put.lru /\ Hand(t, put.value)
    BY <1>6
  <2> HIDE DEF put, e
  <2>5. MemoFresh'
    BY <1>1, <1>3, <2>2, <2>3, <2>4 DEF MemoFresh
  <2>6. ASSUME ~Solves(c.request) PROVE put.value \in ApplyUncached(c.market, Next1(c), None)
    <3>1. CASE put.value = snap
      BY <1>6, <3>1
    <3>2. ASSUME NEW i \in DOMAIN memo, memo[i].key = KeyOf(c), memo[i].value = put.value
          PROVE  put.value \in ApplyUncached(c.market, Next1(c), None)
      <4>1. EntryFresh(memo[i])
        BY <1>1, <3>2 DEF MemoFresh
      <4> HIDE DEF c
      <4>2. memo[i].value \in ApplyUncached(c.market, Next1(c), None)
        BY <1>2, <1>4, <2>6, <3>2, <4>1, ServedFresh
      <4> QED BY <3>2, <4>2
    <3> QED BY <2>2, <3>1, <3>2
  <2>7. AllServed'
    BY <1>1, <1>2, <2>4, <2>6, HandFresh
  <2> QED BY <2>5, <2>7 DEF FreshInv, AllServed
<1> QED BY <1>1, <1>5, <1>6

LEMMA FreshPrice ==
    ASSUME ServiceInv, AllServed, NEW t \in Threads, Price(t)
    PROVE  AllServed'
<1> DEFINE c == call[t]
<1>1. CallsInv /\ CallInv(t, c) /\ Solves(c.request) /\ DOMAIN call = Threads
  BY DEF Price, ServiceInv, CallsInv, CallInv
<1>2. \/ Answered(t, c, TRUE)
      \/ \E met, pnl : /\ call' = [call EXCEPT ![t].at = "get", ![t].snaps = <<>>,
                                     ![t].solver = Told(@, met, pnl)]
                       /\ UNCHANGED answer
  BY Zenon DEF Price
<1>3. CASE Answered(t, c, TRUE)
  BY <1>1, <1>3, EndFresh
<1>4. ASSUME NEW met, NEW pnl, call' = [call EXCEPT ![t].at = "get", ![t].snaps = <<>>,
                                          ![t].solver = Told(@, met, pnl)]
      PROVE  AllServed'
  <2> DEFINE next == [c EXCEPT !.at = "get", !.snaps = <<>>, !.solver = Told(c.solver, met, pnl)]
  <2>1. call' = [call EXCEPT ![t] = next]
    BY <1>4
  <2>2. next.request = c.request
    BY <1>1 DEF CallInv
  <2> HIDE DEF next
  <2> QED BY <1>1, <2>1, <2>2 DEF AllServed
<1> QED BY <1>2, <1>3, <1>4

LEMMA FreshStep ==
    ASSUME KeysTellApart, ServiceInv, FreshInv, [Next]_vars
    PROVE  FreshInv'
<1>0. CallsInv /\ AllServed /\ MemoFresh
  BY DEF ServiceInv, FreshInv, AllServed
<1>1. memo' = memo => MemoFresh'
  <2>1. \A e : EntryFresh(e)' <=> EntryFresh(e)
    BY DEF EntryFresh
  <2> QED BY <1>0, <2>1 DEF MemoFresh
<1>2. ASSUME NEW t \in Threads, Start(t) PROVE FreshInv'
  BY <1>0, <1>1, <1>2, FreshBegins DEF Start, FreshInv, AllServed
<1>3. ASSUME NEW t \in Threads, Price(t) PROVE FreshInv'
  BY <1>0, <1>1, <1>3, FreshPrice DEF Price, FreshInv, AllServed
<1>4. ASSUME NEW t \in Threads, Answer(t) PROVE FreshInv'
  BY <1>0, <1>1, <1>4, EndFresh DEF Answer, FreshInv, AllServed
<1>5. CASE UNCHANGED vars
  BY <1>0, <1>1, <1>5 DEF vars, FreshInv, AllServed
<1> QED BY <1>2, <1>3, <1>4, <1>5, FreshLook, FreshStore DEF Next, Step

-----------------------------------------------------------------------------
(* The answers.                                                               *)

\* What the service says of the answers that a step gives.
GivenFresh ==
    \A a \in Given : ~Solves(a.request) =>
        \A k \in DOMAIN a.snaps : a.snaps[k] \in ApplyUncached(a.market, ScenarioOf(a, k), None)

\* An answer is of the call it ends, and the only one its step gives.
LEMMA EndGives ==
    ASSUME CallsInv, NEW t \in Threads, NEW c, NEW failed, Answered(t, c, failed),
           ~Solves(c.request) =>
               \A k \in DOMAIN c.snaps : c.snaps[k] \in ApplyUncached(c.market, ScenarioOf(c, k), None)
    PROVE  GivenFresh
<1> DEFINE a == [request |-> c.request, market |-> c.market, snaps |-> c.snaps, solver |-> c.solver,
                 failed |-> failed]
<1>1. answer' = [answer EXCEPT ![t] = a] /\ DOMAIN answer = Threads
  BY DEF Answered, CallsInv
<1>2. a.request = c.request /\ a.market = c.market /\ a.snaps = c.snaps
  OBVIOUS
<1> HIDE DEF a
<1>3. \A b \in Given : b = a
  BY <1>1 DEF Given
<1>4. \A k : ScenarioOf(a, k) = ScenarioOf(c, k)
  BY <1>2 DEF ScenarioOf
<1> QED BY <1>2, <1>3, <1>4 DEF GivenFresh

LEMMA AnswersFresh ==
    ASSUME ServiceInv, FreshInv, [Next]_vars
    PROVE  GivenFresh
<1>0. CallsInv /\ AllServed
  BY DEF ServiceInv, FreshInv, AllServed
<1>1. ASSUME answer' = answer PROVE GivenFresh
  BY <1>1 DEF Given, GivenFresh
<1>2. ASSUME NEW t \in Threads, call[t] # None, NEW failed, Answered(t, call[t], failed) PROVE GivenFresh
  <2>1. ~Solves(call[t].request) => Served(call[t])
    BY <1>0, <1>2 DEF AllServed
  <2> QED BY <1>0, <1>2, <2>1, EndGives DEF Served
<1>3. ASSUME NEW t \in Threads, Start(t) PROVE GivenFresh
  <2>1. PICK r \in Requests[t], m \in Markets :
           LET begun(s) == [request |-> r, market |-> m, at |-> "get", snaps |-> <<>>, solver |-> s]
           IN  Answered(t, begun(None), TRUE) \/ UNCHANGED answer
    BY <1>3 DEF Start
  <2> DEFINE c == [request |-> r, market |-> m, at |-> "get", snaps |-> <<>>, solver |-> None]
  <2>2. DOMAIN c.snaps = {}
    OBVIOUS
  <2>3. Answered(t, c, TRUE) \/ UNCHANGED answer
    BY <2>1
  <2> HIDE DEF c
  <2> QED BY <1>0, <1>1, <2>2, <2>3, EndGives
<1>4. ASSUME NEW t \in Threads, Look(t) PROVE GivenFresh
  BY <1>1, <1>4 DEF Look, Hand
<1>5. ASSUME NEW t \in Threads, Store(t) PROVE GivenFresh
  BY <1>1, <1>2, <1>5 DEF Store, Hand
<1>6. ASSUME NEW t \in Threads, Price(t) PROVE GivenFresh
  BY <1>1, <1>2, <1>6 DEF Price
<1>7. ASSUME NEW t \in Threads, Answer(t) PROVE GivenFresh
  BY <1>2, <1>7 DEF Answer
<1>8. CASE UNCHANGED vars
  BY <1>1, <1>8 DEF vars
<1> QED BY <1>3, <1>4, <1>5, <1>6, <1>7, <1>8 DEF Next, Step

-----------------------------------------------------------------------------
(* The end of a search.                                                       *)

\* A search that has heard of an evaluation has less left of it, and one that
\* has not is as it was.
SearchNarrows(t) ==
    (call[t] # None /\ call'[t] # None /\ Solves(call[t].request) /\ call'[t].at = "get") =>
        \/ call'[t] = call[t]
        \/ /\ Remaining(call'[t].solver) \in Counts
           /\ Less(Remaining(call'[t].solver), Remaining(call[t].solver))

\* What is handed to a search is priced first.
LEMMA HandPrices ==
    ASSUME CallsInv, NEW t \in Threads, call[t] # None, Solves(call[t].request), NEW snap, Hand(t, snap)
    PROVE  call'[t].at = "price"
<1> DEFINE next == [call[t] EXCEPT !.at = "price", !.snaps = <<snap>>]
<1>1. call' = [call EXCEPT ![t] = next] /\ DOMAIN call = Threads
  BY DEF Hand, CallsInv
<1>2. next.at = "price"
  BY DEF CallsInv, CallInv
<1> HIDE DEF next
<1> QED BY <1>1, <1>2

LEMMA PriceNarrows ==
    ASSUME ServiceInv, NEW t \in Threads, Price(t), call'[t] # None
    PROVE  SearchNarrows(t)
<1> DEFINE c == call[t]
<1>1. CallsInv /\ CallInv(t, c) /\ c # None /\ c.at = "price" /\ DOMAIN call = Threads
  BY DEF Price, ServiceInv, CallsInv
<1>2. Searching(c.solver) /\ c.solver.at \in SolverPhases
  BY <1>1 DEF CallInv, SolverInv, Exhausted
<1>3. \/ Answered(t, c, TRUE)
      \/ \E met, pnl : call' = [call EXCEPT ![t].at = "get", ![t].snaps = <<>>, ![t].solver = Told(@, met, pnl)]
  BY Zenon DEF Price
<1>4. ~Answered(t, c, TRUE)
  BY <1>1 DEF Answered
<1>5. PICK met, pnl :
         call' = [call EXCEPT ![t].at = "get", ![t].snaps = <<>>, ![t].solver = Told(@, met, pnl)]
  BY <1>3, <1>4
<1> DEFINE told == Told(c.solver, met, pnl)
           next == [c EXCEPT !.at = "get", !.snaps = <<>>, !.solver = told]
<1>6. call' = [call EXCEPT ![t] = next]
  BY <1>5
<1>7. Goes(c.solver, told)
  BY <1>2, ToldGoes
<1> HIDE DEF told
<1>8. next.solver = told
  BY <1>1 DEF CallInv
<1> HIDE DEF next
<1>9. call'[t] = next
  BY <1>1, <1>6
<1> QED BY <1>7, <1>8, <1>9 DEF SearchNarrows, Goes

\* A step of a thread is a step of its own call.
LEMMA OneCall ==
    ASSUME NEW u \in Threads, Start(u) \/ Step(u)
    PROVE  \E c : call' = [call EXCEPT ![u] = c]
<1>1. ASSUME NEW c, NEW failed, Answered(u, c, failed) PROVE \E x : call' = [call EXCEPT ![u] = x]
  BY <1>1 DEF Answered
<1>2. ASSUME NEW snap, Hand(u, snap) PROVE \E x : call' = [call EXCEPT ![u] = x]
  BY <1>2 DEF Hand
<1>3. CASE Start(u)
  <2>1. PICK r \in Requests[u], m \in Markets :
           LET begun(s) == [request |-> r, market |-> m, at |-> "get", snaps |-> <<>>, solver |-> s]
           IN  IF StartSolver(r) = {} THEN Answered(u, begun(None), TRUE)
               ELSE \E s \in StartSolver(r) : call' = [call EXCEPT ![u] = begun(s)]
    BY <1>3 DEF Start
  <2> DEFINE begun(s) == [request |-> r, market |-> m, at |-> "get", snaps |-> <<>>, solver |-> s]
  <2>2. CASE StartSolver(r) = {}
    <3>1. Answered(u, begun(None), TRUE)
      BY <2>1, <2>2
    <3> HIDE DEF begun
    <3> QED BY <1>1, <3>1
  <2>3. CASE StartSolver(r) # {}
    <3>1. PICK s \in StartSolver(r) : call' = [call EXCEPT ![u] = begun(s)]
      BY <2>1, <2>3
    <3> HIDE DEF begun
    <3> QED BY <3>1
  <2> QED BY <2>2, <2>3
<1>4. CASE Look(u)
  <2>1. \/ \E snap : Hand(u, snap)
        \/ call' = [call EXCEPT ![u].at = "put"]
    BY <1>4, Zenon DEF Look
  <2>2. CASE call' = [call EXCEPT ![u].at = "put"]
    <3> DEFINE x == [call[u] EXCEPT !.at = "put"]
    <3>1. call' = [call EXCEPT ![u] = x]
      BY <2>2
    <3> HIDE DEF x
    <3> QED BY <3>1
  <2> QED BY <1>2, <2>1, <2>2
<1>5. CASE Store(u)
  <2>1. \/ Answered(u, call[u], TRUE)
        \/ \E snap : Hand(u, snap)
    BY <1>5, Zenon DEF Store
  <2> QED BY <1>1, <1>2, <2>1
<1>6. CASE Price(u)
  <2>1. \/ Answered(u, call[u], TRUE)
        \/ \E met, pnl : call' = [call EXCEPT ![u].at = "get", ![u].snaps = <<>>, ![u].solver = Told(@, met, pnl)]
    BY <1>6, Zenon DEF Price
  <2>2. ASSUME NEW met, NEW pnl,
               call' = [call EXCEPT ![u].at = "get", ![u].snaps = <<>>, ![u].solver = Told(@, met, pnl)]
        PROVE  \E x : call' = [call EXCEPT ![u] = x]
    <3> DEFINE x == [call[u] EXCEPT !.at = "get", !.snaps = <<>>, !.solver = Told(call[u].solver, met, pnl)]
    <3>1. call' = [call EXCEPT ![u] = x]
      BY <2>2
    <3> HIDE DEF x
    <3> QED BY <3>1
  <2> QED BY <1>1, <2>1, <2>2
<1>7. CASE Answer(u)
  BY <1>1, <1>7 DEF Answer
<1> QED BY <1>3, <1>4, <1>5, <1>6, <1>7 DEF Step

LEMMA NarrowStep ==
    ASSUME ServiceInv, [Next]_vars, NEW t \in Threads
    PROVE  SearchNarrows(t)
<1>0. CallsInv /\ DOMAIN call = Threads
  BY DEF ServiceInv, CallsInv
<1>1. ASSUME call'[t] = call[t] PROVE SearchNarrows(t)
  BY <1>1 DEF SearchNarrows
<1>2. ASSUME NEW c, NEW failed, Answered(t, c, failed) PROVE SearchNarrows(t)
  BY <1>0, <1>2 DEF Answered, SearchNarrows
<1>3. ASSUME NEW snap, Hand(t, snap), call[t] # None PROVE SearchNarrows(t)
  <2>1. Solves(call[t].request) => call'[t].at = "price"
    BY <1>0, <1>3, HandPrices
  <2> QED BY <2>1 DEF SearchNarrows
<1>4. ASSUME Start(t) PROVE SearchNarrows(t)
  BY <1>4 DEF Start, SearchNarrows
<1>5. ASSUME Look(t) PROVE SearchNarrows(t)
  <2>1. ASSUME call[t] # None, call' = [call EXCEPT ![t].at = "put"] PROVE SearchNarrows(t)
    <3>1. call'[t].at = "put"
      BY <1>0, <2>1 DEF CallsInv, CallInv
    <3> QED BY <3>1 DEF SearchNarrows
  <2> QED BY <1>3, <1>5, <2>1 DEF Look
<1>6. ASSUME Store(t) PROVE SearchNarrows(t)
  BY <1>2, <1>3, <1>6 DEF Store
<1>7. ASSUME Price(t) PROVE SearchNarrows(t)
  <2>1. call'[t] = None => SearchNarrows(t)
    BY DEF SearchNarrows
  <2> QED BY <1>7, <2>1, PriceNarrows
<1>8. ASSUME Answer(t) PROVE SearchNarrows(t)
  BY <1>2, <1>8 DEF Answer
<1>9. ASSUME NEW u \in Threads, Start(u) \/ Step(u), u # t PROVE SearchNarrows(t)
  <2>1. \E c : call' = [call EXCEPT ![u] = c]
    BY <1>9, OneCall
  <2>2. PICK c : call' = [call EXCEPT ![u] = c]
    BY <2>1
  <2> QED BY <1>0, <1>1, <1>9, <2>2
<1>10. CASE UNCHANGED vars
  BY <1>1, <1>10 DEF vars
<1> QED BY <1>4, <1>5, <1>6, <1>7, <1>8, <1>9, <1>10 DEF Next, Step
=============================================================================
