--------------------------- MODULE TTLCache_proofs ---------------------------
(* The cache stays bounded, its loads are awaited, and no load that was given *)
(* up stores what it read: LoadsExact always holds.                           *)
EXTENDS TTLCache, TLAPS

-----------------------------------------------------------------------------
(* The entries                                                             *)

Entry == [key : Keys, val : 0..MaxVersion, fresh : BOOLEAN]
KeysOnce(s) == \A i, j \in DOMAIN s : s[i].key = s[j].key => i = j

\* What pop(key) leaves
LEMMA WithoutLeaves ==
    ASSUME NEW s \in Seq(Entry), KeysOnce(s), NEW k \in Keys
    PROVE  /\ Without(s, k) \in Seq(Entry) /\ KeysOnce(Without(s, k))
           /\ Len(Without(s, k)) <= Len(s)
           /\ (\E i \in DOMAIN s : s[i].key = k) => Len(Without(s, k)) = Len(s) - 1
           /\ \A i \in DOMAIN Without(s, k) :
                 Without(s, k)[i].key # k /\ \E j \in DOMAIN s : Without(s, k)[i] = s[j]
<1> DEFINE t == Without(s, k)
<1>1. Len(s) \in Nat /\ DOMAIN s = 1..Len(s) /\ \A i \in 1..Len(s) : s[i] \in Entry
  OBVIOUS
<1>2. CASE \A i \in DOMAIN s : s[i].key # k
  <2>1. t = s
    BY <1>2 DEF Without
  <2>2. \A i \in DOMAIN s : s[i].key # k /\ \E j \in DOMAIN s : s[i] = s[j]
    BY <1>2
  <2>3. Len(s) <= Len(s)
    BY <1>1
  <2> QED
    BY <2>1, <2>2, <2>3, <1>2
<1>3. CASE ~\A i \in DOMAIN s : s[i].key # k
  <2>1. PICK at \in DOMAIN s :
          /\ s[at].key = k
          /\ t = [i \in 1..(Len(s) - 1) |-> IF i < at THEN s[i] ELSE s[i + 1]]
    BY <1>3 DEF Without
  <2> HIDE DEF t
  <2>2. t \in Seq(Entry) /\ Len(t) = Len(s) - 1 /\ DOMAIN t = 1..(Len(s) - 1)
    BY <2>1, <1>1
  <2>3. \A i \in DOMAIN t : \E j \in DOMAIN s : j # at /\ t[i] = s[j] /\ j = IF i < at THEN i ELSE i + 1
    BY <2>1, <2>2, <1>1
  <2>4. \A i \in DOMAIN t : t[i].key # k
    BY <2>1, <2>3 DEF KeysOnce
  <2>5. KeysOnce(t)
    <3> SUFFICES ASSUME NEW i \in DOMAIN t, NEW j \in DOMAIN t, t[i].key = t[j].key PROVE i = j
      BY DEF KeysOnce
    <3>1. PICK a \in DOMAIN s : t[i] = s[a] /\ a = IF i < at THEN i ELSE i + 1
      BY <2>3
    <3>2. PICK b \in DOMAIN s : t[j] = s[b] /\ b = IF j < at THEN j ELSE j + 1
      BY <2>3
    <3>3. a = b
      BY <3>1, <3>2 DEF KeysOnce
    <3> QED
      BY <3>1, <3>2, <3>3, <2>2, <2>1, <1>1
  <2> QED
    BY <2>2, <2>3, <2>4, <2>5, <1>1 DEF t
<1> QED
  BY <1>2, <1>3

\* An entry whose key is gone may be appended
LEMMA AppendKeepsKeys ==
    ASSUME NEW s \in Seq(Entry), KeysOnce(s), NEW e \in Entry, \A i \in DOMAIN s : s[i].key # e.key
    PROVE  /\ Append(s, e) \in Seq(Entry) /\ KeysOnce(Append(s, e))
           /\ Len(Append(s, e)) = Len(s) + 1
           /\ \A i \in DOMAIN Append(s, e) :
                 Append(s, e)[i] = e \/ \E j \in DOMAIN s : Append(s, e)[i] = s[j]
<1> DEFINE t == Append(s, e)
<1>1. /\ t \in Seq(Entry) /\ Len(t) = Len(s) + 1 /\ DOMAIN t = 1..(Len(s) + 1)
      /\ \A i \in 1..Len(s) : t[i] = s[i]
      /\ t[Len(s) + 1] = e /\ Len(s) \in Nat /\ DOMAIN s = 1..Len(s)
  OBVIOUS
<1> HIDE DEF t
<1>2. \A i \in DOMAIN t : (i = Len(s) + 1 /\ t[i] = e) \/ (i \in DOMAIN s /\ t[i] = s[i])
  BY <1>1
<1>3. KeysOnce(t)
  BY <1>2 DEF KeysOnce
<1> QED
  BY <1>1, <1>2, <1>3 DEF t

\* popitem keeps the newest entries, max_entries of them
LEMMA EvictedLeaves ==
    ASSUME NEW s \in Seq(Entry), KeysOnce(s)
    PROVE  /\ Evicted(s) \in Seq(Entry) /\ KeysOnce(Evicted(s))
           /\ Len(Evicted(s)) <= MaxEntries
           /\ \A i \in DOMAIN Evicted(s) : \E j \in DOMAIN s : Evicted(s)[i] = s[j]
<1>1. Len(s) \in Nat /\ DOMAIN s = 1..Len(s) /\ MaxEntries \in Nat \ {0}
  BY CacheAssumption DEF CacheAssumption
<1>2. CASE Len(s) <= MaxEntries
  BY <1>1, <1>2 DEF Evicted
<1>3. CASE Len(s) > MaxEntries
  <2> DEFINE d == Len(s) - MaxEntries
             t == SubSeq(s, d + 1, Len(s))
  <2>1. /\ t \in Seq(Entry) /\ Len(t) = MaxEntries /\ DOMAIN t = 1..MaxEntries
        /\ \A i \in 1..MaxEntries : t[i] = s[d + i]
    BY <1>1, <1>3
  <2>2. \A i \in 1..MaxEntries : d + i \in DOMAIN s
    BY <1>1, <1>3
  <2>3. Evicted(s) = t
    BY <1>1, <1>3 DEF Evicted
  <2> HIDE DEF t
  <2>4. KeysOnce(t)
    <3> SUFFICES ASSUME NEW i \in 1..MaxEntries, NEW j \in 1..MaxEntries, t[i].key = t[j].key
                 PROVE  i = j
      BY <2>1 DEF KeysOnce
    <3>1. d + i = d + j
      BY <2>1, <2>2 DEF KeysOnce
    <3> QED
      BY <3>1, <1>1
  <2>5. Len(t) <= MaxEntries
    BY <2>1, <1>1
  <2>6. ASSUME NEW i \in DOMAIN t PROVE \E j \in DOMAIN s : t[i] = s[j]
    <3>1. i \in 1..MaxEntries
      BY <2>1
    <3> HIDE DEF d
    <3>2. t[i] = s[d + i] /\ d + i \in DOMAIN s
      BY <2>1, <2>2, <3>1
    <3> QED
      BY <3>2
  <2> QED
    BY <2>1, <2>3, <2>4, <2>5, <2>6
<1> QED
  BY <1>1, <1>2, <1>3

-----------------------------------------------------------------------------
(* The inductive invariant                                                 *)

\* What was invalidated is not newer than the data
FloorReached == \A k \in Keys : floor[k] <= data[k]

IInv == LoadsExact /\ FloorReached

\* A version is a number
LEMMA Versions == 0 \in 0..MaxVersion /\ \A v \in 0..MaxVersion : v \in Nat
  BY CacheAssumption DEF CacheAssumption

\* The entry of a cached key is one of the entries
LEMMA CachedEntry ==
    ASSUME NEW k \in Keys, Cached(k)
    PROVE  \E i \in DOMAIN entries : entries[i] = EntryOf(k) /\ entries[i].key = k
  BY DEF Cached, EntryOf

LEMMA InitSafe == Init => IInv
<1> SUFFICES ASSUME Init PROVE IInv
  OBVIOUS
<1> USE DEF Init
<1>1. TypeOK
  <2>1. \A k \in Keys : [phase |-> "done", key |-> k, val |-> 0] \in Loads
    BY Versions DEF Loads
  <2>2. task \in [Tasks -> Loads]
    BY <2>1
  <2>3. /\ data \in [Keys -> 0..MaxVersion] /\ floor \in [Keys -> 0..MaxVersion]
        /\ inflight \in [Keys -> Tasks \cup {NoTask}] /\ awaits \in [Callers -> Tasks \cup {NoTask}]
    BY Versions
  <2>4. entries \in Seq([key : Keys, val : 0..MaxVersion, fresh : BOOLEAN]) /\ DOMAIN entries = {}
    OBVIOUS
  <2> QED
    BY <2>2, <2>3, <2>4 DEF TypeOK
<1>2. Bounded
  BY CacheAssumption DEF Bounded, CacheAssumption
<1>3. InflightAwaited /\ FreshAfterInvalidate /\ FloorReached
  BY DEF InflightAwaited, FreshAfterInvalidate, FloorReached
<1> QED
  BY <1>1, <1>2, <1>3 DEF IInv, LoadsExact

\* What a step must show that changes the entries only: they are typed, bounded, and as fresh
LEMMA EntriesSafe ==
    ASSUME IInv, entries' \in Seq(Entry), KeysOnce(entries'), Len(entries') <= MaxEntries,
           \A i \in DOMAIN entries' : entries'[i].val >= floor[entries'[i].key],
           UNCHANGED <<data, inflight, task, awaits, floor>>
    PROVE  IInv'
  BY DEF IInv, LoadsExact, TypeOK, Bounded, InflightAwaited, FreshAfterInvalidate, FloorReached,
         Awaited, Entry, KeysOnce

\* A value that is returned moves to the end
LEMMA HitSafe ==
    ASSUME IInv, NEW c \in Callers, NEW k \in Keys, Hit(c, k)
    PROVE  IInv'
<1> DEFINE t == Without(entries, k)
           e == EntryOf(k)
<1>1. /\ entries \in Seq(Entry) /\ KeysOnce(entries) /\ Len(entries) <= MaxEntries
      /\ \A i \in DOMAIN entries : entries[i].val >= floor[entries[i].key]
  BY DEF IInv, LoadsExact, TypeOK, Bounded, FreshAfterInvalidate, Entry, KeysOnce
<1>2. \E i \in DOMAIN entries : entries[i] = e /\ entries[i].key = k
  BY CachedEntry DEF Hit
<1>3. e \in Entry /\ e.key = k /\ e.val >= floor[k]
  BY <1>1, <1>2
<1>4. /\ t \in Seq(Entry) /\ KeysOnce(t) /\ Len(t) = Len(entries) - 1
      /\ \A i \in DOMAIN t : t[i].key # k /\ \E j \in DOMAIN entries : t[i] = entries[j]
  BY <1>1, <1>2, WithoutLeaves
<1> HIDE DEF t, e
<1>5. /\ Append(t, e) \in Seq(Entry) /\ KeysOnce(Append(t, e))
      /\ Len(Append(t, e)) = Len(t) + 1
      /\ \A i \in DOMAIN Append(t, e) :
            Append(t, e)[i] = e \/ \E j \in DOMAIN t : Append(t, e)[i] = t[j]
  BY <1>3, <1>4, AppendKeepsKeys
<1>6. entries' = Append(t, e) /\ UNCHANGED <<data, inflight, task, awaits, floor>>
  BY DEF Hit, t, e
<1>7. \A i \in DOMAIN entries' : entries'[i].val >= floor[entries'[i].key]
  BY <1>1, <1>3, <1>4, <1>5, <1>6
<1>8. Len(entries') <= MaxEntries
  <2>1. Len(entries) \in Nat
    BY <1>1
  <2> QED
    BY <2>1, <1>1, <1>4, <1>5, <1>6
<1> QED
  BY <1>5, <1>6, <1>7, <1>8, EntriesSafe

\* A caller that misses joins the load of the key or starts one
LEMMA MissSafe ==
    ASSUME IInv, NEW c \in Callers, NEW k \in Keys, Miss(c, k)
    PROVE  IInv'
<1> DEFINE t == Without(entries, k)
<1>1. /\ entries \in Seq(Entry) /\ KeysOnce(entries) /\ Len(entries) <= MaxEntries
      /\ \A i \in DOMAIN entries : entries[i].val >= floor[entries[i].key]
      /\ data \in [Keys -> 0..MaxVersion] /\ floor \in [Keys -> 0..MaxVersion]
      /\ inflight \in [Keys -> Tasks \cup {NoTask}]
      /\ task \in [Tasks -> Loads]
      /\ awaits \in [Callers -> Tasks \cup {NoTask}]
      /\ InflightAwaited /\ FreshAfterInvalidate /\ FloorReached
  BY DEF IInv, LoadsExact, TypeOK, Bounded, FreshAfterInvalidate, Entry, KeysOnce
<1>2. awaits[c] = NoTask /\ entries' = t /\ UNCHANGED <<data, floor>>
  BY DEF Miss
<1>3. /\ t \in Seq(Entry) /\ KeysOnce(t) /\ Len(t) <= Len(entries)
      /\ \A i \in DOMAIN t : t[i].key # k /\ \E j \in DOMAIN entries : t[i] = entries[j]
  BY <1>1, WithoutLeaves
<1> HIDE DEF t
<1>4. \A i \in DOMAIN entries' : entries'[i].val >= floor'[entries'[i].key]
  BY <1>1, <1>2, <1>3
<1>5. Bounded'
  <2>1. Len(entries) \in Nat /\ Len(t) \in Nat /\ MaxEntries \in Nat
    BY <1>1, <1>3, CacheAssumption DEF CacheAssumption
  <2> QED
    BY <2>1, <1>1, <1>2, <1>3 DEF Bounded
<1>6. CASE /\ inflight[k] # NoTask
           /\ awaits' = [awaits EXCEPT ![c] = inflight[k]]
           /\ UNCHANGED <<inflight, task>>
  <2>1. awaits' \in [Callers -> Tasks \cup {NoTask}]
    BY <1>1, <1>6
  <2>2. \A n \in Tasks : Awaited(n) => Awaited(n)'
    <3> SUFFICES ASSUME NEW n \in Tasks, NEW d \in Callers, awaits[d] = n
                 PROVE  \E b \in Callers : awaits'[b] = n
      BY DEF Awaited
    <3>1. d # c
      BY <1>2, CacheAssumption DEF CacheAssumption
    <3> QED
      BY <3>1, <1>1, <1>6
  <2>3. InflightAwaited'
    BY <2>2, <1>1, <1>6 DEF InflightAwaited
  <2>4. TypeOK'
    BY <2>1, <1>1, <1>2, <1>3, <1>6 DEF TypeOK, Entry, KeysOnce
  <2>5. FreshAfterInvalidate' /\ FloorReached'
    BY <1>1, <1>2, <1>4, <1>6 DEF FreshAfterInvalidate, FloorReached
  <2> QED
    BY <1>5, <2>3, <2>4, <2>5 DEF IInv, LoadsExact
<1>7. ASSUME inflight[k] = NoTask,
             NEW n \in Tasks, Free(n),
             task' = [task EXCEPT ![n] = [phase |-> "started", key |-> k, val |-> 0]],
             inflight' = [inflight EXCEPT ![k] = n],
             awaits' = [awaits EXCEPT ![c] = n]
      PROVE  IInv'
  <2>1. [phase |-> "started", key |-> k, val |-> 0] \in Loads
    BY Versions DEF Loads
  <2>2. /\ awaits' \in [Callers -> Tasks \cup {NoTask}] /\ inflight' \in [Keys -> Tasks \cup {NoTask}]
        /\ task' \in [Tasks -> Loads]
    BY <2>1, <1>1, <1>7
  <2>3. TypeOK'
    BY <2>2, <1>1, <1>2, <1>3 DEF TypeOK, Entry, KeysOnce
  <2>4. ASSUME NEW j \in Keys, j # k, inflight'[j] # NoTask
        PROVE  /\ inflight'[j] = inflight[j] /\ inflight[j] \in Tasks \ {n}
               /\ task'[inflight[j]] = task[inflight[j]]
               /\ Awaited(inflight[j])' /\ task[inflight[j]].key = j
    <3>1. inflight'[j] = inflight[j] /\ inflight[j] \in Tasks \ {n}
      BY <2>4, <1>1, <1>7 DEF Free
    <3>2. Awaited(inflight[j]) /\ task[inflight[j]].key = j
      BY <3>1, <2>4, <1>1 DEF InflightAwaited
    <3>3. PICK d \in Callers : awaits[d] = inflight[j]
      BY <3>2 DEF Awaited
    <3>4. d # c
      BY <3>1, <3>3, <1>2, CacheAssumption DEF CacheAssumption
    <3>5. awaits'[d] = inflight'[j]
      BY <3>1, <3>3, <3>4, <1>1, <1>7
    <3> QED
      BY <3>1, <3>2, <3>5, <1>1, <1>7 DEF Awaited
  <2>5. /\ inflight'[k] = n /\ awaits'[c] = n
        /\ task'[n] = [phase |-> "started", key |-> k, val |-> 0]
    BY <1>1, <1>7
  <2>6. InflightAwaited'
    <3> SUFFICES ASSUME NEW j \in Keys, inflight'[j] # NoTask
                 PROVE  Awaited(inflight[j])' /\ task'[inflight'[j]].key = j
      BY DEF InflightAwaited
    <3>1. CASE j = k
      BY <3>1, <2>5 DEF Awaited
    <3>2. CASE j # k
      BY <3>2, <2>4
    <3> QED
      BY <3>1, <3>2
  <2>7. FreshAfterInvalidate'
    <3>1. ASSUME NEW j \in Keys, inflight'[j] # NoTask, task'[inflight'[j]].phase \in {"read", "done"}
          PROVE  task'[inflight'[j]].val >= floor'[j]
      <4>1. j # k
        BY <3>1, <2>5
      <4>2. inflight'[j] = inflight[j] /\ task'[inflight[j]] = task[inflight[j]]
        BY <4>1, <3>1, <2>4
      <4> QED
        BY <4>2, <3>1, <1>1, <1>2 DEF FreshAfterInvalidate
    <3> QED
      BY <3>1, <1>4 DEF FreshAfterInvalidate
  <2> QED
    BY <2>3, <2>6, <2>7, <1>1, <1>2, <1>5 DEF IInv, LoadsExact, FloorReached
<1> QED
  BY <1>6, <1>7 DEF Miss

\* A caller that leaves its load clears it if it is still in flight, so every load that
\* stays in flight is awaited by another
LEMMA CallerLeaves ==
    ASSUME IInv, NEW c \in Callers, awaits[c] # NoTask, ClearInFlight(awaits[c]),
           awaits' = [awaits EXCEPT ![c] = NoTask],
           UNCHANGED <<data, task, floor>>
    PROVE  /\ inflight' \in [Keys -> Tasks \cup {NoTask}]
           /\ awaits' \in [Callers -> Tasks \cup {NoTask}]
           /\ InflightAwaited'
           /\ \A k \in Keys : inflight'[k] # NoTask => inflight'[k] = inflight[k]
<1>1. PICK n \in Tasks : n = awaits[c]
  BY DEF IInv, LoadsExact, TypeOK
<1>2. /\ inflight \in [Keys -> Tasks \cup {NoTask}]
      /\ awaits \in [Callers -> Tasks \cup {NoTask}]
      /\ task \in [Tasks -> Loads]
  BY DEF IInv, LoadsExact, TypeOK
<1>3. task[n].key \in Keys
  BY <1>2 DEF Loads
<1>4. inflight' = [inflight EXCEPT ![task[n].key] = IF inflight[task[n].key] = n THEN NoTask ELSE @]
  BY <1>1 DEF ClearInFlight, Leads
<1>5. /\ inflight' \in [Keys -> Tasks \cup {NoTask}]
      /\ awaits' \in [Callers -> Tasks \cup {NoTask}]
  BY <1>2, <1>3, <1>4
<1>6. \A k \in Keys : inflight'[k] # NoTask => inflight'[k] = inflight[k]
  BY <1>2, <1>3, <1>4
<1>7. ASSUME NEW k \in Keys, inflight'[k] # NoTask
      PROVE  Awaited(inflight[k])' /\ task'[inflight'[k]].key = k
  <2>1. Awaited(inflight[k]) /\ task[inflight[k]].key = k
    BY <1>6, <1>7 DEF IInv, LoadsExact, InflightAwaited
  <2>2. inflight[k] # n
    BY <2>1, <1>2, <1>3, <1>4, <1>7
  <2>3. PICK d \in Callers : awaits[d] = inflight[k]
    BY <2>1 DEF Awaited
  <2>4. d # c /\ awaits'[d] = inflight'[k]
    BY <2>2, <2>3, <1>1, <1>2, <1>6, <1>7
  <2> QED
    BY <2>1, <2>4, <1>6, <1>7 DEF Awaited
<1> QED
  BY <1>5, <1>6, <1>7 DEF InflightAwaited

\* Only a load that is still in flight stores what it read
LEMMA LoadedSafe ==
    ASSUME IInv, NEW c \in Callers, Loaded(c)
    PROVE  IInv'
<1>1. PICK n \in Tasks : n = awaits[c]
  BY DEF Loaded, IInv, LoadsExact, TypeOK
<1>2. /\ n # NoTask /\ task[n].phase = "done"
      /\ entries' = IF Leads(n) THEN Stored(task[n].key, task[n].val) ELSE entries
      /\ UNCHANGED <<data, task, floor>>
  BY <1>1 DEF Loaded
<1>3. /\ inflight' \in [Keys -> Tasks \cup {NoTask}]
      /\ awaits' \in [Callers -> Tasks \cup {NoTask}]
      /\ InflightAwaited'
      /\ \A k \in Keys : inflight'[k] # NoTask => inflight'[k] = inflight[k]
  BY CallerLeaves DEF Loaded
<1>4. /\ entries \in Seq(Entry) /\ KeysOnce(entries) /\ Bounded
      /\ \A i \in DOMAIN entries : entries[i].val >= floor[entries[i].key]
      /\ task \in [Tasks -> Loads]
      /\ FreshAfterInvalidate
  BY DEF IInv, LoadsExact, TypeOK, FreshAfterInvalidate, Entry, KeysOnce
<1>5. /\ entries' \in Seq(Entry) /\ KeysOnce(entries') /\ Bounded'
      /\ \A i \in DOMAIN entries' : entries'[i].val >= floor[entries'[i].key]
  <2>1. CASE ~Leads(n)
    BY <2>1, <1>2, <1>4 DEF Bounded
  <2>2. CASE Leads(n)
    <3>1. PICK k \in Keys, v \in 0..MaxVersion :
            k = task[n].key /\ v = task[n].val /\ v >= floor[k]
      <4>1. task[n].key \in Keys /\ task[n].val \in 0..MaxVersion
        BY <1>4 DEF Loads
      <4>2. inflight[task[n].key] = n
        BY <2>2 DEF Leads
      <4>3. task[n].val >= floor[task[n].key]
        BY <4>1, <4>2, <1>2, <1>4 DEF FreshAfterInvalidate
      <4> QED
        BY <4>1, <4>3
    <3> DEFINE e == [key |-> k, val |-> v, fresh |-> TRUE]
               t == Without(entries, k)
               u == Append(t, e)
    <3>2. e \in Entry /\ e.key = k /\ e.val >= floor[k]
      BY <3>1 DEF Entry
    <3>3. /\ t \in Seq(Entry) /\ KeysOnce(t)
          /\ \A i \in DOMAIN t : t[i].key # k /\ \E j \in DOMAIN entries : t[i] = entries[j]
      BY <1>4, WithoutLeaves
    <3>4. entries' = Evicted(u)
      BY <3>1, <2>2, <1>2 DEF Stored
    <3> HIDE DEF e, t
    <3>5. /\ u \in Seq(Entry) /\ KeysOnce(u)
          /\ \A i \in DOMAIN u : u[i] = e \/ \E j \in DOMAIN t : u[i] = t[j]
      BY <3>2, <3>3, AppendKeepsKeys
    <3> HIDE DEF u
    <3>6. /\ entries' \in Seq(Entry) /\ KeysOnce(entries') /\ Len(entries') <= MaxEntries
          /\ \A i \in DOMAIN entries' : \E j \in DOMAIN u : entries'[i] = u[j]
      BY <3>4, <3>5, EvictedLeaves
    <3>7. \A j \in DOMAIN u : u[j].val >= floor[u[j].key]
      BY <3>2, <3>3, <3>5, <1>4
    <3> QED
      BY <3>6, <3>7 DEF Bounded
  <2> QED
    BY <2>1, <2>2
<1>6. TypeOK'
  BY <1>2, <1>3, <1>5 DEF TypeOK, IInv, LoadsExact, Entry, KeysOnce
<1>7. FreshAfterInvalidate' /\ FloorReached'
  BY <1>2, <1>3, <1>4, <1>5 DEF FreshAfterInvalidate, IInv, FloorReached
<1> QED
  BY <1>3, <1>5, <1>6, <1>7 DEF IInv, LoadsExact

\* A caller that is cancelled, or whose load failed, stores nothing
LEMMA RaisedSafe ==
    ASSUME IInv, NEW c \in Callers, Raised(c)
    PROVE  IInv'
<1>1. /\ inflight' \in [Keys -> Tasks \cup {NoTask}]
      /\ awaits' \in [Callers -> Tasks \cup {NoTask}]
      /\ InflightAwaited'
      /\ \A k \in Keys : inflight'[k] # NoTask => inflight'[k] = inflight[k]
  BY CallerLeaves DEF Raised
<1>2. UNCHANGED <<data, entries, task, floor>>
  BY DEF Raised
<1>3. TypeOK' /\ Bounded'
  BY <1>1, <1>2 DEF TypeOK, Bounded, IInv, LoadsExact
<1>4. FreshAfterInvalidate' /\ FloorReached'
  BY <1>1, <1>2 DEF FreshAfterInvalidate, FloorReached, IInv, LoadsExact
<1> QED
  BY <1>1, <1>3, <1>4 DEF IInv, LoadsExact

\* An invalidation raises the floor of keys without a load, whose entries it removed
LEMMA InvalidatedSafe ==
    ASSUME IInv, NEW K \in SUBSET Keys, Invalidated(K),
           entries' \in Seq(Entry), KeysOnce(entries'), Len(entries') <= MaxEntries,
           \A i \in DOMAIN entries' :
              entries'[i].key \notin K /\ \E j \in DOMAIN entries : entries'[i] = entries[j]
    PROVE  IInv'
<1>1. /\ data \in [Keys -> 0..MaxVersion] /\ floor \in [Keys -> 0..MaxVersion]
      /\ entries \in Seq(Entry)
      /\ floor' = [k \in Keys |-> IF k \in K /\ inflight[k] = NoTask THEN data[k] ELSE floor[k]]
      /\ UNCHANGED <<data, inflight, task, awaits>>
  BY DEF IInv, LoadsExact, TypeOK, Invalidated, Entry
<1>2. \A k \in Keys : data[k] \in Nat /\ floor[k] \in Nat
  BY <1>1, Versions
<1>3. floor' \in [Keys -> 0..MaxVersion] /\ \A k \in Keys : k \notin K => floor'[k] = floor[k]
  BY <1>1
<1>4. \A i \in DOMAIN entries' : entries'[i].val >= floor'[entries'[i].key]
  <2> SUFFICES ASSUME NEW i \in DOMAIN entries' PROVE entries'[i].val >= floor'[entries'[i].key]
    OBVIOUS
  <2>1. PICK j \in DOMAIN entries : entries'[i] = entries[j]
    OBVIOUS
  <2>2. entries[j] \in Entry
    BY <1>1
  <2>3. entries[j].key \in Keys
    BY <2>2 DEF Entry
  <2>4. entries[j].val >= floor[entries[j].key]
    BY DEF IInv, LoadsExact, FreshAfterInvalidate
  <2> QED
    BY <2>1, <2>3, <2>4, <1>3
<1>5. \A k \in Keys : inflight[k] # NoTask => floor'[k] = floor[k]
  BY <1>1
<1>6. TypeOK'
  BY <1>1, <1>3 DEF TypeOK, IInv, LoadsExact, Entry, KeysOnce
<1>7. InflightAwaited' /\ Bounded'
  BY <1>1 DEF InflightAwaited, Awaited, Bounded, IInv, LoadsExact
<1>8. FreshAfterInvalidate'
  BY <1>1, <1>4, <1>5 DEF FreshAfterInvalidate, IInv, LoadsExact
<1>9. FloorReached'
  BY <1>1, <1>2 DEF FloorReached, IInv
<1> QED
  BY <1>6, <1>7, <1>8, <1>9 DEF IInv, LoadsExact

LEMMA InvalidateSafe ==
    ASSUME IInv, NEW k \in Keys, Invalidate(k)
    PROVE  IInv'
<1>1. entries \in Seq(Entry) /\ KeysOnce(entries) /\ Len(entries) <= MaxEntries
  BY DEF IInv, LoadsExact, TypeOK, Bounded, Entry, KeysOnce
<1>2. PICK t : t = Without(entries, k)
  OBVIOUS
<1>3. /\ t \in Seq(Entry) /\ KeysOnce(t) /\ Len(t) <= Len(entries)
      /\ \A i \in DOMAIN t : t[i].key # k /\ \E j \in DOMAIN entries : t[i] = entries[j]
  BY <1>1, <1>2, WithoutLeaves
<1>4. entries' = t /\ Invalidated({k}) /\ {k} \in SUBSET Keys
  BY <1>2 DEF Invalidate
<1>5. Len(t) <= MaxEntries
  BY <1>1, <1>3, CacheAssumption DEF CacheAssumption
<1> QED
  BY <1>3, <1>4, <1>5, InvalidatedSafe

LEMMA ClearSafe ==
    ASSUME IInv, Clear
    PROVE  IInv'
<1>1. entries' = <<>> /\ Invalidated(Keys) /\ Keys \in SUBSET Keys
  BY DEF Clear
<1>2. entries' \in Seq(Entry) /\ DOMAIN entries' = {} /\ Len(entries') = 0
  BY <1>1
<1>3. KeysOnce(entries') /\ Len(entries') <= MaxEntries
  BY <1>2, CacheAssumption DEF KeysOnce, CacheAssumption
<1> QED
  BY <1>1, <1>2, <1>3, InvalidatedSafe

\* A load reads the data as they are, which no floor exceeds
LEMMA LoaderSafe ==
    ASSUME IInv, NEW n \in Tasks, Loader(n)
    PROVE  IInv'
<1>1. /\ data \in [Keys -> 0..MaxVersion] /\ floor \in [Keys -> 0..MaxVersion]
      /\ inflight \in [Keys -> Tasks \cup {NoTask}] /\ task \in [Tasks -> Loads]
  BY DEF IInv, LoadsExact, TypeOK
<1>2. UNCHANGED <<data, entries, inflight, awaits, floor>>
  BY DEF Loader, LoaderReads, LoaderEnds
<1>3. \A k \in Keys : data[k] \in Nat /\ floor[k] \in Nat /\ floor[k] <= data[k]
  BY <1>1, Versions DEF IInv, FloorReached
<1>4. /\ task' \in [Tasks -> Loads]
      /\ \A m \in Tasks : task'[m].key = task[m].key
      /\ \A m \in Tasks : task'[m].phase \in {"read", "done"} =>
            \/ task[m].phase \in {"read", "done"} /\ task'[m].val = task[m].val
            \/ task'[m].val = data[task[m].key]
  <2>1. CASE LoaderReads(n)
    BY <2>1, <1>1 DEF LoaderReads, Loads
  <2>2. CASE LoaderEnds(n)
    BY <2>2, <1>1 DEF LoaderEnds, Loads
  <2> QED
    BY <2>1, <2>2 DEF Loader
<1>5. InflightAwaited'
  BY <1>1, <1>2, <1>4 DEF InflightAwaited, Awaited, IInv, LoadsExact
<1>6. FreshAfterInvalidate'
  <2>1. ASSUME NEW k \in Keys, inflight[k] # NoTask, task'[inflight[k]].phase \in {"read", "done"}
        PROVE  task'[inflight[k]].val >= floor[k]
    <3>1. inflight[k] \in Tasks /\ task[inflight[k]].key = k
      BY <2>1, <1>1 DEF InflightAwaited, IInv, LoadsExact
    <3>2. CASE task'[inflight[k]].val = data[k]
      BY <3>2, <1>3
    <3>3. CASE task[inflight[k]].phase \in {"read", "done"}
               /\ task'[inflight[k]].val = task[inflight[k]].val
      BY <3>3, <2>1 DEF FreshAfterInvalidate, IInv, LoadsExact
    <3> QED
      BY <3>1, <3>2, <3>3, <2>1, <1>4
  <2> QED
    BY <2>1, <1>2 DEF FreshAfterInvalidate, IInv, LoadsExact
<1> QED
  BY <1>2, <1>4, <1>5, <1>6 DEF IInv, LoadsExact, TypeOK, Bounded, FloorReached

\* An entry that expires keeps its key and its value
LEMMA ExpireSafe ==
    ASSUME IInv, NEW i \in DOMAIN entries, Expire(i)
    PROVE  IInv'
<1>1. /\ entries \in Seq(Entry) /\ KeysOnce(entries) /\ Len(entries) <= MaxEntries
      /\ \A j \in DOMAIN entries : entries[j].val >= floor[entries[j].key]
  BY DEF IInv, LoadsExact, TypeOK, Bounded, FreshAfterInvalidate, Entry, KeysOnce
<1>2. /\ entries' = [entries EXCEPT ![i].fresh = FALSE]
      /\ UNCHANGED <<data, inflight, task, awaits, floor>>
  BY DEF Expire
<1>3. entries[i] \in Entry
  BY <1>1
<1>4. [entries[i] EXCEPT !.fresh = FALSE] \in Entry
  BY <1>3 DEF Entry
<1>5. /\ entries' \in Seq(Entry) /\ Len(entries') = Len(entries)
      /\ DOMAIN entries' = DOMAIN entries
  BY <1>1, <1>2, <1>4
<1>6. \A j \in DOMAIN entries :
         entries'[j].key = entries[j].key /\ entries'[j].val = entries[j].val
  <2> SUFFICES ASSUME NEW j \in DOMAIN entries
               PROVE  entries'[j].key = entries[j].key /\ entries'[j].val = entries[j].val
    OBVIOUS
  <2>1. entries[j] \in Entry
    BY <1>1
  <2>2. entries'[j] = IF j = i THEN [entries[j] EXCEPT !.fresh = FALSE] ELSE entries[j]
    BY <1>1, <1>2
  <2> QED
    BY <2>1, <2>2 DEF Entry
<1>7. KeysOnce(entries') /\ \A j \in DOMAIN entries' : entries'[j].val >= floor[entries'[j].key]
  BY <1>1, <1>5, <1>6 DEF KeysOnce
<1> QED
  BY <1>1, <1>2, <1>5, <1>7, EntriesSafe

\* The data only move on
LEMMA WriteSafe ==
    ASSUME IInv, NEW k \in Keys, Write(k)
    PROVE  IInv'
<1>1. /\ data \in [Keys -> 0..MaxVersion] /\ floor \in [Keys -> 0..MaxVersion]
      /\ MaxVersion \in Nat
  BY CacheAssumption DEF IInv, LoadsExact, TypeOK, CacheAssumption
<1>2. /\ data[k] < MaxVersion /\ data' = [data EXCEPT ![k] = @ + 1]
      /\ UNCHANGED <<entries, inflight, task, awaits, floor>>
  BY DEF Write
<1>3. data' \in [Keys -> 0..MaxVersion] /\ \A j \in Keys : data[j] <= data'[j]
  BY <1>1, <1>2
<1>4. FloorReached'
  <2> SUFFICES ASSUME NEW j \in Keys PROVE floor[j] <= data'[j]
    BY <1>2 DEF FloorReached
  <2>1. floor[j] \in Nat /\ data[j] \in Nat /\ data'[j] \in Nat /\ floor[j] <= data[j]
    BY <1>1, <1>3, Versions DEF IInv, FloorReached
  <2> QED
    BY <2>1, <1>3
<1>5. TypeOK' /\ Bounded'
  BY <1>2, <1>3 DEF IInv, LoadsExact, TypeOK, Bounded
<1>6. InflightAwaited' /\ FreshAfterInvalidate'
  BY <1>2 DEF IInv, LoadsExact, InflightAwaited, FreshAfterInvalidate, Awaited
<1> QED
  BY <1>4, <1>5, <1>6 DEF IInv, LoadsExact

-----------------------------------------------------------------------------
(* The invariant of the specification                                      *)

LEMMA NextSafe == IInv /\ [Next]_vars => IInv'
<1> SUFFICES ASSUME IInv, [Next]_vars PROVE IInv'
  OBVIOUS
<1>1. ASSUME NEW c \in Callers, NEW k \in Keys, Hit(c, k) \/ Miss(c, k) PROVE IInv'
  BY <1>1, HitSafe, MissSafe
<1>2. ASSUME NEW c \in Callers, Resumes(c) PROVE IInv'
  BY <1>2, LoadedSafe, RaisedSafe DEF Resumes
<1>3. ASSUME NEW k \in Keys, Invalidate(k) PROVE IInv'
  BY <1>3, InvalidateSafe
<1>4. ASSUME NEW n \in Tasks, Loader(n) PROVE IInv'
  BY <1>4, LoaderSafe
<1>5. ASSUME NEW i \in DOMAIN entries, Expire(i) PROVE IInv'
  BY <1>5, ExpireSafe
<1>6. ASSUME NEW k \in Keys, Write(k) PROVE IInv'
  BY <1>6, WriteSafe
<1>7. CASE UNCHANGED vars
  BY <1>7 DEF vars, IInv, LoadsExact, TypeOK, Bounded, InflightAwaited, FreshAfterInvalidate,
              FloorReached, Awaited
<1>8. CASE Clear
  BY <1>8, ClearSafe
<1> QED
  BY <1>1, <1>2, <1>3, <1>4, <1>5, <1>6, <1>7, <1>8 DEF Next

\* The cache never exceeds max_entries, every load in flight has a caller that will clear
\* it, and no value older than the last invalidation at rest is stored or joined,
\* however hits, misses, cancelled callers, failing loaders and invalidations
\* interleave: get_or_load and invalidate of AsyncTTLCache.
THEOREM LoadsCorrect == Spec => []LoadsExact
<1>1. Init => IInv
  BY InitSafe
<1>2. IInv /\ [Next]_vars => IInv'
  BY NextSafe
<1>3. IInv => LoadsExact
  BY DEF IInv
<1> QED
  BY <1>1, <1>2, <1>3, PTL DEF Spec

=============================================================================
