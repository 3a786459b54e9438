------------------------------ MODULE TTLCache ------------------------------
(***************************************************************************)
(* AsyncTTLCache (backend/cache.py): a bounded cache of loader results     *)
(* that collapses concurrent misses into one loader task.                  *)
(*                                                                         *)
(* The sections under _lock never await, so the lock is never contended    *)
(* and an action is the code of get_or_load up to its await or from it on, *)
(* or a whole invalidate().  A loader task runs beside its callers: it     *)
(* reads the data at one moment and ends at a later one.  A task id is     *)
(* used again once nothing refers to the task.                             *)
(***************************************************************************)
EXTENDS Naturals, Sequences, FiniteSets

CONSTANTS
    Keys,           \* cache keys
    Callers,        \* coroutines in get_or_load
    Tasks,          \* loader tasks that may exist together
    MaxEntries,     \* max_entries
    MaxVersion,     \* bound: how often the data behind a key changes
    NoTask          \* a key without a load, a caller that awaits nothing

ASSUME CacheAssumption ==
    /\ IsFiniteSet(Keys) /\ IsFiniteSet(Tasks)
    /\ MaxEntries \in Nat \ {0} /\ MaxVersion \in Nat
    /\ NoTask \notin Tasks

VARIABLES
    data,       \* the version of the data each key's loader would read
    entries,    \* _entries, least recently used first: key, value and whether its
                \* ttl still runs
    inflight,   \* _inflight
    task,       \* the loader tasks
    awaits,     \* the task each caller awaits
    floor       \* the version of each key when it was last invalidated at rest

vars == <<data, entries, inflight, task, awaits, floor>>

\* How far a load has got, and the version it read
Loads == [phase : {"started", "read", "done", "failed"}, key : Keys, val : 0..MaxVersion]
Running(n) == task[n].phase \in {"started", "read"}

-----------------------------------------------------------------------------
(* The entries                                                             *)

Cached(k) == \E i \in DOMAIN entries : entries[i].key = k
EntryOf(k) == CHOOSE e \in {entries[i] : i \in DOMAIN entries} : e.key = k

\* pop(key): a key has one entry at most
Without(s, k) ==
    IF \A i \in DOMAIN s : s[i].key # k THEN s
    ELSE LET at == CHOOSE i \in DOMAIN s : s[i].key = k
         IN [i \in 1..(Len(s) - 1) |-> IF i < at THEN s[i] ELSE s[i + 1]]

\* popitem(last=False) while there are too many
Evicted(s) == IF Len(s) > MaxEntries THEN SubSeq(s, Len(s) - MaxEntries + 1, Len(s)) ELSE s

\* The value of a load moves to the end of the entries
Stored(k, v) == Evicted(Append(Without(entries, k), [key |-> k, val |-> v, fresh |-> TRUE]))

-----------------------------------------------------------------------------
(* get_or_load                                                             *)

Init ==
    /\ data = [k \in Keys |-> 0] /\ floor = data
    /\ entries = <<>>
    /\ inflight = [k \in Keys |-> NoTask]
    /\ \E k \in Keys :
          task = [n \in Tasks |-> [phase |-> "done", key |-> k, val |-> 0]]
    /\ awaits = [c \in Callers |-> NoTask]

Awaited(n) == \E c \in Callers : awaits[c] = n
Free(n) == ~Running(n) /\ ~Awaited(n) /\ \A k \in Keys : inflight[k] # n

\* A cached value whose ttl runs is returned at once and becomes the last entry
Hit(c, k) ==
    /\ awaits[c] = NoTask
    /\ Cached(k) /\ EntryOf(k).fresh
    /\ entries' = Append(Without(entries, k), EntryOf(k))
    /\ UNCHANGED <<data, inflight, task, awaits, floor>>

\* Otherwise an expired entry goes, and the caller joins the load of the key, or
\* starts one
Miss(c, k) ==
    /\ awaits[c] = NoTask
    /\ ~(Cached(k) /\ EntryOf(k).fresh)
    /\ entries' = Without(entries, k)
    /\ \/ /\ inflight[k] # NoTask
          /\ awaits' = [awaits EXCEPT ![c] = inflight[k]]
          /\ UNCHANGED <<inflight, task>>
       \/ /\ inflight[k] = NoTask
          /\ \E n \in Tasks :
                /\ Free(n)
                /\ task' = [task EXCEPT ![n] = [phase |-> "started", key |-> k, val |-> 0]]
                /\ inflight' = [inflight EXCEPT ![k] = n]
                /\ awaits' = [awaits EXCEPT ![c] = n]
    /\ UNCHANGED <<data, floor>>

\* mutant: whoever resumes clears and stores
AlwaysLeads(n) == TRUE
\* "self._inflight.get(key) is task": it is still the load of its key
Leads(n) == inflight[task[n].key] = n

ClearInFlight(n) ==
    inflight' = [inflight EXCEPT ![task[n].key] = IF Leads(n) THEN NoTask ELSE @]

\* The load succeeded: the first of its callers to run stores the value
Loaded(c) ==
    LET n == awaits[c]
    IN /\ n # NoTask /\ task[n].phase = "done"
       /\ entries' = IF Leads(n) THEN Stored(task[n].key, task[n].val) ELSE entries
       /\ ClearInFlight(n)
       /\ awaits' = [awaits EXCEPT ![c] = NoTask]
       /\ UNCHANGED <<data, task, floor>>

\* The load failed, or the call is cancelled, which the shielded load does not notice
Raised(c) ==
    LET n == awaits[c]
    IN /\ n # NoTask
       /\ ClearInFlight(n)
       /\ awaits' = [awaits EXCEPT ![c] = NoTask]
       /\ UNCHANGED <<data, entries, task, floor>>

-----------------------------------------------------------------------------
(* invalidate(), the loader, and the data it reads                         *)

\* What is in flight is left alone
Invalidated(K) ==
    /\ floor' = [k \in Keys |-> IF k \in K /\ inflight[k] = NoTask THEN data[k] ELSE floor[k]]
    /\ UNCHANGED <<data, inflight, task, awaits>>

Invalidate(k) == entries' = Without(entries, k) /\ Invalidated({k})
Clear == entries' = <<>> /\ Invalidated(Keys)

LoaderReads(n) ==
    /\ task[n].phase = "started"
    /\ task' = [task EXCEPT ![n].phase = "read", ![n].val = data[task[n].key]]
    /\ UNCHANGED <<data, entries, inflight, awaits, floor>>

LoaderEnds(n) ==
    /\ \/ task[n].phase = "read" /\ task' = [task EXCEPT ![n].phase = "done"]
       \/ Running(n) /\ task' = [task EXCEPT ![n].phase = "failed"]
    /\ UNCHANGED <<data, entries, inflight, awaits, floor>>

\* The ttl of an entry runs out
Expire(i) ==
    /\ entries[i].fresh
    /\ entries' = [entries EXCEPT ![i].fresh = FALSE]
    /\ UNCHANGED <<data, inflight, task, awaits, floor>>

Write(k) ==
    /\ data[k] < MaxVersion
    /\ data' = [data EXCEPT ![k] = @ + 1]
    /\ UNCHANGED <<entries, inflight, task, awaits, floor>>

-----------------------------------------------------------------------------
Loader(n) == LoaderReads(n) \/ LoaderEnds(n)
Resumes(c) == Loaded(c) \/ Raised(c)

Next ==
    \/ \E c \in Callers, k \in Keys : Hit(c, k) \/ Miss(c, k)
    \/ \E c \in Callers : Resumes(c)
    \/ (\E k \in Keys : Invalidate(k)) \/ Clear
    \/ \E n \in Tasks : Loader(n)
    \/ \E i \in DOMAIN entries : Expire(i)
    \/ \E k \in Keys : Write(k)

Spec == Init /\ [][Next]_vars

-----------------------------------------------------------------------------
(* Properties                                                              *)

\* Every variable keeps to the values the code gives it; a key has one entry.
TypeOK ==
    /\ data \in [Keys -> 0..MaxVersion] /\ floor \in [Keys -> 0..MaxVersion]
    /\ entries \in Seq([key : Keys, val : 0..MaxVersion, fresh : BOOLEAN])
    /\ \A i, j \in DOMAIN entries : entries[i].key = entries[j].key => i = j
    /\ inflight \in [Keys -> Tasks \cup {NoTask}]
    /\ task \in [Tasks -> Loads]
    /\ awaits \in [Callers -> Tasks \cup {NoTask}]

\* The cache keeps to max_entries.
Bounded == Len(entries) <= MaxEntries

\* A load in flight has a caller that will clear it, whoever is cancelled and
\* whatever fails: otherwise later calls would be given its result for ever.
InflightAwaited ==
    \A k \in Keys : inflight[k] # NoTask => Awaited(inflight[k]) /\ task[inflight[k]].key = k

\* After an invalidation that met no load of the key in flight, neither an entry nor
\* the load a new call would join is older than the data was then: a load given up
\* by its callers never stores what it read.
FreshAfterInvalidate ==
    /\ \A i \in DOMAIN entries : entries[i].val >= floor[entries[i].key]
    /\ \A k \in Keys : inflight[k] # NoTask /\ task[inflight[k]].phase \in {"read", "done"}
          => task[inflight[k]].val >= floor[k]

\* The entries stay bounded, every load in flight is awaited, and nothing stale is stored
\* over what an invalidation asked for.
LoadsExact == TypeOK /\ Bounded /\ InflightAwaited /\ FreshAfterInvalidate

=============================================================================
