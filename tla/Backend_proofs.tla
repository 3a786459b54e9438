---------------------------- MODULE Backend_proofs ----------------------------
(***************************************************************************)
(* What the backend runs beside its requests: the slots of the bounded     *)
(* executor are conserved and its work counted, a bot has one instance and *)
(* its row follows it, and crashes and restarts are counted as they happen. *)
(***************************************************************************)
EXTENDS BoundedWorkload, BotRuntime, Supervisor, FiniteSetTheorems, SequenceTheorems, TLAPS

-----------------------------------------------------------------------------
(* What wakes                                                              *)

OnceIn(q) == \A i, j \in DOMAIN q : q[i] = q[j] => i = j
In(s, q) == \E i \in DOMAIN q : q[i] = s

\* v free slots wake as many waiters of q, as long as there are waiters
LEMMA WokenCount ==
    ASSUME NEW v \in Nat, NEW q \in Seq(Requests), OnceIn(q)
    PROVE  /\ Woken(v, q) \in SUBSET Requests /\ IsFiniteSet(Woken(v, q))
           /\ SlotsAfter(v, q) \in Nat
           /\ Cardinality(Woken(v, q)) + SlotsAfter(v, q) = v
<1> DEFINE n == IF v <= Len(q) THEN v ELSE Len(q)
           f == [i \in 1..n |-> q[i]]
<1>1. Len(q) \in Nat /\ DOMAIN q = 1..Len(q) /\ n \in Nat
  OBVIOUS
<1>2. f \in [1..n -> Woken(v, q)]
  BY <1>1 DEF Woken
<1>3. \A i, j \in 1..n : f[i] = f[j] => i = j
  BY <1>1 DEF OnceIn
<1>4. \A s \in Woken(v, q) : \E i \in 1..n : f[i] = s
  BY <1>1 DEF Woken
<1>5. f \in Bijection(1..n, Woken(v, q))
  BY <1>2, <1>3, <1>4 DEF Bijection, Injection, Surjection, IsInjective
<1>6. Cardinality(Woken(v, q)) = n /\ IsFiniteSet(Woken(v, q))
  <2>1. ExistsBijection(1..n, Woken(v, q))
    BY <1>5 DEF ExistsBijection
  <2> QED
    BY <2>1, <1>1, FS_CountingElements, FS_NatBijection
<1>7. Woken(v, q) \in SUBSET Requests
  BY <1>1 DEF Woken
<1>8. SlotsAfter(v, q) = v - n
  BY <1>1 DEF SlotsAfter
<1> QED
  BY <1>1, <1>6, <1>7, <1>8

\* Who is woken leaves the queue, and nobody else does
LEMMA QueueAfterWoken ==
    ASSUME NEW v \in Nat, NEW q \in Seq(Requests), OnceIn(q)
    PROVE  /\ QueueAfter(v, q) \in Seq(Requests)
           /\ OnceIn(QueueAfter(v, q))
           /\ \A s : In(s, QueueAfter(v, q)) <=> In(s, q) /\ s \notin Woken(v, q)
<1>1. Len(q) \in Nat /\ DOMAIN q = 1..Len(q)
  OBVIOUS
<1>2. CASE v <= Len(q)
  <2> DEFINE t == SubSeq(q, v + 1, Len(q))
  <2>1. QueueAfter(v, q) = t
    BY <1>2 DEF QueueAfter
  <2>2. /\ t \in Seq(Requests) /\ DOMAIN t = 1..(Len(q) - v)
        /\ \A i \in 1..(Len(q) - v) : t[i] = q[v + i]
    BY <1>1, <1>2
  <2>3. OnceIn(t)
    BY <1>1, <2>2 DEF OnceIn
  <2>4. ASSUME NEW s PROVE In(s, t) <=> In(s, q) /\ s \notin Woken(v, q)
    <3>1. ASSUME In(s, t) PROVE In(s, q) /\ s \notin Woken(v, q)
      <4>1. PICK i \in 1..(Len(q) - v) : q[v + i] = s
        BY <3>1, <2>2 DEF In
      <4>2. v + i \in DOMAIN q /\ v + i > v
        BY <1>1, <1>2
      <4> QED
        BY <4>1, <4>2, <1>1 DEF In, Woken, OnceIn
    <3>2. ASSUME In(s, q), s \notin Woken(v, q) PROVE In(s, t)
      <4>1. PICK i \in DOMAIN q : q[i] = s
        BY <3>2 DEF In
      <4>2. i > v
        BY <4>1, <3>2, <1>1 DEF Woken
      <4>3. i - v \in 1..(Len(q) - v) /\ v + (i - v) = i
        BY <4>1, <4>2, <1>1, <1>2
      <4>4. t[i - v] = q[i]
        BY <4>3, <2>2
      <4> QED
        BY <4>1, <4>3, <4>4, <2>2 DEF In
    <3> QED
      BY <3>1, <3>2
  <2> QED
    BY <2>1, <2>2, <2>3, <2>4
<1>3. CASE v > Len(q)
  <2>1. QueueAfter(v, q) = <<>>
    BY <1>1, <1>3 DEF QueueAfter
  <2>2. \A s : In(s, q) => s \in Woken(v, q)
    BY <1>1, <1>3 DEF In, Woken
  <2> QED
    BY <2>1, <2>2 DEF In, OnceIn
<1> QED
  BY <1>1, <1>2, <1>3

-----------------------------------------------------------------------------
(* The inductive invariant                                                 *)

\* A call stands in a queue once
QueuedOnce == \A g \in Generations : OnceIn(queue[g])

\* A call knows a generation that exists, and the first executor works for slots of
\* its own semaphore only
KnowsBuilt ==
    \A r \in Requests : /\ gen[r] <= built \/ gen[r] = 1
                        /\ job[r] # "none" /\ host[r] = 1 => gen[r] = 1

IInv == SlotsExact /\ QueuedOnce /\ KnowsBuilt

Held == {r \in Requests : job[r] # "none"}

\* Sets of calls are finite
LEMMA FiniteCalls ==
    ASSUME NEW S, S \subseteq Requests
    PROVE  IsFiniteSet(S) /\ Cardinality(S) \in Nat
  BY WorkloadAssumption, FS_Subset, FS_CardinalityType DEF WorkloadAssumption

LEMMA GenerationsNat == Generations \subseteq Nat \ {0} /\ 1 \in Generations
<1>1. Cardinality(Generations) \in Nat
  BY WorkloadAssumption, FS_CardinalityType DEF WorkloadAssumption
<1>2. Cardinality(Generations) # 0
  BY WorkloadAssumption, FS_EmptySet DEF WorkloadAssumption
<1> QED
  BY <1>1, <1>2, WorkloadAssumption DEF WorkloadAssumption

\* Where the calls are when v slots have gone to the waiters of q and r has gone on to p
WokenPc(v, q, r, p) ==
    [s \in Requests |-> IF s \in Woken(v, q) THEN "granted" ELSE IF s = r THEN p ELSE pc[s]]

\* v slots are shared out among the waiters q of g, while r goes on to p
Sharing(g, v, q, r, p) ==
    /\ OnceIn(q) /\ \A s : In(s, q) <=> s \in Requests \ {r} /\ pc[s] = "waiting" /\ gen[s] = g
    /\ gen[r] = g
    /\ pc' = WokenPc(v, q, r, p)
    /\ queue' = [queue EXCEPT ![g] = QueueAfter(v, q)]
    /\ gen' \in [Requests -> Generations]
    /\ \A s \in Requests \ {r} : gen'[s] = gen[s]

\* Whoever was woken has one of them, and the queue lists whoever still waits
Shared(g, v, q, r, p) ==
    /\ pc' \in [Requests -> {"idle", "waiting", "granted", "running", "left"}]
    /\ queue' \in [Generations -> Seq(Requests)]
    /\ \A h \in Generations, s \in Requests : In(s, queue'[h]) <=> pc'[s] = "waiting" /\ gen'[s] = h
    /\ QueuedOnce'
    /\ pc'[r] = p
    /\ \A s \in Requests \ {r} : pc'[s] \in {"running", "left"} <=> pc[s] \in {"running", "left"}
    /\ \A h \in Generations \ {g} : Granted(h)' = Granted(h)
    /\ Cardinality(Granted(g)') + SlotsAfter(v, q) = v + Cardinality(Granted(g) \ {r})

LEMMA SharedOut ==
    ASSUME TypeOK, QueuedOnce,
           NEW g \in Generations, NEW v \in Nat, NEW q \in Seq(Requests),
           NEW r \in Requests, NEW p \in {"idle", "running"}, Sharing(g, v, q, r, p)
    PROVE  Shared(g, v, q, r, p)
<1> USE DEF WokenPc, Sharing
<1> DEFINE W == Woken(v, q)
           t == QueueAfter(v, q)
<1>1. /\ W \in SUBSET Requests /\ IsFiniteSet(W) /\ SlotsAfter(v, q) \in Nat
      /\ Cardinality(W) + SlotsAfter(v, q) = v
  BY WokenCount
<1>2. /\ t \in Seq(Requests) /\ OnceIn(t)
      /\ \A s : In(s, t) <=> In(s, q) /\ s \notin W
  BY QueueAfterWoken
<1>3. \A s \in W : s \in Requests \ {r} /\ pc[s] = "waiting" /\ gen[s] = g
  <2>1. \A s \in W : In(s, q)
    BY DEF Woken, In
  <2> QED
    BY <2>1
<1>4. pc' \in [Requests -> {"idle", "waiting", "granted", "running", "left"}]
  BY DEF TypeOK
<1>5. queue' \in [Generations -> Seq(Requests)]
  BY <1>2 DEF TypeOK
<1>6. ASSUME NEW h \in Generations, NEW s \in Requests
      PROVE  In(s, queue'[h]) <=> pc'[s] = "waiting" /\ gen'[s] = h
  <2>1. CASE h = g
    <3>1. queue'[h] = t
      BY <2>1 DEF TypeOK
    <3> QED
      BY <3>1, <2>1, <1>2, <1>3
  <2>2. CASE h # g
    <3>1. queue'[h] = queue[h]
      BY <2>2 DEF TypeOK
    <3>2. In(s, queue[h]) <=> pc[s] = "waiting" /\ gen[s] = h
      BY DEF TypeOK, In
    <3>3. s # r => (pc'[s] = "waiting" /\ gen'[s] = h <=> pc[s] = "waiting" /\ gen[s] = h)
      BY <1>3, <2>2
    <3>4. s = r => pc'[s] # "waiting" /\ ~(pc[s] = "waiting" /\ gen[s] = h)
      BY <1>3, <2>2
    <3> QED
      BY <3>1, <3>2, <3>3, <3>4
  <2> QED
    BY <2>1, <2>2
<1>7. QueuedOnce'
  BY <1>2 DEF QueuedOnce, TypeOK
<1>8. pc'[r] = p /\ \A s \in Requests \ {r} :
          pc'[s] \in {"running", "left"} <=> pc[s] \in {"running", "left"}
  BY <1>3
<1>9. ASSUME NEW h \in Generations \ {g} PROVE Granted(h)' = Granted(h)
  <2>1. ASSUME NEW s \in Requests
        PROVE  pc'[s] = "granted" /\ gen'[s] = h <=> pc[s] = "granted" /\ gen[s] = h
    BY <1>3
  <2> QED
    BY <2>1 DEF Granted
<1>10. Granted(g)' = (Granted(g) \ {r}) \cup W
  <2>1. ASSUME NEW s \in Requests
        PROVE  pc'[s] = "granted" /\ gen'[s] = g
                    <=> s \in W \/ (s # r /\ pc[s] = "granted" /\ gen[s] = g)
    BY <1>3
  <2> QED
    BY <2>1, <1>1 DEF Granted
<1>11. Cardinality(Granted(g)') = Cardinality(Granted(g) \ {r}) + Cardinality(W)
  <2>1. (Granted(g) \ {r}) \cap W = {}
    BY <1>3 DEF Granted
  <2>2. Granted(g) \ {r} \subseteq Requests
    BY DEF Granted
  <2>3. /\ IsFiniteSet(Granted(g) \ {r}) /\ Cardinality(Granted(g) \ {r}) \in Nat
        /\ Cardinality(W) \in Nat
    BY <2>2, <1>1, FiniteCalls
  <2>4. Cardinality((Granted(g) \ {r}) \cup W)
            = Cardinality(Granted(g) \ {r}) + Cardinality(W)
                  - Cardinality((Granted(g) \ {r}) \cap W)
    BY <2>3, <1>1, FS_Union
  <2>5. Cardinality((Granted(g) \ {r}) \cap W) = 0
    BY <2>1, FS_EmptySet
  <2>6. Cardinality((Granted(g) \ {r}) \cup W) = Cardinality(Granted(g) \ {r}) + Cardinality(W)
    BY <2>3, <2>4, <2>5
  <2> QED
    BY <2>6, <1>10
<1>12. Cardinality(Granted(g) \ {r}) \in Nat /\ Cardinality(W) \in Nat
  <2>1. Granted(g) \ {r} \subseteq Requests
    BY DEF Granted
  <2> QED
    BY <2>1, <1>1, FiniteCalls
<1>13. Cardinality(Granted(g)') + SlotsAfter(v, q) = v + Cardinality(Granted(g) \ {r})
  BY <1>1, <1>11, <1>12
<1> QED
  BY <1>4, <1>5, <1>6, <1>7, <1>8, <1>9, <1>13 DEF Shared

-----------------------------------------------------------------------------
(* Every step keeps the invariant                                          *)

\* Counting the calls that hold a slot, are promised one, or have work
LEMMA CountsFinite ==
    ASSUME TypeOK, NEW g \in Generations
    PROVE  /\ IsFiniteSet(Granted(g)) /\ Cardinality(Granted(g)) \in Nat
           /\ IsFiniteSet(Holders(g)) /\ Cardinality(Holders(g)) \in Nat
           /\ IsFiniteSet(Held) /\ Cardinality(Held) \in Nat
  BY FiniteCalls, Granted(g) \subseteq Requests, Holders(g) \subseteq Requests, Held \subseteq Requests
     DEF Granted, Holders, Held

\* The same, of a set with one call more or less
LEMMA OneMore ==
    ASSUME NEW S, S \subseteq Requests, NEW r \in Requests \ S
    PROVE  Cardinality(S \cup {r}) = Cardinality(S) + 1
  BY FiniteCalls, FS_AddElement

LEMMA OneLess ==
    ASSUME NEW S, S \subseteq Requests, NEW r \in S
    PROVE  Cardinality(S \ {r}) = Cardinality(S) - 1
  BY FiniteCalls, FS_RemoveElement

\* Generations are counted from 1
LEMMA Numbers ==
    ASSUME TypeOK
    PROVE  built \in Nat /\ executor \in Nat /\ \A r \in Requests : gen[r] \in Nat \ {0}
<1>1. built \in Nat /\ executor \in {0, built}
  BY GenerationsNat DEF TypeOK
<1>2. \A r \in Requests : gen[r] \in Generations
  BY DEF TypeOK
<1>3. executor \in Nat
  BY <1>1
<1>4. \A g \in Generations : g \in Nat \ {0}
  BY GenerationsNat
<1> QED
  BY <1>1, <1>2, <1>3, <1>4

\* Handing the work of an idle or woken call to executor e counts it, unless e is broken
LEMMA SubmitCounts ==
    ASSUME IInv, NEW r \in Requests, NEW g \in Generations, NEW e \in Generations \cup {0},
           job[r] = "none", e = 1 => g = 1, g <= built' \/ g = 1, built <= built', built' \in Nat,
           Submit(r, e, g)
    PROVE  /\ gen' \in [Requests -> Generations] /\ \A s \in Requests \ {r} : gen'[s] = gen[s]
           /\ job' \in [Requests -> {"none", "working", "finished"}]
           /\ \A s \in Requests \ {r} : job'[s] = job[s]
           /\ job'[r] # "none" <=> e \notin broken
           /\ host' \in [Requests -> Generations \cup {0}]
           /\ active' = active + 1
           /\ KnowsBuilt'
           /\ \A h \in Generations \ {g} : Holders(h)' = Holders(h)
           /\ e \in broken => Holders(g)' = Holders(g)
           /\ e \notin broken => /\ Cardinality(Holders(g)') = Cardinality(Holders(g)) + 1
                                 /\ Cardinality(Held') = Cardinality(Held) + 1
<1> USE DEF IInv, SlotsExact
<1>1. /\ gen' \in [Requests -> Generations] /\ \A s \in Requests \ {r} : gen'[s] = gen[s]
      /\ job' \in [Requests -> {"none", "working", "finished"}]
      /\ \A s \in Requests \ {r} : job'[s] = job[s]
      /\ job'[r] # "none" <=> e \notin broken
      /\ host' \in [Requests -> Generations \cup {0}]
      /\ active' = active + 1
  <2>1. /\ gen \in [Requests -> Generations] /\ host \in [Requests -> Generations \cup {0}]
        /\ job \in [Requests -> {"none", "working", "finished"}]
    BY DEF TypeOK
  <2>2. active' = active + 1
    BY DEF Submit
  <2>3. CASE e \in broken
    <3>1. /\ gen' = [gen EXCEPT ![r] = 1] /\ host' = [host EXCEPT ![r] = 0] /\ job' = job
      BY <2>3 DEF Submit, Forgets
    <3> QED
      BY <3>1, <2>1, <2>2, <2>3, GenerationsNat
  <2>4. CASE e \notin broken
    <3>1. /\ gen' = [gen EXCEPT ![r] = g] /\ host' = [host EXCEPT ![r] = e]
          /\ job' = [job EXCEPT ![r] = "working"]
      BY <2>4 DEF Submit
    <3> QED
      BY <3>1, <2>1, <2>2, <2>4
  <2> QED
    BY <2>3, <2>4
<1>2. KnowsBuilt'
  <2>1. \A s \in Requests \ {r} : host'[s] = host[s]
    BY DEF Submit, Forgets, TypeOK
  <2>2. gen'[r] = g \/ gen'[r] = 1
    BY DEF Submit, Forgets, TypeOK
  <2>3. job'[r] # "none" => gen'[r] = g /\ host'[r] = e
    BY <1>1 DEF Submit, Forgets, TypeOK
  <2>4. ASSUME NEW s \in Requests \ {r} PROVE gen[s] <= built' \/ gen[s] = 1
    <3>1. gen[s] \in Nat /\ built \in Nat
      BY Numbers
    <3> QED
      BY <3>1 DEF KnowsBuilt
  <2> QED
    BY <1>1, <2>1, <2>2, <2>3, <2>4 DEF KnowsBuilt
<1>3. \A h \in Generations \ {g} : Holders(h)' = Holders(h)
  <2>1. job'[r] # "none" => gen'[r] = g
    BY DEF Submit, Forgets, TypeOK
  <2> QED
    BY <1>1, <2>1 DEF Holders
<1>4. e \in broken => Holders(g)' = Holders(g)
  BY <1>1 DEF Holders
<1>5. ASSUME e \notin broken
      PROVE  /\ Cardinality(Holders(g)') = Cardinality(Holders(g)) + 1
             /\ Cardinality(Held') = Cardinality(Held) + 1
  <2>1. gen'[r] = g
    BY <1>5 DEF Submit, TypeOK
  <2>2. Holders(g)' = Holders(g) \cup {r} /\ r \notin Holders(g)
    BY <1>1, <1>5, <2>1 DEF Holders
  <2>3. Held' = Held \cup {r} /\ r \notin Held
    BY <1>1, <1>5 DEF Held
  <2> QED
    BY <2>2, <2>3, OneMore, Holders(g) \subseteq Requests, Held \subseteq Requests DEF Holders, Held
<1> QED
  BY <1>1, <1>2, <1>3, <1>4, <1>5

\* run() up to its first await
LEMMA RunSafe ==
    ASSUME IInv, NEW r \in Requests, Run(r)
    PROVE  IInv'
<1> USE DEF IInv, SlotsExact
<1>1. PICK g \in Generations :
        /\ pc[r] = "idle" /\ job[r] = "none"
        /\ executor' = g /\ built' = g /\ built <= built' /\ built' \in Nat
        /\ broken' = broken /\ closing' = closing
        /\ \/ /\ gen' = [gen EXCEPT ![r] = g]
              /\ queue' = [queue EXCEPT ![g] = Append(@, r)]
              /\ pc' = [pc EXCEPT ![r] = "waiting"]
              /\ UNCHANGED <<value, job, host, active>>
           \/ /\ ~Locked(g)
              /\ value' = [value EXCEPT ![g] = @ - 1]
              /\ Submit(r, g, g)
              /\ pc' = [pc EXCEPT ![r] = AfterSubmit(g)]
              /\ UNCHANGED queue
  <2>1. executor \in {0, built} /\ built \in Nat
    BY Numbers DEF TypeOK
  <2>2. CASE executor = 0
    <3>1. built + 1 \in Nat /\ built <= built + 1
      BY <2>1
    <3> QED
      BY <2>2, <3>1 DEF Run
  <2>3. CASE executor # 0
    BY <2>1, <2>3 DEF Run
  <2> QED
    BY <2>2, <2>3
<1>2. broken \subseteq 1..built'
  <2>1. built \in Nat
    BY Numbers
  <2> QED
    BY <1>1, <2>1 DEF TypeOK
<1>3. CASE /\ gen' = [gen EXCEPT ![r] = g]
           /\ queue' = [queue EXCEPT ![g] = Append(@, r)]
           /\ pc' = [pc EXCEPT ![r] = "waiting"]
           /\ UNCHANGED <<value, job, host, active>>
  <2>1. /\ pc' \in [Requests -> {"idle", "waiting", "granted", "running", "left"}]
        /\ gen' \in [Requests -> Generations]
        /\ queue' \in [Generations -> Seq(Requests)]
    BY <1>1, <1>3 DEF TypeOK
  <2>2. ~In(r, queue[g])
    BY <1>1 DEF TypeOK, In
  <2>3. /\ queue'[g] = Append(queue[g], r) /\ queue[g] \in Seq(Requests)
        /\ \A h \in Generations \ {g} : queue'[h] = queue[h]
    BY <1>1, <1>3 DEF TypeOK
  <2>4. \A s : In(s, queue'[g]) <=> In(s, queue[g]) \/ s = r
    BY <2>3 DEF In
  <2>5. OnceIn(queue'[g])
    BY <2>2, <2>3 DEF OnceIn, In, QueuedOnce
  <2>6. QueuedOnce'
    BY <2>3, <2>5 DEF QueuedOnce
  <2>7. ASSUME NEW h \in Generations, NEW s \in Requests
        PROVE  In(s, queue'[h]) <=> pc'[s] = "waiting" /\ gen'[s] = h
    <3>1. In(s, queue[h]) <=> pc[s] = "waiting" /\ gen[s] = h
      BY DEF TypeOK, In
    <3>2. s = r => pc'[s] = "waiting" /\ gen'[s] = g
      BY <1>3 DEF TypeOK
    <3>3. s # r => pc'[s] = pc[s] /\ gen'[s] = gen[s]
      BY <1>3 DEF TypeOK
    <3>4. s = r => ~In(s, queue[h])
      BY <3>1, <1>1
    <3> QED
      BY <3>1, <3>2, <3>3, <3>4, <2>3, <2>4
  <2>8. TypeOK'
    <3>1. \A s \in Requests : pc'[s] \in {"running", "left"} <=> job'[s] # "none"
      BY <1>1, <1>3 DEF TypeOK
    <3> QED
      BY <1>1, <1>2, <1>3, <2>1, <2>7, <3>1 DEF TypeOK, In
  <2>9. \A h \in Generations : Granted(h)' = Granted(h) /\ Holders(h)' = Holders(h)
    <3>1. \A s \in Requests : s # r => pc'[s] = pc[s] /\ gen'[s] = gen[s]
      BY <1>3 DEF TypeOK
    <3> QED
      BY <1>1, <1>3, <3>1 DEF Granted, Holders, TypeOK
  <2>10. SlotsConserved'
    BY <2>9, <1>1, <1>3 DEF SlotsConserved, SlotAccount
  <2>11. ActiveExact'
    BY <1>1, <1>3 DEF ActiveExact
  <2>12. KnowsBuilt'
    <3>1. ASSUME NEW s \in Requests PROVE gen'[s] <= built' \/ gen'[s] = 1
      <4>1. gen[s] \in Nat /\ built \in Nat
        BY Numbers
      <4>2. CASE s = r
        BY <4>2, <1>1, <1>3, GenerationsNat DEF TypeOK
      <4>3. CASE s # r
        BY <4>1, <4>3, <1>1, <1>3 DEF TypeOK, KnowsBuilt
      <4> QED
        BY <4>2, <4>3
    <3>2. ASSUME NEW s \in Requests, job'[s] # "none", host'[s] = 1 PROVE gen'[s] = 1
      BY <3>2, <1>1, <1>3 DEF TypeOK, KnowsBuilt
    <3> QED
      BY <3>1, <3>2 DEF KnowsBuilt
  <2> QED
    BY <2>6, <2>8, <2>10, <2>11, <2>12
<1>4. CASE /\ ~Locked(g)
           /\ value' = [value EXCEPT ![g] = @ - 1]
           /\ Submit(r, g, g)
           /\ pc' = [pc EXCEPT ![r] = AfterSubmit(g)]
           /\ UNCHANGED queue
  <2>1. /\ gen' \in [Requests -> Generations] /\ \A s \in Requests \ {r} : gen'[s] = gen[s]
        /\ job' \in [Requests -> {"none", "working", "finished"}]
        /\ \A s \in Requests \ {r} : job'[s] = job[s]
        /\ job'[r] # "none" <=> g \notin broken
        /\ host' \in [Requests -> Generations \cup {0}]
        /\ active' = active + 1
        /\ KnowsBuilt'
        /\ \A h \in Generations \ {g} : Holders(h)' = Holders(h)
        /\ g \in broken => Holders(g)' = Holders(g)
        /\ g \notin broken => /\ Cardinality(Holders(g)') = Cardinality(Holders(g)) + 1
                              /\ Cardinality(Held') = Cardinality(Held) + 1
    <3>1. g <= built' /\ g \in Generations \cup {0}
      BY <1>1
    <3> HIDE DEF IInv
    <3> QED
      BY <3>1, <1>1, <1>4, SubmitCounts
  <2>2. value[g] \in Nat \ {0} /\ value' \in [Generations -> Nat] /\ value'[g] = value[g] - 1
    BY <1>1, <1>4 DEF Locked, TypeOK
  <2>3. /\ pc' \in [Requests -> {"idle", "waiting", "granted", "running", "left"}]
        /\ pc'[r] \in {"idle", "running"} /\ (pc'[r] = "running" <=> g \notin broken)
        /\ \A s \in Requests \ {r} : pc'[s] = pc[s]
    BY <1>4 DEF TypeOK, AfterSubmit
  <2>4. TypeOK'
    <3>1. ASSUME NEW h \in Generations, NEW s \in Requests
          PROVE  In(s, queue'[h]) <=> pc'[s] = "waiting" /\ gen'[s] = h
      <4>1. In(s, queue[h]) <=> pc[s] = "waiting" /\ gen[s] = h
        BY DEF TypeOK, In
      <4> QED
        BY <4>1, <1>1, <1>4, <2>1, <2>3
    <3>2. ASSUME NEW s \in Requests
          PROVE  pc'[s] \in {"running", "left"} <=> job'[s] # "none"
      <4>1. pc[s] \in {"running", "left"} <=> job[s] # "none"
        BY DEF TypeOK
      <4>2. CASE s = r
        BY <4>2, <2>1, <2>3
      <4>3. CASE s # r
        BY <4>1, <4>3, <2>1, <2>3
      <4> QED
        BY <4>2, <4>3
    <3> QED
      BY <1>1, <1>2, <1>4, <2>1, <2>2, <2>3, <3>1, <3>2 DEF TypeOK, In
  <2>5. \A h \in Generations : Granted(h)' = Granted(h)
    BY <1>1, <2>1, <2>3 DEF Granted
  <2>6. SlotsConserved'
    <3>1. ASSUME NEW h \in Generations
          PROVE  SlotAccount(h)' <= MaxWorkers /\ (broken = {} => SlotAccount(h)' = MaxWorkers)
      <4>1. SlotAccount(h) <= MaxWorkers /\ (broken = {} => SlotAccount(h) = MaxWorkers)
        BY DEF SlotsConserved
      <4>2. CASE h # g
        <5>1. value'[h] = value[h]
          BY <1>1, <1>4, <4>2 DEF TypeOK
        <5> QED
          BY <5>1, <4>1, <4>2, <2>1, <2>5 DEF SlotAccount
      <4>3. CASE h = g
        <5>1. Cardinality(Granted(g)) \in Nat /\ Cardinality(Holders(g)) \in Nat /\ value[g] \in Nat
          BY <1>1, CountsFinite DEF TypeOK
        <5>2. MaxWorkers \in Nat
          BY WorkloadAssumption DEF WorkloadAssumption
        <5>3. /\ SlotAccount(g) = value[g] + Cardinality(Granted(g)) + Cardinality(Holders(g))
              /\ SlotAccount(g)' = value'[g] + Cardinality(Granted(g)) + Cardinality(Holders(g)')
          BY <2>5, <1>1 DEF SlotAccount
        <5>4. CASE g \in broken
          BY <5>1, <5>2, <5>3, <5>4, <4>1, <4>3, <2>1, <2>2
        <5>5. CASE g \notin broken
          BY <5>1, <5>2, <5>3, <5>5, <4>1, <4>3, <2>1, <2>2
        <5> QED
          BY <5>4, <5>5
      <4> QED
        BY <4>2, <4>3
    <3> QED
      BY <3>1, <1>1 DEF SlotsConserved
  <2>7. ActiveExact'
    <3>1. broken = {} /\ closing # "done" => active = Cardinality(Held)
      BY DEF ActiveExact, Held
    <3>2. broken' = {} /\ closing' # "done" => active' = Cardinality(Held')
      BY <3>1, <1>1, <2>1
    <3> QED
      BY <3>2 DEF ActiveExact, Held
  <2>8. QueuedOnce'
    BY <1>4 DEF QueuedOnce
  <2> QED
    BY <2>1, <2>4, <2>6, <2>7, <2>8
<1> QED
  BY <1>1, <1>3, <1>4

\* The queue of a generation lists its waiting calls, each once
LEMMA Waiters ==
    ASSUME TypeOK, QueuedOnce, NEW g \in Generations
    PROVE  /\ queue[g] \in Seq(Requests) /\ OnceIn(queue[g])
           /\ \A s : In(s, queue[g]) <=> s \in Requests /\ pc[s] = "waiting" /\ gen[s] = g
<1>1. queue[g] \in Seq(Requests) /\ OnceIn(queue[g])
  BY DEF TypeOK, QueuedOnce
<1>2. \A s : In(s, queue[g]) => s \in Requests
  BY <1>1 DEF In
<1>3. \A s \in Requests : In(s, queue[g]) <=> pc[s] = "waiting" /\ gen[s] = g
  BY DEF TypeOK, In
<1> QED
  BY <1>1, <1>2, <1>3

\* A slot granted becomes a slot held
LEMMA OneForOne == \A v, a, c \in Nat : v + a - 1 + (c + 1) = v + a + c
  OBVIOUS

\* A waiter that was woken runs, and hands its work to the executor that is there now
LEMMA ResumeSafe ==
    ASSUME IInv, NEW r \in Requests, Resume(r)
    PROVE  IInv'
<1>1. TypeOK /\ SlotsConserved /\ ActiveExact /\ QueuedOnce /\ KnowsBuilt
  BY DEF IInv, SlotsExact
<1> PICK g \in Generations : gen[r] = g
  BY <1>1 DEF TypeOK
<1> PICK v \in Nat : v = value[g]
  BY <1>1 DEF TypeOK
<1> PICK q \in Seq(Requests) : q = queue[g]
  BY <1>1 DEF TypeOK
<1> PICK e \in Generations \cup {0} : e = executor
  BY <1>1 DEF TypeOK
<1> PICK p \in {"idle", "running"} : p = AfterSubmit(e)
  BY DEF AfterSubmit
<1>2. /\ pc[r] = "granted" /\ job[r] = "none" /\ v \in Nat
      /\ built' = built /\ executor' = executor /\ broken' = broken /\ closing' = closing
      /\ built \in Nat /\ e \in Generations \cup {0} /\ broken' \subseteq 1..built'
  <2>1. /\ pc[r] = "granted"
        /\ built' = built /\ executor' = executor /\ broken' = broken /\ closing' = closing
    BY DEF Resume
  <2>2. job[r] = "none"
    BY <1>1, <2>1 DEF TypeOK
  <2>3. v \in Nat /\ broken \subseteq 1..built
    BY <1>1 DEF TypeOK
  <2>4. e \in Generations \cup {0}
    BY <1>1 DEF TypeOK
  <2> QED
    BY <2>1, <2>2, <2>3, <2>4, <1>1, Numbers
<1>3. /\ Submit(r, e, g)
      /\ value' = [value EXCEPT ![g] = SlotsAfter(v, q)]
      /\ queue' = [queue EXCEPT ![g] = QueueAfter(v, q)]
      /\ pc' = WokenPc(v, q, r, p)
  BY DEF Resume, WakesOthers, ShareOut, WokenPc
<1>4. /\ q \in Seq(Requests) /\ OnceIn(q)
      /\ \A s : In(s, q) <=> s \in Requests \ {r} /\ pc[s] = "waiting" /\ gen[s] = g
  BY <1>1, <1>2, Waiters
<1>5. p \in {"idle", "running"} /\ (p = "running" <=> e \notin broken)
  BY DEF AfterSubmit
<1>6. /\ gen' \in [Requests -> Generations] /\ \A s \in Requests \ {r} : gen'[s] = gen[s]
      /\ job' \in [Requests -> {"none", "working", "finished"}]
      /\ \A s \in Requests \ {r} : job'[s] = job[s]
      /\ job'[r] # "none" <=> e \notin broken
      /\ host' \in [Requests -> Generations \cup {0}]
      /\ active' = active + 1
      /\ KnowsBuilt'
      /\ \A h \in Generations \ {g} : Holders(h)' = Holders(h)
      /\ e \in broken => Holders(g)' = Holders(g)
      /\ e \notin broken => /\ Cardinality(Holders(g)') = Cardinality(Holders(g)) + 1
                            /\ Cardinality(Held') = Cardinality(Held) + 1
  <2>1. g <= built' \/ g = 1
    BY <1>1, <1>2 DEF KnowsBuilt
  <2>2. e = 1 => g = 1
    <3>1. e \in {0, built} /\ g \in Nat \ {0}
      BY <1>1, Numbers DEF TypeOK
    <3> QED
      BY <2>1, <3>1, <1>2
  <2>3. built <= built' /\ built' \in Nat
    BY <1>2
  <2>4. Submit(r, e, g) /\ e \in Generations \cup {0} /\ job[r] = "none"
    BY <1>2, <1>3
  <2> QED
    BY <2>1, <2>2, <2>3, <2>4, SubmitCounts
<1>7. Shared(g, v, q, r, p)
  <2>1. Sharing(g, v, q, r, p)
    BY <1>3, <1>4, <1>6 DEF Sharing
  <2> QED
    BY <2>1, <1>1, SharedOut
<1>8. SlotsAfter(v, q) \in Nat
  BY <1>2, <1>4, WokenCount
<1>9. TypeOK'
  <2>1. \A s \in Requests : pc'[s] \in {"running", "left"} <=> job'[s] # "none"
    BY <1>1, <1>5, <1>6, <1>7 DEF TypeOK, Shared
  <2>2. value' \in [Generations -> Nat]
    BY <1>1, <1>3, <1>8 DEF TypeOK
  <2>3. active' \in Nat
    BY <1>1, <1>6 DEF TypeOK
  <2> QED
    BY <1>1, <1>2, <1>6, <1>7, <2>1, <2>2, <2>3 DEF TypeOK, Shared, In
<1>10. SlotsConserved'
  <2>1. ASSUME NEW h \in Generations
        PROVE  SlotAccount(h)' <= MaxWorkers /\ (broken = {} => SlotAccount(h)' = MaxWorkers)
    <3>1. SlotAccount(h) <= MaxWorkers /\ (broken = {} => SlotAccount(h) = MaxWorkers)
      BY <1>1 DEF SlotsConserved
    <3>2. CASE h # g
      <4>1. value'[h] = value[h]
        BY <1>1, <1>3, <3>2 DEF TypeOK
      <4> QED
        BY <3>1, <3>2, <4>1, <1>6, <1>7 DEF SlotAccount, Shared
    <3>3. CASE h = g
      <4>1. /\ Cardinality(Granted(g)) \in Nat /\ Cardinality(Holders(g)) \in Nat
            /\ MaxWorkers \in Nat
        BY <1>1, <1>2, CountsFinite, WorkloadAssumption DEF WorkloadAssumption
      <4>2. Cardinality(Granted(g) \ {r}) = Cardinality(Granted(g)) - 1
        <5>1. Granted(g) \subseteq Requests /\ r \in Granted(g)
          BY <1>2 DEF Granted
        <5> QED
          BY <5>1, OneLess
      <4>3. value'[g] = SlotsAfter(v, q)
        BY <1>1, <1>2, <1>3 DEF TypeOK
      <4>4. SlotAccount(g) = v + Cardinality(Granted(g)) + Cardinality(Holders(g))
        BY DEF SlotAccount
      <4>5. SlotAccount(h)' = SlotsAfter(v, q) + Cardinality(Granted(g)') + Cardinality(Holders(g)')
        BY <3>3, <4>3 DEF SlotAccount
      <4>6. Cardinality(Granted(g)') \in Nat
        <5>1. Granted(g)' \subseteq Requests
          BY DEF Granted
        <5> QED
          BY <5>1, FiniteCalls
      <4>7. SlotAccount(h)' = v + Cardinality(Granted(g)) - 1 + Cardinality(Holders(g)')
        BY <4>1, <4>2, <4>5, <4>6, <1>7, <1>8 DEF Shared
      <4>8. SlotAccount(g) <= MaxWorkers /\ (broken = {} => SlotAccount(g) = MaxWorkers)
        BY <3>1, <3>3
      <4>9. CASE e \in broken
        <5>1. Holders(g)' = Holders(g) /\ broken # {}
          BY <4>9, <1>6
        <5> QED
          BY <5>1, <4>1, <4>4, <4>7, <4>8
      <4>10. CASE e \notin broken
        <5>1. Cardinality(Holders(g)') = Cardinality(Holders(g)) + 1
          BY <4>10, <1>6
        <5> DEFINE a == Cardinality(Granted(g))
                   c == Cardinality(Holders(g))
        <5>2. a \in Nat /\ c \in Nat /\ SlotAccount(h)' = v + a - 1 + (c + 1) /\ SlotAccount(g) = v + a + c
          BY <5>1, <4>1, <4>4, <4>7
        <5> HIDE DEF a, c
        <5>3. SlotAccount(h)' = SlotAccount(g)
          BY <5>2, OneForOne
        <5> QED
          BY <5>3, <4>8
      <4> QED
        BY <4>9, <4>10
    <3> QED
      BY <3>2, <3>3
  <2> QED
    BY <2>1, <1>2 DEF SlotsConserved
<1>11. ActiveExact'
  <2>1. broken = {} /\ closing # "done" => active = Cardinality(Held)
    BY <1>1 DEF ActiveExact, Held
  <2>2. broken' = {} /\ closing' # "done" => active' = Cardinality(Held')
    BY <2>1, <1>2, <1>6
  <2> QED
    BY <2>2 DEF ActiveExact, Held
<1> QED
  BY <1>6, <1>7, <1>9, <1>10, <1>11 DEF IInv, SlotsExact, Shared

\* What a call forgets when it ends
LEMMA ForgetsTypes ==
    ASSUME TypeOK, NEW r \in Requests, Forgets(r)
    PROVE  /\ gen' \in [Requests -> Generations] /\ gen'[r] = 1
           /\ host' \in [Requests -> Generations \cup {0}] /\ host'[r] = 0
           /\ \A s \in Requests \ {r} : gen'[s] = gen[s] /\ host'[s] = host[s]
<1>1. gen \in [Requests -> Generations] /\ host \in [Requests -> Generations \cup {0}]
  BY DEF TypeOK
<1> QED
  BY <1>1, GenerationsNat DEF Forgets

\* Work that has finished gives its slot back
LEMMA ReleaseSafe ==
    ASSUME IInv, NEW r \in Requests, job[r] = "finished", ReleaseSlot(r),
           UNCHANGED <<executor, built, broken, closing>>
    PROVE  IInv'
<1>1. TypeOK /\ SlotsConserved /\ ActiveExact /\ QueuedOnce /\ KnowsBuilt
  BY DEF IInv, SlotsExact
<1> PICK g \in Generations : gen[r] = g
  BY <1>1 DEF TypeOK
<1> PICK q \in Seq(Requests) : q = queue[g]
  BY <1>1 DEF TypeOK
<1> PICK v \in {0, 1} : v = IF q = <<>> THEN 0 ELSE 1
  OBVIOUS
<1>2. /\ OnceIn(q)
      /\ \A s : In(s, q) <=> s \in Requests \ {r} /\ pc[s] = "waiting" /\ gen[s] = g
  <2>1. pc[r] \in {"running", "left"}
    BY <1>1 DEF TypeOK
  <2> QED
    BY <2>1, <1>1, Waiters
<1>3. /\ value' = [value EXCEPT ![g] = value[g] + 1 - v]
      /\ queue' = [queue EXCEPT ![g] = QueueAfter(v, q)]
      /\ pc' = WokenPc(v, q, r, "idle")
      /\ job' = [job EXCEPT ![r] = "none"]
      /\ Forgets(r)
      /\ active' = IF active = 0 THEN 0 ELSE active - 1
  BY DEF ReleaseSlot, WokenPc
<1>4. /\ gen' \in [Requests -> Generations] /\ gen'[r] = 1
      /\ host' \in [Requests -> Generations \cup {0}] /\ host'[r] = 0
      /\ \A s \in Requests \ {r} : gen'[s] = gen[s] /\ host'[s] = host[s]
  BY <1>1, <1>3, ForgetsTypes
<1>5. Shared(g, v, q, r, "idle")
  <2>1. Sharing(g, v, q, r, "idle")
    BY <1>2, <1>3, <1>4 DEF Sharing
  <2> QED
    BY <2>1, <1>1, SharedOut
<1>6. SlotsAfter(v, q) = 0
  <2>1. Len(q) \in Nat /\ (q # <<>> => Len(q) # 0)
    OBVIOUS
  <2> QED
    BY <2>1 DEF SlotsAfter
<1>7. /\ job' \in [Requests -> {"none", "working", "finished"}] /\ job'[r] = "none"
      /\ \A s \in Requests \ {r} : job'[s] = job[s]
  BY <1>1, <1>3 DEF TypeOK
<1>8. TypeOK'
  <2>1. ASSUME NEW s \in Requests
        PROVE  pc'[s] \in {"running", "left"} <=> job'[s] # "none"
    <3>1. CASE s = r
      <4>1. pc'[r] = "idle"
        BY <1>5 DEF Shared
      <4> QED
        BY <3>1, <4>1, <1>7
    <3>2. CASE s # r
      <4>1. pc'[s] \in {"running", "left"} <=> pc[s] \in {"running", "left"}
        BY <3>2, <1>5 DEF Shared
      <4>2. pc[s] \in {"running", "left"} <=> job[s] # "none"
        BY <1>1 DEF TypeOK
      <4> QED
        BY <3>2, <4>1, <4>2, <1>7
    <3> QED
      BY <3>1, <3>2
  <2>2. value[g] \in Nat /\ value[g] + 1 - v \in Nat
    BY <1>1 DEF TypeOK
  <2>3. value' \in [Generations -> Nat]
    BY <1>1, <1>3, <2>2 DEF TypeOK
  <2>4. active' \in Nat
    BY <1>1, <1>3 DEF TypeOK
  <2>5. /\ pc' \in [Requests -> {"idle", "waiting", "granted", "running", "left"}]
        /\ queue' \in [Generations -> Seq(Requests)]
        /\ \A h \in Generations, s \in Requests : In(s, queue'[h]) <=> pc'[s] = "waiting" /\ gen'[s] = h
    BY <1>5 DEF Shared
  <2> QED
    BY <1>1, <1>4, <1>7, <2>1, <2>3, <2>4, <2>5 DEF TypeOK, In
<1>9. SlotsConserved'
  <2>1. ASSUME NEW h \in Generations PROVE SlotAccount(h)' = SlotAccount(h)
    <3>1. CASE h # g
      <4>1. value'[h] = value[h]
        BY <1>1, <1>3, <3>1 DEF TypeOK
      <4>2. Holders(h)' = Holders(h)
        <5>1. \A s \in Requests : job'[s] # "none" /\ gen'[s] = h <=> job[s] # "none" /\ gen[s] = h
          BY <1>4, <1>7, <3>1
        <5> QED
          BY <5>1 DEF Holders
      <4> QED
        BY <3>1, <4>1, <4>2, <1>5 DEF SlotAccount, Shared
    <3>2. CASE h = g
      <4>1. /\ Cardinality(Granted(g)) \in Nat /\ Cardinality(Holders(g)) \in Nat
            /\ value[g] \in Nat
        BY <1>1, CountsFinite DEF TypeOK
      <4>2. Granted(g) \ {r} = Granted(g)
        BY <1>1 DEF Granted, TypeOK
      <4>3. Cardinality(Holders(g)') = Cardinality(Holders(g)) - 1
        <5>1. Holders(g)' = Holders(g) \ {r}
          BY <1>4, <1>7 DEF Holders
        <5>2. r \in Holders(g) /\ Holders(g) \subseteq Requests
          BY DEF Holders
        <5> QED
          BY <5>1, <5>2, OneLess
      <4>4. Cardinality(Granted(g)') \in Nat
        BY FiniteCalls, Granted(g)' \subseteq Requests DEF Granted
      <4>5. Cardinality(Granted(g)') = v + Cardinality(Granted(g))
        <5>1. Cardinality(Granted(g)') + SlotsAfter(v, q) = v + Cardinality(Granted(g) \ {r})
          BY <1>5 DEF Shared
        <5>2. v \in Nat
          OBVIOUS
        <5>3. Cardinality(Granted(g) \ {r}) = Cardinality(Granted(g))
          BY <4>2
        <5> QED
          BY <5>1, <5>2, <5>3, <1>6, <4>1, <4>4
      <4>6. value'[g] = value[g] + 1 - v
        BY <1>1, <1>3 DEF TypeOK
      <4>7. /\ SlotAccount(g) = value[g] + Cardinality(Granted(g)) + Cardinality(Holders(g))
            /\ SlotAccount(g)' = value'[g] + Cardinality(Granted(g)') + Cardinality(Holders(g)')
        BY DEF SlotAccount
      <4> QED
        BY <3>2, <4>1, <4>3, <4>5, <4>6, <4>7
    <3> QED
      BY <3>1, <3>2
  <2> QED
    BY <2>1, <1>1 DEF SlotsConserved
<1>10. ActiveExact'
  <2>1. ASSUME broken = {}, closing # "done" PROVE active' = Cardinality(Held')
    <3>1. active = Cardinality(Held) /\ Cardinality(Held) \in Nat
      BY <2>1, <1>1, CountsFinite DEF ActiveExact, Held
    <3>2. Held' = Held \ {r} /\ r \in Held /\ Held \subseteq Requests
      BY <1>7 DEF Held
    <3>3. Cardinality(Held') = Cardinality(Held) - 1 /\ Cardinality(Held') \in Nat
      BY <3>2, OneLess, FiniteCalls
    <3> QED
      BY <3>1, <3>3, <1>3
  <2> QED
    BY <2>1 DEF ActiveExact, Held
<1>11. KnowsBuilt'
  BY <1>1, <1>4, <1>7 DEF KnowsBuilt
<1> QED
  BY <1>1, <1>5, <1>8, <1>9, <1>10, <1>11 DEF IInv, SlotsExact, Shared

\* Taking the i-th waiter out of a queue
LEMMA Removed ==
    ASSUME NEW q \in Seq(Requests), OnceIn(q), NEW i \in DOMAIN q
    PROVE  LET t == SubSeq(q, 1, i - 1) \o SubSeq(q, i + 1, Len(q))
           IN  t \in Seq(Requests) /\ OnceIn(t) /\ \A s : In(s, t) <=> In(s, q) /\ s # q[i]
<1> DEFINE t == SubSeq(q, 1, i - 1) \o SubSeq(q, i + 1, Len(q))
<1>1. i \in 1..Len(q) /\ Len(q) \in Nat /\ DOMAIN q = 1..Len(q)
  OBVIOUS
<1>2. /\ SubSeq(q, 1, i - 1) \in Seq(Requests) /\ Len(SubSeq(q, 1, i - 1)) = i - 1
      /\ \A j \in 1..(i - 1) : SubSeq(q, 1, i - 1)[j] = q[j]
  BY <1>1
<1>3. /\ SubSeq(q, i + 1, Len(q)) \in Seq(Requests) /\ Len(SubSeq(q, i + 1, Len(q))) = Len(q) - i
      /\ \A j \in 1..(Len(q) - i) : SubSeq(q, i + 1, Len(q))[j] = q[i + j]
  BY <1>1
<1>4. /\ t \in Seq(Requests) /\ DOMAIN t = 1..(Len(q) - 1)
      /\ \A j \in 1..(Len(q) - 1) : t[j] = IF j < i THEN q[j] ELSE q[j + 1]
  <2>1. t \in Seq(Requests) /\ Len(t) = i - 1 + (Len(q) - i)
    BY <1>1, <1>2, <1>3
  <2>2. DOMAIN t = 1..(Len(q) - 1)
    BY <2>1, <1>1
  <2>3. ASSUME NEW j \in 1..(Len(q) - 1), j < i PROVE t[j] = q[j]
    BY <2>3, <1>1, <1>2, <1>3
  <2>4. ASSUME NEW j \in 1..(Len(q) - 1), ~(j < i) PROVE t[j] = q[j + 1]
    <3> DEFINE a == SubSeq(q, 1, i - 1)
               b == SubSeq(q, i + 1, Len(q))
    <3>1. /\ a \in Seq(Requests) /\ Len(a) = i - 1
          /\ b \in Seq(Requests) /\ Len(b) = Len(q) - i
          /\ \A k \in 1..(Len(q) - i) : b[k] = q[i + k]
          /\ t = a \o b
      BY <1>2, <1>3
    <3> HIDE DEF a, b, t
    <3>2. \A k \in 1..(Len(a) + Len(b)) : (a \o b)[k] = IF k <= Len(a) THEN a[k] ELSE b[k - Len(a)]
      BY <3>1, ConcatProperties
    <3>3. j - (i - 1) \in 1..(Len(q) - i) /\ i + (j - (i - 1)) = j + 1
      BY <2>4, <1>1
    <3>4. j \in 1..(Len(a) + Len(b)) /\ ~(j <= Len(a)) /\ j - Len(a) = j - (i - 1)
      BY <2>4, <3>1, <1>1
    <3>5. t[j] = b[j - (i - 1)]
      BY <3>1, <3>2, <3>4
    <3> QED
      BY <3>1, <3>3, <3>5
  <2> QED
    BY <2>1, <2>2, <2>3, <2>4
<1> HIDE DEF t
<1>5. OnceIn(t)
  <2> DEFINE place(j) == IF j < i THEN j ELSE j + 1
  <2>1. \A j \in DOMAIN t : place(j) \in DOMAIN q /\ t[j] = q[place(j)]
    BY <1>1, <1>4
  <2>2. \A j, k \in DOMAIN t : place(j) = place(k) => j = k
    BY <1>1, <1>4
  <2> HIDE DEF place
  <2> QED  BY <2>1, <2>2 DEF OnceIn
<1>6. ASSUME NEW s PROVE In(s, t) <=> In(s, q) /\ s # q[i]
  <2>1. ASSUME In(s, t) PROVE In(s, q) /\ s # q[i]
    <3>1. PICK j \in 1..(Len(q) - 1) : t[j] = s
      BY <2>1, <1>4 DEF In
    <3>2. PICK k \in 1..Len(q) : k # i /\ q[k] = s
      BY <3>1, <1>1, <1>4
    <3> QED
      BY <3>2, <1>1 DEF In, OnceIn
  <2>2. ASSUME In(s, q), s # q[i] PROVE In(s, t)
    <3>1. PICK k \in 1..Len(q) : q[k] = s /\ k # i
      BY <2>2, <1>1 DEF In
    <3>2. PICK j \in 1..(Len(q) - 1) : t[j] = s
      <4>1. CASE k < i
        BY <4>1, <3>1, <1>1, <1>4
      <4>2. CASE k > i
        <5>1. k - 1 \in 1..(Len(q) - 1) /\ ~(k - 1 < i) /\ k - 1 + 1 = k
          BY <4>2, <3>1, <1>1
        <5>2. t[k - 1] = q[k]
          BY <5>1, <1>4
        <5> QED
          BY <5>1, <5>2, <3>1
      <4> QED
        BY <4>1, <4>2, <3>1, <1>1
    <3> QED
      BY <3>2, <1>4 DEF In
  <2> QED
    BY <2>1, <2>2
<1> QED
  BY <1>4, <1>5, <1>6 DEF t

\* A call that waits, or was just woken, gives up
LEMMA WithdrawSafe ==
    ASSUME IInv, NEW r \in Requests, Withdraw(r)
    PROVE  IInv'
<1>1. TypeOK /\ SlotsConserved /\ ActiveExact /\ QueuedOnce /\ KnowsBuilt
  BY DEF IInv, SlotsExact
<1> PICK g \in Generations : gen[r] = g
  BY <1>1 DEF TypeOK
<1> PICK free \in Nat : free = value[g]
  BY <1>1 DEF TypeOK
<1>2. PICK v \in Nat, q \in Seq(Requests) :
        /\ ShareOut(g, v, q, r, "idle")
        /\ OnceIn(q) /\ \A s : In(s, q) <=> s \in Requests \ {r} /\ pc[s] = "waiting" /\ gen[s] = g
        /\ \/ pc[r] = "waiting" /\ v = free
           \/ pc[r] = "granted" /\ v = free + 1
  <2>1. /\ queue[g] \in Seq(Requests) /\ OnceIn(queue[g])
        /\ \A s : In(s, queue[g]) <=> s \in Requests /\ pc[s] = "waiting" /\ gen[s] = g
    BY <1>1, Waiters
  <2>2. CASE /\ pc[r] = "waiting"
             /\ \E i \in DOMAIN queue[g] :
                   /\ queue[g][i] = r
                   /\ ShareOut(g, free, SubSeq(queue[g], 1, i - 1)
                                   \o SubSeq(queue[g], i + 1, Len(queue[g])), r, "idle")
    <3>1. PICK i \in DOMAIN queue[g] :
                   /\ queue[g][i] = r
                   /\ ShareOut(g, free, SubSeq(queue[g], 1, i - 1)
                                   \o SubSeq(queue[g], i + 1, Len(queue[g])), r, "idle")
      BY <2>2
    <3> DEFINE q == SubSeq(queue[g], 1, i - 1) \o SubSeq(queue[g], i + 1, Len(queue[g]))
    <3>2. q \in Seq(Requests) /\ OnceIn(q) /\ \A s : In(s, q) <=> In(s, queue[g]) /\ s # r
      BY <2>1, <3>1, Removed
    <3> HIDE DEF q
    <3>3. ShareOut(g, free, q, r, "idle")
      BY <3>1 DEF q
    <3>4. \A s : In(s, q) <=> s \in Requests \ {r} /\ pc[s] = "waiting" /\ gen[s] = g
      BY <2>1, <3>2
    <3> QED
      BY <2>2, <3>2, <3>3, <3>4
  <2>3. CASE pc[r] = "granted" /\ ShareOut(g, free + 1, queue[g], r, "idle")
    <3>1. \A s : In(s, queue[g]) <=> s \in Requests \ {r} /\ pc[s] = "waiting" /\ gen[s] = g
      BY <2>1, <2>3
    <3> QED
      BY <2>1, <2>3, <3>1
  <2> QED
    BY <2>2, <2>3 DEF Withdraw
<1>3. /\ value' = [value EXCEPT ![g] = SlotsAfter(v, q)]
      /\ queue' = [queue EXCEPT ![g] = QueueAfter(v, q)]
      /\ pc' = WokenPc(v, q, r, "idle")
      /\ Forgets(r)
      /\ UNCHANGED <<job, executor, built, broken, closing, active>>
  BY <1>2 DEF Withdraw, ShareOut, WokenPc
<1>4. /\ gen' \in [Requests -> Generations] /\ gen'[r] = 1
      /\ host' \in [Requests -> Generations \cup {0}] /\ host'[r] = 0
      /\ \A s \in Requests \ {r} : gen'[s] = gen[s] /\ host'[s] = host[s]
  BY <1>1, <1>3, ForgetsTypes
<1>5. Shared(g, v, q, r, "idle")
  <2>1. Sharing(g, v, q, r, "idle")
    BY <1>2, <1>3, <1>4 DEF Sharing
  <2> QED
    BY <2>1, <1>1, SharedOut
<1>6. job[r] = "none"
  BY <1>1, <1>2 DEF TypeOK
<1>7. SlotsAfter(v, q) \in Nat
  BY <1>2, WokenCount
<1>8. TypeOK'
  <2>1. \A s \in Requests : pc'[s] \in {"running", "left"} <=> job'[s] # "none"
    BY <1>1, <1>3, <1>5, <1>6 DEF TypeOK, Shared
  <2>2. value' \in [Generations -> Nat]
    BY <1>1, <1>3, <1>7 DEF TypeOK
  <2> QED
    BY <1>1, <1>3, <1>4, <1>5, <2>1, <2>2 DEF TypeOK, Shared, In
<1>9. SlotsConserved'
  <2>1. ASSUME NEW h \in Generations PROVE SlotAccount(h)' = SlotAccount(h)
    <3>1. Holders(h)' = Holders(h)
      BY <1>3, <1>4, <1>6 DEF Holders
    <3>2. CASE h # g
      <4>1. value'[h] = value[h]
        BY <1>1, <1>3, <3>2 DEF TypeOK
      <4> QED
        BY <3>1, <3>2, <4>1, <1>5 DEF SlotAccount, Shared
    <3>3. CASE h = g
      <4>1. /\ Cardinality(Granted(g)) \in Nat /\ Cardinality(Holders(g)) \in Nat
            /\ Granted(g) \subseteq Requests
        BY <1>1, CountsFinite DEF Granted
      <4>2. Cardinality(Granted(g)') \in Nat
        BY FiniteCalls, Granted(g)' \subseteq Requests DEF Granted
      <4>3. Cardinality(Granted(g)') + SlotsAfter(v, q) = v + Cardinality(Granted(g) \ {r})
        BY <1>5 DEF Shared
      <4>4. v + Cardinality(Granted(g) \ {r}) = free + Cardinality(Granted(g))
        <5>1. CASE pc[r] = "waiting" /\ v = free
          BY <5>1, Granted(g) \ {r} = Granted(g) DEF Granted
        <5>2. CASE pc[r] = "granted" /\ v = free + 1
          <6>1. r \in Granted(g)
            BY <5>2 DEF Granted
          <6>2. Cardinality(Granted(g) \ {r}) = Cardinality(Granted(g)) - 1
            BY <6>1, <4>1, OneLess
          <6> QED
            BY <5>2, <6>2, <4>1
        <5> QED
          BY <5>1, <5>2, <1>2
      <4>5. value'[g] = SlotsAfter(v, q)
        BY <1>1, <1>3 DEF TypeOK
      <4>6. /\ SlotAccount(g) = free + Cardinality(Granted(g)) + Cardinality(Holders(g))
            /\ SlotAccount(g)' = value'[g] + Cardinality(Granted(g)') + Cardinality(Holders(g)')
        BY DEF SlotAccount
      <4> QED
        BY <3>1, <3>3, <4>1, <4>2, <4>3, <4>4, <4>5, <4>6, <1>7
    <3> QED
      BY <3>2, <3>3
  <2> QED
    BY <2>1, <1>1, <1>3 DEF SlotsConserved
<1>10. ActiveExact'
  BY <1>1, <1>3 DEF ActiveExact
<1>11. KnowsBuilt'
  BY <1>1, <1>3, <1>4 DEF KnowsBuilt
<1> QED
  BY <1>1, <1>5, <1>8, <1>9, <1>10, <1>11 DEF IInv, SlotsExact, Shared

\* A call whose time is up, or that is cancelled, leaves its work behind; work that has
\* finished keeps its slot until its callback runs
LEMMA LeavesSafe ==
    ASSUME IInv, NEW r \in Requests, pc[r] = "running", LeavesWork(r),
           UNCHANGED <<executor, built, broken, closing>>
    PROVE  IInv'
<1>1. TypeOK /\ SlotsConserved /\ ActiveExact /\ QueuedOnce /\ KnowsBuilt
  BY DEF IInv, SlotsExact
<1>2. /\ pc' = [pc EXCEPT ![r] = "left"]
      /\ UNCHANGED <<gen, job, host, value, queue, active, executor, built, broken, closing>>
  BY DEF LeavesWork, semaphore
<1>3. TypeOK'
  <2>1. pc' \in [Requests -> {"idle", "waiting", "granted", "running", "left"}]
    BY <1>1, <1>2 DEF TypeOK
  <2>2. \A s \in Requests : /\ pc'[s] \in {"running", "left"} <=> pc[s] \in {"running", "left"}
                            /\ pc'[s] = "waiting" <=> pc[s] = "waiting"
    BY <1>1, <1>2 DEF TypeOK
  <2> QED
    BY <1>1, <1>2, <2>1, <2>2 DEF TypeOK
<1>4. \A g \in Generations : Granted(g)' = Granted(g) /\ Holders(g)' = Holders(g)
  <2>1. \A s \in Requests : pc'[s] = "granted" <=> pc[s] = "granted"
    BY <1>1, <1>2 DEF TypeOK
  <2> QED
    BY <2>1, <1>2 DEF Granted, Holders
<1>5. SlotsConserved'
  BY <1>1, <1>2, <1>4 DEF SlotsConserved, SlotAccount
<1> QED
  BY <1>1, <1>2, <1>3, <1>5 DEF IInv, SlotsExact, ActiveExact, QueuedOnce, KnowsBuilt

\* Work that ends keeps its slot
LEMMA WorkEndsSafe ==
    ASSUME IInv, NEW W, W \subseteq {r \in Requests : job[r] = "working"},
           job' = [r \in Requests |-> IF r \in W THEN "finished" ELSE job[r]],
           broken \subseteq broken', broken' \subseteq 1..built,
           UNCHANGED <<pc, gen, host, semaphore, executor, built, closing, active>>
    PROVE  IInv'
<1>1. TypeOK /\ SlotsConserved /\ ActiveExact /\ QueuedOnce /\ KnowsBuilt
  BY DEF IInv, SlotsExact
<1>2. UNCHANGED <<pc, gen, host, value, queue, executor, built, closing, active>>
  BY DEF semaphore
<1>3. /\ job' \in [Requests -> {"none", "working", "finished"}]
      /\ \A s \in Requests : job'[s] # "none" <=> job[s] # "none"
  BY <1>1 DEF TypeOK
<1>4. TypeOK'
  BY <1>1, <1>2, <1>3 DEF TypeOK
<1>5. \A g \in Generations : Granted(g)' = Granted(g) /\ Holders(g)' = Holders(g)
  BY <1>2, <1>3 DEF Granted, Holders
<1>6. SlotsConserved'
  BY <1>1, <1>2, <1>5 DEF SlotsConserved, SlotAccount
<1>7. ActiveExact'
  <2>1. Held' = Held
    BY <1>3 DEF Held
  <2> QED
    BY <1>1, <1>2, <2>1 DEF ActiveExact, Held
<1>8. QueuedOnce' /\ KnowsBuilt'
  BY <1>1, <1>2, <1>3 DEF QueuedOnce, KnowsBuilt
<1> QED
  BY <1>4, <1>6, <1>7, <1>8 DEF IInv, SlotsExact

\* shutdown() touches neither slots nor work
LEMMA ClosingSafe ==
    ASSUME IInv, Shutdown \/ ShutdownReturns
    PROVE  IInv'
<1>1. TypeOK /\ SlotsConserved /\ ActiveExact /\ QueuedOnce /\ KnowsBuilt
  BY DEF IInv, SlotsExact
<1>2. /\ UNCHANGED <<pc, gen, job, host, value, queue, built, broken>>
      /\ executor' \in {0, executor} /\ closing' \in {"closing", "done"} /\ active' \in {active, 0}
      /\ closing' # "done" => closing # "done" /\ active' = active
  BY DEF Shutdown, ShutdownReturns, calls, semaphore
<1>3. TypeOK'
  <2>1. active' \in Nat /\ executor' \in {0, built}
    BY <1>1, <1>2 DEF TypeOK
  <2> QED
    BY <1>1, <1>2, <2>1 DEF TypeOK
<1>4. \A g \in Generations : Granted(g)' = Granted(g) /\ Holders(g)' = Holders(g)
  BY <1>2 DEF Granted, Holders
<1>5. SlotsConserved' /\ ActiveExact' /\ QueuedOnce' /\ KnowsBuilt'
  BY <1>1, <1>2, <1>4 DEF SlotsConserved, SlotAccount, ActiveExact, QueuedOnce, KnowsBuilt
<1> QED
  BY <1>3, <1>5 DEF IInv, SlotsExact

LEMMA InitSafe == Init => IInv
<1> SUFFICES ASSUME Init PROVE IInv
  OBVIOUS
<1> USE DEF Init
<1>1. TypeOK
  BY GenerationsNat, WorkloadAssumption DEF TypeOK, WorkloadAssumption
<1>2. SlotsConserved
  <2>1. ASSUME NEW g \in Generations PROVE SlotAccount(g) = MaxWorkers
    <3>1. Granted(g) = {} /\ Holders(g) = {}
      BY DEF Granted, Holders
    <3>2. Cardinality(Granted(g)) = 0 /\ Cardinality(Holders(g)) = 0
      BY <3>1, FS_EmptySet
    <3> QED
      BY <3>2, WorkloadAssumption DEF SlotAccount, WorkloadAssumption
  <2> QED
    BY <2>1, WorkloadAssumption DEF SlotsConserved, WorkloadAssumption
<1>3. ActiveExact
  <2>1. {r \in Requests : job[r] # "none"} = {}
    OBVIOUS
  <2> QED
    BY <2>1, FS_EmptySet DEF ActiveExact
<1>4. QueuedOnce /\ KnowsBuilt
  BY DEF QueuedOnce, OnceIn, KnowsBuilt
<1> QED
  BY <1>1, <1>2, <1>3, <1>4 DEF IInv, SlotsExact

LEMMA NextSafe == IInv /\ [Next]_vars => IInv'
<1> SUFFICES ASSUME IInv, [Next]_vars PROVE IInv'
  OBVIOUS
<1>1. ASSUME NEW r \in Requests, Run(r) PROVE IInv'
  BY <1>1, RunSafe
<1>2. ASSUME NEW r \in Requests, Withdraw(r) PROVE IInv'
  BY <1>2, WithdrawSafe
<1>3. ASSUME NEW r \in Requests, TimeOut(r) PROVE IInv'
  BY <1>3, LeavesSafe DEF TimeOut
<1>4. ASSUME NEW r \in Requests, Cancel(r) PROVE IInv'
  BY <1>4, LeavesSafe, ReleaseSafe DEF Cancel
<1>5. ASSUME NEW r \in Requests, Resume(r) PROVE IInv'
  BY <1>5, ResumeSafe
<1>6. ASSUME NEW r \in Requests, Finish(r) PROVE IInv'
  BY <1>6, ReleaseSafe DEF Finish
<1>7. ASSUME NEW r \in Requests, WorkerDone(r) PROVE IInv'
  <2>1. job \in [Requests -> {"none", "working", "finished"}] /\ broken \subseteq 1..built
    BY DEF IInv, SlotsExact, TypeOK
  <2>2. /\ {r} \subseteq {s \in Requests : job[s] = "working"}
        /\ job' = [s \in Requests |-> IF s \in {r} THEN "finished" ELSE job[s]]
        /\ broken \subseteq broken' /\ broken' \subseteq 1..built
        /\ UNCHANGED <<pc, gen, host, semaphore, executor, built, closing, active>>
    BY <1>7, <2>1 DEF WorkerDone
  <2> QED
    BY <2>2, WorkEndsSafe
<1>8. ASSUME NEW e \in Generations, Break(e) PROVE IInv'
  <2>1. TypeOK
    BY DEF IInv, SlotsExact
  <2>2. /\ Working(e) \subseteq {s \in Requests : job[s] = "working"}
        /\ job' = [s \in Requests |-> IF s \in Working(e) THEN "finished" ELSE job[s]]
        /\ broken \subseteq broken' /\ broken' \subseteq 1..built
        /\ UNCHANGED <<pc, gen, host, semaphore, executor, built, closing, active>>
    BY <1>8, <2>1 DEF Break, Working, TypeOK
  <2> QED
    BY <2>2, WorkEndsSafe
<1>9. ASSUME Shutdown \/ ShutdownReturns PROVE IInv'
  BY <1>9, ClosingSafe
<1>10. ASSUME UNCHANGED vars PROVE IInv'
  <2>1. UNCHANGED <<pc, gen, job, host, value, queue, executor, built, broken, closing, active>>
    BY <1>10 DEF vars, calls, semaphore
  <2>2. TypeOK => TypeOK'
    BY <2>1 DEF TypeOK
  <2>3. SlotsConserved => SlotsConserved'
    BY <2>1 DEF SlotsConserved, SlotAccount, Granted, Holders
  <2>4. (ActiveExact => ActiveExact') /\ (QueuedOnce => QueuedOnce') /\ (KnowsBuilt => KnowsBuilt')
    BY <2>1 DEF ActiveExact, QueuedOnce, KnowsBuilt
  <2> QED
    BY <2>1, <2>2, <2>3, <2>4 DEF IInv, SlotsExact
<1> QED
  BY <1>1, <1>2, <1>3, <1>4, <1>5, <1>6, <1>7, <1>8, <1>9, <1>10 DEF Next, Progress

\* The semaphore of BoundedWorkloadExecutor loses no slot and makes none while no pool
\* breaks, and active_count is exact: SlotsExact, in every reachable state.
THEOREM SlotsCorrect == Spec => []SlotsExact
<1>1. IInv => SlotsExact
  BY DEF IInv
<1> QED
  BY InitSafe, NextSafe, <1>1, PTL DEF Spec

-----------------------------------------------------------------------------
(* The executor implements WorkerCap                                       *)

\* Work that ends, however much of it, is a step of the abstract executor
LEMMA EndsOnly ==
    ASSUME Working(1)' \subseteq Working(1)
    PROVE  Cap!Next
<1>1. Working(1)' = Working(1) \ (Working(1) \ Working(1)')
  OBVIOUS
<1>2. Working(1) \ Working(1)' \in SUBSET Working(1)
  OBVIOUS
<1>3. Cap!End
  BY <1>1, <1>2 DEF Cap!End
<1> QED
  BY <1>3 DEF Cap!Next

\* A call that owns or takes a slot of generation g finds the first executor below its cap
LEMMA StartsBelowCap ==
    ASSUME IInv, NEW r \in Requests, NEW g \in Generations, NEW e, e = 1 => g = 1,
           job[r] = "none", value[g] # 0 \/ r \in Granted(g), Submit(r, e, g)
    PROVE  Cap!Next
<1>1. TypeOK /\ SlotsConserved /\ KnowsBuilt
  BY DEF IInv, SlotsExact
<1>2. CASE e = 1 /\ e \notin broken
  <2>1. g = 1
    BY <1>2
  <2>2. /\ job' = [job EXCEPT ![r] = "working"] /\ host' = [host EXCEPT ![r] = 1]
        /\ job \in [Requests -> {"none", "working", "finished"}]
        /\ host \in [Requests -> Generations \cup {0}]
    BY <1>1, <1>2 DEF Submit, TypeOK
  <2>3. Working(1)' = Working(1) \cup {r} /\ r \notin Working(1)
    BY <2>2 DEF Working
  <2>4. Cardinality(Working(1)) < MaxWorkers
    <3>1. Working(1) \subseteq Holders(1) /\ Holders(1) \subseteq Requests
      BY <1>1 DEF Working, Holders, KnowsBuilt
    <3>2. /\ Cardinality(Holders(1)) \in Nat /\ Cardinality(Granted(1)) \in Nat
          /\ value[1] \in Nat /\ Cardinality(Working(1)) \in Nat
      BY <1>1, <2>1, <3>1, CountsFinite, FiniteCalls DEF TypeOK
    <3>3. Cardinality(Working(1)) <= Cardinality(Holders(1))
      BY <3>1, FiniteCalls, FS_Subset
    <3>4. value[1] + Cardinality(Granted(1)) + Cardinality(Holders(1)) <= MaxWorkers
      BY <1>1, <2>1 DEF SlotsConserved, SlotAccount
    <3>5. value[1] # 0 \/ Cardinality(Granted(1)) # 0
      <4>1. IsFiniteSet(Granted(1))
        BY <1>1, <2>1, CountsFinite
      <4> QED
        BY <4>1, <2>1, FS_EmptySet
    <3>6. MaxWorkers \in Nat
      BY WorkloadAssumption DEF WorkloadAssumption
    <3> QED
      BY <3>2, <3>3, <3>4, <3>5, <3>6
  <2>5. Cap!Start(r)
    BY <2>3, <2>4 DEF Cap!Start, Cap!Cardinality, Cardinality
  <2> QED
    BY <2>5 DEF Cap!Next
<1>3. CASE ~(e = 1 /\ e \notin broken)
  <2>1. /\ job \in [Requests -> {"none", "working", "finished"}]
        /\ host \in [Requests -> Generations \cup {0}]
    BY <1>1 DEF TypeOK
  <2>2. \A s \in Requests \ {r} : job'[s] = job[s] /\ host'[s] = host[s]
    BY <2>1 DEF Submit, Forgets
  <2>3. job'[r] = "working" => host'[r] # 1
    BY <1>3, <2>1 DEF Submit, Forgets
  <2>4. Working(1)' \subseteq Working(1)
    BY <2>2, <2>3 DEF Working
  <2> QED
    BY <2>4, EndsOnly
<1> QED
  BY <1>2, <1>3

\* A call that ends leaves the work of the others alone
LEMMA ReleaseEnds ==
    ASSUME TypeOK, NEW r \in Requests, ReleaseSlot(r)
    PROVE  Working(1)' \subseteq Working(1)
<1>1. /\ job \in [Requests -> {"none", "working", "finished"}]
      /\ host \in [Requests -> Generations \cup {0}]
      /\ job' = [job EXCEPT ![r] = "none"] /\ host' = [host EXCEPT ![r] = 0]
  BY DEF TypeOK, ReleaseSlot, Forgets
<1> QED
  BY <1>1 DEF Working

LEMMA StepsRefine == IInv /\ [Next]_vars => [Cap!Next]_(Working(1))
<1> SUFFICES ASSUME IInv, [Next]_vars PROVE Cap!Next \/ Working(1)' = Working(1)
  OBVIOUS
<1> TypeOK /\ KnowsBuilt
  BY DEF IInv, SlotsExact
<1>1. ASSUME NEW r \in Requests, Run(r) PROVE Cap!Next
  <2>1. PICK g \in Generations :
          /\ job[r] = "none"
          /\ \/ UNCHANGED <<value, job, host, active>>
             \/ ~Locked(g) /\ Submit(r, g, g)
    BY <1>1 DEF Run
  <2>2. CASE UNCHANGED <<value, job, host, active>>
    BY <2>2, EndsOnly DEF Working
  <2>3. CASE ~Locked(g) /\ Submit(r, g, g)
    BY <2>1, <2>3, StartsBelowCap DEF Locked
  <2> QED
    BY <2>1, <2>2, <2>3
<1>2. ASSUME NEW r \in Requests, Withdraw(r) PROVE Cap!Next
  <2>1. job' = job /\ host' = [host EXCEPT ![r] = 0] /\ host \in [Requests -> Generations \cup {0}]
    BY <1>2 DEF Withdraw, Forgets, TypeOK
  <2>2. Working(1)' \subseteq Working(1)
    BY <2>1 DEF Working
  <2> QED
    BY <2>2, EndsOnly
<1>3. ASSUME NEW r \in Requests, TimeOut(r) PROVE Cap!Next
  BY <1>3, EndsOnly DEF TimeOut, LeavesWork, Working
<1>4. ASSUME NEW r \in Requests, Cancel(r) PROVE Cap!Next
  <2>1. CASE LeavesWork(r)
    BY <2>1, EndsOnly DEF LeavesWork, Working
  <2>2. CASE ReleaseSlot(r)
    BY <2>2, ReleaseEnds, EndsOnly
  <2> QED
    BY <1>4, <2>1, <2>2 DEF Cancel
<1>5. ASSUME NEW r \in Requests, Resume(r) PROVE Cap!Next
  <2>1. PICK g \in Generations : g = gen[r]
    BY DEF TypeOK
  <2>2. job[r] = "none" /\ r \in Granted(g) /\ Submit(r, executor, g)
    BY <1>5, <2>1 DEF Resume, Granted, TypeOK
  <2>3. executor = 1 => g = 1
    <3>1. executor \in {0, built} /\ g \in Nat \ {0} /\ (g <= built \/ g = 1)
      BY <2>1, Numbers DEF TypeOK, KnowsBuilt
    <3> QED
      BY <3>1
  <2> QED
    BY <2>2, <2>3, StartsBelowCap
<1>6. ASSUME NEW r \in Requests, Finish(r) PROVE Cap!Next
  BY <1>6, ReleaseEnds, EndsOnly DEF Finish
<1>7. ASSUME NEW r \in Requests, WorkerDone(r) PROVE Cap!Next
  <2>1. job \in [Requests -> {"none", "working", "finished"}]
        /\ job' = [job EXCEPT ![r] = "finished"] /\ host' = host
    BY <1>7 DEF WorkerDone, TypeOK
  <2>2. Working(1)' \subseteq Working(1)
    BY <2>1 DEF Working
  <2> QED
    BY <2>2, EndsOnly
<1>8. ASSUME NEW e \in Generations, Break(e) PROVE Cap!Next
  <2>1. Working(1)' \subseteq Working(1)
    BY <1>8 DEF Break, Working
  <2> QED
    BY <2>1, EndsOnly
<1>9. ASSUME Shutdown \/ ShutdownReturns \/ UNCHANGED vars PROVE Working(1)' = Working(1)
  BY <1>9 DEF Shutdown, ShutdownReturns, vars, calls, Working
<1> QED
  BY <1>1, <1>2, <1>3, <1>4, <1>5, <1>6, <1>7, <1>8, <1>9 DEF Next, Progress

\* The first executor implements the hard cap of WorkerCap: no step of run(), of a callback or of
\* shutdown() lets more than max_workers functions run in it, although abandoned work
\* goes on and calls of an earlier generation come back to a new executor.
THEOREM CapCorrect == Spec => CapRespected
<1>1. Init => Cap!Init
  BY DEF Init, Cap!Init, Working
<1>2. Spec => []IInv
  BY InitSafe, NextSafe, PTL DEF Spec
<1> QED
  BY <1>1, <1>2, StepsRefine, PTL DEF Spec, CapRespected, Cap!Spec

-----------------------------------------------------------------------------
(* The bots                                                                *)

Phases == {"off", "waiting", "listing", "starting", "sleeping", "completed", "completed_with_errors", "failed",
           "cancelled"}
OpType == [pc : {"idle", "preparing", "registered", "stopped", "saving", "deleting"}, bot : Bots,
           inst : BotInstances \cup {NoInstance}]
InstType == [bot : Bots, status : {"none", "running", "stopped"}, handler : BOOLEAN]
AutoType == [phase : Phases, todo : SUBSET Bots, attempt : 0..MaxAttempts, failed : BOOLEAN]

RuntimeTyped ==
    /\ BrTypeOK
    /\ op \in [BotCallers -> OpType] /\ auto \in AutoType
    /\ raced \subseteq Bots /\ halfStopped \subseteq Bots

\* A bot whose requests never overlapped has one caller at a time
OneAtATime ==
    \A p, q \in BotCallers :
        op[p].pc # "idle" /\ op[q].pc # "idle" /\ op[p].bot = op[q].bot /\ op[p].bot \notin raced => p = q

\* What a caller found before its await still holds after it, unless its bot is raced
Stopping(p) == op[p].pc \in {"stopped", "saving"}
CallerFits(p) ==
    /\ Stopping(p) => /\ op[p].inst # NoInstance
                      /\ inst[op[p].inst].status = "stopped" /\ inst[op[p].inst].bot = op[p].bot
    /\ op[p].bot \notin raced =>
          /\ op[p].pc = "preparing" => row[op[p].bot] # "gone" /\ ~BotRuns(op[p].bot)
          /\ op[p].pc = "registered" => activeBots[op[p].bot] # NoInstance
          /\ Stopping(p) => activeBots[op[p].bot] = op[p].inst
          /\ op[p].pc = "saving" => row[op[p].bot] # "running"
          /\ op[p].pc = "deleting" => activeBots[op[p].bot] = NoInstance
CallersFit == \A p \in BotCallers : CallerFits(p)

\* What is active was built for its bot, and has a row
InstancesFit ==
    /\ \A i \in BotInstances : inst[i].handler <=> inst[i].status = "running"
    /\ \A i \in BotInstances : inst[i].status = "none" => saved[i] = 0
    /\ \A b \in Bots : activeBots[b] # NoInstance =>
          inst[activeBots[b]].bot = b /\ inst[activeBots[b]].status # "none"
    /\ \A b \in Bots \ raced : activeBots[b] # NoInstance => row[b] # "gone"

\* The fills of an active instance are still to be stored, and once it is stopped a request is about to
StopOwed ==
    \A b \in Bots \ (raced \cup halfStopped) : activeBots[b] # NoInstance =>
        /\ saved[activeBots[b]] = 0
        /\ inst[activeBots[b]].status = "stopped" => \E p \in BotCallers : Stopping(p) /\ op[p].bot = b

\* The autostart task has seen to every bot it took off its list
AutoFits ==
    /\ auto.phase # "starting" => op[Autostart].pc = "idle"
    /\ ~process.up => auto.phase \in {"off", "cancelled"}
    /\ auto.phase \in {"off", "waiting"} => auto.attempt = 0
    /\ auto.phase = "sleeping" => auto.attempt < MaxAttempts
    /\ auto.phase = "completed" => auto.todo = {} /\ ~auto.failed
Covered ==
    auto.phase \in {"starting", "completed"} /\ ~auto.failed =>
        \A b \in Bots \ (raced \cup auto.todo) : row[b] = "running" =>
            activeBots[b] # NoInstance \/ (op[Autostart].pc = "preparing" /\ op[Autostart].bot = b)

BotsOK ==
    /\ RuntimeTyped /\ OneAtATime /\ CallersFit /\ InstancesFit /\ StopOwed
    /\ HandlersOwned /\ TradingBotHasRow /\ FillsStoredOnce /\ AutoFits /\ Covered

\* A caller at rest is well typed
LEMMA IdleTyped == Idle \in OpType /\ Idle.pc = "idle"
  BY BotAssumption DEF BotAssumption, Idle, OpType

\* What the invariant is for
LEMMA BotsOKSuffices == BotsOK => BotsOwned
<1> SUFFICES ASSUME BotsOK PROVE BotsOwned
  OBVIOUS
<1>1. RuntimeTyped /\ InstancesFit /\ AutoFits /\ Covered
  BY DEF BotsOK
<1>2. RowHasInstance
  <2> SUFFICES ASSUME auto.phase = "completed", NEW b \in Bots \ raced, row[b] = "running",
                      \A p \in BotCallers : ~Busy(p, b)
               PROVE  activeBots[b] # NoInstance
    BY DEF RowHasInstance
  <2>1. ~auto.failed /\ b \notin auto.todo
    BY <1>1 DEF AutoFits
  <2>2. ~(op[Autostart].pc = "preparing" /\ op[Autostart].bot = b)
    BY DEF Busy, BotCallers
  <2> QED  BY <1>1, <2>1, <2>2 DEF Covered
<1> QED  BY <1>1, <1>2 DEF BotsOK, BotsOwned, RuntimeTyped

\* A process that has not started anything satisfies it
LEMMA BotsStart == BrInit => BotsOK
<1> SUFFICES ASSUME BrInit PROVE BotsOK
  OBVIOUS
<1>1. PICK c \in Bots : c = (CHOOSE b \in Bots : TRUE)
  BY BotAssumption DEF BotAssumption
<1>2. /\ \A i \in BotInstances : inst[i].status = "none" /\ ~inst[i].handler /\ inst[i].bot = c
      /\ inst \in [BotInstances -> InstType]
  BY <1>1 DEF BrInit, NoBot, InstType
<1>3. op \in [BotCallers -> OpType] /\ \A p \in BotCallers : op[p].pc = "idle"
  BY <1>1 DEF BrInit, Idle, OpType
<1>4. /\ auto \in AutoType /\ auto.phase = "off" /\ auto.attempt = 0
  BY BotAssumption DEF BotAssumption, BrInit, AutoType, Phases
<1>5. /\ ~process.up /\ row \in [Bots -> {"idle", "running"}] /\ activeBots \in [Bots -> {NoInstance}]
      /\ saved \in [BotInstances -> {0}] /\ raced = {} /\ halfStopped = {}
  BY DEF BrInit
<1>6. RuntimeTyped
  <2>1. \A p \in BotCallers : op[p].pc \in {"idle", "preparing", "registered", "stopped", "saving", "deleting"}
    BY <1>3
  <2>2. BrTypeOK
    BY <1>2, <1>4, <1>5, <2>1 DEF BrTypeOK, InstType, AutoType
  <2> QED  BY <1>3, <1>4, <1>5, <2>2 DEF RuntimeTyped
<1>7. OneAtATime /\ CallersFit
  BY <1>3 DEF OneAtATime, CallersFit, CallerFits, Stopping
<1>8. InstancesFit /\ StopOwed
  BY <1>2, <1>5 DEF InstancesFit, StopOwed
<1>9. HandlersOwned /\ TradingBotHasRow /\ FillsStoredOnce
  BY <1>2 DEF HandlersOwned, TradingBotHasRow, FillsStoredOnce
<1>10. AutoFits /\ Covered
  BY <1>3, <1>4, <1>5, BotAssumption DEF AutoFits, Covered, BotCallers
<1> QED  BY <1>6, <1>7, <1>8, <1>9, <1>10 DEF BotsOK

-----------------------------------------------------------------------------
(* Starting a bot                                                          *)

\* Whoever goes on with its bot, or comes to its end, leaves the others alone
LEMMA OneStays ==
    ASSUME OneAtATime, raced \subseteq raced',
           \A q \in BotCallers : op'[q].pc # "idle" => op[q].pc # "idle" /\ op'[q].bot = op[q].bot
    PROVE  OneAtATime'
  BY DEF OneAtATime

\* Whoever takes up a bot others are busy with makes it raced
LEMMA OneBegins ==
    ASSUME RuntimeTyped, OneAtATime, NEW p \in BotCallers, NEW b \in Bots, NEW c \in OpType,
           c.bot = b, op[p].pc = "idle", op' = [op EXCEPT ![p] = c], Overlap(p, b)
    PROVE  /\ OneAtATime' /\ raced \subseteq raced' /\ raced' \subseteq Bots
           /\ \A q \in BotCallers \ {p} : op[q].pc # "idle" /\ op[q].bot \notin raced' => op[q].bot # b
           /\ op' \in [BotCallers -> OpType] /\ op'[p] = c
           /\ \A q \in BotCallers \ {p} : op'[q] = op[q]
<1>1. op' \in [BotCallers -> OpType] /\ op'[p] = c /\ \A q \in BotCallers \ {p} : op'[q] = op[q]
  BY DEF RuntimeTyped
<1>2. raced \subseteq raced' /\ raced' \subseteq Bots
  BY DEF Overlap, RuntimeTyped
<1>3. \A q \in BotCallers \ {p} : op[q].pc # "idle" /\ op[q].bot \notin raced' => op[q].bot # b
  BY DEF Overlap, Busy
<1>4. OneAtATime'
  <2> SUFFICES ASSUME NEW q \in BotCallers, NEW r \in BotCallers,
                      op'[q].pc # "idle", op'[r].pc # "idle", op'[q].bot = op'[r].bot, op'[q].bot \notin raced'
               PROVE  q = r
    BY DEF OneAtATime
  <2>1. CASE q # p /\ r # p
    BY <1>1, <1>2, <2>1 DEF OneAtATime
  <2>2. CASE q = p /\ r # p
    BY <1>1, <1>3, <2>2
  <2>3. CASE q # p /\ r = p
    BY <1>1, <1>3, <2>3
  <2> QED  BY <2>1, <2>2, <2>3
<1> QED  BY <1>1, <1>2, <1>3, <1>4

\* A start begins for a bot that does not run; nothing but the caller changes
LEMMA StartBeginsKeeps ==
    ASSUME BotsOK, NEW p \in BotCallers, NEW b \in Bots, StartBegins(p, b), auto' \in AutoType, AutoFits',
           \/ (UNCHANGED auto /\ p # Autostart)
           \/ (/\ p = Autostart /\ auto.phase = "starting" /\ auto'.phase = "starting"
               /\ auto'.todo = auto.todo \ {b} /\ auto'.failed = (auto.failed \/ row[b] = "gone"))
    PROVE  BotsOK'
<1>1. /\ RuntimeTyped /\ OneAtATime /\ CallersFit /\ InstancesFit /\ StopOwed
      /\ HandlersOwned /\ TradingBotHasRow /\ FillsStoredOnce /\ AutoFits /\ Covered
  BY DEF BotsOK
<1>2. /\ op[p].pc = "idle" /\ Overlap(p, b)
      /\ row' = row /\ activeBots' = activeBots /\ inst' = inst /\ saved' = saved /\ halfStopped' = halfStopped
  BY DEF StartBegins
<1> DEFINE c == [pc |-> "preparing", bot |-> b, inst |-> NoInstance]
<1>3. c \in OpType
  BY DEF OpType
<1>4. raced \subseteq raced' /\ raced' \subseteq Bots
  BY <1>1, <1>2 DEF Overlap, RuntimeTyped
<1>5. InstancesFit' /\ HandlersOwned' /\ TradingBotHasRow' /\ FillsStoredOnce'
  BY <1>1, <1>2, <1>4 DEF InstancesFit, HandlersOwned, TradingBotHasRow, FillsStoredOnce
<1>6. ASSUME MayStart(b)
      PROVE  OneAtATime' /\ CallersFit' /\ StopOwed' /\ op' \in [BotCallers -> OpType] /\ Covered'
  <2>1. op' = [op EXCEPT ![p] = c]
    BY <1>6 DEF StartBegins
  <2>2. /\ OneAtATime' /\ op' \in [BotCallers -> OpType] /\ op'[p] = c
        /\ \A q \in BotCallers \ {p} : op'[q] = op[q]
    BY <1>1, <1>2, <1>3, <2>1, OneBegins
  <2>3. CallersFit'
    <3> SUFFICES ASSUME NEW q \in BotCallers PROVE CallerFits(q)'
      BY DEF CallersFit
    <3>1. CASE q = p
      BY <3>1, <1>2, <1>6, <2>2 DEF CallerFits, MayStart, BotRuns, Stopping
    <3>2. CASE q # p
      BY <3>2, <1>1, <1>2, <1>4, <2>2 DEF CallersFit, CallerFits, BotRuns, Stopping
    <3> QED  BY <3>1, <3>2
  <2>4. StopOwed'
    BY <1>1, <1>2, <1>4, <2>2 DEF StopOwed, Stopping
  <2>5. Covered'
    <3>1. CASE p # Autostart
      BY <3>1, <1>1, <1>2, <1>4, <2>2 DEF Covered, BotCallers
    <3>2. CASE p = Autostart
      <4> SUFFICES ASSUME ~auto'.failed, NEW a \in Bots \ (raced' \cup auto'.todo), row[a] = "running"
                   PROVE  activeBots[a] # NoInstance \/ (c.pc = "preparing" /\ c.bot = a)
        BY <3>2, <1>2, <2>2 DEF Covered
      <4>1. CASE a = b
        BY <4>1
      <4>2. CASE a # b
        <5>1. a \in Bots \ (raced \cup auto.todo) /\ ~auto.failed /\ auto.phase = "starting"
          BY <3>2, <4>2, <1>4
        <5> QED  BY <5>1, <3>2, <1>1, <1>2 DEF Covered
      <4> QED  BY <4>1, <4>2
    <3> QED  BY <3>1, <3>2
  <2> QED  BY <2>2, <2>3, <2>4, <2>5
<1>7. ASSUME ~MayStart(b)
      PROVE  OneAtATime' /\ CallersFit' /\ StopOwed' /\ op' \in [BotCallers -> OpType] /\ Covered'
  <2>1. op' = op
    BY <1>7 DEF StartBegins
  <2>2. OneAtATime'
    BY <1>1, <1>4, <2>1, OneStays
  <2>3. CallersFit' /\ StopOwed'
    BY <1>1, <1>2, <1>4, <2>1 DEF CallersFit, CallerFits, BotRuns, Stopping, StopOwed
  <2>4. row[b] = "gone" \/ activeBots[b] # NoInstance
    BY <1>7 DEF MayStart, BotRuns
  <2>5. Covered'
    BY <1>1, <1>2, <1>4, <2>1, <2>4 DEF Covered
  <2> QED  BY <1>1, <2>1, <2>2, <2>3, <2>5 DEF RuntimeTyped
<1>8. RuntimeTyped'
  <2>1. BrTypeOK'
    BY <1>1, <1>2, <1>6, <1>7 DEF RuntimeTyped, BrTypeOK, OpType, AutoType
  <2> QED  BY <1>1, <1>2, <1>4, <1>6, <1>7, <2>1 DEF RuntimeTyped
<1> QED  BY <1>5, <1>6, <1>7, <1>8 DEF BotsOK

\* The new instance is the only one that trades for its bot
LEMMA StartRegistersKeeps ==
    ASSUME BotsOK, NEW p \in BotCallers, StartRegisters(p)
    PROVE  BotsOK'
<1>1. /\ RuntimeTyped /\ OneAtATime /\ CallersFit /\ InstancesFit /\ StopOwed
      /\ HandlersOwned /\ TradingBotHasRow /\ FillsStoredOnce /\ AutoFits /\ Covered
  BY DEF BotsOK
<1>2. PICK x \in OpType : x = op[p]
  BY <1>1 DEF RuntimeTyped
<1> PICK b \in Bots : b = x.bot
  BY DEF OpType
<1>3. /\ x.pc = "preparing" /\ row' = row /\ auto' = auto /\ saved' = saved
      /\ raced' = raced /\ halfStopped' = halfStopped
  BY <1>2 DEF StartRegisters
<1>4. PICK i \in BotInstances :
        /\ inst[i].status = "none"
        /\ inst' = [inst EXCEPT ![i] = [bot |-> b, status |-> "running", handler |-> TRUE]]
        /\ activeBots' = [activeBots EXCEPT ![b] = i]
        /\ op' = [op EXCEPT ![p].pc = "registered", ![p].inst = i]
  BY <1>2 DEF StartRegisters
<1>5. /\ inst' \in [BotInstances -> InstType]
      /\ inst'[i].bot = b /\ inst'[i].status = "running" /\ inst'[i].handler
      /\ \A j \in BotInstances \ {i} : inst'[j] = inst[j]
  BY <1>1, <1>4 DEF RuntimeTyped, BrTypeOK, InstType
<1>6. /\ activeBots' \in [Bots -> BotInstances \cup {NoInstance}] /\ activeBots'[b] = i /\ i # NoInstance
      /\ \A a \in Bots \ {b} : activeBots'[a] = activeBots[a]
  BY <1>1, <1>4 DEF RuntimeTyped, BrTypeOK, BotInstances, NoInstance
<1>7. /\ op' \in [BotCallers -> OpType]
      /\ op'[p].pc = "registered" /\ op'[p].bot = b /\ op'[p].inst = i
      /\ \A q \in BotCallers \ {p} : op'[q] = op[q]
  <2>1. [x EXCEPT !.pc = "registered", !.inst = i] \in OpType
    BY DEF OpType
  <2>2. op' = [op EXCEPT ![p] = [x EXCEPT !.pc = "registered", !.inst = i]]
    BY <1>2, <1>4, <1>1 DEF RuntimeTyped
  <2>3. [x EXCEPT !.pc = "registered", !.inst = i].pc = "registered"
        /\ [x EXCEPT !.pc = "registered", !.inst = i].bot = b /\ [x EXCEPT !.pc = "registered", !.inst = i].inst = i
    BY DEF OpType
  <2> QED  BY <1>1, <2>1, <2>2, <2>3 DEF RuntimeTyped
<1>8. RuntimeTyped'
  <2>1. BrTypeOK'
    BY <1>1, <1>3, <1>5, <1>6, <1>7 DEF RuntimeTyped, BrTypeOK, OpType, InstType
  <2> QED  BY <1>1, <1>3, <1>7, <2>1 DEF RuntimeTyped
<1>9. OneAtATime'
  <2>1. \A q \in BotCallers : op'[q].pc # "idle" => op[q].pc # "idle" /\ op'[q].bot = op[q].bot
    BY <1>2, <1>3, <1>7
  <2> QED  BY <1>1, <1>3, <2>1, OneStays
<1>10. b \notin raced => /\ row[b] # "gone" /\ ~BotRuns(b)
                         /\ \A q \in BotCallers \ {p} : op[q].pc # "idle" => op[q].bot # b
  <2>1. CallerFits(p)
    BY <1>1 DEF CallersFit
  <2> QED  BY <2>1, <1>1, <1>2, <1>3 DEF CallerFits, OneAtATime
<1>11. \A a \in Bots \ {b} : activeBots[a] # NoInstance => activeBots[a] # i
  BY <1>1, <1>4 DEF InstancesFit
<1>12. CallersFit'
  <2> SUFFICES ASSUME NEW q \in BotCallers PROVE CallerFits(q)'
    BY DEF CallersFit
  <2>1. CASE q = p
    BY <2>1, <1>6, <1>7 DEF CallerFits, Stopping
  <2>2. CASE q # p
    <3>1. CallerFits(q) /\ op'[q] = op[q] /\ op[q] \in OpType
      BY <1>1, <1>7, <2>2 DEF CallersFit, RuntimeTyped
    <3>2. PICK y \in OpType : y = op[q]
      BY <3>1
    <3>3. Stopping(q) => y.inst \in BotInstances \ {i}
      BY <3>1, <3>2, <1>4 DEF CallerFits, OpType
    <3>4. y.pc # "idle" /\ y.bot \notin raced => y.bot \in Bots \ {b}
      BY <1>10, <2>2, <3>2 DEF OpType
    <3>5. y.bot \in Bots \ {b} => (BotRuns(y.bot)' <=> BotRuns(y.bot)) /\ activeBots'[y.bot] = activeBots[y.bot]
      <4>1. SUFFICES ASSUME y.bot \in Bots \ {b} PROVE BotRuns(y.bot)' <=> BotRuns(y.bot)
        BY <1>6
      <4>2. activeBots'[y.bot] = activeBots[y.bot] /\ activeBots[y.bot] \in BotInstances \cup {NoInstance}
        BY <4>1, <1>1, <1>6 DEF RuntimeTyped, BrTypeOK
      <4> QED  BY <4>1, <4>2, <1>5, <1>11 DEF BotRuns
    <3> QED  BY <3>1, <3>2, <3>3, <3>4, <3>5, <1>3, <1>5 DEF CallerFits, Stopping
  <2> QED  BY <2>1, <2>2
<1>13. InstancesFit'
  <2>1. \A j \in BotInstances : /\ inst'[j].handler <=> inst'[j].status = "running"
                                /\ inst'[j].status = "none" => saved'[j] = 0
    BY <1>1, <1>3, <1>5 DEF InstancesFit
  <2>2. ASSUME NEW a \in Bots, activeBots'[a] # NoInstance
        PROVE  /\ inst'[activeBots'[a]].bot = a /\ inst'[activeBots'[a]].status # "none"
               /\ a \notin raced' => row'[a] # "gone"
    <3>1. CASE a = b
      BY <3>1, <1>3, <1>5, <1>6, <1>10
    <3>2. CASE a # b
      <4>1. activeBots'[a] = activeBots[a] /\ activeBots[a] \in BotInstances \ {i}
        BY <1>1, <1>6, <1>11, <2>2, <3>2 DEF RuntimeTyped, BrTypeOK
      <4> QED  BY <4>1, <1>1, <1>3, <1>5, <2>2 DEF InstancesFit
    <3> QED  BY <3>1, <3>2
  <2> QED  BY <2>1, <2>2 DEF InstancesFit
<1>14. StopOwed'
  <2> SUFFICES ASSUME NEW a \in Bots \ (raced \cup halfStopped), activeBots'[a] # NoInstance
               PROVE  /\ saved'[activeBots'[a]] = 0
                      /\ inst'[activeBots'[a]].status = "stopped" => \E q \in BotCallers : Stopping(q)' /\ op'[q].bot = a
    BY <1>3 DEF StopOwed
  <2>1. CASE a = b
    BY <2>1, <1>1, <1>3, <1>4, <1>5, <1>6 DEF InstancesFit
  <2>2. CASE a # b
    <3>1. activeBots'[a] = activeBots[a] /\ activeBots[a] \in BotInstances \ {i}
      BY <1>1, <1>6, <1>11, <2>2 DEF RuntimeTyped, BrTypeOK
    <3>2. ASSUME inst[activeBots[a]].status = "stopped"
          PROVE  \E q \in BotCallers : Stopping(q)' /\ op'[q].bot = a
      <4>1. PICK q \in BotCallers : Stopping(q) /\ op[q].bot = a
        BY <1>1, <3>1, <3>2 DEF StopOwed, BotInstances, NoInstance
      <4>2. q # p
        BY <4>1, <1>2, <1>3 DEF Stopping
      <4> QED  BY <4>1, <4>2, <1>7 DEF Stopping
    <3> QED  BY <3>1, <3>2, <1>1, <1>3, <1>5 DEF StopOwed, BotInstances, NoInstance
  <2> QED  BY <2>1, <2>2
<1>15. HandlersOwned' /\ TradingBotHasRow'
  <2> SUFFICES ASSUME NEW j \in BotInstances, inst'[j].handler, inst'[j].bot \notin raced
               PROVE  activeBots'[inst'[j].bot] = j /\ row[inst'[j].bot] # "gone"
    BY <1>3 DEF HandlersOwned, TradingBotHasRow
  <2>1. CASE j = i
    BY <2>1, <1>5, <1>6, <1>10
  <2>2. CASE j # i
    <3>1. inst'[j] = inst[j] /\ inst[j].bot \in Bots /\ activeBots[inst[j].bot] = j /\ row[inst[j].bot] # "gone"
      BY <2>2, <1>1, <1>5 DEF HandlersOwned, TradingBotHasRow, RuntimeTyped, BrTypeOK
    <3>2. inst[j].status = "running"
      BY <3>1, <1>1 DEF InstancesFit
    <3>3. inst[j].bot # b
      BY <3>1, <3>2, <1>10 DEF BotRuns, BotInstances, NoInstance
    <3> QED  BY <3>1, <3>3, <1>6
  <2> QED  BY <2>1, <2>2
<1>16. FillsStoredOnce'
  <2> SUFFICES ASSUME NEW j \in BotInstances, inst'[j].status = "stopped",
                      inst'[j].bot \notin raced \cup halfStopped, activeBots'[inst'[j].bot] # j
               PROVE  saved[j] = 1
    BY <1>3 DEF FillsStoredOnce
  <2>1. j # i /\ inst'[j] = inst[j] /\ inst[j].bot \in Bots
    BY <1>1, <1>5 DEF RuntimeTyped, BrTypeOK
  <2>2. CASE activeBots[inst[j].bot] # j
    BY <2>1, <2>2, <1>1 DEF FillsStoredOnce
  <2>3. CASE activeBots[inst[j].bot] = j
    <3>1. inst[j].bot = b
      BY <2>1, <2>3, <1>6
    <3>2. PICK q \in BotCallers : Stopping(q) /\ op[q].bot = b
      BY <2>1, <2>3, <3>1, <1>1 DEF StopOwed, BotInstances, NoInstance
    <3>3. q # p
      BY <3>2, <1>2, <1>3 DEF Stopping
    <3> QED  BY <2>1, <3>1, <3>2, <3>3, <1>10 DEF Stopping
  <2> QED  BY <2>2, <2>3
<1>17. AutoFits' /\ Covered'
  <2>1. process' = process
    BY DEF StartRegisters
  <2>2. op[Autostart].pc = "idle" => op'[Autostart].pc = "idle"
    BY <1>2, <1>3, <1>7 DEF BotCallers
  <2>3. op[Autostart].pc = "preparing" => p = Autostart \/ op'[Autostart] = op[Autostart]
    BY <1>7 DEF BotCallers
  <2> QED  BY <1>1, <1>2, <1>3, <1>6, <2>1, <2>2, <2>3 DEF AutoFits, Covered
<1> QED  BY <1>8, <1>9, <1>12, <1>13, <1>14, <1>15, <1>16, <1>17 DEF BotsOK

\* The row says that the bot runs, which it does
LEMMA StartPersistsKeeps ==
    ASSUME BotsOK, NEW p \in BotCallers, StartPersists(p)
    PROVE  BotsOK'
<1>1. /\ RuntimeTyped /\ OneAtATime /\ CallersFit /\ InstancesFit /\ StopOwed
      /\ HandlersOwned /\ TradingBotHasRow /\ FillsStoredOnce /\ AutoFits /\ Covered
  BY DEF BotsOK
<1>2. PICK x \in OpType : x = op[p]
  BY <1>1 DEF RuntimeTyped
<1> PICK b \in Bots : b = x.bot
  BY DEF OpType
<1>3. /\ x.pc = "registered" /\ activeBots' = activeBots /\ inst' = inst /\ auto' = auto /\ saved' = saved
      /\ raced' = raced /\ halfStopped' = halfStopped /\ process' = process
  BY <1>2 DEF StartPersists
<1>4. /\ row' \in [Bots -> {"idle", "running", "stopped", "error", "gone"}]
      /\ row'[b] = "gone" <=> row[b] = "gone"
      /\ \A a \in Bots \ {b} : row'[a] = row[a]
  BY <1>1, <1>2 DEF StartPersists, WriteRow, RuntimeTyped, BrTypeOK
<1>5. /\ op' \in [BotCallers -> OpType] /\ op'[p].pc = "idle"
      /\ \A q \in BotCallers \ {p} : op'[q] = op[q]
  BY <1>1, IdleTyped DEF StartPersists, RuntimeTyped
<1>6. RuntimeTyped'
  <2>1. BrTypeOK'
    BY <1>1, <1>3, <1>4, <1>5 DEF RuntimeTyped, BrTypeOK, OpType
  <2> QED  BY <1>1, <1>3, <1>5, <2>1 DEF RuntimeTyped
<1>7. OneAtATime'
  BY <1>1, <1>3, <1>5, OneStays
<1>8. b \notin raced => activeBots[b] # NoInstance
                        /\ \A q \in BotCallers \ {p} : op[q].pc # "idle" => op[q].bot # b
  BY <1>1, <1>2, <1>3 DEF CallersFit, CallerFits, OneAtATime
<1>9. CallersFit'
  <2> SUFFICES ASSUME NEW q \in BotCallers PROVE CallerFits(q)'
    BY DEF CallersFit
  <2>1. CASE q = p
    BY <2>1, <1>5 DEF CallerFits, Stopping
  <2>2. CASE q # p
    <3>1. CallerFits(q) /\ op'[q] = op[q] /\ op[q].bot \in Bots
      BY <1>1, <1>5, <2>2 DEF CallersFit, RuntimeTyped, OpType
    <3>2. op[q].pc # "idle" /\ op[q].bot \notin raced => row'[op[q].bot] = row[op[q].bot]
      BY <3>1, <1>4, <1>8, <2>2
    <3> QED  BY <3>1, <3>2, <1>3 DEF CallerFits, Stopping, BotRuns
  <2> QED  BY <2>1, <2>2
<1>10. InstancesFit' /\ HandlersOwned' /\ TradingBotHasRow' /\ FillsStoredOnce'
  <2>1. \A a \in Bots : row'[a] = "gone" <=> row[a] = "gone"
    BY <1>4
  <2> QED  BY <2>1, <1>1, <1>3 DEF InstancesFit, HandlersOwned, TradingBotHasRow, FillsStoredOnce, RuntimeTyped, BrTypeOK
<1>11. StopOwed'
  <2>1. \A q \in BotCallers : Stopping(q) => Stopping(q)' /\ op'[q].bot = op[q].bot
    BY <1>2, <1>3, <1>5 DEF Stopping
  <2> QED  BY <2>1, <1>1, <1>3 DEF StopOwed
<1>12. AutoFits' /\ Covered'
  <2>1. /\ op[Autostart].pc = "idle" => op'[Autostart].pc = "idle"
        /\ op[Autostart].pc = "preparing" => op'[Autostart] = op[Autostart]
    BY <1>2, <1>3, <1>5 DEF BotCallers
  <2>2. AutoFits'
    BY <1>1, <1>3, <2>1 DEF AutoFits
  <2>3. ASSUME NEW a \in Bots \ (raced \cup auto.todo), row'[a] = "running",
               auto.phase \in {"starting", "completed"}, ~auto.failed
        PROVE  activeBots[a] # NoInstance \/ (op'[Autostart].pc = "preparing" /\ op'[Autostart].bot = a)
    <3>1. CASE a = b
      BY <3>1, <1>8
    <3>2. CASE a # b
      BY <3>2, <2>1, <2>3, <1>1, <1>4 DEF Covered
    <3> QED  BY <3>1, <3>2
  <2> QED  BY <2>2, <2>3, <1>3 DEF Covered
<1> QED  BY <1>6, <1>7, <1>9, <1>10, <1>11, <1>12 DEF BotsOK

\* A start that fails leaves what was active; the autostart task will not call this attempt a success
LEMMA StartFailsKeeps ==
    ASSUME BotsOK, NEW p \in BotCallers, StartFails(p)
    PROVE  BotsOK'
<1>1. /\ RuntimeTyped /\ OneAtATime /\ CallersFit /\ InstancesFit /\ StopOwed
      /\ HandlersOwned /\ TradingBotHasRow /\ FillsStoredOnce /\ AutoFits /\ Covered
  BY DEF BotsOK
<1>2. PICK x \in OpType : x = op[p]
  BY <1>1 DEF RuntimeTyped
<1> PICK b \in Bots : b = x.bot
  BY DEF OpType
<1>3. /\ x.pc \in {"preparing", "registered"} /\ activeBots' = activeBots /\ inst' = inst /\ saved' = saved
      /\ raced' = raced /\ halfStopped' = halfStopped /\ process' = process
  BY <1>2 DEF StartFails
<1>4. /\ row' \in [Bots -> {"idle", "running", "stopped", "error", "gone"}]
      /\ \A a \in Bots : /\ row'[a] = "gone" <=> row[a] = "gone"
                         /\ row'[a] = "running" => row[a] = "running"
      /\ \A a \in Bots \ {b} : row'[a] = row[a]
  BY <1>1, <1>2 DEF StartFails, WriteRow, RuntimeTyped, BrTypeOK
<1>5. /\ op' \in [BotCallers -> OpType] /\ op'[p].pc = "idle"
      /\ \A q \in BotCallers \ {p} : op'[q] = op[q]
  BY <1>1, IdleTyped DEF StartFails, RuntimeTyped
<1>6. /\ auto' \in AutoType /\ auto'.phase = auto.phase /\ auto'.todo = auto.todo /\ auto'.attempt = auto.attempt
      /\ (p = Autostart /\ auto'.failed) \/ (p # Autostart /\ auto'.failed = auto.failed)
  <2>1. PICK y \in AutoType : y = auto
    BY <1>1 DEF RuntimeTyped
  <2>2. CASE p = Autostart
    <3>1. auto' = [y EXCEPT !.failed = TRUE]
      BY <2>1, <2>2 DEF StartFails
    <3> QED  BY <2>1, <2>2, <3>1 DEF AutoType
  <2>3. CASE p # Autostart
    BY <2>1, <2>3 DEF StartFails
  <2> QED  BY <2>2, <2>3
<1>7. RuntimeTyped'
  <2>1. BrTypeOK'
    BY <1>1, <1>3, <1>4, <1>5, <1>6 DEF RuntimeTyped, BrTypeOK, OpType
  <2> QED  BY <1>1, <1>3, <1>5, <1>6, <2>1 DEF RuntimeTyped
<1>8. OneAtATime'
  BY <1>1, <1>3, <1>5, OneStays
<1>9. CallersFit'
  <2> SUFFICES ASSUME NEW q \in BotCallers PROVE CallerFits(q)'
    BY DEF CallersFit
  <2>1. CASE q = p
    BY <2>1, <1>5 DEF CallerFits, Stopping
  <2>2. CASE q # p
    <3>1. CallerFits(q) /\ op'[q] = op[q] /\ op[q].bot \in Bots
      BY <1>1, <1>5, <2>2 DEF CallersFit, RuntimeTyped, OpType
    <3> QED  BY <3>1, <1>3, <1>4 DEF CallerFits, Stopping, BotRuns
  <2> QED  BY <2>1, <2>2
<1>10. InstancesFit' /\ HandlersOwned' /\ TradingBotHasRow' /\ FillsStoredOnce'
  BY <1>1, <1>3, <1>4 DEF InstancesFit, HandlersOwned, TradingBotHasRow, FillsStoredOnce, RuntimeTyped, BrTypeOK
<1>11. StopOwed'
  <2>1. \A q \in BotCallers : Stopping(q) => Stopping(q)' /\ op'[q].bot = op[q].bot
    BY <1>2, <1>3, <1>5 DEF Stopping
  <2> QED  BY <2>1, <1>1, <1>3 DEF StopOwed
<1>12. AutoFits'
  <2>1. op[Autostart].pc = "idle" => op'[Autostart].pc = "idle"
    BY <1>2, <1>3, <1>5 DEF BotCallers
  <2>2. p = Autostart => auto.phase = "starting"
    BY <1>1, <1>2, <1>3 DEF AutoFits
  <2> QED  BY <1>1, <1>3, <1>6, <2>1, <2>2 DEF AutoFits
<1>13. Covered'
  <2>1. CASE p = Autostart
    BY <2>1, <1>6 DEF Covered
  <2>2. CASE p # Autostart
    <3>1. op'[Autostart] = op[Autostart]
      BY <2>2, <1>5 DEF BotCallers
    <3> QED  BY <2>2, <3>1, <1>1, <1>3, <1>4, <1>6 DEF Covered
  <2> QED  BY <2>1, <2>2
<1> QED  BY <1>7, <1>8, <1>9, <1>10, <1>11, <1>12, <1>13 DEF BotsOK

-----------------------------------------------------------------------------
(* Stopping and deleting a bot                                             *)

\* A stop begins: the instance no longer trades, and its fills are now owed
LEMMA StopBeginsKeeps ==
    ASSUME BotsOK, NEW p \in BotRequests, NEW b \in Bots, BotStopBegins(p, b)
    PROVE  BotsOK'
<1>0. p \in BotCallers /\ p # Autostart
  BY BotAssumption DEF BotAssumption, BotCallers
<1>1. /\ RuntimeTyped /\ OneAtATime /\ CallersFit /\ InstancesFit /\ StopOwed
      /\ HandlersOwned /\ TradingBotHasRow /\ FillsStoredOnce /\ AutoFits /\ Covered
  BY DEF BotsOK
<1>2. /\ op[p].pc = "idle" /\ activeBots[b] # NoInstance /\ Overlap(p, b)
      /\ row' = row /\ activeBots' = activeBots /\ auto' = auto /\ saved' = saved
      /\ halfStopped' = halfStopped /\ process' = process
  BY DEF BotStopBegins
<1>3. PICK i \in BotInstances : i = activeBots[b]
  BY <1>1, <1>2 DEF RuntimeTyped, BrTypeOK
<1>4. i # NoInstance /\ inst[i].bot = b
  BY <1>1, <1>2, <1>3 DEF InstancesFit
<1>5. /\ inst' \in [BotInstances -> InstType]
      /\ inst'[i].bot = b /\ inst'[i].status = "stopped" /\ ~inst'[i].handler
      /\ \A j \in BotInstances \ {i} : inst'[j] = inst[j]
  <2>1. PICK y \in InstType : y = inst[i]
    BY <1>1 DEF RuntimeTyped, BrTypeOK, InstType
  <2>2. PICK z : z = [y EXCEPT !.status = "stopped", !.handler = FALSE]
    OBVIOUS
  <2>3. z \in InstType /\ z.bot = y.bot /\ z.status = "stopped" /\ ~z.handler
    BY <2>2 DEF InstType
  <2>4. inst' = [inst EXCEPT ![i] = z] /\ inst \in [BotInstances -> InstType]
    BY <1>1, <1>3, <2>1, <2>2 DEF BotStopBegins, Stopped, RuntimeTyped, BrTypeOK, InstType
  <2> QED  BY <1>4, <2>1, <2>3, <2>4
<1> DEFINE c == [pc |-> "stopped", bot |-> b, inst |-> i]
<1>6. c \in OpType /\ op' = [op EXCEPT ![p] = c]
  BY <1>3 DEF OpType, BotStopBegins
<1>7. /\ OneAtATime' /\ raced \subseteq raced' /\ raced' \subseteq Bots
      /\ \A q \in BotCallers \ {p} : op[q].pc # "idle" /\ op[q].bot \notin raced' => op[q].bot # b
      /\ op' \in [BotCallers -> OpType] /\ op'[p] = c
      /\ \A q \in BotCallers \ {p} : op'[q] = op[q]
  BY <1>0, <1>1, <1>2, <1>6, OneBegins
<1> HIDE DEF c
<1>8. c.pc = "stopped" /\ c.bot = b /\ c.inst = i
  BY DEF c
<1>9. RuntimeTyped'
  <2>1. BrTypeOK'
    BY <1>1, <1>2, <1>5, <1>7 DEF RuntimeTyped, BrTypeOK, OpType, InstType
  <2> QED  BY <1>1, <1>2, <1>7, <2>1 DEF RuntimeTyped
<1>10. \A a \in Bots \ {b} : activeBots[a] # NoInstance => activeBots[a] # i
  BY <1>1, <1>4 DEF InstancesFit
<1>11. CallersFit'
  <2> SUFFICES ASSUME NEW q \in BotCallers PROVE CallerFits(q)'
    BY DEF CallersFit
  <2>1. CASE q = p
    BY <2>1, <1>2, <1>3, <1>4, <1>5, <1>7, <1>8 DEF CallerFits, Stopping
  <2>2. CASE q # p
    <3>1. CallerFits(q) /\ op'[q] = op[q]
      BY <1>1, <1>7, <2>2 DEF CallersFit
    <3>2. PICK y \in OpType : y = op[q]
      BY <1>1 DEF RuntimeTyped
    <3>3. Stopping(q) => y.inst # NoInstance /\ y.inst \in BotInstances
                         /\ inst'[y.inst].status = "stopped" /\ inst'[y.inst].bot = y.bot
      BY <3>1, <3>2, <1>4, <1>5 DEF CallerFits, OpType
    <3>4. y.pc # "idle" /\ y.bot \notin raced' => y.bot \in Bots \ {b}
      BY <1>7, <2>2, <3>2 DEF OpType
    <3>5. y.bot \in Bots \ {b} => (BotRuns(y.bot)' <=> BotRuns(y.bot))
      <4>1. SUFFICES ASSUME y.bot \in Bots \ {b} PROVE BotRuns(y.bot)' <=> BotRuns(y.bot)
        OBVIOUS
      <4>2. activeBots[y.bot] \in BotInstances \cup {NoInstance}
        BY <4>1, <1>1 DEF RuntimeTyped, BrTypeOK
      <4> QED  BY <4>1, <4>2, <1>2, <1>5, <1>10 DEF BotRuns
    <3> QED  BY <3>1, <3>2, <3>3, <3>4, <3>5, <1>2, <1>7 DEF CallerFits, Stopping
  <2> QED  BY <2>1, <2>2
<1>12. InstancesFit'
  <2>1. ASSUME NEW a \in Bots, activeBots[a] # NoInstance
        PROVE  inst'[activeBots[a]].bot = a /\ inst'[activeBots[a]].status # "none"
    <3>1. activeBots[a] \in BotInstances
      BY <1>1, <2>1 DEF RuntimeTyped, BrTypeOK
    <3> QED  BY <3>1, <2>1, <1>1, <1>3, <1>5, <1>10 DEF InstancesFit
  <2> QED  BY <2>1, <1>1, <1>2, <1>5, <1>7 DEF InstancesFit
<1>13. StopOwed'
  <2> SUFFICES ASSUME NEW a \in Bots \ (raced' \cup halfStopped), activeBots[a] # NoInstance
               PROVE  /\ saved[activeBots[a]] = 0
                      /\ inst'[activeBots[a]].status = "stopped" => \E q \in BotCallers : Stopping(q)' /\ op'[q].bot = a
    BY <1>2 DEF StopOwed
  <2>1. a \in Bots \ (raced \cup halfStopped) /\ activeBots[a] \in BotInstances
    BY <1>1, <1>7 DEF RuntimeTyped, BrTypeOK
  <2>2. CASE a = b
    BY <2>1, <2>2, <1>0, <1>1, <1>7, <1>8 DEF StopOwed, Stopping
  <2>3. CASE a # b
    <3>1. inst'[activeBots[a]] = inst[activeBots[a]]
      BY <2>1, <2>3, <1>5, <1>10
    <3>2. ASSUME inst[activeBots[a]].status = "stopped"
          PROVE  \E q \in BotCallers : Stopping(q)' /\ op'[q].bot = a
      <4>1. PICK q \in BotCallers : Stopping(q) /\ op[q].bot = a
        BY <1>1, <2>1, <3>2 DEF StopOwed
      <4>2. q # p
        BY <4>1, <1>2 DEF Stopping
      <4> QED  BY <4>1, <4>2, <1>7 DEF Stopping
    <3> QED  BY <2>1, <3>1, <3>2, <1>1 DEF StopOwed
  <2> QED  BY <2>2, <2>3
<1>14. HandlersOwned' /\ TradingBotHasRow'
  BY <1>1, <1>2, <1>5, <1>7 DEF HandlersOwned, TradingBotHasRow
<1>15. FillsStoredOnce'
  BY <1>1, <1>2, <1>3, <1>5, <1>7 DEF FillsStoredOnce
<1>16. AutoFits' /\ Covered'
  <2>1. op'[Autostart] = op[Autostart]
    BY <1>0, <1>7 DEF BotCallers
  <2> QED  BY <2>1, <1>1, <1>2, <1>7 DEF AutoFits, Covered
<1> QED  BY <1>9, <1>7, <1>11, <1>12, <1>13, <1>14, <1>15, <1>16 DEF BotsOK

\* The row is told of the stop before the fills are stored
LEMMA StopPersistsKeeps ==
    ASSUME BotsOK, NEW p \in BotRequests, StopPersists(p)
    PROVE  BotsOK'
<1>0. p \in BotCallers /\ p # Autostart
  BY BotAssumption DEF BotAssumption, BotCallers
<1>1. /\ RuntimeTyped /\ OneAtATime /\ CallersFit /\ InstancesFit /\ StopOwed
      /\ HandlersOwned /\ TradingBotHasRow /\ FillsStoredOnce /\ AutoFits /\ Covered
  BY DEF BotsOK
<1>2. PICK x \in OpType : x = op[p]
  BY <1>0, <1>1 DEF RuntimeTyped
<1> PICK b \in Bots : b = x.bot
  BY DEF OpType
<1>3. /\ x.pc = "stopped" /\ activeBots' = activeBots /\ inst' = inst /\ auto' = auto /\ saved' = saved
      /\ raced' = raced /\ halfStopped' = halfStopped /\ process' = process
  BY <1>2 DEF StopPersists
<1>4. /\ row' \in [Bots -> {"idle", "running", "stopped", "error", "gone"}]
      /\ row'[b] = "gone" <=> row[b] = "gone"
      /\ row'[b] # "running"
      /\ \A a \in Bots \ {b} : row'[a] = row[a]
  BY <1>1, <1>2 DEF StopPersists, WriteRow, RuntimeTyped, BrTypeOK
<1>5. /\ op' \in [BotCallers -> OpType]
      /\ op'[p].pc = "saving" /\ op'[p].bot = b /\ op'[p].inst = x.inst
      /\ \A q \in BotCallers \ {p} : op'[q] = op[q]
  <2>1. PICK z : z = [x EXCEPT !.pc = "saving"]
    OBVIOUS
  <2>2. z \in OpType /\ z.pc = "saving" /\ z.bot = b /\ z.inst = x.inst
    BY <2>1 DEF OpType
  <2>3. op' = [op EXCEPT ![p] = z]
    BY <1>0, <1>1, <1>2, <2>1 DEF RuntimeTyped, StopPersists, Moves
  <2> QED  BY <1>0, <1>1, <2>2, <2>3 DEF RuntimeTyped
<1>6. RuntimeTyped'
  <2>1. BrTypeOK'
    BY <1>1, <1>3, <1>4, <1>5 DEF RuntimeTyped, BrTypeOK, OpType
  <2> QED  BY <1>1, <1>3, <1>5, <2>1 DEF RuntimeTyped
<1>7. OneAtATime'
  <2>1. \A q \in BotCallers : op'[q].pc # "idle" => op[q].pc # "idle" /\ op'[q].bot = op[q].bot
    BY <1>2, <1>3, <1>5
  <2> QED  BY <1>1, <1>3, <2>1, OneStays
<1>8. CallerFits(p) /\ (b \notin raced => \A q \in BotCallers \ {p} : op[q].pc # "idle" => op[q].bot # b)
  BY <1>0, <1>1, <1>2, <1>3 DEF CallersFit, OneAtATime
<1>9. CallersFit'
  <2> SUFFICES ASSUME NEW q \in BotCallers PROVE CallerFits(q)'
    BY DEF CallersFit
  <2>1. CASE q = p
    BY <2>1, <1>2, <1>3, <1>4, <1>5, <1>8 DEF CallerFits, Stopping
  <2>2. CASE q # p
    <3>1. CallerFits(q) /\ op'[q] = op[q] /\ op[q].bot \in Bots
      BY <1>1, <1>5, <2>2 DEF CallersFit, RuntimeTyped, OpType
    <3>2. op[q].pc # "idle" /\ op[q].bot \notin raced => row'[op[q].bot] = row[op[q].bot]
      BY <3>1, <1>4, <1>8, <2>2
    <3> QED  BY <3>1, <3>2, <1>3 DEF CallerFits, Stopping, BotRuns
  <2> QED  BY <2>1, <2>2
<1>10. InstancesFit' /\ HandlersOwned' /\ TradingBotHasRow' /\ FillsStoredOnce'
  <2>1. \A a \in Bots : row'[a] = "gone" <=> row[a] = "gone"
    BY <1>4
  <2> QED  BY <2>1, <1>1, <1>3 DEF InstancesFit, HandlersOwned, TradingBotHasRow, FillsStoredOnce, RuntimeTyped, BrTypeOK
<1>11. StopOwed'
  <2>1. \A q \in BotCallers : Stopping(q) => Stopping(q)' /\ op'[q].bot = op[q].bot
    BY <1>2, <1>5 DEF Stopping
  <2> QED  BY <2>1, <1>1, <1>3 DEF StopOwed
<1>12. AutoFits' /\ Covered'
  <2>1. op'[Autostart] = op[Autostart]
    BY <1>0, <1>5 DEF BotCallers
  <2> QED  BY <2>1, <1>1, <1>3, <1>4 DEF AutoFits, Covered
<1> QED  BY <1>6, <1>7, <1>9, <1>10, <1>11, <1>12 DEF BotsOK

\* A stop comes to its end: the fills are stored, and the instance is given up
LEMMA StopEndsKeeps ==
    ASSUME BotsOK, NEW p \in BotRequests, BotStopEnds(p)
    PROVE  BotsOK'
<1>0. p \in BotCallers /\ p # Autostart
  BY BotAssumption DEF BotAssumption, BotCallers
<1>1. /\ RuntimeTyped /\ OneAtATime /\ CallersFit /\ InstancesFit /\ StopOwed
      /\ HandlersOwned /\ TradingBotHasRow /\ FillsStoredOnce /\ AutoFits /\ Covered
  BY DEF BotsOK
<1>2. PICK x \in OpType : x = op[p]
  BY <1>0, <1>1 DEF RuntimeTyped
<1> PICK b \in Bots : b = x.bot
  BY DEF OpType
<1>3. /\ x.pc = "saving" /\ row' = row /\ inst' = inst /\ auto' = auto
      /\ raced' = raced /\ halfStopped' = halfStopped /\ process' = process
  BY <1>2 DEF BotStopEnds
<1>4. CallerFits(p) /\ (b \notin raced => \A q \in BotCallers \ {p} : op[q].pc # "idle" => op[q].bot # b)
  BY <1>0, <1>1, <1>2, <1>3 DEF CallersFit, OneAtATime
<1>5. PICK i \in BotInstances : i = x.inst
  BY <1>2, <1>3, <1>4 DEF CallerFits, Stopping, OpType
<1>6. /\ i # NoInstance /\ inst[i].status = "stopped" /\ inst[i].bot = b
      /\ b \notin raced => activeBots[b] = i /\ row[b] # "running"
  BY <1>2, <1>3, <1>4, <1>5 DEF CallerFits, Stopping
<1>7. /\ activeBots' \in [Bots -> BotInstances \cup {NoInstance}] /\ activeBots'[b] = NoInstance
      /\ \A a \in Bots \ {b} : activeBots'[a] = activeBots[a]
  BY <1>1, <1>2 DEF BotStopEnds, RuntimeTyped, BrTypeOK
<1>8. /\ op' \in [BotCallers -> OpType] /\ op'[p].pc = "idle"
      /\ \A q \in BotCallers \ {p} : op'[q] = op[q]
  BY <1>0, <1>1, IdleTyped DEF BotStopEnds, RuntimeTyped
<1>9. /\ saved' \in [BotInstances -> Nat]
      /\ \A j \in BotInstances \ {i} : saved'[j] = saved[j]
      /\ row[b] # "gone" => saved'[i] = saved[i] + 1
  BY <1>1, <1>2, <1>5 DEF BotStopEnds, SaveFills, RuntimeTyped, BrTypeOK
<1>10. RuntimeTyped'
  <2>1. BrTypeOK'
    BY <1>1, <1>3, <1>7, <1>8, <1>9 DEF RuntimeTyped, BrTypeOK, OpType
  <2> QED  BY <1>1, <1>3, <1>8, <2>1 DEF RuntimeTyped
<1>11. OneAtATime'
  BY <1>1, <1>3, <1>8, OneStays
<1>12. CallersFit'
  <2> SUFFICES ASSUME NEW q \in BotCallers PROVE CallerFits(q)'
    BY DEF CallersFit
  <2>1. CASE q = p
    BY <2>1, <1>8 DEF CallerFits, Stopping
  <2>2. CASE q # p
    <3>1. CallerFits(q) /\ op'[q] = op[q] /\ op[q].bot \in Bots
      BY <1>1, <1>8, <2>2 DEF CallersFit, RuntimeTyped, OpType
    <3>2. op[q].pc # "idle" /\ op[q].bot \notin raced => activeBots'[op[q].bot] = activeBots[op[q].bot]
      BY <3>1, <1>4, <1>7, <2>2
    <3> QED  BY <3>1, <3>2, <1>3 DEF CallerFits, Stopping, BotRuns
  <2> QED  BY <2>1, <2>2
<1>13. \A a \in Bots : activeBots'[a] # NoInstance => a # b /\ activeBots'[a] = activeBots[a]
  BY <1>7
<1>14. \A a \in Bots \ {b} : activeBots[a] # NoInstance => activeBots[a] \in BotInstances \ {i}
  BY <1>1, <1>6 DEF InstancesFit, RuntimeTyped, BrTypeOK
<1>15. InstancesFit'
  <2>1. \A j \in BotInstances : inst[j].status = "none" => saved'[j] = 0
    BY <1>1, <1>6, <1>9 DEF InstancesFit
  <2> QED  BY <2>1, <1>1, <1>3, <1>13 DEF InstancesFit
<1>16. StopOwed'
  <2> SUFFICES ASSUME NEW a \in Bots \ (raced \cup halfStopped), activeBots'[a] # NoInstance
               PROVE  /\ saved'[activeBots'[a]] = 0
                      /\ inst[activeBots'[a]].status = "stopped" => \E q \in BotCallers : Stopping(q)' /\ op'[q].bot = a
    BY <1>3 DEF StopOwed
  <2>1. a # b /\ activeBots'[a] = activeBots[a] /\ activeBots[a] \in BotInstances \ {i}
    BY <1>13, <1>14
  <2>2. ASSUME inst[activeBots[a]].status = "stopped"
        PROVE  \E q \in BotCallers : Stopping(q)' /\ op'[q].bot = a
    <3>1. PICK q \in BotCallers : Stopping(q) /\ op[q].bot = a
      BY <1>1, <1>13, <2>1, <2>2 DEF StopOwed
    <3>2. q # p
      BY <3>1, <2>1, <1>2
    <3> QED  BY <3>1, <3>2, <1>8 DEF Stopping
  <2> QED  BY <2>1, <2>2, <1>1, <1>9, <1>13 DEF StopOwed
<1>17. HandlersOwned' /\ TradingBotHasRow'
  <2>1. ASSUME NEW j \in BotInstances, inst[j].handler, inst[j].bot \notin raced
        PROVE  inst[j].bot \in Bots \ {b}
    <3>1. inst[j].bot \in Bots /\ activeBots[inst[j].bot] = j /\ inst[j].status = "running"
      BY <2>1, <1>1 DEF RuntimeTyped, BrTypeOK, HandlersOwned, InstancesFit
    <3> QED  BY <2>1, <3>1, <1>6
  <2> QED  BY <2>1, <1>1, <1>3, <1>7 DEF HandlersOwned, TradingBotHasRow
<1>18. FillsStoredOnce'
  <2> SUFFICES ASSUME NEW j \in BotInstances, inst[j].status = "stopped",
                      inst[j].bot \notin raced \cup halfStopped, activeBots'[inst[j].bot] # j
               PROVE  saved'[j] = 1
    BY <1>3 DEF FillsStoredOnce
  <2>1. inst[j].bot \in Bots
    BY <1>1 DEF RuntimeTyped, BrTypeOK
  <2>2. CASE j = i
    <3>1. activeBots[b] = i /\ saved[i] = 0 /\ row[b] # "gone"
      BY <2>2, <1>1, <1>6 DEF StopOwed, InstancesFit
    <3> QED  BY <2>2, <3>1, <1>9
  <2>3. CASE j # i
    <3>1. activeBots[inst[j].bot] # j
      BY <2>1, <2>3, <1>6, <1>7
    <3> QED  BY <2>3, <3>1, <1>1, <1>9 DEF FillsStoredOnce
  <2> QED  BY <2>2, <2>3
<1>19. AutoFits' /\ Covered'
  <2>1. op'[Autostart] = op[Autostart]
    BY <1>0, <1>8 DEF BotCallers
  <2> QED  BY <2>1, <1>1, <1>3, <1>6, <1>7 DEF AutoFits, Covered
<1> QED  BY <1>10, <1>11, <1>12, <1>15, <1>16, <1>17, <1>18, <1>19 DEF BotsOK

\* A stop that fails leaves the stopped instance active, and is on record
LEMMA StopFailsKeeps ==
    ASSUME BotsOK, NEW p \in BotRequests, StopFails(p)
    PROVE  BotsOK'
<1>0. p \in BotCallers /\ p # Autostart
  BY BotAssumption DEF BotAssumption, BotCallers
<1>1. /\ RuntimeTyped /\ OneAtATime /\ CallersFit /\ InstancesFit /\ StopOwed
      /\ HandlersOwned /\ TradingBotHasRow /\ FillsStoredOnce /\ AutoFits /\ Covered
  BY DEF BotsOK
<1>2. PICK x \in OpType : x = op[p]
  BY <1>0, <1>1 DEF RuntimeTyped
<1> PICK b \in Bots : b = x.bot
  BY DEF OpType
<1>3. /\ x.pc \in {"stopped", "saving"} /\ row' = row /\ activeBots' = activeBots /\ inst' = inst /\ auto' = auto
      /\ raced' = raced /\ halfStopped' = halfStopped \cup {b} /\ process' = process
  BY <1>2 DEF StopFails
<1>4. CallerFits(p)
  BY <1>0, <1>1 DEF CallersFit
<1>5. PICK i \in BotInstances : i = x.inst
  BY <1>2, <1>3, <1>4 DEF CallerFits, Stopping, OpType
<1>6. inst[i].status = "stopped" /\ inst[i].bot = b
  BY <1>2, <1>3, <1>4, <1>5 DEF CallerFits, Stopping
<1>7. /\ op' \in [BotCallers -> OpType] /\ op'[p].pc = "idle"
      /\ \A q \in BotCallers \ {p} : op'[q] = op[q]
  BY <1>0, <1>1, IdleTyped DEF StopFails, RuntimeTyped
<1>8. /\ saved' \in [BotInstances -> Nat]
      /\ \A j \in BotInstances \ {i} : saved'[j] = saved[j]
  BY <1>1, <1>2, <1>5 DEF StopFails, SaveFills, RuntimeTyped, BrTypeOK
<1>9. RuntimeTyped'
  <2>1. BrTypeOK'
    BY <1>1, <1>3, <1>7, <1>8 DEF RuntimeTyped, BrTypeOK, OpType
  <2> QED  BY <1>1, <1>3, <1>7, <2>1 DEF RuntimeTyped
<1>10. OneAtATime'
  BY <1>1, <1>3, <1>7, OneStays
<1>11. CallersFit'
  <2> SUFFICES ASSUME NEW q \in BotCallers PROVE CallerFits(q)'
    BY DEF CallersFit
  <2>1. CASE q = p
    BY <2>1, <1>7 DEF CallerFits, Stopping
  <2>2. CASE q # p
    BY <2>2, <1>1, <1>3, <1>7 DEF CallersFit, CallerFits, Stopping, BotRuns
  <2> QED  BY <2>1, <2>2
<1>12. InstancesFit' /\ HandlersOwned' /\ TradingBotHasRow'
  <2>1. \A j \in BotInstances : inst[j].status = "none" => saved'[j] = 0
    BY <1>1, <1>6, <1>8 DEF InstancesFit
  <2> QED  BY <2>1, <1>1, <1>3 DEF InstancesFit, HandlersOwned, TradingBotHasRow
<1>13. StopOwed'
  <2> SUFFICES ASSUME NEW a \in Bots \ (raced \cup halfStopped), a # b, activeBots[a] # NoInstance
               PROVE  /\ saved'[activeBots[a]] = 0
                      /\ inst[activeBots[a]].status = "stopped" => \E q \in BotCallers : Stopping(q)' /\ op'[q].bot = a
    BY <1>3 DEF StopOwed
  <2>1. activeBots[a] \in BotInstances \ {i}
    BY <1>1, <1>6 DEF InstancesFit, RuntimeTyped, BrTypeOK
  <2>2. ASSUME inst[activeBots[a]].status = "stopped"
        PROVE  \E q \in BotCallers : Stopping(q)' /\ op'[q].bot = a
    <3>1. PICK q \in BotCallers : Stopping(q) /\ op[q].bot = a
      BY <1>1, <2>2 DEF StopOwed
    <3>2. q # p
      BY <3>1, <1>2
    <3> QED  BY <3>1, <3>2, <1>7 DEF Stopping
  <2> QED  BY <2>1, <2>2, <1>1, <1>8 DEF StopOwed
<1>14. FillsStoredOnce'
  BY <1>1, <1>3, <1>6, <1>8 DEF FillsStoredOnce
<1>15. AutoFits' /\ Covered'
  <2>1. op'[Autostart] = op[Autostart]
    BY <1>0, <1>7 DEF BotCallers
  <2> QED  BY <2>1, <1>1, <1>3 DEF AutoFits, Covered
<1> QED  BY <1>9, <1>10, <1>11, <1>12, <1>13, <1>14, <1>15 DEF BotsOK

\* A deletion begins for a bot that is not active
LEMMA DeleteBeginsKeeps ==
    ASSUME BotsOK, NEW p \in BotRequests, NEW b \in Bots, DeleteBegins(p, b)
    PROVE  BotsOK'
<1>0. p \in BotCallers /\ p # Autostart
  BY BotAssumption DEF BotAssumption, BotCallers
<1>1. /\ RuntimeTyped /\ OneAtATime /\ CallersFit /\ InstancesFit /\ StopOwed
      /\ HandlersOwned /\ TradingBotHasRow /\ FillsStoredOnce /\ AutoFits /\ Covered
  BY DEF BotsOK
<1>2. /\ op[p].pc = "idle" /\ activeBots[b] = NoInstance /\ Overlap(p, b)
      /\ row' = row /\ activeBots' = activeBots /\ inst' = inst /\ auto' = auto /\ saved' = saved
      /\ halfStopped' = halfStopped /\ process' = process
  BY DEF DeleteBegins, MayDelete
<1>3. PICK c : c = [pc |-> "deleting", bot |-> b, inst |-> NoInstance]
  OBVIOUS
<1>4. c \in OpType /\ c.bot = b /\ c.pc = "deleting" /\ op' = [op EXCEPT ![p] = c]
  BY <1>3 DEF OpType, DeleteBegins
<1>5. /\ OneAtATime' /\ raced \subseteq raced' /\ raced' \subseteq Bots
      /\ op' \in [BotCallers -> OpType] /\ op'[p] = c
      /\ \A q \in BotCallers \ {p} : op'[q] = op[q]
  BY <1>0, <1>1, <1>2, <1>4, OneBegins
<1>6. RuntimeTyped'
  <2>1. BrTypeOK'
    BY <1>1, <1>2, <1>5 DEF RuntimeTyped, BrTypeOK, OpType
  <2> QED  BY <1>1, <1>2, <1>5, <2>1 DEF RuntimeTyped
<1>7. CallersFit'
  <2> SUFFICES ASSUME NEW q \in BotCallers PROVE CallerFits(q)'
    BY DEF CallersFit
  <2>1. CASE q = p
    BY <2>1, <1>2, <1>4, <1>5 DEF CallerFits, Stopping
  <2>2. CASE q # p
    BY <2>2, <1>1, <1>2, <1>5 DEF CallersFit, CallerFits, Stopping, BotRuns
  <2> QED  BY <2>1, <2>2
<1>8. InstancesFit' /\ HandlersOwned' /\ TradingBotHasRow' /\ FillsStoredOnce'
  BY <1>1, <1>2, <1>5 DEF InstancesFit, HandlersOwned, TradingBotHasRow, FillsStoredOnce
<1>9. StopOwed'
  <2>1. \A q \in BotCallers : Stopping(q) => Stopping(q)' /\ op'[q].bot = op[q].bot
    BY <1>2, <1>5 DEF Stopping
  <2> QED  BY <2>1, <1>1, <1>2, <1>5 DEF StopOwed
<1>10. AutoFits' /\ Covered'
  <2>1. op'[Autostart] = op[Autostart]
    BY <1>0, <1>5 DEF BotCallers
  <2> QED  BY <2>1, <1>1, <1>2, <1>5 DEF AutoFits, Covered
<1> QED  BY <1>5, <1>6, <1>7, <1>8, <1>9, <1>10 DEF BotsOK

\* The row goes, and nothing is active for it
LEMMA DeleteEndsKeeps ==
    ASSUME BotsOK, NEW p \in BotRequests, DeleteEnds(p)
    PROVE  BotsOK'
<1>0. p \in BotCallers /\ p # Autostart
  BY BotAssumption DEF BotAssumption, BotCallers
<1>1. /\ RuntimeTyped /\ OneAtATime /\ CallersFit /\ InstancesFit /\ StopOwed
      /\ HandlersOwned /\ TradingBotHasRow /\ FillsStoredOnce /\ AutoFits /\ Covered
  BY DEF BotsOK
<1>2. PICK x \in OpType : x = op[p]
  BY <1>0, <1>1 DEF RuntimeTyped
<1> PICK b \in Bots : b = x.bot
  BY DEF OpType
<1>3. /\ x.pc = "deleting" /\ activeBots' = activeBots /\ inst' = inst /\ auto' = auto /\ saved' = saved
      /\ raced' = raced /\ halfStopped' = halfStopped /\ process' = process
  BY <1>2 DEF DeleteEnds
<1>4. /\ row' \in [Bots -> {"idle", "running", "stopped", "error", "gone"}] /\ row'[b] = "gone"
      /\ \A a \in Bots \ {b} : row'[a] = row[a]
  BY <1>1, <1>2 DEF DeleteEnds, RuntimeTyped, BrTypeOK
<1>5. /\ op' \in [BotCallers -> OpType] /\ op'[p].pc = "idle"
      /\ \A q \in BotCallers \ {p} : op'[q] = op[q]
  BY <1>0, <1>1, IdleTyped DEF DeleteEnds, RuntimeTyped
<1>6. b \notin raced => /\ activeBots[b] = NoInstance
                        /\ \A q \in BotCallers \ {p} : op[q].pc # "idle" => op[q].bot # b
  BY <1>0, <1>1, <1>2, <1>3 DEF CallersFit, CallerFits, OneAtATime
<1>7. RuntimeTyped'
  <2>1. BrTypeOK'
    BY <1>1, <1>3, <1>4, <1>5 DEF RuntimeTyped, BrTypeOK, OpType
  <2> QED  BY <1>1, <1>3, <1>5, <2>1 DEF RuntimeTyped
<1>8. OneAtATime'
  BY <1>1, <1>3, <1>5, OneStays
<1>9. CallersFit'
  <2> SUFFICES ASSUME NEW q \in BotCallers PROVE CallerFits(q)'
    BY DEF CallersFit
  <2>1. CASE q = p
    BY <2>1, <1>5 DEF CallerFits, Stopping
  <2>2. CASE q # p
    <3>1. CallerFits(q) /\ op'[q] = op[q] /\ op[q].bot \in Bots
      BY <1>1, <1>5, <2>2 DEF CallersFit, RuntimeTyped, OpType
    <3>2. op[q].pc # "idle" /\ op[q].bot \notin raced => row'[op[q].bot] = row[op[q].bot]
      BY <3>1, <1>4, <1>6, <2>2
    <3> QED  BY <3>1, <3>2, <1>3 DEF CallerFits, Stopping, BotRuns
  <2> QED  BY <2>1, <2>2
<1>10. InstancesFit' /\ HandlersOwned' /\ FillsStoredOnce'
  BY <1>1, <1>3, <1>4, <1>6 DEF InstancesFit, HandlersOwned, FillsStoredOnce
<1>11. TradingBotHasRow'
  <2> SUFFICES ASSUME NEW j \in BotInstances, inst[j].handler, inst[j].bot \notin raced
               PROVE  row'[inst[j].bot] # "gone"
    BY <1>3 DEF TradingBotHasRow
  <2>1. inst[j].bot \in Bots /\ activeBots[inst[j].bot] = j /\ j # NoInstance
    BY <1>1 DEF RuntimeTyped, BrTypeOK, HandlersOwned, BotInstances, NoInstance
  <2> QED  BY <2>1, <1>1, <1>4, <1>6 DEF TradingBotHasRow
<1>12. StopOwed'
  <2>1. \A q \in BotCallers : Stopping(q) => Stopping(q)' /\ op'[q].bot = op[q].bot
    BY <1>2, <1>3, <1>5 DEF Stopping
  <2> QED  BY <2>1, <1>1, <1>3 DEF StopOwed
<1>13. AutoFits' /\ Covered'
  <2>1. op'[Autostart] = op[Autostart]
    BY <1>0, <1>5 DEF BotCallers
  <2> QED  BY <2>1, <1>1, <1>3, <1>4 DEF AutoFits, Covered
<1> QED  BY <1>7, <1>8, <1>9, <1>10, <1>11, <1>12, <1>13 DEF BotsOK

-----------------------------------------------------------------------------
(* The autostart task and the process                                      *)

\* A step that only moves the autostart task on keeps the rest
LEMMA AutoKeeps ==
    ASSUME BotsOK, auto' \in AutoType, AutoFits', Covered', UNCHANGED process,
           UNCHANGED <<row, activeBots, inst, op, saved, raced, halfStopped>>
    PROVE  BotsOK'
<1>1. /\ RuntimeTyped /\ OneAtATime /\ CallersFit /\ InstancesFit /\ StopOwed
      /\ HandlersOwned /\ TradingBotHasRow /\ FillsStoredOnce
  BY DEF BotsOK
<1>2. BrTypeOK'
  BY <1>1 DEF RuntimeTyped, BrTypeOK, AutoType
<1>3. RuntimeTyped'
  BY <1>1, <1>2 DEF RuntimeTyped
<1>4. OneAtATime' /\ CallersFit' /\ InstancesFit' /\ StopOwed'
  BY <1>1 DEF OneAtATime, CallersFit, CallerFits, Stopping, BotRuns, InstancesFit, StopOwed
<1>5. HandlersOwned' /\ TradingBotHasRow' /\ FillsStoredOnce'
  BY <1>1 DEF HandlersOwned, TradingBotHasRow, FillsStoredOnce
<1> QED  BY <1>3, <1>4, <1>5 DEF BotsOK

\* Every step of the autostart task
LEMMA AutoStepKeeps == BotsOK /\ process.up /\ AutoStep => BotsOK'
<1> SUFFICES ASSUME BotsOK, process.up, AutoStep PROVE BotsOK'
  OBVIOUS
<1>1. RuntimeTyped /\ AutoFits /\ Covered
  BY DEF BotsOK
<1>2. PICK y \in AutoType : y = auto
  BY <1>1 DEF RuntimeTyped
<1>3. CASE AutoWakes
  <2>1. PICK z : z = [y EXCEPT !.phase = "listing", !.attempt = @ + 1, !.failed = FALSE]
    OBVIOUS
  <2>2. z = auto' /\ UNCHANGED process
    BY <1>2, <1>3, <2>1 DEF AutoWakes
  <2>3. y.attempt < MaxAttempts
    BY <1>1, <1>2, <1>3, BotAssumption DEF AutoWakes, AutoFits, BotAssumption
  <2>4. z \in AutoType /\ z.phase = "listing"
    <3>1. y.attempt + 1 \in 0..MaxAttempts
      BY <2>3, BotAssumption DEF AutoType, BotAssumption
    <3> QED  BY <2>1, <3>1 DEF AutoType, Phases
  <2>5. op[Autostart].pc = "idle"
    BY <1>1, <1>3 DEF AutoWakes, AutoFits
  <2>6. AutoFits' /\ Covered'
    BY <1>3, <2>2, <2>4, <2>5 DEF AutoWakes, AutoFits, Covered
  <2> QED  BY <1>3, <2>2, <2>4, <2>6, AutoKeeps DEF AutoWakes
<1>4. CASE AutoLists
  <2>1. op[Autostart].pc = "idle" /\ UNCHANGED <<op, process, row, activeBots, raced>>
    BY <1>1, <1>4 DEF AutoLists, AutoFits
  <2>2. CASE auto' = [auto EXCEPT !.phase = "starting", !.todo = Listed]
    <3>1. PICK z : z = [y EXCEPT !.phase = "starting", !.todo = Listed]
      OBVIOUS
    <3>2. z \in AutoType /\ z.phase = "starting" /\ z.todo = Listed
      BY <3>1 DEF AutoType, Phases, Listed
    <3>3. AutoFits' /\ Covered'
      BY <1>2, <2>1, <2>2, <3>1, <3>2 DEF AutoFits, Covered, Listed
    <3> QED  BY <1>2, <1>4, <2>2, <3>1, <3>2, <3>3, AutoKeeps DEF AutoLists
  <2>3. CASE AutoReaches("failed")
    <3>1. PICK z : z = [y EXCEPT !.phase = "failed"]
      OBVIOUS
    <3>2. z \in AutoType /\ z.phase = "failed"
      BY <3>1 DEF AutoType, Phases
    <3>3. auto' = z
      BY <1>2, <2>3, <3>1 DEF AutoReaches
    <3>4. AutoFits' /\ Covered'
      BY <2>1, <3>2, <3>3 DEF AutoFits, Covered
    <3> QED  BY <1>4, <3>2, <3>3, <3>4, AutoKeeps DEF AutoLists
  <2> QED  BY <1>4, <2>2, <2>3 DEF AutoLists
<1>5. ASSUME NEW b \in Bots, AutoStarts(b), op[Autostart].pc = "idle" PROVE BotsOK'
  <2>1. PICK z : z = [y EXCEPT !.todo = RestToDo(b), !.failed = @ \/ row[b] = "gone"]
    OBVIOUS
  <2>2. auto' = z /\ StartBegins(Autostart, b) /\ y.phase = "starting"
    BY <1>2, <1>5, <2>1 DEF AutoStarts
  <2>3. /\ z \in AutoType /\ z.phase = "starting" /\ z.todo = y.todo \ {b}
        /\ z.failed = (y.failed \/ row[b] = "gone")
    BY <1>2, <2>1, <2>2 DEF AutoType, RestToDo
  <2>4. AutoFits'
    BY <2>2, <2>3, <1>1 DEF AutoFits, StartBegins
  <2> QED  BY <1>2, <2>2, <2>3, <2>4, StartBeginsKeeps DEF BotCallers
<1>6. CASE AutoAttemptEnds
  <2>1. PICK z : z = [y EXCEPT !.phase = AfterAttempt]
    OBVIOUS
  <2>2. /\ auto' = z /\ y.phase = "starting" /\ y.todo = {} /\ op[Autostart].pc = "idle"
        /\ UNCHANGED <<row, activeBots, inst, op, process, saved, raced, halfStopped>>
    BY <1>2, <1>6, <2>1 DEF AutoAttemptEnds, AutoReaches
  <2>3. /\ z \in AutoType /\ z.phase = AfterAttempt /\ z.todo = {} /\ z.failed = y.failed /\ z.attempt = y.attempt
    BY <2>1, <2>2 DEF AutoType, Phases, AfterAttempt
  <2>4. AutoFits'
    BY <1>1, <1>2, <2>2, <2>3 DEF AutoFits, AfterAttempt
  <2>5. Covered'
    BY <1>1, <1>2, <2>2, <2>3 DEF Covered, AfterAttempt
  <2> QED  BY <2>2, <2>3, <2>4, <2>5, AutoKeeps
<1> QED  BY <1>3, <1>4, <1>5, <1>6 DEF AutoStep

\* A restart forgets the bots in memory and nobody waits for them any more
LEMMA BootKeeps == BotsOK /\ Boot => BotsOK'
<1> SUFFICES ASSUME BotsOK, Boot PROVE BotsOK'
  OBVIOUS
<1>1. /\ RuntimeTyped /\ OneAtATime /\ CallersFit /\ InstancesFit /\ StopOwed
      /\ HandlersOwned /\ TradingBotHasRow /\ FillsStoredOnce /\ AutoFits
  BY DEF BotsOK
<1>2. UNCHANGED <<row, activeBots, inst, op, saved, raced, halfStopped>> /\ op[Autostart].pc = "idle"
  BY <1>1 DEF Boot, AutoFits
<1>3. process'.up /\ auto' \in AutoType /\ auto'.phase \in {"waiting", "off"} /\ auto'.attempt = 0
  BY BotAssumption DEF Boot, BotAssumption, AutoType, Phases
<1>4. AutoFits' /\ Covered'
  BY <1>2, <1>3 DEF AutoFits, Covered
<1>5. BrTypeOK'
  BY <1>1, <1>2, <1>3 DEF RuntimeTyped, BrTypeOK, AutoType
<1>6. RuntimeTyped'
  BY <1>1, <1>2, <1>3, <1>5 DEF RuntimeTyped
<1>7. OneAtATime' /\ CallersFit' /\ InstancesFit' /\ StopOwed'
  BY <1>1, <1>2 DEF OneAtATime, CallersFit, CallerFits, Stopping, BotRuns, InstancesFit, StopOwed
<1>8. HandlersOwned' /\ TradingBotHasRow' /\ FillsStoredOnce'
  BY <1>1, <1>2 DEF HandlersOwned, TradingBotHasRow, FillsStoredOnce
<1> QED  BY <1>4, <1>6, <1>7, <1>8 DEF BotsOK

\* What a restart leaves behind is consistent: nothing is active, and nothing is owed
LEMMA DownKeeps == BotsOK /\ Down => BotsOK'
<1> SUFFICES ASSUME BotsOK, Down PROVE BotsOK'
  OBVIOUS
<1>1. RuntimeTyped
  BY DEF BotsOK
<1>2. PICK c \in Bots : c = (CHOOSE b \in Bots : TRUE)
  BY BotAssumption DEF BotAssumption
<1>3. /\ \A i \in BotInstances : inst'[i].status = "none" /\ ~inst'[i].handler /\ inst'[i].bot = c
      /\ inst' \in [BotInstances -> InstType]
  BY <1>2 DEF Down, LosesMemory, NoBot, InstType
<1>4. op' \in [BotCallers -> OpType] /\ \A p \in BotCallers : op'[p].pc = "idle"
  BY IdleTyped DEF Down, LosesMemory
<1>5. auto' \in AutoType /\ auto'.phase = "cancelled"
  <2>1. PICK y \in AutoType : y = auto
    BY <1>1 DEF RuntimeTyped
  <2>2. auto' = [y EXCEPT !.phase = "cancelled"]
    BY <2>1 DEF Down
  <2> QED  BY <2>2 DEF AutoType, Phases
<1>6. /\ row' \in [Bots -> {"idle", "running", "stopped", "error", "gone"}]
      /\ activeBots' \in [Bots -> {NoInstance}]
      /\ saved' \in [BotInstances -> {0}] /\ raced' = {} /\ halfStopped' = {}
  BY <1>1 DEF Down, LosesMemory, RuntimeTyped, BrTypeOK
<1>7. RuntimeTyped'
  <2>1. \A p \in BotCallers : op'[p].pc \in {"idle", "preparing", "registered", "stopped", "saving", "deleting"}
    BY <1>4
  <2>2. BrTypeOK'
    BY <1>3, <1>5, <1>6, <2>1 DEF BrTypeOK, InstType, AutoType
  <2> QED  BY <1>4, <1>5, <1>6, <2>2 DEF RuntimeTyped
<1>8. OneAtATime' /\ CallersFit'
  BY <1>4 DEF OneAtATime, CallersFit, CallerFits, Stopping
<1>9. InstancesFit' /\ StopOwed'
  BY <1>3, <1>6 DEF InstancesFit, StopOwed
<1>10. HandlersOwned' /\ TradingBotHasRow' /\ FillsStoredOnce'
  BY <1>3 DEF HandlersOwned, TradingBotHasRow, FillsStoredOnce
<1>11. AutoFits' /\ Covered'
  BY <1>4, <1>5 DEF AutoFits, Covered, BotCallers
<1> QED  BY <1>7, <1>8, <1>9, <1>10, <1>11 DEF BotsOK

\* Every step preserves the invariant
LEMMA BotsStay == BotsOK /\ [BrNext]_brVars => BotsOK'
<1> SUFFICES ASSUME BotsOK, [BrNext]_brVars PROVE BotsOK'
  OBVIOUS
<1>1. ASSUME process.up, NEW p \in BotRequests, BrRequest(p) PROVE BotsOK'
  <2>1. CASE \E b \in Bots : BotStopBegins(p, b)
    BY <2>1, StopBeginsKeeps
  <2>2. CASE \E b \in Bots : DeleteBegins(p, b)
    BY <2>2, DeleteBeginsKeeps
  <2>3. ASSUME NEW b \in Bots, StartBegins(p, b), UNCHANGED auto PROVE BotsOK'
    <3>1. p \in BotCallers /\ p # Autostart
      BY BotAssumption DEF BotAssumption, BotCallers
    <3>2. auto \in AutoType /\ AutoFits
      BY DEF BotsOK, RuntimeTyped
    <3>3. auto' \in AutoType
      BY <2>3, <3>2
    <3>4. process' = process /\ (op[Autostart].pc = "idle" => op'[Autostart].pc = "idle")
      BY <2>3, <3>1 DEF StartBegins
    <3>5. AutoFits'
      BY <2>3, <3>2, <3>4 DEF AutoFits
    <3> QED  BY <2>3, <3>1, <3>3, <3>5, StartBeginsKeeps
  <2>4. CASE StopPersists(p)
    BY <2>4, StopPersistsKeeps
  <2>5. CASE BotStopEnds(p)
    BY <2>5, StopEndsKeeps
  <2>6. CASE StopFails(p)
    BY <2>6, StopFailsKeeps
  <2>7. CASE DeleteEnds(p)
    BY <2>7, DeleteEndsKeeps
  <2> QED  BY <1>1, <2>1, <2>2, <2>3, <2>4, <2>5, <2>6, <2>7 DEF BrRequest
<1>2. ASSUME process.up, NEW p \in BotCallers, BrStart(p) PROVE BotsOK'
  BY <1>2, StartRegistersKeeps, StartPersistsKeeps, StartFailsKeeps DEF BrStart
<1>3. CASE UNCHANGED brVars
  <2>1. /\ RuntimeTyped /\ AutoFits /\ Covered
    BY DEF BotsOK
  <2>2. auto' \in AutoType /\ AutoFits' /\ Covered'
    BY <1>3, <2>1 DEF brVars, RuntimeTyped, AutoFits, Covered
  <2> QED  BY <1>3, <2>2, AutoKeeps DEF brVars
<1> QED  BY <1>1, <1>2, <1>3, AutoStepKeeps, BootKeeps, DownKeeps DEF BrNext

\* In every reachable state every handler the pool calls belongs to the active instance of its
\* bot, a bot that trades has a row, a completed autostart left no row that says "running" without
\* an instance, and the fills of an instance that was given up are stored once
\* (backend/routers/paper_trading.py), for bots whose requests have not overlapped.
THEOREM BotsCorrect == BrSpec => []BotsOwned
<1>1. BrSpec => []BotsOK
  BY BotsStart, BotsStay, PTL DEF BrSpec
<1> QED  BY <1>1, BotsOKSuffices, PTL

-----------------------------------------------------------------------------
(* The supervisor                                                          *)

SupPcs == {"off", "spawning", "watching", "terminating", "over", "backoff", "ended"}
Findings == {"none", "exited", "stop", "restart", "unhealthy"}
ChildType == [Spawns -> [state : {"none", "starting", "serving", "hung", "closing", "dead"}, code : {0, 1}]]
SupType ==
    [pc : SupPcs, child : 0..MaxSpawns, crashes : SUBSET (Nat \X Spawns), count : Nat, pending : Nat,
     reason : Findings, since : Int]
StopperType ==
    [pc : {"idle", "nothing", "confirmed", "waiting", "stopped", "refused"}, child : 0..MaxSpawns, stops : Nat]

SupTyped ==
    /\ now \in Nat /\ child \in ChildType /\ scenario \in Scenarios
    /\ sup \in [Supervisors -> SupType] /\ crashLog \in [Supervisors -> SUBSET (Nat \X Spawns)]
    /\ marks \in [stop : BOOLEAN, restart : Nat, breaker : BOOLEAN] /\ stateFile \in 0..MaxSpawns
    /\ restarts \in [asked : Nat, completed : SUBSET Nat] /\ stopper \in StopperType
    /\ unkilled \in SUBSET Spawns /\ (unkilled # {} => scenario.fails)

\* Backends are numbered as they are started
InOrder == \E n \in 0..MaxSpawns : {c \in Spawns : child[c].state # "none"} = 1..n

Watches(s) == sup[s].pc \in {"watching", "terminating", "over"}
\* A backend that is alive is watched, unless it withstood both kills
Tended == \A c \in Spawns : Alive(c) /\ c \notin unkilled => \E s \in Supervisors : Watches(s) /\ sup[s].child = c

ChildFits(s) ==
    /\ sup[s].child # Nobody => child[sup[s].child].state # "none"
    /\ sup[s].count <= sup[s].child /\ (Watches(s) => sup[s].count < sup[s].child)
    /\ sup[s].pc \in {"spawning", "over", "backoff", "ended"} /\ sup[s].child # Nobody =>
          child[sup[s].child].state = "dead" \/ sup[s].child \in unkilled
    /\ sup[s].pc \in {"spawning", "watching", "terminating", "over"} => sup[s].since <= now

\* Whether t is among the crashes counted at the time of the last one
LastCrash(log, m) == m \in log /\ \A t \in log : t[1] <= m[1]
InWindow(log, m) == {t \in log : m[1] - t[1] <= CrashWindow}
LogFits(s) ==
    /\ IsFiniteSet(crashLog[s]) /\ \A t \in crashLog[s] : t[1] <= now
    /\ Runs(s) => \A t \in crashLog[s] : t[1] < sup[s].since
    /\ crashLog[s] = {} => sup[s].crashes = {}
    /\ crashLog[s] # {} => \E m \in crashLog[s] :
          /\ LastCrash(crashLog[s], m) /\ sup[s].crashes = InWindow(crashLog[s], m)
          /\ Runs(s) => Cardinality(sup[s].crashes) < MaxCrashes

\* A restart is under way only while its request is no longer in the file
PendingFits(s) ==
    /\ sup[s].pending <= restarts.asked
    /\ sup[s].pc \in {"watching", "backoff"} => sup[s].pending = 0
    /\ sup[s].pc \in {"terminating", "over"} /\ sup[s].reason # "restart" => sup[s].pending = 0
    /\ sup[s].pc = "spawning" /\ sup[s].pending # 0 => sup[s].pending # marks.restart

FileFits == stateFile # Nobody => \E s \in Supervisors : Watches(s) /\ sup[s].child = stateFile
RequestsFit ==
    /\ restarts.asked <= scenario.restarts /\ marks.restart \in {0, restarts.asked}
    /\ RestartsReported
StopperFits ==
    /\ stopper.pc \in {"confirmed", "waiting"} =>
          stopper.child # Nobody /\ child[stopper.child].state \in {"serving", "hung", "closing", "dead"}
    /\ stopper.pc = "stopped" => stopper.child # Nobody /\ child[stopper.child].state \in {"closing", "dead"}

SupervisionOK ==
    /\ SupTyped /\ InOrder /\ Tended /\ FileFits /\ RequestsFit /\ StopperFits
    /\ \A s \in Supervisors : ChildFits(s) /\ LogFits(s) /\ PendingFits(s)

\* What the invariant is for
LEMMA SupervisionOKSuffices == SupervisionOK => SupervisionExact
<1> SUFFICES ASSUME SupervisionOK PROVE SupervisionExact
  OBVIOUS
<1>1. /\ SupTyped /\ InOrder /\ Tended /\ FileFits /\ RequestsFit /\ StopperFits
      /\ \A s \in Supervisors : ChildFits(s) /\ LogFits(s)
  BY DEF SupervisionOK
<1>2. /\ \A s \in Supervisors : sup[s] \in SupType
      /\ \A s \in Supervisors : sup[s].child \in 0..MaxSpawns /\ sup[s].count \in Nat
  BY <1>1 DEF SupTyped, SupType
<1>3. SvTypeOK
  <2>1. \A s \in Supervisors : sup[s].count <= MaxSpawns /\ (sup[s].pc = "spawning" => sup[s].since <= now)
    BY <1>1, <1>2, SupervisorAssumption DEF ChildFits, SupervisorAssumption
  <2>2. marks.restart \in 0..scenario.restarts
    <3>1. /\ restarts.asked \in Nat /\ restarts.asked <= scenario.restarts /\ marks.restart \in {0, restarts.asked}
          /\ scenario.restarts \in Nat
      BY <1>1, SupervisorAssumption DEF SupTyped, RequestsFit, SupervisorAssumption
    <3> QED  BY <3>1
  <2> QED  BY <1>1, <1>2, <2>1, <2>2 DEF SvTypeOK, SupTyped
<1>4. NothingLeftBehind
  BY <1>1 DEF Tended, NothingLeftBehind, Watches, Runs, SupTyped
<1>5. BreakerExact
  <2> SUFFICES ASSUME NEW s \in Supervisors, crashLog[s] # {}
               PROVE  LET last == Greatest({t[1] : t \in crashLog[s]}) IN
                      /\ sup[s].crashes = {t \in crashLog[s] : last - t[1] <= CrashWindow}
                      /\ Runs(s) => Cardinality(sup[s].crashes) < MaxCrashes
    BY DEF BreakerExact
  <2>1. PICK m \in crashLog[s] : /\ LastCrash(crashLog[s], m) /\ sup[s].crashes = InWindow(crashLog[s], m)
                                 /\ Runs(s) => Cardinality(sup[s].crashes) < MaxCrashes
    BY <1>1 DEF LogFits
  <2>2. \A t \in crashLog[s] : t[1] \in Nat
    BY <1>1 DEF SupTyped
  <2> DEFINE T == {t[1] : t \in crashLog[s]}
  <2>3. \A x \in T : x \in Nat /\ x <= m[1]
    BY <2>1, <2>2 DEF LastCrash
  <2>4. m[1] \in T
    OBVIOUS
  <2> HIDE DEF T
  <2>5. Greatest(T) = m[1]
    BY <2>3, <2>4 DEF Greatest
  <2> QED  BY <2>1, <2>5 DEF InWindow, T
<1>6. StateNamesChild
  BY <1>1 DEF FileFits, StateNamesChild, Watches, Runs
<1>7. RestartsReported /\ StopFreesPort
  BY <1>1 DEF RequestsFit, StopperFits, StopFreesPort, Listens
<1> QED  BY <1>3, <1>4, <1>5, <1>6, <1>7 DEF SupervisionExact

\* Before anything is started it holds
LEMMA SupervisionStarts == SvInit => SupervisionOK
<1> SUFFICES ASSUME SvInit PROVE SupervisionOK
  OBVIOUS
<1>1. \A s \in Supervisors : sup[s] = NewSup /\ crashLog[s] = {}
  BY DEF SvInit
<1>2. NewSup \in SupType
  BY SupervisorAssumption DEF NewSup, SupType, SupPcs, Findings, Nobody, SupervisorAssumption
<1>3. SupTyped
  BY <1>2, SupervisorAssumption DEF SvInit, SupTyped, ChildType, StopperType, Nobody, SupervisorAssumption
<1>4. InOrder
  <2>1. {c \in Spawns : child[c].state # "none"} = {} /\ 1..0 = {} /\ 0 \in 0..MaxSpawns
    BY SupervisorAssumption DEF SvInit, SupervisorAssumption
  <2> QED  BY <2>1 DEF InOrder
<1>5. FileFits /\ RequestsFit /\ StopperFits
  BY <1>3, SupervisorAssumption
     DEF SvInit, SupTyped, FileFits, RequestsFit, RestartsReported, StopperFits, SupervisorAssumption
<1>6. Tended
  BY DEF SvInit, Tended, Alive
<1>7. \A s \in Supervisors : ChildFits(s) /\ LogFits(s) /\ PendingFits(s)
  BY <1>1, FS_EmptySet DEF SvInit, NewSup, ChildFits, LogFits, PendingFits, Watches, Nobody
<1> QED  BY <1>3, <1>4, <1>5, <1>7, <1>6 DEF SupervisionOK

-----------------------------------------------------------------------------
(* What the backends do                                                    *)

\* A backend that was started stays so, what is dead stays dead, and what listens can only close
\* and die
ChildrenGoOn ==
    /\ child' \in ChildType
    /\ \A c \in Spawns :
          /\ child[c].state # "none" => child'[c].state # "none"
          /\ child[c].state = "dead" => child'[c].state = "dead"
          /\ child[c].state \in {"serving", "hung", "closing", "dead"} =>
                child'[c].state \in {"serving", "hung", "closing", "dead"}
          /\ child[c].state \in {"closing", "dead"} => child'[c].state \in {"closing", "dead"}
    /\ unkilled' \in SUBSET Spawns /\ unkilled \subseteq unkilled'
NoneStarted == \A c \in Spawns : child[c].state = "none" <=> child'[c].state = "none"

\* A step that starts no backend leaves their numbers
LEMMA OrderStays == ASSUME InOrder, NoneStarted PROVE InOrder'
<1>1. {c \in Spawns : child[c].state # "none"} = {c \in Spawns : child'[c].state # "none"}
  BY DEF NoneStarted
<1> QED  BY <1>1 DEF InOrder

\* Whoever stops watching a backend leaves it dead or known to have withstood the kills
LEMMA CoverStays ==
    ASSUME SupTyped, Tended, ChildrenGoOn, NoneStarted,
           \A s \in Supervisors : Watches(s) =>
              \/ Watches(s)' /\ sup'[s].child = sup[s].child
              \/ child'[sup[s].child].state = "dead"
              \/ sup[s].child \in unkilled'
    PROVE  Tended'
<1> SUFFICES ASSUME NEW c \in Spawns, Alive(c)', c \notin unkilled'
             PROVE  \E s \in Supervisors : Watches(s)' /\ sup'[s].child = c
  BY DEF Tended
<1>1. c \notin unkilled
  BY DEF ChildrenGoOn
<1>2. Alive(c)
  <2>1. child'[c].state \notin {"none", "dead"}
    BY DEF Alive
  <2>2. child[c].state \notin {"none", "dead"}
    BY <2>1 DEF ChildrenGoOn, NoneStarted
  <2> QED  BY <2>2 DEF Alive, SupTyped, ChildType
<1>3. PICK s \in Supervisors : Watches(s) /\ sup[s].child = c
  BY <1>1, <1>2 DEF Tended
<1>4. child'[c].state # "dead"
  BY DEF Alive
<1> QED  BY <1>3, <1>4

\* The stop command that waits keeps what it found
LEMMA StopperStays ==
    ASSUME SupTyped, StopperFits, ChildrenGoOn, stopper' = stopper
    PROVE  StopperFits'
<1>1. stopper.child \in 0..MaxSpawns
  BY DEF SupTyped, StopperType
<1> QED  BY <1>1 DEF StopperFits, ChildrenGoOn, Spawns, Nobody

\* A supervisor that does nothing itself keeps what is its own
LEMMA OtherFits ==
    ASSUME SupTyped, NEW s \in Supervisors, ChildFits(s), LogFits(s), ChildrenGoOn,
           sup'[s] = sup[s], crashLog'[s] = crashLog[s], now' \in Nat, now <= now'
    PROVE  ChildFits(s)' /\ LogFits(s)'
<1>1. PICK w \in SupType : w = sup[s]
  BY DEF SupTyped
<1>2. w.child \in 0..MaxSpawns /\ w.count \in Nat /\ w.since \in Int /\ now \in Nat
  BY DEF SupType, SupTyped
<1>3. ChildFits(s)'
  <2>1. w.child # Nobody => w.child \in Spawns
    BY <1>2 DEF Spawns, Nobody
  <2>2. w.since <= now => w.since <= now'
    BY <1>2
  <2>3. w.pc = "terminating" => w.child # Nobody
    BY <1>1, <1>2 DEF ChildFits, Watches, Nobody
  <2> QED  BY <1>1, <2>1, <2>2, <2>3 DEF ChildFits, ChildrenGoOn, Watches
<1>4. LogFits(s)'
  <2>1. \A t \in crashLog[s] : t[1] \in Nat
    BY DEF SupTyped
  <2>2. \A t \in crashLog[s] : t[1] <= now => t[1] <= now'
    BY <1>2, <2>1
  <2> QED  BY <2>2 DEF LogFits, Watches, Runs
<1> QED  BY <1>3, <1>4

\* The file of a restart is cleared, or a new one is asked for
RequestsGoOn ==
    /\ restarts'.asked \in Nat /\ restarts.asked <= restarts'.asked
    /\ marks'.restart \in {marks.restart, 0} \/ marks'.restart > restarts.asked

\* The requests a supervisor has yet to see stay with it
LEMMA OtherPending ==
    ASSUME SupTyped, NEW s \in Supervisors, PendingFits(s), RequestsGoOn, sup'[s] = sup[s]
    PROVE  PendingFits(s)'
<1>1. PICK w \in SupType : w = sup[s]
  BY DEF SupTyped
<1>2. w.pending \in Nat /\ restarts.asked \in Nat
  BY DEF SupType, SupTyped
<1> QED  BY <1>1, <1>2 DEF PendingFits, RequestsGoOn

\* A step no supervisor takes
LEMMA NoSupervisorActs ==
    ASSUME SupervisionOK, ChildrenGoOn, NoneStarted, sup' = sup, crashLog' = crashLog, stateFile' = stateFile,
           now' \in Nat, now <= now', RequestsGoOn, SupTyped', RequestsFit', StopperFits'
    PROVE  SupervisionOK'
<1>1. /\ SupTyped /\ InOrder /\ Tended /\ FileFits
      /\ \A s \in Supervisors : ChildFits(s) /\ LogFits(s) /\ PendingFits(s)
  BY DEF SupervisionOK
<1>2. \A s \in Supervisors : ChildFits(s)' /\ LogFits(s)' /\ PendingFits(s)'
  BY <1>1, OtherFits, OtherPending
<1>3. InOrder' /\ FileFits' /\ Tended'
  BY <1>1, OrderStays, CoverStays DEF FileFits, Watches
<1> QED  BY <1>2, <1>3 DEF SupervisionOK

\* A backend binds, hangs, crashes, lets the port go or exits
LEMMA BackendKeeps ==
    ASSUME SupervisionOK, NEW c \in Spawns, Binds(c) \/ Hangs(c) \/ Crashes(c) \/ Closes(c) \/ Exits(c)
    PROVE  SupervisionOK'
<1>1. SupTyped /\ RequestsFit /\ StopperFits
  BY DEF SupervisionOK
<1>2. OnlyChild
  BY DEF Binds, Hangs, Crashes, Closes, Exits
<1>3. PICK st \in {"serving", "hung", "closing", "dead"}, co \in {0, 1} :
        /\ child' = [child EXCEPT ![c] = [state |-> st, code |-> co]]
        /\ child[c].state \notin {"none", "dead"}
        /\ st = "dead" \/ child[c].state = "starting" \/ (child[c].state = "serving" /\ st # "serving")
  BY DEF Binds, Hangs, Crashes, Closes, Exits, Becomes, Alive
<1>4. ChildrenGoOn /\ NoneStarted
  <2>1. child \in ChildType
    BY <1>1 DEF SupTyped
  <2>2. child' \in ChildType /\ child'[c].state = st /\ \A x \in Spawns \ {c} : child'[x] = child[x]
    BY <1>3, <2>1 DEF ChildType
  <2>3. unkilled' = unkilled /\ unkilled \in SUBSET Spawns
    BY <1>1, <1>2 DEF OnlyChild, SupTyped
  <2> QED  BY <1>3, <2>2, <2>3 DEF ChildrenGoOn, NoneStarted
<1>5. SupTyped'
  BY <1>1, <1>2, <1>4 DEF SupTyped, OnlyChild, ChildrenGoOn
<1>6. StopperFits' /\ RequestsFit'
  BY <1>1, <1>2, <1>4, StopperStays DEF OnlyChild, RequestsFit, RestartsReported
<1>7. RequestsGoOn /\ now' \in Nat /\ now <= now'
  BY <1>1, <1>2 DEF SupTyped, OnlyChild, RequestsGoOn
<1> QED  BY <1>2, <1>4, <1>5, <1>6, <1>7, NoSupervisorActs DEF OnlyChild

\* A step that touches no backend
LEMMA ChildrenStay == SupTyped /\ child' = child /\ unkilled' = unkilled => ChildrenGoOn /\ NoneStarted
  BY DEF SupTyped, ChildrenGoOn, NoneStarted

\* An operator asks for a restart
LEMMA RequestKeeps == SupervisionOK /\ RequestRestart => SupervisionOK'
<1> SUFFICES ASSUME SupervisionOK, RequestRestart PROVE SupervisionOK'
  OBVIOUS
<1>1. SupTyped /\ RequestsFit /\ StopperFits
  BY DEF SupervisionOK
<1>2. /\ now' = now /\ sup' = sup /\ child' = child /\ stateFile' = stateFile /\ stopper' = stopper
      /\ crashLog' = crashLog /\ scenario' = scenario /\ unkilled' = unkilled
  BY DEF RequestRestart
<1>3. PICK k \in Nat : k = restarts.asked /\ k < scenario.restarts /\ scenario.restarts \in Nat
  BY <1>1, SupervisorAssumption DEF RequestRestart, SupTyped, SupervisorAssumption
<1>4. /\ restarts' \in [asked : Nat, completed : SUBSET Nat]
      /\ restarts'.asked = k + 1 /\ restarts'.completed = restarts.completed
      /\ marks' \in [stop : BOOLEAN, restart : Nat, breaker : BOOLEAN] /\ marks'.restart = k + 1
  BY <1>1, <1>3 DEF RequestRestart, SupTyped
<1>5. SupTyped'
  BY <1>1, <1>2, <1>4 DEF SupTyped
<1>6. RequestsFit'
  <2>1. restarts.completed \subseteq 1..k
    BY <1>1, <1>3 DEF RequestsFit, RestartsReported
  <2>2. restarts'.completed \subseteq 1..(k + 1) /\ k + 1 \notin restarts'.completed /\ k + 1 <= scenario.restarts
    BY <1>3, <1>4, <2>1
  <2> QED  BY <1>2, <1>4, <2>2 DEF RequestsFit, RestartsReported
<1>7. RequestsGoOn /\ now' \in Nat /\ now <= now'
  BY <1>1, <1>2, <1>3, <1>4 DEF SupTyped, RequestsGoOn
<1>8. ChildrenGoOn /\ NoneStarted /\ StopperFits'
  BY <1>1, <1>2, ChildrenStay, StopperStays
<1> QED  BY <1>2, <1>5, <1>6, <1>7, <1>8, NoSupervisorActs

\* What only clears the file of a restart keeps the account of restarts
LEMMA MarksCleared ==
    ASSUME SupTyped, RequestsFit, restarts' = restarts, scenario' = scenario, marks'.restart \in {marks.restart, 0}
    PROVE  RequestsFit' /\ RequestsGoOn
<1>1. 0 \notin restarts.completed /\ restarts.asked \in Nat
  BY DEF RequestsFit, RestartsReported, SupTyped
<1> QED  BY <1>1 DEF RequestsFit, RestartsReported, RequestsGoOn

\* Killing only kills
LEMMA KillsGoOn ==
    ASSUME SupTyped, NEW C, child' = Killed(C), unkilled' \in SUBSET Spawns, unkilled \subseteq unkilled'
    PROVE  ChildrenGoOn /\ NoneStarted
<1>1. child \in ChildType
  BY DEF SupTyped
<1>2. child' \in ChildType /\ \A c \in Spawns : child'[c] = IF c \in C /\ Alive(c) THEN Dead ELSE child[c]
  BY <1>1 DEF Killed, ChildType, Dead
<1>3. \A c \in Spawns : child'[c].state = child[c].state \/ (child'[c].state = "dead" /\ child[c].state # "none")
  BY <1>2 DEF Dead, Alive
<1> QED  BY <1>2, <1>3 DEF ChildrenGoOn, NoneStarted

\* The steps of the stop command
LEMMA StopCommandKeeps == SupervisionOK /\ (StopBegins \/ StopMarks \/ StopSees \/ StopForces) => SupervisionOK'
<1> SUFFICES ASSUME SupervisionOK, StopBegins \/ StopMarks \/ StopSees \/ StopForces PROVE SupervisionOK'
  OBVIOUS
<1>1. SupTyped /\ RequestsFit /\ StopperFits
  BY DEF SupervisionOK
<1>2. /\ now' = now /\ sup' = sup /\ stateFile' = stateFile /\ restarts' = restarts
      /\ crashLog' = crashLog /\ scenario' = scenario /\ unkilled' = unkilled
  BY DEF StopBegins, StopMarks, StopSees, StopForces
<1>3. marks' \in [stop : BOOLEAN, restart : Nat, breaker : BOOLEAN] /\ marks'.restart \in {marks.restart, 0}
  <2>1. PICK m \in [stop : BOOLEAN, restart : Nat, breaker : BOOLEAN] : m = marks
    BY <1>1 DEF SupTyped
  <2>2. marks' \in {[m EXCEPT !.restart = 0, !.stop = FALSE], [m EXCEPT !.restart = 0], [m EXCEPT !.stop = TRUE], m}
    BY <2>1 DEF StopBegins, StopMarks, StopSees, StopForces
  <2>3. CASE marks' = [m EXCEPT !.restart = 0, !.stop = FALSE]
    BY <2>1, <2>3
  <2>4. CASE marks' = [m EXCEPT !.restart = 0]
    BY <2>1, <2>4
  <2>5. CASE marks' = [m EXCEPT !.stop = TRUE]
    BY <2>1, <2>5
  <2> QED  BY <2>1, <2>2, <2>3, <2>4, <2>5
<1>4. /\ stopper.child \in 0..MaxSpawns /\ stopper.stops \in Nat
      /\ stopper.child # Nobody => stopper.child \in Spawns
  BY <1>1 DEF SupTyped, StopperType, Spawns, Nobody
<1>5. /\ ChildrenGoOn /\ NoneStarted /\ stopper' \in StopperType
      /\ stopper'.pc \in {"confirmed", "waiting"} =>
           stopper'.child # Nobody /\ child'[stopper'.child].state \in {"serving", "hung", "closing", "dead"}
      /\ stopper'.pc = "stopped" => stopper'.child # Nobody /\ child'[stopper'.child].state \in {"closing", "dead"}
  <2>1. CASE StopBegins
    <3>1. child' = child
      BY <2>1 DEF StopBegins
    <3>2. CASE Port = {}
      <4>1. stopper' = [pc |-> "nothing", child |-> Nobody, stops |-> stopper.stops + 1]
        BY <2>1, <3>2 DEF StopBegins
      <4>2. stopper' \in StopperType /\ stopper'.pc = "nothing"
        BY <4>1, <1>4, SupervisorAssumption DEF StopperType, Nobody, SupervisorAssumption
      <4> QED  BY <1>1, <1>2, <3>1, <4>2, ChildrenStay
    <3>3. CASE Port # {}
      <4>1. PICK c \in Port : c = (CHOOSE y \in Port : TRUE)
        BY <3>3
      <4>2. c \in Spawns /\ c \in 0..MaxSpawns /\ c # Nobody /\ child[c].state \in {"serving", "hung"}
        BY SupervisorAssumption DEF Port, Spawns, Listens, Nobody, SupervisorAssumption
      <4>3. stopper' = [pc |-> "confirmed", child |-> c, stops |-> stopper.stops + 1]
        BY <2>1, <3>3, <4>1 DEF StopBegins
      <4>4. stopper' \in StopperType /\ stopper'.pc = "confirmed" /\ stopper'.child = c
        BY <4>2, <4>3, <1>4 DEF StopperType
      <4> QED  BY <1>1, <1>2, <3>1, <4>2, <4>4, ChildrenStay
    <3> QED  BY <3>2, <3>3
  <2>2. CASE StopMarks
    <3>1. child' = child /\ stopper.pc = "confirmed" /\ stopper' = [stopper EXCEPT !.pc = "waiting"]
      BY <2>2 DEF StopMarks
    <3>2. stopper' \in StopperType /\ stopper'.pc = "waiting" /\ stopper'.child = stopper.child
      BY <1>1, <3>1 DEF SupTyped, StopperType
    <3> QED  BY <1>1, <1>2, <3>1, <3>2, ChildrenStay DEF StopperFits
  <2>3. CASE StopSees
    <3>1. child' = child /\ Port = {} /\ stopper.pc = "waiting" /\ stopper' = [stopper EXCEPT !.pc = "stopped"]
      BY <2>3 DEF StopSees
    <3>2. stopper' \in StopperType /\ stopper'.pc = "stopped" /\ stopper'.child = stopper.child
      BY <1>1, <3>1 DEF SupTyped, StopperType
    <3>3. stopper.child # Nobody /\ child[stopper.child].state \in {"closing", "dead"}
      BY <1>1, <1>4, <3>1 DEF StopperFits, Port, Listens
    <3> QED  BY <1>1, <1>2, <3>1, <3>2, <3>3, ChildrenStay
  <2>4. CASE StopForces
    <3>1. stopper.child \in Spawns /\ stopper.child # Nobody
          /\ child[stopper.child].state \in {"serving", "hung", "closing", "dead"}
      BY <1>1, <1>4, <2>4 DEF StopperFits, StopForces
    <3>2. CASE child' = Killed({stopper.child}) /\ stopper' = [stopper EXCEPT !.pc = "stopped"]
      <4>1. stopper' \in StopperType /\ stopper'.pc = "stopped" /\ stopper'.child = stopper.child
        BY <1>1, <3>2 DEF SupTyped, StopperType
      <4>2. child'[stopper.child].state = "dead"
        BY <3>1, <3>2 DEF Killed, Alive, Dead
      <4>3. ChildrenGoOn /\ NoneStarted
        BY <1>1, <1>2, <3>2, KillsGoOn DEF SupTyped
      <4> QED  BY <3>1, <4>1, <4>2, <4>3
    <3>3. CASE child' = child /\ stopper' = [stopper EXCEPT !.pc = IF Port = {} THEN "stopped" ELSE "refused"]
      <4>1. PICK a \in {"stopped", "refused"} : a = IF Port = {} THEN "stopped" ELSE "refused"
        OBVIOUS
      <4>2. stopper' \in StopperType /\ stopper'.pc = a /\ stopper'.child = stopper.child
        BY <1>1, <3>3, <4>1 DEF SupTyped, StopperType
      <4>3. a = "stopped" => child[stopper.child].state \in {"closing", "dead"}
        BY <3>1, <4>1 DEF Port, Listens
      <4> QED  BY <1>1, <1>2, <3>1, <3>3, <4>2, <4>3, ChildrenStay
    <3> QED  BY <2>4, <3>2, <3>3 DEF StopForces
  <2> QED  BY <2>1, <2>2, <2>3, <2>4
<1>6. SupTyped'
  BY <1>1, <1>2, <1>3, <1>5 DEF SupTyped, ChildrenGoOn
<1>7. StopperFits'
  BY <1>5 DEF StopperFits
<1>8. RequestsFit' /\ RequestsGoOn
  BY <1>1, <1>2, <1>3, MarksCleared
<1>9. now' \in Nat /\ now <= now'
  BY <1>1, <1>2 DEF SupTyped
<1> QED  BY <1>2, <1>5, <1>6, <1>7, <1>8, <1>9, NoSupervisorActs

\* Time passes
LEMMA TickKeeps == SupervisionOK /\ SvTick => SupervisionOK'
<1> SUFFICES ASSUME SupervisionOK, SvTick PROVE SupervisionOK'
  OBVIOUS
<1>1. SupTyped /\ RequestsFit /\ StopperFits
  BY DEF SupervisionOK
<1>2. /\ now' \in Nat /\ now <= now' /\ sup' = sup /\ child' = child /\ stateFile' = stateFile
      /\ stopper' = stopper /\ crashLog' = crashLog /\ scenario' = scenario /\ marks' = marks /\ restarts' = restarts
      /\ unkilled' = unkilled
  BY <1>1 DEF SvTick, SupTyped
<1>3. SupTyped' /\ ChildrenGoOn /\ NoneStarted /\ StopperFits'
  BY <1>1, <1>2, ChildrenStay, StopperStays DEF SupTyped
<1>4. RequestsFit' /\ RequestsGoOn
  BY <1>1, <1>2, MarksCleared
<1> QED  BY <1>2, <1>3, <1>4, NoSupervisorActs

-----------------------------------------------------------------------------
(* What a supervisor does                                                  *)

\* Only the supervisor that acts has to be looked at
LEMMA OneActs ==
    ASSUME SupervisionOK, NEW s \in Supervisors, NEW z \in SupType, sup' = [sup EXCEPT ![s] = z],
           crashLog' \in [Supervisors -> SUBSET (Nat \X Spawns)],
           \A x \in Supervisors \ {s} : crashLog'[x] = crashLog[x],
           ChildrenGoOn, now' = now, RequestsGoOn
    PROVE  /\ sup' \in [Supervisors -> SupType] /\ sup'[s] = z
           /\ \A x \in Supervisors \ {s} : sup'[x] = sup[x]
           /\ ChildFits(s)' /\ LogFits(s)' /\ PendingFits(s)' =>
                 \A x \in Supervisors : ChildFits(x)' /\ LogFits(x)' /\ PendingFits(x)'
<1>1. SupTyped /\ \A x \in Supervisors : ChildFits(x) /\ LogFits(x) /\ PendingFits(x)
  BY DEF SupervisionOK
<1>2. /\ sup' \in [Supervisors -> SupType] /\ sup'[s] = z
      /\ \A x \in Supervisors \ {s} : sup'[x] = sup[x]
  BY <1>1 DEF SupTyped
<1>3. now' \in Nat /\ now <= now'
  BY <1>1 DEF SupTyped
<1>4. \A x \in Supervisors \ {s} : ChildFits(x)' /\ LogFits(x)' /\ PendingFits(x)'
  BY <1>1, <1>2, <1>3, OtherFits, OtherPending
<1> QED  BY <1>2, <1>4

\* The state file goes on to name what is watched, if the one that stops watching takes its own out
LEMMA FileStays ==
    ASSUME FileFits, NEW s \in Supervisors, \A x \in Supervisors \ {s} : sup'[x] = sup[x],
           stateFile' # Nobody => stateFile' = stateFile,
           Watches(s) => \/ stateFile' # sup[s].child
                         \/ Watches(s)' /\ sup'[s].child = sup[s].child
    PROVE  FileFits'
<1> SUFFICES ASSUME stateFile' # Nobody
             PROVE  \E x \in Supervisors : Watches(x)' /\ sup'[x].child = stateFile'
  BY DEF FileFits
<1>1. PICK x \in Supervisors : Watches(x) /\ sup[x].child = stateFile
  BY DEF FileFits
<1>2. CASE x = s
  BY <1>1, <1>2
<1>3. CASE x # s
  BY <1>1, <1>3 DEF Watches
<1> QED  BY <1>2, <1>3

\* A supervisor takes over and forgets the marks of the one before
LEMMA RunBeginsKeeps == ASSUME SupervisionOK, NEW s \in Supervisors, RunBegins(s) PROVE SupervisionOK'
<1>1. SupTyped /\ InOrder /\ Tended /\ FileFits /\ RequestsFit /\ StopperFits
  BY DEF SupervisionOK
<1>2. /\ now' = now /\ child' = child /\ stateFile' = stateFile /\ restarts' = restarts /\ stopper' = stopper
      /\ scenario' = scenario /\ unkilled' = unkilled /\ marks' = [stop |-> FALSE, restart |-> 0, breaker |-> FALSE]
      /\ crashLog' = [crashLog EXCEPT ![s] = {}] /\ sup[s].pc = "off"
  BY DEF RunBegins
<1>3. PICK z : z = [NewSup EXCEPT !.pc = "spawning"]
  OBVIOUS
<1>4. /\ z \in SupType /\ sup' = [sup EXCEPT ![s] = z] /\ z.pc = "spawning" /\ z.child = Nobody /\ z.crashes = {}
      /\ z.count = 0 /\ z.pending = 0 /\ z.since = 0
  BY <1>3, SupervisorAssumption DEF NewSup, SupType, SupPcs, Findings, Nobody, RunBegins, SupervisorAssumption
<1>5. /\ crashLog' \in [Supervisors -> SUBSET (Nat \X Spawns)] /\ crashLog'[s] = {}
      /\ \A x \in Supervisors \ {s} : crashLog'[x] = crashLog[x]
  BY <1>1, <1>2 DEF SupTyped
<1>6. ChildrenGoOn /\ NoneStarted /\ RequestsGoOn /\ RequestsFit' /\ StopperFits' /\ InOrder'
  <2>1. marks'.restart \in {marks.restart, 0}
    BY <1>2
  <2> QED  BY <1>1, <1>2, <2>1, ChildrenStay, MarksCleared, StopperStays, OrderStays
<1>7. /\ sup' \in [Supervisors -> SupType] /\ sup'[s] = z
      /\ \A x \in Supervisors \ {s} : sup'[x] = sup[x]
      /\ ChildFits(s)' /\ LogFits(s)' /\ PendingFits(s)' =>
            \A x \in Supervisors : ChildFits(x)' /\ LogFits(x)' /\ PendingFits(x)'
  BY <1>2, <1>4, <1>5, <1>6, OneActs
<1>8. ChildFits(s)' /\ LogFits(s)' /\ PendingFits(s)'
  BY <1>1, <1>2, <1>4, <1>5, <1>7, FS_EmptySet
     DEF ChildFits, LogFits, PendingFits, Watches, SupTyped, Nobody
<1>9. SupTyped'
  BY <1>1, <1>2, <1>5, <1>7 DEF SupTyped
<1>10. FileFits' /\ Tended'
  BY <1>1, <1>2, <1>6, <1>7, FileStays, CoverStays DEF Watches
<1> QED  BY <1>6, <1>7, <1>8, <1>9, <1>10 DEF SupervisionOK

\* A backend is started in the place of the one that ended
LEMMA SpawnKeeps == ASSUME SupervisionOK, NEW s \in Supervisors, Spawn(s) PROVE SupervisionOK'
<1>1. /\ SupTyped /\ InOrder /\ Tended /\ FileFits /\ RequestsFit /\ StopperFits
      /\ ChildFits(s) /\ LogFits(s) /\ PendingFits(s)
  BY DEF SupervisionOK
<1>2. PICK w \in SupType : w = sup[s]
  BY <1>1 DEF SupTyped
<1>3. /\ w.pc = "spawning" /\ w.child \in 0..MaxSpawns /\ w.crashes \in SUBSET (Nat \X Spawns) /\ w.count \in Nat
      /\ w.pending \in Nat /\ w.reason \in Findings /\ w.since \in Int
  BY <1>2 DEF Spawn, SupType
<1>4. /\ now' = now /\ marks' = marks /\ stopper' = stopper /\ crashLog' = crashLog /\ scenario' = scenario
      /\ unkilled' = unkilled
  BY DEF Spawn
<1>5. CASE marks.stop
  <2>1. child' = child /\ stateFile' = stateFile /\ restarts' = restarts /\ sup' = [sup EXCEPT ![s].pc = "ended"]
    BY <1>5 DEF Spawn
  <2>2. PICK z : z = [w EXCEPT !.pc = "ended"]
    OBVIOUS
  <2>3. /\ z \in SupType /\ z.pc = "ended" /\ z.child = w.child /\ z.crashes = w.crashes /\ z.count = w.count
        /\ z.pending = w.pending
    BY <2>2 DEF SupType, SupPcs
  <2>4. sup' = [sup EXCEPT ![s] = z]
    BY <1>2, <2>1, <2>2
  <2>5. ChildrenGoOn /\ NoneStarted /\ RequestsGoOn /\ RequestsFit' /\ StopperFits' /\ InOrder'
    BY <1>1, <1>4, <2>1, ChildrenStay, MarksCleared, StopperStays, OrderStays
  <2>6. /\ sup' \in [Supervisors -> SupType] /\ sup'[s] = z
        /\ \A x \in Supervisors \ {s} : sup'[x] = sup[x]
        /\ ChildFits(s)' /\ LogFits(s)' /\ PendingFits(s)' =>
              \A x \in Supervisors : ChildFits(x)' /\ LogFits(x)' /\ PendingFits(x)'
    BY <1>1, <1>4, <2>3, <2>4, <2>5, OneActs DEF SupTyped
  <2>7. ChildFits(s)' /\ LogFits(s)' /\ PendingFits(s)'
    BY <1>1, <1>2, <1>3, <1>4, <2>1, <2>3, <2>6 DEF ChildFits, LogFits, PendingFits, Watches, Runs
  <2>8. SupTyped'
    BY <1>1, <1>4, <2>1, <2>6 DEF SupTyped
  <2>9. FileFits' /\ Tended'
    BY <1>1, <1>2, <1>3, <2>1, <2>5, <2>6, FileStays, CoverStays DEF Watches
  <2> QED  BY <2>5, <2>6, <2>7, <2>8, <2>9 DEF SupervisionOK
<1>6. CASE ~marks.stop
  <2>1. PICK n \in 0..MaxSpawns : {c \in Spawns : child[c].state # "none"} = 1..n
    BY <1>1 DEF InOrder
  <2>2. Spawned = n
    <3>1. Cardinality(1..n) = IF 1 > n THEN 0 ELSE n - 1 + 1
      BY <2>1, FS_Interval
    <3>2. Cardinality(1..n) = n
      BY <3>1, <2>1
    <3> QED  BY <2>1, <3>2 DEF Spawned
  <2>3. n + 1 \in Spawns /\ n + 1 \in 0..MaxSpawns /\ n + 1 # Nobody /\ child[n + 1].state = "none"
    <3>1. n < scenario.spawns /\ scenario.spawns \in 0..MaxSpawns
      BY <1>1, <1>6, <2>2, SupervisorAssumption DEF Spawn, SupTyped, SupervisorAssumption
    <3>2. n + 1 \in Spawns /\ n + 1 \in 0..MaxSpawns /\ n + 1 # Nobody /\ n + 1 \notin 1..n
      BY <2>1, <3>1, SupervisorAssumption DEF Spawns, Nobody, SupervisorAssumption
    <3> QED  BY <2>1, <3>2
  <2>4. /\ child' = [child EXCEPT ![n + 1] = [state |-> "starting", code |-> 0]] /\ stateFile' = n + 1
        /\ restarts' = [restarts EXCEPT !.completed = IF w.pending = 0 THEN @ ELSE @ \cup {w.pending}]
        /\ sup' = [sup EXCEPT ![s] = [w EXCEPT !.pc = "watching", !.child = n + 1, !.pending = 0, !.since = now]]
    BY <1>1, <1>2, <1>6, <2>2 DEF Spawn, Becomes, SupTyped
  <2>5. /\ child' \in ChildType /\ child'[n + 1].state = "starting"
        /\ \A x \in Spawns \ {n + 1} : child'[x] = child[x]
    BY <1>1, <2>3, <2>4 DEF ChildType, SupTyped
  <2>6. ChildrenGoOn
    BY <1>1, <1>4, <2>3, <2>5 DEF ChildrenGoOn, SupTyped
  <2>7. InOrder'
    <3>1. {c \in Spawns : child'[c].state # "none"} = {c \in Spawns : child[c].state # "none"} \cup {n + 1}
      BY <2>3, <2>5
    <3>2. (1..n) \cup {n + 1} = 1..(n + 1)
      BY <2>1
    <3> QED  BY <2>1, <2>3, <3>1, <3>2 DEF InOrder
  <2>8. PICK k \in Nat : k = restarts.asked
    BY <1>1 DEF SupTyped
  <2>9. /\ restarts' \in [asked : Nat, completed : SUBSET Nat] /\ restarts'.asked = k
        /\ restarts'.completed \subseteq restarts.completed \cup {w.pending}
        /\ w.pending = 0 => restarts'.completed = restarts.completed
    BY <1>1, <1>3, <2>4, <2>8 DEF SupTyped
  <2>10. RequestsFit'
    <3>1. w.pending <= k /\ (w.pending # 0 => w.pending # marks.restart)
      BY <1>1, <1>2, <1>3, <2>8 DEF PendingFits
    <3>2. restarts.completed \subseteq 1..k /\ marks.restart \notin restarts.completed
      BY <1>1, <2>8 DEF RequestsFit, RestartsReported
    <3>3. restarts'.completed \subseteq 1..k /\ marks.restart \notin restarts'.completed
      BY <1>3, <2>8, <2>9, <3>1, <3>2
    <3> QED  BY <1>1, <1>4, <2>8, <2>9, <3>3 DEF RequestsFit, RestartsReported
  <2>11. RequestsGoOn
    BY <1>4, <2>8, <2>9 DEF RequestsGoOn
  <2>12. PICK z : z = [w EXCEPT !.pc = "watching", !.child = n + 1, !.pending = 0, !.since = now]
    OBVIOUS
  <2>13. /\ z \in SupType /\ z.pc = "watching" /\ z.child = n + 1 /\ z.crashes = w.crashes /\ z.count = w.count
         /\ z.pending = 0 /\ z.since = now
    <3>1. now \in Int
      BY <1>1 DEF SupTyped
    <3> QED  BY <2>3, <2>12, <3>1 DEF SupType, SupPcs
  <2>14. /\ sup' \in [Supervisors -> SupType] /\ sup'[s] = z
         /\ \A x \in Supervisors \ {s} : sup'[x] = sup[x]
         /\ ChildFits(s)' /\ LogFits(s)' /\ PendingFits(s)' =>
               \A x \in Supervisors : ChildFits(x)' /\ LogFits(x)' /\ PendingFits(x)'
    BY <1>1, <1>4, <2>4, <2>6, <2>11, <2>12, <2>13, OneActs DEF SupTyped
  <2>15. w.count < n + 1
    <3>1. w.child # Nobody => w.child \in 1..n
      BY <1>1, <1>2, <1>3, <2>1 DEF ChildFits, Spawns, Nobody
    <3>2. w.child <= n
      BY <1>3, <2>1, <3>1 DEF Nobody
    <3> QED  BY <1>1, <1>2, <1>3, <2>1, <3>2 DEF ChildFits
  <2>16. ChildFits(s)'
    BY <1>1, <1>3, <1>4, <2>1, <2>5, <2>13, <2>14, <2>15 DEF ChildFits, Watches, SupTyped
  <2>17. LogFits(s)'
    <3>1. \A t \in crashLog[s] : t[1] \in Nat /\ t[1] < w.since
      BY <1>1, <1>2, <1>3 DEF LogFits, Runs, SupTyped
    <3>2. now \in Nat /\ w.since <= now
      BY <1>1, <1>2, <1>3 DEF ChildFits, SupTyped
    <3>3. \A t \in crashLog[s] : t[1] < now
      BY <1>3, <3>1, <3>2
    <3> QED  BY <1>1, <1>2, <1>3, <1>4, <2>13, <2>14, <3>3 DEF LogFits, Runs
  <2>18. PendingFits(s)'
    BY <2>8, <2>9, <2>13, <2>14 DEF PendingFits
  <2>19. SupTyped'
    BY <1>1, <1>4, <2>3, <2>4, <2>5, <2>9, <2>14 DEF SupTyped
  <2>20. FileFits' /\ StopperFits'
    BY <1>1, <1>4, <2>4, <2>6, <2>13, <2>14, StopperStays DEF FileFits, Watches
  <2>21. Tended'
    <3> SUFFICES ASSUME NEW c \in Spawns, Alive(c)', c \notin unkilled'
                 PROVE  \E x \in Supervisors : Watches(x)' /\ sup'[x].child = c
      BY DEF Tended
    <3>1. CASE c = n + 1
      BY <2>13, <2>14, <3>1 DEF Watches
    <3>2. CASE c # n + 1
      <4>1. Alive(c) /\ c \notin unkilled
        BY <1>4, <2>5, <3>2 DEF Alive
      <4>2. PICK x \in Supervisors : Watches(x) /\ sup[x].child = c
        BY <1>1, <4>1 DEF Tended
      <4>3. x # s
        BY <1>2, <1>3, <4>2 DEF Watches
      <4> QED  BY <2>14, <4>2, <4>3 DEF Watches
    <3> QED  BY <3>1, <3>2
  <2> QED  BY <2>7, <2>10, <2>14, <2>16, <2>17, <2>18, <2>19, <2>20, <2>21 DEF SupervisionOK
<1> QED  BY <1>5, <1>6

\* A round of the watch loop finds what it finds
LEMMA WatchKeeps == ASSUME SupervisionOK, NEW s \in Supervisors, Watch(s) PROVE SupervisionOK'
<1>1. /\ SupTyped /\ InOrder /\ Tended /\ FileFits /\ RequestsFit /\ StopperFits
      /\ ChildFits(s) /\ LogFits(s) /\ PendingFits(s)
  BY DEF SupervisionOK
<1>2. PICK w \in SupType : w = sup[s]
  BY <1>1 DEF SupTyped
<1>3. /\ w.pc = "watching" /\ w.child \in 0..MaxSpawns /\ w.crashes \in SUBSET (Nat \X Spawns) /\ w.count \in Nat
      /\ w.pending \in Nat /\ w.since \in Int
  BY <1>2 DEF Watch, SupType
<1>4. PICK f : f = Finds(s)
  OBVIOUS
<1>5. f \in Findings /\ (f = "exited" => child[w.child].state = "dead")
  BY <1>2, <1>4 DEF Finds, Findings
<1>6. /\ now' = now /\ child' = child /\ marks' = marks /\ stateFile' = stateFile /\ restarts' = restarts
      /\ stopper' = stopper /\ crashLog' = crashLog /\ scenario' = scenario /\ unkilled' = unkilled
  BY DEF Watch
<1>7. PICK k \in Nat : k = IF f = "restart" THEN marks.restart ELSE 0
  BY <1>1 DEF SupTyped
<1>8. k <= restarts.asked
  BY <1>1, <1>7 DEF RequestsFit, SupTyped
<1>8a. PICK p \in {"over", "terminating"} : p = IF f = "exited" THEN "over" ELSE "terminating"
  OBVIOUS
<1>9. PICK z : z = [w EXCEPT !.pc = p, !.reason = f, !.pending = k]
  OBVIOUS
<1>10. /\ z \in SupType /\ z.pc = p /\ z.reason = f /\ z.pending = k
       /\ z.child = w.child /\ z.crashes = w.crashes /\ z.count = w.count /\ z.since = w.since
  BY <1>5, <1>7, <1>9 DEF SupType, SupPcs
<1>11. sup' = [sup EXCEPT ![s] = z]
  BY <1>1, <1>2, <1>4, <1>7, <1>9, <1>8a DEF Watch, SupTyped
<1>12. ChildrenGoOn /\ NoneStarted /\ RequestsGoOn /\ RequestsFit' /\ StopperFits' /\ InOrder'
  BY <1>1, <1>6, ChildrenStay, MarksCleared, StopperStays, OrderStays
<1>13. /\ sup' \in [Supervisors -> SupType] /\ sup'[s] = z
       /\ \A x \in Supervisors \ {s} : sup'[x] = sup[x]
       /\ ChildFits(s)' /\ LogFits(s)' /\ PendingFits(s)' =>
             \A x \in Supervisors : ChildFits(x)' /\ LogFits(x)' /\ PendingFits(x)'
  BY <1>1, <1>6, <1>10, <1>11, <1>12, OneActs DEF SupTyped
<1>14. ChildFits(s)'
  BY <1>1, <1>2, <1>3, <1>5, <1>6, <1>10, <1>13, <1>8a DEF ChildFits, Watches
<1>15. LogFits(s)' /\ PendingFits(s)'
  BY <1>1, <1>2, <1>3, <1>6, <1>7, <1>8, <1>10, <1>13, <1>8a DEF LogFits, PendingFits, Watches, Runs
<1>16. SupTyped'
  BY <1>1, <1>6, <1>13 DEF SupTyped
<1>17. FileFits' /\ Tended'
  BY <1>1, <1>2, <1>6, <1>10, <1>12, <1>13, FileStays, CoverStays DEF Watches
<1> QED  BY <1>12, <1>13, <1>14, <1>15, <1>16, <1>17 DEF SupervisionOK

\* A supervisor that terminates or is done with a backend has one
LEMMA HasBackend ==
    ASSUME SupTyped, NEW s \in Supervisors, ChildFits(s), Watches(s)
    PROVE  sup[s].child \in Spawns /\ sup[s].child # Nobody /\ child[sup[s].child].state # "none"
<1>1. PICK w \in SupType : w = sup[s]
  BY DEF SupTyped
<1>2. PICK c \in 0..MaxSpawns : c = w.child
  BY DEF SupType
<1>3. w.count < c /\ w.count \in Nat
  BY <1>1, <1>2 DEF ChildFits, SupType
<1>4. c # Nobody /\ c \in Spawns
  BY <1>2, <1>3 DEF Nobody, Spawns
<1> QED  BY <1>1, <1>2, <1>4 DEF ChildFits

\* The backend ended in time
LEMMA EndsKeeps == ASSUME SupervisionOK, NEW s \in Supervisors, Ends(s) PROVE SupervisionOK'
<1>1. /\ SupTyped /\ InOrder /\ Tended /\ FileFits /\ RequestsFit /\ StopperFits
      /\ ChildFits(s) /\ LogFits(s) /\ PendingFits(s)
  BY DEF SupervisionOK
<1>2. PICK w \in SupType : w = sup[s]
  BY <1>1 DEF SupTyped
<1>3. w.pc = "terminating" /\ child[w.child].state = "dead"
  BY <1>2 DEF Ends
<1>4. /\ now' = now /\ child' = child /\ marks' = marks /\ stateFile' = stateFile /\ restarts' = restarts
      /\ stopper' = stopper /\ crashLog' = crashLog /\ scenario' = scenario /\ unkilled' = unkilled
  BY DEF Ends
<1>5. PICK z : z = [w EXCEPT !.pc = "over"]
  OBVIOUS
<1>6. /\ z \in SupType /\ z.pc = "over" /\ z.count = w.count /\ z.pending = w.pending /\ z.reason = w.reason
      /\ z.child = w.child /\ z.crashes = w.crashes /\ z.since = w.since
  BY <1>5 DEF SupType, SupPcs
<1>7. sup' = [sup EXCEPT ![s] = z]
  BY <1>1, <1>2, <1>5 DEF Ends, SupTyped
<1>8. ChildrenGoOn /\ NoneStarted /\ RequestsGoOn /\ RequestsFit' /\ StopperFits' /\ InOrder'
  BY <1>1, <1>4, ChildrenStay, MarksCleared, StopperStays, OrderStays
<1>9. /\ sup' \in [Supervisors -> SupType] /\ sup'[s] = z
      /\ \A x \in Supervisors \ {s} : sup'[x] = sup[x]
      /\ ChildFits(s)' /\ LogFits(s)' /\ PendingFits(s)' =>
            \A x \in Supervisors : ChildFits(x)' /\ LogFits(x)' /\ PendingFits(x)'
  BY <1>1, <1>4, <1>6, <1>7, <1>8, OneActs DEF SupTyped
<1>10. ChildFits(s)'
  BY <1>1, <1>2, <1>3, <1>4, <1>6, <1>9 DEF ChildFits, Watches
<1>11. LogFits(s)' /\ PendingFits(s)'
  BY <1>1, <1>2, <1>3, <1>4, <1>6, <1>9 DEF LogFits, PendingFits, Watches, Runs
<1>12. SupTyped'
  BY <1>1, <1>4, <1>9 DEF SupTyped
<1>13. FileFits' /\ Tended'
  BY <1>1, <1>2, <1>4, <1>6, <1>8, <1>9, FileStays, CoverStays DEF Watches
<1> QED  BY <1>8, <1>9, <1>10, <1>11, <1>12, <1>13 DEF SupervisionOK

\* Whatever the kills do, a backend that is still alive after them is known to have withstood them
LEMMA ForcesKeeps == ASSUME SupervisionOK, NEW s \in Supervisors, Forces(s) PROVE SupervisionOK'
<1>1. /\ SupTyped /\ InOrder /\ Tended /\ FileFits /\ RequestsFit /\ StopperFits
      /\ ChildFits(s) /\ LogFits(s) /\ PendingFits(s)
  BY DEF SupervisionOK
<1>2. PICK w \in SupType : w = sup[s]
  BY <1>1 DEF SupTyped
<1>3. w.pc = "terminating"
  BY <1>2 DEF Forces
<1>4. PICK c \in Spawns : c = w.child /\ c # Nobody /\ child[c].state # "none"
  BY <1>1, <1>2, <1>3, HasBackend DEF Watches
<1>5. /\ now' = now /\ marks' = marks /\ stateFile' = stateFile /\ restarts' = restarts
      /\ stopper' = stopper /\ crashLog' = crashLog /\ scenario' = scenario
  BY DEF Forces
<1>6. PICK C : /\ child' = Killed(C) /\ (c \notin C => scenario.fails)
               /\ unkilled' = IF Alive(c) /\ c \notin C THEN unkilled \cup {c} ELSE unkilled
  BY <1>2, <1>4 DEF Forces
<1>7. unkilled' \in SUBSET Spawns /\ unkilled \subseteq unkilled'
  BY <1>1, <1>6 DEF SupTyped
<1>8. ChildrenGoOn /\ NoneStarted
  BY <1>1, <1>6, <1>7, KillsGoOn
<1>9. child'[c].state = "dead" \/ c \in unkilled'
  <2>1. CASE Alive(c) /\ c \in C
    BY <1>6, <2>1 DEF Killed, Dead
  <2>2. CASE Alive(c) /\ c \notin C
    BY <1>6, <2>2
  <2>3. CASE ~Alive(c)
    <3>1. child[c].state = "dead"
      BY <1>1, <1>4, <2>3 DEF Alive, SupTyped, ChildType
    <3> QED  BY <1>8, <3>1 DEF ChildrenGoOn
  <2> QED  BY <2>1, <2>2, <2>3
<1>10. PICK z : z = [w EXCEPT !.pc = "over"]
  OBVIOUS
<1>11. /\ z \in SupType /\ z.pc = "over" /\ z.count = w.count /\ z.pending = w.pending /\ z.reason = w.reason
       /\ z.child = w.child /\ z.crashes = w.crashes /\ z.since = w.since
  BY <1>10 DEF SupType, SupPcs
<1>12. sup' = [sup EXCEPT ![s] = z]
  BY <1>1, <1>2, <1>10 DEF Forces, SupTyped
<1>13. RequestsGoOn /\ RequestsFit' /\ StopperFits' /\ InOrder'
  BY <1>1, <1>5, <1>8, MarksCleared, StopperStays, OrderStays
<1>14. /\ sup' \in [Supervisors -> SupType] /\ sup'[s] = z
       /\ \A x \in Supervisors \ {s} : sup'[x] = sup[x]
       /\ ChildFits(s)' /\ LogFits(s)' /\ PendingFits(s)' =>
             \A x \in Supervisors : ChildFits(x)' /\ LogFits(x)' /\ PendingFits(x)'
  BY <1>1, <1>5, <1>8, <1>11, <1>12, <1>13, OneActs DEF SupTyped
<1>15. ChildFits(s)'
  <2>1. child'[c].state # "none"
    BY <1>4, <1>8 DEF ChildrenGoOn
  <2> QED  BY <1>1, <1>2, <1>3, <1>4, <1>5, <1>9, <1>11, <1>14, <2>1 DEF ChildFits, Watches
<1>16. LogFits(s)' /\ PendingFits(s)'
  BY <1>1, <1>2, <1>3, <1>5, <1>11, <1>14 DEF LogFits, PendingFits, Watches, Runs
<1>17. SupTyped'
  <2>1. unkilled' # {} => scenario'.fails
    BY <1>1, <1>5, <1>6 DEF SupTyped
  <2> QED  BY <1>1, <1>5, <1>7, <1>8, <1>14, <2>1 DEF SupTyped, ChildrenGoOn
<1>18. FileFits' /\ Tended'
  BY <1>1, <1>2, <1>5, <1>8, <1>11, <1>14, FileStays, CoverStays DEF Watches
<1> QED  BY <1>8, <1>13, <1>14, <1>15, <1>16, <1>17, <1>18 DEF SupervisionOK

\* An interrupt is a planned stop, or the end of a run that has no backend
LEMMA InterruptedKeeps == ASSUME SupervisionOK, NEW s \in Supervisors, Interrupted(s) PROVE SupervisionOK'
<1>1. /\ SupTyped /\ InOrder /\ Tended /\ FileFits /\ RequestsFit /\ StopperFits
      /\ ChildFits(s) /\ LogFits(s) /\ PendingFits(s)
  BY DEF SupervisionOK
<1>2. PICK w \in SupType : w = sup[s]
  BY <1>1 DEF SupTyped
<1>3. /\ now' = now /\ child' = child /\ stateFile' = stateFile /\ restarts' = restarts
      /\ stopper' = stopper /\ crashLog' = crashLog /\ scenario' = scenario /\ unkilled' = unkilled
  BY DEF Interrupted
<1>4. PICK m \in [stop : BOOLEAN, restart : Nat, breaker : BOOLEAN] : m = marks
  BY <1>1 DEF SupTyped
<1>5. PICK z \in SupType :
         /\ sup' = [sup EXCEPT ![s] = z] /\ z.count = w.count /\ z.child = w.child /\ z.crashes = w.crashes
         /\ z.since = w.since
         /\ \/ /\ w.pc \in {"watching", "terminating"} /\ z.pc = "terminating" /\ z.pending = 0
               /\ marks' = [m EXCEPT !.stop = TRUE]
            \/ w.pc \in {"spawning", "backoff"} /\ z.pc = "ended" /\ z.pending = w.pending /\ marks' = m
  <2>1. CASE w.pc \in {"watching", "terminating"}
    <3>1. PICK z : z = [w EXCEPT !.pc = "terminating", !.reason = "stop", !.pending = 0]
      OBVIOUS
    <3>2. /\ z \in SupType /\ z.count = w.count /\ z.child = w.child /\ z.crashes = w.crashes /\ z.since = w.since
          /\ z.pc = "terminating" /\ z.pending = 0
      BY <3>1 DEF SupType, SupPcs, Findings
    <3>3. sup' = [sup EXCEPT ![s] = z] /\ marks' = [m EXCEPT !.stop = TRUE]
      BY <1>1, <1>2, <1>4, <2>1, <3>1 DEF Interrupted, SupTyped
    <3> QED  BY <2>1, <3>2, <3>3
  <2>2. CASE w.pc \in {"spawning", "backoff"}
    <3>1. PICK z : z = [w EXCEPT !.pc = "ended"]
      OBVIOUS
    <3>2. /\ z \in SupType /\ z.count = w.count /\ z.child = w.child /\ z.crashes = w.crashes /\ z.since = w.since
          /\ z.pc = "ended" /\ z.pending = w.pending
      BY <3>1 DEF SupType, SupPcs
    <3>3. sup' = [sup EXCEPT ![s] = z] /\ marks' = m
      BY <1>1, <1>2, <1>4, <2>2, <3>1 DEF Interrupted, SupTyped
    <3> QED  BY <2>2, <3>2, <3>3
  <2> QED  BY <1>2, <2>1, <2>2 DEF Interrupted
<1>6. marks' \in [stop : BOOLEAN, restart : Nat, breaker : BOOLEAN] /\ marks'.restart = marks.restart
  <2>1. [m EXCEPT !.stop = TRUE] \in [stop : BOOLEAN, restart : Nat, breaker : BOOLEAN]
        /\ [m EXCEPT !.stop = TRUE].restart = m.restart
    OBVIOUS
  <2> QED  BY <1>4, <1>5, <2>1
<1>7. ChildrenGoOn /\ NoneStarted /\ RequestsGoOn /\ RequestsFit' /\ StopperFits' /\ InOrder'
  BY <1>1, <1>3, <1>6, ChildrenStay, MarksCleared, StopperStays, OrderStays
<1>8. /\ sup' \in [Supervisors -> SupType] /\ sup'[s] = z
      /\ \A x \in Supervisors \ {s} : sup'[x] = sup[x]
      /\ ChildFits(s)' /\ LogFits(s)' /\ PendingFits(s)' =>
            \A x \in Supervisors : ChildFits(x)' /\ LogFits(x)' /\ PendingFits(x)'
  BY <1>1, <1>3, <1>5, <1>7, OneActs DEF SupTyped
<1>9. ChildFits(s)'
  BY <1>1, <1>2, <1>3, <1>5, <1>8 DEF ChildFits, Watches
<1>10. LogFits(s)'
  BY <1>1, <1>2, <1>3, <1>5, <1>8 DEF LogFits, Runs
<1>11. PendingFits(s)'
  <2>1. 0 <= restarts.asked
    BY <1>1 DEF SupTyped
  <2> QED  BY <1>1, <1>2, <1>3, <1>5, <1>8, <2>1 DEF PendingFits
<1>12. SupTyped'
  BY <1>1, <1>3, <1>6, <1>8 DEF SupTyped
<1>13. FileFits' /\ Tended'
  BY <1>1, <1>2, <1>3, <1>5, <1>7, <1>8, FileStays, CoverStays DEF Watches
<1> QED  BY <1>7, <1>8, <1>9, <1>10, <1>11, <1>12, <1>13 DEF SupervisionOK

\* A supervisor that is done with its backend leaves it out of the state file
LEMMA ClearsStateDoes ==
    ASSUME SupervisionOK, NEW s \in Supervisors, ClearsState(s), child' = child, unkilled' = unkilled
    PROVE  /\ sup[s].child \in Spawns /\ sup[s].child # Nobody
           /\ ChildrenGoOn /\ NoneStarted
           /\ child'[sup[s].child].state # "none"
           /\ child'[sup[s].child].state = "dead" \/ sup[s].child \in unkilled'
           /\ stateFile' \in 0..MaxSpawns /\ stateFile' # sup[s].child
           /\ stateFile' # Nobody => stateFile' = stateFile
<1>1. SupTyped /\ ChildFits(s) /\ Watches(s) /\ sup[s].pc = "over"
  BY DEF SupervisionOK, ClearsState, Watches
<1>2. sup[s].child \in Spawns /\ sup[s].child # Nobody /\ child[sup[s].child].state # "none"
  BY <1>1, HasBackend
<1>3. child[sup[s].child].state = "dead" \/ sup[s].child \in unkilled
  BY <1>1, <1>2 DEF ChildFits
<1>4. ChildrenGoOn /\ NoneStarted
  BY <1>1, ChildrenStay
<1>5. stateFile \in 0..MaxSpawns /\ Nobody \in 0..MaxSpawns
  BY <1>1, SupervisorAssumption DEF SupTyped, Nobody, SupervisorAssumption
<1> QED  BY <1>2, <1>3, <1>4, <1>5 DEF ClearsState

\* The restart that was asked for is carried out
LEMMA PlannedRestartKeeps == ASSUME SupervisionOK, NEW s \in Supervisors, PlannedRestart(s) PROVE SupervisionOK'
<1>1. /\ SupTyped /\ InOrder /\ Tended /\ FileFits /\ RequestsFit /\ StopperFits
      /\ ChildFits(s) /\ LogFits(s) /\ PendingFits(s)
  BY DEF SupervisionOK
<1>2. PICK w \in SupType : w = sup[s]
  BY <1>1 DEF SupTyped
<1>3. /\ w.pc = "over" /\ w.child \in 0..MaxSpawns /\ w.crashes \in SUBSET (Nat \X Spawns) /\ w.count \in Nat
      /\ w.pending \in Nat /\ w.since \in Int
  BY <1>2 DEF PlannedRestart, ClearsState, SupType
<1>4. ClearsState(s) /\ child' = child /\ unkilled' = unkilled
  BY DEF PlannedRestart
<1>5. /\ w.child \in Spawns /\ w.child # Nobody
      /\ ChildrenGoOn /\ NoneStarted /\ child'[w.child].state # "none"
      /\ child'[w.child].state = "dead" \/ w.child \in unkilled'
      /\ stateFile' \in 0..MaxSpawns /\ stateFile' # w.child
      /\ stateFile' # Nobody => stateFile' = stateFile
  BY <1>2, <1>4, ClearsStateDoes
<1>6. /\ now' = now /\ restarts' = restarts /\ stopper' = stopper /\ crashLog' = crashLog /\ scenario' = scenario
      /\ marks' = [marks EXCEPT !.restart = 0]
  BY DEF PlannedRestart, RestartTaken
<1>7. marks' \in [stop : BOOLEAN, restart : Nat, breaker : BOOLEAN] /\ marks'.restart = 0
  BY <1>1, <1>6 DEF SupTyped
<1>8. PICK z : z = [w EXCEPT !.pc = "spawning", !.count = 0]
  OBVIOUS
<1>9. /\ z \in SupType /\ z.pc = "spawning" /\ z.count = 0 /\ z.pending = w.pending
      /\ z.child = w.child /\ z.crashes = w.crashes /\ z.since = w.since
  BY <1>8 DEF SupType, SupPcs
<1>10. sup' = [sup EXCEPT ![s] = z]
  BY <1>1, <1>2, <1>8 DEF PlannedRestart, SupTyped
<1>11. RequestsGoOn /\ RequestsFit' /\ StopperFits' /\ InOrder'
  BY <1>1, <1>5, <1>6, <1>7, MarksCleared, StopperStays, OrderStays
<1>12. /\ sup' \in [Supervisors -> SupType] /\ sup'[s] = z
       /\ \A x \in Supervisors \ {s} : sup'[x] = sup[x]
       /\ ChildFits(s)' /\ LogFits(s)' /\ PendingFits(s)' =>
             \A x \in Supervisors : ChildFits(x)' /\ LogFits(x)' /\ PendingFits(x)'
  BY <1>1, <1>5, <1>6, <1>9, <1>10, <1>11, OneActs DEF SupTyped
<1>13. ChildFits(s)'
  BY <1>1, <1>2, <1>3, <1>5, <1>6, <1>9, <1>12 DEF ChildFits, Watches
<1>14. LogFits(s)' /\ PendingFits(s)'
  BY <1>1, <1>2, <1>3, <1>6, <1>7, <1>9, <1>12 DEF LogFits, PendingFits, Watches, Runs
<1>15. SupTyped'
  BY <1>1, <1>4, <1>5, <1>6, <1>7, <1>12 DEF SupTyped, ChildrenGoOn
<1>16. FileFits' /\ Tended'
  <2>1. FileFits'
    BY <1>1, <1>2, <1>5, <1>12, FileStays
  <2>2. Tended'
    BY <1>1, <1>2, <1>5, <1>12, CoverStays DEF Watches
  <2> QED  BY <2>1, <2>2
<1> QED  BY <1>11, <1>12, <1>13, <1>14, <1>15, <1>16 DEF SupervisionOK

\* The stop that was asked for is carried out
LEMMA PlannedStopKeeps == ASSUME SupervisionOK, NEW s \in Supervisors, PlannedStop(s) PROVE SupervisionOK'
<1>1. /\ SupTyped /\ InOrder /\ Tended /\ FileFits /\ RequestsFit /\ StopperFits
      /\ ChildFits(s) /\ LogFits(s) /\ PendingFits(s)
  BY DEF SupervisionOK
<1>2. PICK w \in SupType : w = sup[s]
  BY <1>1 DEF SupTyped
<1>3. /\ w.pc = "over" /\ w.child \in 0..MaxSpawns /\ w.crashes \in SUBSET (Nat \X Spawns) /\ w.count \in Nat
      /\ w.pending \in Nat
  BY <1>2 DEF PlannedStop, ClearsState, SupType
<1>4. ClearsState(s) /\ child' = child /\ unkilled' = unkilled
  BY DEF PlannedStop
<1>5. /\ w.child \in Spawns /\ w.child # Nobody
      /\ ChildrenGoOn /\ NoneStarted /\ child'[w.child].state # "none"
      /\ child'[w.child].state = "dead" \/ w.child \in unkilled'
      /\ stateFile' \in 0..MaxSpawns /\ stateFile' # w.child
      /\ stateFile' # Nobody => stateFile' = stateFile
  BY <1>2, <1>4, ClearsStateDoes
<1>6. /\ now' = now /\ restarts' = restarts /\ stopper' = stopper /\ crashLog' = crashLog /\ scenario' = scenario
      /\ marks' = [marks EXCEPT !.stop = FALSE, !.restart = 0]
  BY DEF PlannedStop
<1>7. marks' \in [stop : BOOLEAN, restart : Nat, breaker : BOOLEAN] /\ marks'.restart = 0
  BY <1>1, <1>6 DEF SupTyped
<1>8. PICK z : z = [w EXCEPT !.pc = "ended"]
  OBVIOUS
<1>9. /\ z \in SupType /\ z.pc = "ended" /\ z.count = w.count /\ z.pending = w.pending
      /\ z.child = w.child /\ z.crashes = w.crashes
  BY <1>8 DEF SupType, SupPcs
<1>10. sup' = [sup EXCEPT ![s] = z]
  BY <1>1, <1>2, <1>8 DEF PlannedStop, SupTyped
<1>11. RequestsGoOn /\ RequestsFit' /\ StopperFits' /\ InOrder'
  BY <1>1, <1>5, <1>6, <1>7, MarksCleared, StopperStays, OrderStays
<1>12. /\ sup' \in [Supervisors -> SupType] /\ sup'[s] = z
       /\ \A x \in Supervisors \ {s} : sup'[x] = sup[x]
       /\ ChildFits(s)' /\ LogFits(s)' /\ PendingFits(s)' =>
             \A x \in Supervisors : ChildFits(x)' /\ LogFits(x)' /\ PendingFits(x)'
  BY <1>1, <1>5, <1>6, <1>9, <1>10, <1>11, OneActs DEF SupTyped
<1>13. ChildFits(s)'
  BY <1>1, <1>2, <1>3, <1>5, <1>9, <1>12 DEF ChildFits, Watches
<1>14. LogFits(s)' /\ PendingFits(s)'
  BY <1>1, <1>2, <1>3, <1>6, <1>9, <1>12 DEF LogFits, PendingFits, Watches, Runs
<1>15. SupTyped'
  BY <1>1, <1>4, <1>5, <1>6, <1>7, <1>12 DEF SupTyped, ChildrenGoOn
<1>16. FileFits' /\ Tended'
  <2>1. FileFits'
    BY <1>1, <1>2, <1>5, <1>12, FileStays
  <2>2. Tended'
    BY <1>1, <1>2, <1>5, <1>12, CoverStays DEF Watches
  <2> QED  BY <2>1, <2>2
<1> QED  BY <1>11, <1>12, <1>13, <1>14, <1>15, <1>16 DEF SupervisionOK

\* What the list of crashes comes to be is what the log has in the window before now
LEMMA CrashesCounted ==
    ASSUME SupervisionOK, NEW s \in Supervisors, sup[s].pc = "over", sup[s].child \in Spawns,
           NEW log, log = crashLog[s] \cup {<<now, sup[s].child>>}
    PROVE  /\ IsFiniteSet(log) /\ log \in SUBSET (Nat \X Spawns) /\ \A t \in log : t[1] <= now
           /\ LastCrash(log, <<now, sup[s].child>>)
           /\ CrashTimes(s) = InWindow(log, <<now, sup[s].child>>)
           /\ Cardinality(CrashTimes(s)) \in Nat
<1>1. SupTyped /\ ChildFits(s) /\ LogFits(s)
  BY DEF SupervisionOK
<1>2. PICK w \in SupType : w = sup[s]
  BY <1>1 DEF SupTyped
<1>3. now \in Nat /\ w.since \in Int /\ w.since <= now /\ CrashWindow \in Nat /\ StableRuntime \in Nat
      /\ CrashWindow <= StableRuntime
  BY <1>1, <1>2, SupervisorAssumption DEF SupTyped, SupType, ChildFits, SupervisorAssumption
<1>4. PICK old \in SUBSET (Nat \X Spawns) : old = crashLog[s]
  BY <1>1 DEF SupTyped
<1>5. \A t \in old : t[1] \in Nat /\ t[1] < w.since
  BY <1>1, <1>2, <1>4 DEF LogFits, Runs
<1> PICK e : e = <<now, sup[s].child>>
  OBVIOUS
<1>6. e \in Nat \X Spawns /\ e[1] = now
  BY <1>3
<1>7. IsFiniteSet(log) /\ log \in SUBSET (Nat \X Spawns) /\ \A t \in log : t[1] <= now
  <2>1. IsFiniteSet(log)
    BY <1>1, FS_AddElement DEF LogFits
  <2>2. \A t \in log : t \in old \/ t = e
    BY <1>4
  <2>3. \A t \in log : t[1] <= now
    BY <1>3, <1>5, <1>6, <2>2
  <2> QED  BY <1>4, <1>6, <2>1, <2>3
<1>8. LastCrash(log, e)
  BY <1>6, <1>7 DEF LastCrash
<1>9. CrashTimes(s) = InWindow(log, e)
  <2>1. \A t \in old : now - t[1] <= CrashWindow <=> t \in w.crashes /\ now - t[1] <= CrashWindow
    <3> SUFFICES ASSUME NEW t \in old, now - t[1] <= CrashWindow PROVE t \in w.crashes
      OBVIOUS
    <3>1. PICK m \in old : LastCrash(old, m) /\ w.crashes = InWindow(old, m)
      BY <1>1, <1>2, <1>4 DEF LogFits
    <3>2. m[1] \in Nat /\ m[1] <= now /\ t[1] \in Nat
      BY <1>3, <1>5, <3>1
    <3>3. m[1] - t[1] <= CrashWindow
      BY <1>3, <3>2
    <3> QED  BY <3>1, <3>3 DEF InWindow
  <2>2. w.crashes \subseteq old
    BY <1>1, <1>2, <1>4 DEF LogFits, InWindow
  <2> DEFINE before == IF Floor0(now - w.since) >= StableRuntime THEN {} ELSE w.crashes
  <2>3. \A t \in old : now - t[1] <= CrashWindow => t \in before
    <3> SUFFICES ASSUME NEW t \in old, now - t[1] <= CrashWindow PROVE t \in before
      OBVIOUS
    <3>1. ~(Floor0(now - w.since) >= StableRuntime)
      <4>1. t[1] \in Nat /\ t[1] < w.since
        BY <1>5
      <4>2. now - w.since < CrashWindow
        BY <1>3, <4>1
      <4> QED  BY <1>3, <4>2 DEF Floor0
    <3> QED  BY <2>1, <3>1
  <2>4. before \subseteq old
    BY <2>2
  <2>5. CrashTimes(s) = {t \in before \cup {e} : now - t[1] <= CrashWindow}
    BY <1>2 DEF CrashTimes
  <2> HIDE DEF before
  <2>6. InWindow(log, e) = {t \in old \cup {e} : now - t[1] <= CrashWindow}
    BY <1>4, <1>6 DEF InWindow
  <2> QED  BY <2>3, <2>4, <2>5, <2>6
<1>10. Cardinality(CrashTimes(s)) \in Nat
  <2>1. CrashTimes(s) \subseteq log
    BY <1>9 DEF InWindow
  <2>2. IsFiniteSet(CrashTimes(s))
    BY <1>7, <2>1, FS_Subset
  <2> QED  BY <2>2, FS_CardinalityType
<1> QED  BY <1>7, <1>8, <1>9, <1>10

\* The backoff is a length of time
LEMMA BackoffIsTime ==
    ASSUME NEW n \in 0..MaxSpawns
    PROVE  Least({MaxBackoff, InitialBackoff * 2 ^ n}) \in Int /\ Least({MaxBackoff, InitialBackoff * 2 ^ n}) >= 1
<1>1. PICK k \in Int : k = InitialBackoff * 2 ^ n /\ k >= 1
  BY SupervisorAssumption DEF SupervisorAssumption
<1>2. PICK m \in Int : m = MaxBackoff /\ m >= 1
  BY SupervisorAssumption DEF SupervisorAssumption
<1>3. \E x \in {m, k} : \A y \in {m, k} : x <= y
  <2>1. CASE m <= k
    BY <2>1
  <2>2. CASE ~(m <= k)
    BY <2>2
  <2> QED  BY <2>1, <2>2
<1>4. Least({m, k}) \in {m, k}
  BY <1>3 DEF Least
<1> QED  BY <1>1, <1>2, <1>4

\* An unplanned exit is counted, and the breaker opens at the limit
LEMMA CrashedKeeps == ASSUME SupervisionOK, NEW s \in Supervisors, Crashed(s) PROVE SupervisionOK'
<1>1. /\ SupTyped /\ InOrder /\ Tended /\ FileFits /\ RequestsFit /\ StopperFits
      /\ ChildFits(s) /\ LogFits(s) /\ PendingFits(s)
  BY DEF SupervisionOK
<1>2. PICK w \in SupType : w = sup[s]
  BY <1>1 DEF SupTyped
<1>3. /\ w.pc = "over" /\ w.reason # "restart" /\ w.child \in 0..MaxSpawns /\ w.count \in Nat
      /\ w.pending \in Nat /\ w.since \in Int
  BY <1>2 DEF Crashed, ClearsState, SupType
<1>4. ClearsState(s) /\ child' = child /\ unkilled' = unkilled
  BY DEF Crashed
<1>5. /\ w.child \in Spawns /\ w.child # Nobody
      /\ ChildrenGoOn /\ NoneStarted /\ child'[w.child].state # "none"
      /\ child'[w.child].state = "dead" \/ w.child \in unkilled'
      /\ stateFile' \in 0..MaxSpawns /\ stateFile' # w.child
      /\ stateFile' # Nobody => stateFile' = stateFile
  BY <1>2, <1>4, ClearsStateDoes
<1>6. now' = now /\ restarts' = restarts /\ stopper' = stopper /\ scenario' = scenario
  BY DEF Crashed
<1>7. PICK e : e = <<now, w.child>>
  OBVIOUS
<1>8. PICK log : log = crashLog[s] \cup {e}
  OBVIOUS
<1>9. /\ crashLog' = [crashLog EXCEPT ![s] = log]
  BY <1>1, <1>2, <1>7, <1>8 DEF Crashed, SupTyped
<1>10. PICK K : K = CrashTimes(s)
  OBVIOUS
<1>11. /\ IsFiniteSet(log) /\ log \in SUBSET (Nat \X Spawns) /\ (\A t \in log : t[1] <= now) /\ e \in log
       /\ LastCrash(log, e) /\ K = InWindow(log, e) /\ Cardinality(K) \in Nat
  BY <1>2, <1>3, <1>5, <1>7, <1>8, <1>10, CrashesCounted
<1>12. K \in SUBSET (Nat \X Spawns)
  BY <1>11 DEF InWindow
<1>13. /\ crashLog' \in [Supervisors -> SUBSET (Nat \X Spawns)] /\ crashLog'[s] = log
       /\ \A x \in Supervisors \ {s} : crashLog'[x] = crashLog[x]
  BY <1>1, <1>9, <1>11 DEF SupTyped
<1>14. PICK m \in [stop : BOOLEAN, restart : Nat, breaker : BOOLEAN] : m = marks
  BY <1>1 DEF SupTyped
<1>15. PICK z \in SupType :
          /\ sup' = [sup EXCEPT ![s] = z] /\ z.child = w.child /\ z.crashes = K /\ z.pending = w.pending
          /\ \/ z.pc = "ended" /\ z.count = w.count /\ marks' = [m EXCEPT !.breaker = TRUE]
             \/ z.pc = "backoff" /\ z.count = w.count + 1 /\ Cardinality(K) < MaxCrashes /\ marks' = m /\ z.since > now
  <2>1. CASE Cardinality(K) >= MaxCrashes
    <3>1. PICK z : z = [w EXCEPT !.pc = "ended", !.crashes = K]
      OBVIOUS
    <3>2. z \in SupType /\ z.pc = "ended" /\ z.child = w.child /\ z.crashes = K /\ z.pending = w.pending
          /\ z.count = w.count
      BY <3>1, <1>12 DEF SupType, SupPcs
    <3>3. sup' = [sup EXCEPT ![s] = z] /\ marks' = [m EXCEPT !.breaker = TRUE]
      BY <1>1, <1>2, <1>10, <1>14, <2>1, <3>1 DEF Crashed, SupTyped
    <3> QED  BY <3>2, <3>3
  <2>2. CASE ~(Cardinality(K) >= MaxCrashes)
    <3>1. PICK v : v = now + Least({MaxBackoff, InitialBackoff * 2 ^ w.count})
      OBVIOUS
    <3>2. v \in Int /\ v > now
      <4>1. w.count \in 0..MaxSpawns
        BY <1>1, <1>2, <1>3, SupervisorAssumption DEF ChildFits, SupervisorAssumption
      <4>2. PICK d \in Int : d = Least({MaxBackoff, InitialBackoff * 2 ^ w.count}) /\ d >= 1
        BY <4>1, BackoffIsTime
      <4> QED  BY <1>1, <3>1, <4>2 DEF SupTyped
    <3>3. PICK n \in Nat : n = w.count + 1
      BY <1>3
    <3>4. PICK z : z = [w EXCEPT !.pc = "backoff", !.crashes = K, !.count = n, !.since = v]
      OBVIOUS
    <3>5. z \in SupType /\ z.pc = "backoff" /\ z.child = w.child /\ z.crashes = K /\ z.pending = w.pending
          /\ z.count = w.count + 1 /\ z.since = v
      BY <1>12, <3>2, <3>4, <3>3 DEF SupType, SupPcs
    <3>6. sup' = [sup EXCEPT ![s] = z] /\ marks' = m
      <4>1. /\ marks' = m
            /\ sup' = [sup EXCEPT ![s] = [w EXCEPT !.pc = "backoff", !.crashes = CrashTimes(s), !.count = @ + 1,
                                                  !.since = now + Backoff(s)]]
        <5>1. ~(Cardinality(CrashTimes(s)) >= MaxCrashes)
          BY <1>10, <2>2
        <5>2. /\ UNCHANGED marks
              /\ sup' = [sup EXCEPT ![s] = [sup[s] EXCEPT !.pc = "backoff", !.crashes = CrashTimes(s),
                                                         !.count = sup[s].count + 1, !.since = now + Backoff(s)]]
          BY <5>1 DEF Crashed
        <5> QED  BY <5>2, <1>2, <1>14
      <4>2. now + Backoff(s) = v
        BY <1>2, <3>1 DEF Backoff
      <4>3. z = [w EXCEPT !.pc = "backoff", !.crashes = CrashTimes(s), !.count = @ + 1, !.since = now + Backoff(s)]
        BY <1>10, <3>4, <3>3, <4>2 DEF SupType
      <4> QED  BY <4>1, <4>3
    <3>7. Cardinality(K) < MaxCrashes
      BY <1>11, <2>2, SupervisorAssumption DEF SupervisorAssumption
    <3> QED  BY <3>2, <3>5, <3>6, <3>7
  <2> QED  BY <2>1, <2>2
<1>16. marks' \in [stop : BOOLEAN, restart : Nat, breaker : BOOLEAN] /\ marks'.restart = marks.restart
  <2>1. [m EXCEPT !.breaker = TRUE] \in [stop : BOOLEAN, restart : Nat, breaker : BOOLEAN]
        /\ [m EXCEPT !.breaker = TRUE].restart = m.restart
    OBVIOUS
  <2> QED  BY <1>14, <1>15, <2>1
<1>17. RequestsGoOn /\ RequestsFit' /\ StopperFits' /\ InOrder'
  BY <1>1, <1>5, <1>6, <1>16, MarksCleared, StopperStays, OrderStays
<1>18. /\ sup' \in [Supervisors -> SupType] /\ sup'[s] = z
       /\ \A x \in Supervisors \ {s} : sup'[x] = sup[x]
       /\ ChildFits(s)' /\ LogFits(s)' /\ PendingFits(s)' =>
             \A x \in Supervisors : ChildFits(x)' /\ LogFits(x)' /\ PendingFits(x)'
  BY <1>5, <1>6, <1>13, <1>15, <1>17, OneActs
<1>19. ChildFits(s)'
  <2>1. w.count < w.child
    BY <1>1, <1>2, <1>3 DEF ChildFits, Watches
  <2>2. z.count <= z.child
    BY <1>3, <1>15, <2>1
  <2> QED  BY <1>5, <1>15, <1>18, <2>2 DEF ChildFits, Watches
<1>20. LogFits(s)'
  <2>1. z.pc = "backoff" => \A t \in log : t[1] < z.since
    BY <1>1, <1>11, <1>15 DEF SupTyped, SupType
  <2> QED  BY <1>6, <1>11, <1>13, <1>15, <1>18, <2>1 DEF LogFits, Runs
<1>21. PendingFits(s)'
  BY <1>1, <1>2, <1>3, <1>6, <1>15, <1>18 DEF PendingFits
<1>22. SupTyped'
  BY <1>1, <1>4, <1>5, <1>6, <1>13, <1>16, <1>18 DEF SupTyped, ChildrenGoOn
<1>23. FileFits' /\ Tended'
  <2>1. FileFits'
    BY <1>1, <1>2, <1>5, <1>18, FileStays
  <2>2. Tended'
    BY <1>1, <1>2, <1>5, <1>18, CoverStays DEF Watches
  <2> QED  BY <2>1, <2>2
<1> QED  BY <1>17, <1>18, <1>19, <1>20, <1>21, <1>22, <1>23 DEF SupervisionOK

\* The backoff passes or a stop cuts it short
LEMMA WaitBackoffKeeps == ASSUME SupervisionOK, NEW s \in Supervisors, WaitBackoff(s) PROVE SupervisionOK'
<1>1. /\ SupTyped /\ InOrder /\ Tended /\ FileFits /\ RequestsFit /\ StopperFits
      /\ ChildFits(s) /\ LogFits(s) /\ PendingFits(s)
  BY DEF SupervisionOK
<1>2. PICK w \in SupType : w = sup[s]
  BY <1>1 DEF SupTyped
<1>3. /\ w.pc = "backoff" /\ w.child \in 0..MaxSpawns /\ w.crashes \in SUBSET (Nat \X Spawns) /\ w.count \in Nat
      /\ w.pending \in Nat /\ w.since \in Int
  BY <1>2 DEF WaitBackoff, SupType
<1>4. /\ now' = now /\ child' = child /\ marks' = marks /\ stateFile' = stateFile /\ restarts' = restarts
      /\ stopper' = stopper /\ crashLog' = crashLog /\ scenario' = scenario /\ unkilled' = unkilled
  BY DEF WaitBackoff
<1>5. PICK p \in {"ended", "spawning"} : p = IF marks.stop THEN "ended" ELSE "spawning"
  OBVIOUS
<1>6. p = "spawning" => w.since <= now
  BY <1>1, <1>2, <1>3, <1>5 DEF WaitBackoff, Waited, SupTyped
<1>7. PICK z : z = [w EXCEPT !.pc = p]
  OBVIOUS
<1>8. /\ z \in SupType /\ z.pc = p /\ z.count = w.count /\ z.pending = w.pending
      /\ z.child = w.child /\ z.crashes = w.crashes /\ z.since = w.since
  BY <1>7 DEF SupType, SupPcs
<1>9. sup' = [sup EXCEPT ![s] = z]
  BY <1>1, <1>2, <1>5, <1>7 DEF WaitBackoff, SupTyped
<1>10. ChildrenGoOn /\ NoneStarted /\ RequestsGoOn /\ RequestsFit' /\ StopperFits' /\ InOrder'
  BY <1>1, <1>4, ChildrenStay, MarksCleared, StopperStays, OrderStays
<1>11. /\ sup' \in [Supervisors -> SupType] /\ sup'[s] = z
       /\ \A x \in Supervisors \ {s} : sup'[x] = sup[x]
       /\ ChildFits(s)' /\ LogFits(s)' /\ PendingFits(s)' =>
             \A x \in Supervisors : ChildFits(x)' /\ LogFits(x)' /\ PendingFits(x)'
  BY <1>1, <1>4, <1>8, <1>9, <1>10, OneActs DEF SupTyped
<1>12. ChildFits(s)'
  BY <1>1, <1>2, <1>3, <1>4, <1>6, <1>8, <1>11 DEF ChildFits, Watches
<1>13. LogFits(s)' /\ PendingFits(s)'
  BY <1>1, <1>2, <1>3, <1>4, <1>8, <1>11 DEF LogFits, PendingFits, Watches, Runs
<1>14. SupTyped'
  BY <1>1, <1>4, <1>11 DEF SupTyped
<1>15. FileFits' /\ Tended'
  BY <1>1, <1>2, <1>3, <1>4, <1>10, <1>11, FileStays, CoverStays DEF Watches
<1> QED  BY <1>10, <1>11, <1>12, <1>13, <1>14, <1>15 DEF SupervisionOK

\* Every step preserves the invariant
LEMMA SupervisionStays == SupervisionOK /\ [SvNext]_svVars => SupervisionOK'
<1> SUFFICES ASSUME SupervisionOK, [SvNext]_svVars PROVE SupervisionOK'
  OBVIOUS
<1>1. CASE \E c \in Spawns : Binds(c) \/ Hangs(c) \/ Crashes(c) \/ Closes(c) \/ Exits(c)
  BY <1>1, BackendKeeps
<1>2. ASSUME NEW s \in Supervisors, RunBegins(s) \/ SupStep(s) \/ Interrupted(s) PROVE SupervisionOK'
  BY <1>2, RunBeginsKeeps, SpawnKeeps, WatchKeeps, EndsKeeps, ForcesKeeps, InterruptedKeeps, PlannedRestartKeeps, PlannedStopKeeps, CrashedKeeps,
     WaitBackoffKeeps DEF SupStep
<1>3. CASE RequestRestart \/ StopBegins \/ StopMarks \/ StopSees \/ StopForces \/ SvTick
  BY <1>3, RequestKeeps, StopCommandKeeps, TickKeeps
<1>4. CASE UNCHANGED svVars
  <2>1. SupTyped /\ RequestsFit /\ StopperFits
    BY DEF SupervisionOK
  <2>2. /\ now' = now /\ sup' = sup /\ child' = child /\ marks' = marks /\ stateFile' = stateFile
        /\ restarts' = restarts /\ stopper' = stopper /\ scenario' = scenario /\ crashLog' = crashLog
        /\ unkilled' = unkilled
    BY <1>4 DEF svVars
  <2>3. SupTyped' /\ ChildrenGoOn /\ NoneStarted /\ RequestsFit' /\ RequestsGoOn /\ StopperFits'
    BY <2>1, <2>2, ChildrenStay, MarksCleared, StopperStays DEF SupTyped
  <2>4. now' \in Nat /\ now <= now'
    BY <2>1, <2>2 DEF SupTyped
  <2> QED  BY <2>2, <2>3, <2>4, NoSupervisorActs
<1> QED  BY <1>1, <1>2, <1>3, <1>4 DEF SvNext

\* In every reachable state a backend that is alive is watched by a supervisor that runs, unless it
\* withstood kills that failed; what a supervisor counts as crashes is what happened in the
\* window before the last one and stays below the breaker's limit while it runs, the state file
\* names a backend that is watched, a restart is reported completed only when it was asked for and
\* taken, and the backend that an answered stop confirmed is off the port for good
\* (backend/service_supervisor.py), whatever the backends and the kills do, wherever a run is
\* interrupted, and however many supervisors run.
THEOREM SupervisionCorrect == SvSpec => []SupervisionExact
<1>1. SvSpec => []SupervisionOK
  BY SupervisionStarts, SupervisionStays, PTL DEF SvSpec
<1> QED  BY <1>1, SupervisionOKSuffices, PTL

=============================================================================
