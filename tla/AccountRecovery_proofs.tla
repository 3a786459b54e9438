----------------------- MODULE AccountRecovery_proofs -----------------------
(* Every reachable state of the recovery is well-typed, every recovery marker *)
(* is backed by a notification, rebuilds are single-flight, and a settled     *)
(* session serves every ticker assigned to it.                                *)
EXTENDS AccountRecovery, FiniteSetTheorems, TLAPS

-----------------------------------------------------------------------------
(* The pieces of the handlers                                              *)

\* A list of the pairs of a finite set is a sequence of them, as long as the set
LEMMA InOrderType ==
    ASSUME NEW S, IsFiniteSet(S), NEW L \in InOrder(S)
    PROVE  L \in Seq(S) /\ (S # {} => L # <<>>)
<1>1. Cardinality(S) \in Nat /\ (Cardinality(S) = 0 <=> S = {})
  BY FS_CardinalityType, FS_EmptySet
<1>2. L \in [1..Cardinality(S) -> S]
  BY DEF InOrder
<1> QED
  BY <1>1, <1>2

\* Pairs of an account and something of a finite set
LEMMA FinitePairs ==
    ASSUME NEW B, IsFiniteSet(B), NEW S \in SUBSET (Accounts \X B)
    PROVE  IsFiniteSet(S)
  BY RecoveryAssumption, FS_Product, FS_Subset DEF RecoveryAssumption

\* An assignment keeps the types, and it only takes markers away
LEMMA AssignType ==
    ASSUME TypeOK, NEW C \in SUBSET Channels, Assign(C), UNCHANGED <<up, handler>>
    PROVE  /\ SessionOK'
           /\ serve' \in [Channels -> Accounts \cup {NoAccount}]
           /\ left' \in 0..MaxFaults
           /\ \A a \in Accounts : pending'[a] \subseteq pending[a]
<1> DEFINE on(pick, a) == {ch \in C : pick[ch] = a}
<1>1. PICK pick \in [C -> Accounts \cup {NoAccount}] :
        /\ left' = left \/ (left > 0 /\ left' = left - 1)
        /\ serve' = [ch \in Channels |-> IF ch \in C THEN pick[ch] ELSE serve[ch]]
        /\ ws' = [a \in Accounts |-> [ch \in Channels |->
                        IF ch \in on(pick, a) THEN "open" ELSE ws[a][ch]]]
        /\ chan' = [a \in Accounts |-> [ch \in Channels |->
                        IF ch \in on(pick, a) THEN "connected" ELSE chan[a][ch]]]
        /\ pending' = [a \in Accounts |->
                            pending[a] \ {ch \in on(pick, a) : ws[a][ch] = "none"}]
  BY DEF Assign, Happens
<1>2. left' \in 0..MaxFaults
  BY <1>1, RecoveryAssumption DEF TypeOK, RecoveryAssumption
<1>3. serve' \in [Channels -> Accounts \cup {NoAccount}]
  BY <1>1 DEF TypeOK
<1>4. /\ ws' \in [Accounts -> [Channels -> {"none", "open", "closed"}]]
      /\ chan' \in [Accounts -> [Channels -> {"down", "connected"}]]
  BY <1>1 DEF TypeOK, SessionOK
<1>5. \A a \in Accounts : pending'[a] \subseteq pending[a]
  BY <1>1
<1>6. pending' \in [Accounts -> SUBSET Channels]
  BY <1>1 DEF TypeOK, SessionOK
<1> QED
  BY <1>2, <1>3, <1>4, <1>5, <1>6 DEF TypeOK, SessionOK

-----------------------------------------------------------------------------
(* The inductive invariant                                                 *)

Waits(x) == \E i \in DOMAIN lockq : lockq[i] = x
First(x) == lockq # <<>> /\ lockq[1] = x

\* Everyone queues once for _reload_lock, and who works under it is its holder
Queueing ==
    /\ \A i, j \in DOMAIN lockq : lockq[i] = lockq[j] => i = j
    /\ \A a \in Accounts : Running(a) <=> Waits(a)
    /\ reload.at # "none" <=> Waits(Reload)
    /\ \A a \in Accounts : task[a].phase \in {"login", "rebalance"} => First(a)
    /\ reload.at \in {"login", "rebalance"} => First(Reload)

Awaits(p, a) ==
    proc[p].pc \in {"owner", "joiner"} /\ proc[p].acct = a /\ proc[p].result = "none"
Owns(p, a) == proc[p].pc = "owner" /\ proc[p].acct = a /\ proc[p].result = "none"

\* A running rebuild has one owner, and only a running one is awaited
Owned ==
    \A a \in Accounts :
        /\ Running(a) => \E p \in Procs : Owns(p, a)
        /\ \A p \in Procs : Awaits(p, a) => Running(a)
        /\ \A p, q \in Procs : Owns(p, a) /\ Owns(q, a) => p = q

Flight == FlightOK /\ Queueing /\ Owned
IInv == TypeOK /\ Queueing /\ Owned /\ MarkerBacked

LEMMA Outcomes == DOMAIN Recorded = {"ok", "failed", "config"}
  BY DEF Recorded

\* What joining the end of the queue does to it
LEMMA QueueUp ==
    ASSUME FlightOK, Queueing, NEW x \in Accounts \cup {Reload}, ~Waits(x),
           lockq' = Append(lockq, x)
    PROVE  /\ lockq' \in Seq(Accounts \cup {Reload})
           /\ \A i, j \in DOMAIN lockq' : lockq'[i] = lockq'[j] => i = j
           /\ \A y : Waits(y)' <=> Waits(y) \/ y = x
           /\ \A y : First(y) => First(y)'
<1> DEFINE n == Len(lockq)
<1>1. n \in Nat /\ lockq \in Seq(Accounts \cup {Reload}) /\ DOMAIN lockq = 1..n
  BY DEF FlightOK
<1>2. /\ lockq' \in Seq(Accounts \cup {Reload})
      /\ DOMAIN lockq' = 1..(n + 1)
      /\ lockq'[n + 1] = x
      /\ \A i \in 1..n : lockq'[i] = lockq[i]
  BY <1>1
<1>3. \A i \in 1..n : lockq[i] # x
  BY <1>1 DEF Waits
<1> HIDE DEF n
<1>4. \A i, j \in DOMAIN lockq' : lockq'[i] = lockq'[j] => i = j
  BY <1>1, <1>2, <1>3 DEF Queueing
<1>5. \A y : Waits(y)' <=> Waits(y) \/ y = x
  BY <1>1, <1>2 DEF Waits
<1>6. ASSUME NEW y, First(y) PROVE First(y)'
  BY <1>1, <1>2, <1>6 DEF First
<1> QED
  BY <1>2, <1>4, <1>5, <1>6

\* What the release of the lock does to the queue
LEMMA QueueDown ==
    ASSUME FlightOK, Queueing, NEW x \in Accounts \cup {Reload}, First(x),
           lockq' = Tail(lockq)
    PROVE  /\ lockq' \in Seq(Accounts \cup {Reload})
           /\ \A i, j \in DOMAIN lockq' : lockq'[i] = lockq'[j] => i = j
           /\ \A y : Waits(y)' <=> Waits(y) /\ y # x
<1> DEFINE n == Len(lockq)
<1>1. n \in Nat /\ n > 0 /\ lockq \in Seq(Accounts \cup {Reload}) /\ DOMAIN lockq = 1..n
  BY DEF FlightOK, First
<1>2. /\ lockq' \in Seq(Accounts \cup {Reload})
      /\ DOMAIN lockq' = 1..(n - 1)
      /\ \A i \in 1..(n - 1) : lockq'[i] = lockq[i + 1]
  BY <1>1
<1>3. lockq[1] = x /\ \A i \in 2..n : lockq[i] # x
  BY <1>1 DEF First, Queueing
<1> HIDE DEF n
<1>4. \A i, j \in DOMAIN lockq' : lockq'[i] = lockq'[j] => i = j
  BY <1>1, <1>2 DEF Queueing
<1>5. ASSUME NEW y PROVE Waits(y)' <=> Waits(y) /\ y # x
  <2>1. Waits(y)' => Waits(y) /\ y # x
    BY <1>1, <1>2, <1>3 DEF Waits
  <2>2. ASSUME Waits(y), y # x PROVE Waits(y)'
    <3>1. PICK i \in 1..n : lockq[i] = y
      BY <1>1, <2>2 DEF Waits
    <3>2. i - 1 \in 1..(n - 1) /\ lockq'[i - 1] = y
      BY <1>1, <1>2, <1>3, <2>2, <3>1
    <3> QED
      BY <1>2, <3>2 DEF Waits
  <2> QED
    BY <2>1, <2>2
<1> QED
  BY <1>2, <1>4, <1>5

\* A request joins the rebuild of its account or becomes the owner of a new one
LEMMA JoinsFlight ==
    ASSUME Flight, NEW p \in Procs, NEW a \in Accounts, NEW ch \in Channels \cup {NoAccount},
           proc[p].pc \in {"idle", "posted"} \/ proc[p].result # "none",
           Joins(p, a, ch), reload'.at = reload.at
    PROVE  /\ Flight'
           /\ \A q \in Procs : q # p => proc'[q] = proc[q]
           /\ proc'[p].acct = a /\ proc'[p].ch = ch
<1> DEFINE called(pc) == [pc |-> pc, acct |-> a, ch |-> ch, result |-> "none"]
           queued == [NoTask EXCEPT !.phase = "queued"]
<1>1. PICK pc \in {"owner", "joiner"} :
        /\ proc' = [proc EXCEPT ![p] = called(pc)]
        /\ \/ /\ Running(a) /\ pc = "joiner" /\ UNCHANGED <<task, lockq>>
           \/ /\ ~Running(a) /\ pc = "owner"
              /\ task' = [task EXCEPT ![a] = queued] /\ lockq' = Append(lockq, a)
  BY DEF Joins
<1>2. called(pc) \in [pc : {"idle", "posted", "owner", "joiner"},
                      acct : Accounts \cup {NoAccount},
                      ch : Channels \cup {NoAccount},
                      result : {"none"} \cup DOMAIN Recorded]
  OBVIOUS
<1>3. queued = [phase |-> "queued", outcome |-> "none", affected |-> {}]
  BY DEF NoTask
<1>4. /\ \A q \in Procs : proc'[q] = IF q = p THEN called(pc) ELSE proc[q]
      /\ called(pc).pc = pc /\ called(pc).acct = a /\ called(pc).result = "none"
      /\ called(pc).ch = ch
  BY <1>1 DEF Flight, FlightOK
<1> HIDE DEF called, queued
<1>5. /\ proc' \in [Procs -> [pc : {"idle", "posted", "owner", "joiner"},
                              acct : Accounts \cup {NoAccount},
                              ch : Channels \cup {NoAccount},
                              result : {"none"} \cup DOMAIN Recorded]]
      /\ \A q \in Procs : /\ proc'[q].pc = "idle" => proc'[q] = Idle
                          /\ proc'[q].pc # "idle" => proc'[q].acct \in Accounts
  BY <1>1, <1>2, <1>4 DEF Flight, FlightOK
<1>6. CASE Running(a)
  <2>1. UNCHANGED <<task, lockq>> /\ pc = "joiner"
    BY <1>1, <1>6
  <2>2. FlightOK'
    BY <1>5, <2>1 DEF Flight, FlightOK
  <2>3. Queueing'
    BY <2>1 DEF Flight, Queueing, Running, Waits, First
  <2>4. Owned'
    BY <1>4, <1>6, <2>1 DEF Flight, Owned, Running, Awaits, Owns
  <2> QED
    BY <1>4, <2>2, <2>3, <2>4 DEF Flight
<1>7. CASE ~Running(a)
  <2>1. /\ task' = [task EXCEPT ![a] = queued] /\ lockq' = Append(lockq, a)
        /\ pc = "owner" /\ ~Waits(a)
    BY <1>1, <1>7 DEF Flight, Queueing
  <2>2. /\ \A b \in Accounts : task'[b] = IF b = a THEN queued ELSE task[b]
        /\ queued.phase = "queued"
        /\ task' \in [Accounts -> [phase : {"none", "queued", "login", "rebalance"},
                                   outcome : {"none"} \cup DOMAIN Recorded,
                                   affected : SUBSET Channels]]
    BY <1>3, <2>1 DEF Flight, FlightOK
  <2>3. /\ lockq' \in Seq(Accounts \cup {Reload})
        /\ \A i, j \in DOMAIN lockq' : lockq'[i] = lockq'[j] => i = j
        /\ \A y : Waits(y)' <=> Waits(y) \/ y = a
        /\ \A y : First(y) => First(y)'
    BY <2>1, QueueUp DEF Flight
  <2>4. FlightOK'
    BY <1>5, <2>2, <2>3 DEF Flight, FlightOK
  <2>5. \A b \in Accounts : Running(b)' <=> Running(b) \/ b = a
    BY <2>2 DEF Running
  <2>6. Queueing'
    <3>1. Reload # a
      BY RecoveryAssumption DEF RecoveryAssumption
    <3> QED
      BY <2>2, <2>3, <2>5, <3>1 DEF Flight, Queueing
  <2>7. Owned'
    BY <1>4, <1>7, <2>1, <2>5 DEF Flight, Owned, Awaits, Owns
  <2> QED
    BY <1>4, <2>4, <2>6, <2>7 DEF Flight
<1> QED
  BY <1>6, <1>7

\* The outcome of a rebuild reaches everyone who awaits it, and the lock is released
LEMMA TaskEndsFlight ==
    ASSUME Flight, NEW a \in Accounts, NEW outcome \in DOMAIN Recorded,
           Running(a), First(a), TaskEnds(a, outcome), reload'.at = reload.at
    PROVE  /\ Flight'
           /\ \A p \in Procs : proc'[p].acct = proc[p].acct /\ proc'[p].ch = proc[p].ch
<1> DEFINE told(p) == proc[p].acct = a /\ proc[p].result = "none" /\ proc[p].pc # "posted"
           P == [pc : {"idle", "posted", "owner", "joiner"}, acct : Accounts \cup {NoAccount},
                 ch : Channels \cup {NoAccount}, result : {"none"} \cup DOMAIN Recorded]
<1>1. /\ task' = [task EXCEPT ![a] = NoTask] /\ lockq' = Tail(lockq)
      /\ proc' = [p \in Procs |-> IF told(p) THEN [proc[p] EXCEPT !.result = outcome]
                                  ELSE proc[p]]
  BY DEF TaskEnds
<1>2. proc \in [Procs -> P] /\ outcome # "none"
  BY Outcomes DEF Flight, FlightOK
<1>3. ASSUME NEW p \in Procs
      PROVE  /\ proc'[p] \in P
             /\ proc'[p].pc = proc[p].pc /\ proc'[p].acct = proc[p].acct
             /\ proc'[p].ch = proc[p].ch
             /\ told(p) => proc'[p].result = outcome
             /\ ~told(p) => proc'[p] = proc[p]
  BY <1>1, <1>2
<1>4. proc' \in [Procs -> P]
  BY <1>1, <1>3
<1>5. ASSUME NEW p \in Procs
      PROVE  /\ proc'[p].pc = "idle" => proc'[p] = Idle
             /\ proc'[p].pc # "idle" => proc'[p].acct \in Accounts
  <2>1. told(p) => proc[p].pc # "idle"
    BY RecoveryAssumption DEF Flight, FlightOK, Idle, RecoveryAssumption
  <2> QED
    BY <1>3, <2>1 DEF Flight, FlightOK
<1>6. /\ \A b \in Accounts : task'[b] = IF b = a THEN NoTask ELSE task[b]
      /\ NoTask.phase = "none" /\ NoTask.outcome = "none"
      /\ task' \in [Accounts -> [phase : {"none", "queued", "login", "rebalance"},
                                 outcome : {"none"} \cup DOMAIN Recorded,
                                 affected : SUBSET Channels]]
  BY <1>1 DEF Flight, FlightOK, NoTask
<1>7. /\ lockq' \in Seq(Accounts \cup {Reload})
      /\ \A i, j \in DOMAIN lockq' : lockq'[i] = lockq'[j] => i = j
      /\ \A y : Waits(y)' <=> Waits(y) /\ y # a
  BY <1>1, QueueDown DEF Flight
<1> HIDE DEF told, P
<1>8. FlightOK'
  BY <1>4, <1>5, <1>6, <1>7 DEF FlightOK, Flight, P
<1>9. \A b \in Accounts : Running(b)' <=> Running(b) /\ b # a
  BY <1>6 DEF Running
<1>10. Queueing'
  <2>1. Reload # a /\ (reload.at \notin {"login", "rebalance"})
    BY RecoveryAssumption DEF RecoveryAssumption, Flight, Queueing, First
  <2>2. \A b \in Accounts : task'[b].phase \notin {"login", "rebalance"}
    BY <1>6 DEF Flight, Queueing, First
  <2> QED
    BY <1>7, <1>9, <2>1, <2>2 DEF Flight, Queueing
<1>11. Owned'
  <2>1. ASSUME NEW p \in Procs, NEW b \in Accounts
        PROVE  /\ Awaits(p, b)' <=> Awaits(p, b) /\ b # a
               /\ Owns(p, b)' <=> Owns(p, b) /\ b # a
    BY <1>2, <1>3 DEF Awaits, Owns, told
  <2> QED
    BY <1>9, <2>1 DEF Flight, Owned
<1> QED
  BY <1>3, <1>8, <1>10, <1>11 DEF Flight

\* A coroutine that has its answer, or needs none, goes away
LEMMA GoesIdle ==
    ASSUME Flight, NEW p \in Procs,
           proc[p].pc \in {"idle", "posted"} \/ proc[p].result # "none",
           proc' = [proc EXCEPT ![p] = Idle], UNCHANGED <<task, lockq>>,
           reload'.at = reload.at
    PROVE  Flight'
<1>1. /\ Idle.pc = "idle" /\ Idle \in [pc : {"idle", "posted", "owner", "joiner"},
                  acct : Accounts \cup {NoAccount}, ch : Channels \cup {NoAccount},
                  result : {"none"} \cup DOMAIN Recorded]
  BY DEF Idle
<1>2. \A q \in Procs : proc'[q] = IF q = p THEN Idle ELSE proc[q]
  BY DEF Flight, FlightOK
<1>3. FlightOK'
  BY <1>1, <1>2 DEF Flight, FlightOK
<1>4. Queueing'
  BY DEF Flight, Queueing, Running, Waits, First
<1>5. Owned'
  BY <1>1, <1>2 DEF Flight, Owned, Running, Awaits, Owns
<1> QED
  BY <1>3, <1>4, <1>5 DEF Flight

\* A rebuild that has the lock goes on to its next phase
LEMMA GoesOn ==
    ASSUME Flight, NEW a \in Accounts, Running(a), First(a),
           NEW r \in [phase : {"login", "rebalance"}, outcome : {"none"} \cup DOMAIN Recorded,
                      affected : SUBSET Channels],
           r.phase = "rebalance" => r.outcome # "none",
           task' = [task EXCEPT ![a] = r], UNCHANGED <<lockq, proc>>,
           reload'.at = reload.at
    PROVE  Flight'
<1>1. \A b \in Accounts : task'[b] = IF b = a THEN r ELSE task[b]
  BY DEF Flight, FlightOK
<1>2. FlightOK'
  BY <1>1 DEF Flight, FlightOK
<1>3. \A b \in Accounts : Running(b)' <=> Running(b)
  BY <1>1 DEF Running
<1>4. Queueing'
  BY <1>1, <1>3 DEF Flight, Queueing, Waits, First
<1>5. Owned'
  BY <1>3 DEF Flight, Owned, Awaits, Owns
<1> QED
  BY <1>2, <1>4, <1>5 DEF Flight

\* A step that is not about the rebuilds
LEMMA FlightStays ==
    ASSUME Flight, UNCHANGED <<task, lockq, proc>>, reload'.at = reload.at
    PROVE  Flight'
  BY DEF Flight, FlightOK, Queueing, Owned, Running, Waits, First, Awaits, Owns

\* One turn of the watchdog over a list of accounts
LEMMA ReconnectFlight ==
    ASSUME Flight, UNCHANGED reload, NEW at \in {"sleep", "down", "stalled"},
           proc[Dog].pc = "idle" \/ proc[Dog].result # "none",
           NEW L \in Seq(Accounts \X (Channels \cup {NoAccount})), ReconnectEach(at, L)
    PROVE  /\ Flight'
           /\ dog' \in [at : {"sleep", "down", "stalled"},
                        todo : Seq(Accounts \X (Channels \cup {NoAccount}))]
           /\ \A q \in Notes : proc'[q] = proc[q]
<1>1. Dog \in Procs /\ Dog \notin Notes /\ \A q \in Notes : q \in Procs
  BY RecoveryAssumption DEF RecoveryAssumption, Procs
<1>2. CASE /\ dog' = [at |-> at, todo |-> <<>>]
           /\ proc' = [proc EXCEPT ![Dog] = Idle] /\ UNCHANGED <<task, lockq>>
  <2>1. Flight'
    BY <1>1, <1>2, GoesIdle
  <2>2. \A q \in Notes : proc'[q] = proc[q]
    BY <1>1, <1>2 DEF Flight, FlightOK
  <2> QED
    BY <1>2, <2>1, <2>2
<1>3. CASE \E i \in DOMAIN L : /\ dog' = [at |-> at, todo |-> SubSeq(L, i + 1, Len(L))]
                               /\ Joins(Dog, L[i][1], L[i][2])
  <2>1. PICK i \in DOMAIN L : /\ dog' = [at |-> at, todo |-> SubSeq(L, i + 1, Len(L))]
                              /\ Joins(Dog, L[i][1], L[i][2])
    BY <1>3
  <2>2. i \in 1..Len(L) /\ L[i][1] \in Accounts /\ L[i][2] \in Channels \cup {NoAccount}
    BY <2>1
  <2>3. Flight' /\ \A q \in Procs : q # Dog => proc'[q] = proc[q]
    BY <1>1, <2>1, <2>2, JoinsFlight
  <2>4. SubSeq(L, i + 1, Len(L)) \in Seq(Accounts \X (Channels \cup {NoAccount}))
    BY <2>2
  <2> QED
    BY <1>1, <2>1, <2>3, <2>4
<1> QED
  BY <1>2, <1>3 DEF ReconnectEach

-----------------------------------------------------------------------------
(* The steps                                                               *)

\* What TypeOK says beside the sessions, the rebuilds and the loops
OtherOK ==
    /\ serve \in [Channels -> Accounts \cup {NoAccount}]
    /\ rec \in [Accounts -> {"ready", "backoff", "blocked"}]
    /\ cooling \subseteq Accounts \X Channels
    /\ left \in 0..MaxFaults

LEMMA Parts == IInv <=> SessionOK /\ Flight /\ LoopsOK /\ OtherOK /\ MarkerBacked
  BY DEF IInv, TypeOK, Flight, OtherOK

\* Something from outside is counted
LEMMA Counted ==
    ASSUME left \in 0..MaxFaults, NEW f, Happens(f)
    PROVE  left' \in 0..MaxFaults
  BY RecoveryAssumption DEF Happens, RecoveryAssumption

LEMMA Coroutines ==
    /\ Dog \in Procs /\ User \in Procs /\ Notes \subseteq Procs
    /\ Dog \notin Notes /\ User \notin Notes /\ Reload \notin Accounts
  BY RecoveryAssumption DEF RecoveryAssumption, Procs

\* Markers stay backed while none is set and no notification goes away
LEMMA MarkersStay ==
    ASSUME MarkerBacked, \A a \in Accounts : pending'[a] \subseteq pending[a],
           \A n \in Notes : proc'[n].acct = proc[n].acct /\ proc'[n].ch = proc[n].ch
    PROVE  MarkerBacked'
  BY DEF MarkerBacked

\* A notification that goes away has released its marker
LEMMA MarkerReleased ==
    ASSUME IInv, NEW n \in Notes, NEW ok \in BOOLEAN,
           CompleteRequest(proc[n].acct, proc[n].ch, ok),
           proc' = [proc EXCEPT ![n] = Idle], UNCHANGED <<up, ws, handler>>
    PROVE  SessionOK' /\ MarkerBacked'
<1> DEFINE a == proc[n].acct
           ch == proc[n].ch
<1>1. /\ pending' = [pending EXCEPT ![a] = @ \ {ch}]
      /\ chan' = chan \/ chan' = [chan EXCEPT ![a][ch] = "down"]
  BY DEF CompleteRequest
<1>2. SessionOK'
  <2>1. pending' \in [Accounts -> SUBSET Channels]
    BY <1>1 DEF IInv, TypeOK, SessionOK
  <2>2. chan' \in [Accounts -> [Channels -> {"down", "connected"}]]
    <3>1. chan \in [Accounts -> [Channels -> {"down", "connected"}]]
      BY DEF IInv, TypeOK, SessionOK
    <3>2. CASE a \in Accounts
      <4> DEFINE row == [chan[a] EXCEPT ![ch] = "down"]
      <4>1. row \in [Channels -> {"down", "connected"}]
        BY <3>1, <3>2
      <4>2. chan' = chan \/ chan' = [chan EXCEPT ![a] = row]
        BY <1>1
      <4> HIDE DEF row
      <4> QED
        BY <3>1, <4>1, <4>2
    <3>3. CASE a \notin Accounts
      BY <1>1, <3>1, <3>3
    <3> QED
      BY <3>2, <3>3
  <2> QED
    BY <2>1, <2>2 DEF IInv, TypeOK, SessionOK
<1>3. ASSUME NEW b \in Accounts, NEW c \in pending'[b]
      PROVE  \E m \in Notes : proc'[m].acct = b /\ proc'[m].ch = c
  <2>1. c \in pending[b] /\ ~(b = a /\ c = ch)
    BY <1>1, <1>3 DEF IInv, TypeOK, SessionOK
  <2>2. PICK m \in Notes : proc[m].acct = b /\ proc[m].ch = c
    BY <2>1 DEF IInv, MarkerBacked
  <2>3. m # n
    BY <2>1, <2>2
  <2> QED
    BY <2>2, <2>3, Coroutines DEF IInv, TypeOK, FlightOK
<1> QED
  BY <1>2, <1>3 DEF MarkerBacked

\* A websocket failure sets at most one marker, and posts its notification
LEMMA ChannelFailsInv ==
    ASSUME IInv, NEW a \in Accounts, NEW ch \in Channels, ChannelFails(a, ch)
    PROVE  IInv'
<1> USE DEF ChannelFails
<1>1. /\ ws' \in [Accounts -> [Channels -> {"none", "open", "closed"}]]
      /\ chan' \in [Accounts -> [Channels -> {"down", "connected"}]]
      /\ up' \in [Accounts -> BOOLEAN] /\ handler' \subseteq Accounts
  BY DEF IInv, TypeOK, SessionOK
<1>2. OtherOK' /\ LoopsOK'
  BY Counted DEF IInv, TypeOK, LoopsOK, OtherOK
<1>3. CASE UNCHANGED <<pending, proc>>
  <2>1. SessionOK' /\ MarkerBacked'
    BY <1>1, <1>3 DEF IInv, TypeOK, SessionOK, MarkerBacked
  <2>2. Flight'
    BY <1>3, FlightStays, Parts
  <2> QED
    BY <1>2, <2>1, <2>2, Parts DEF IInv, TypeOK, Flight, OtherOK
<1>4. CASE \E n \in Notes :
             /\ proc[n].pc = "idle"
             /\ pending' = [pending EXCEPT ![a] = @ \cup {ch}]
             /\ proc' = [proc EXCEPT ![n] =
                          [pc |-> "posted", acct |-> a, ch |-> ch, result |-> "none"]]
  <2>1. PICK n \in Notes :
             /\ proc[n].pc = "idle"
             /\ pending' = [pending EXCEPT ![a] = @ \cup {ch}]
             /\ proc' = [proc EXCEPT ![n] =
                          [pc |-> "posted", acct |-> a, ch |-> ch, result |-> "none"]]
    BY <1>4
  <2> DEFINE posted == [pc |-> "posted", acct |-> a, ch |-> ch, result |-> "none"]
  <2>2. /\ posted.pc = "posted" /\ posted.acct = a /\ posted.ch = ch
        /\ posted.result = "none"
    OBVIOUS
  <2>3. n \in Procs /\ \A q \in Procs : proc'[q] = IF q = n THEN posted ELSE proc[q]
    BY <2>1, Coroutines DEF IInv, TypeOK, FlightOK
  <2>4. SessionOK'
    BY <1>1, <2>1 DEF IInv, TypeOK, SessionOK
  <2> HIDE DEF posted
  <2>5. FlightOK'
    <3>1. proc' \in [Procs -> [pc : {"idle", "posted", "owner", "joiner"},
                           acct : Accounts \cup {NoAccount},
                           ch : Channels \cup {NoAccount},
                           result : {"none"} \cup DOMAIN Recorded]]
      <4>1. posted \in [pc : {"idle", "posted", "owner", "joiner"},
                           acct : Accounts \cup {NoAccount},
                           ch : Channels \cup {NoAccount},
                           result : {"none"} \cup DOMAIN Recorded]
        BY DEF posted
      <4> QED
        BY <2>1, <4>1 DEF IInv, TypeOK, FlightOK, posted
    <3> QED
      BY <2>2, <2>3, <3>1 DEF IInv, TypeOK, FlightOK
  <2>6. Queueing'
    BY DEF IInv, Queueing, Running, Waits, First
  <2>7. Owned'
    BY <2>1, <2>2, <2>3 DEF IInv, Owned, Running, Awaits, Owns
  <2>8. MarkerBacked'
    <3>1. ASSUME NEW b \in Accounts, NEW c \in pending'[b]
          PROVE  \E m \in Notes : proc'[m].acct = b /\ proc'[m].ch = c
      <4>1. CASE b = a /\ c = ch
        BY <2>2, <2>3, <4>1
      <4>2. CASE c \in pending[b]
        <5>1. PICK m \in Notes : proc[m].acct = b /\ proc[m].ch = c
          BY <4>2 DEF IInv, MarkerBacked
        <5>2. m # n
          BY <2>1, <2>3, <5>1, RecoveryAssumption
             DEF IInv, TypeOK, FlightOK, Idle, RecoveryAssumption
        <5> QED
          BY <2>3, <5>1, <5>2, Coroutines
      <4> QED
        BY <2>1, <4>1, <4>2 DEF IInv, TypeOK, SessionOK
    <3> QED
      BY <3>1 DEF MarkerBacked
  <2> QED
    BY <1>2, <2>4, <2>5, <2>6, <2>7, <2>8 DEF IInv, TypeOK, OtherOK
<1> QED
  <2> DEFINE free == {n \in Notes : proc[n].pc = "idle"}
             note == CHOOSE n \in free : TRUE
  <2>1. free # {} => note \in free
    OBVIOUS
  <2> QED
    BY <1>3, <1>4, <2>1 DEF Request

\* The outcome of an attempt is recorded
LEMMA RecordType ==
    ASSUME OtherOK, NEW a, NEW outcome \in DOMAIN Recorded, Record(a, outcome)
    PROVE  rec' \in [Accounts -> {"ready", "backoff", "blocked"}]
<1>1. Recorded[outcome] \in {"ready", "backoff", "blocked"}
  BY Outcomes DEF Recorded
<1> QED
  BY <1>1 DEF Record, OtherOK

LEMMA ReturnsType ==
    ASSUME IInv, NEW p \in Procs, Returns(p)
    PROVE  rec' \in [Accounts -> {"ready", "backoff", "blocked"}] /\ proc[p].result # "none"
<1>1. proc[p].result # "none" /\ proc[p].result \in DOMAIN Recorded
  BY DEF Returns, IInv, TypeOK, FlightOK
<1> QED
  BY <1>1, RecordType, Parts DEF Returns, OtherOK

\* A session that is reset keeps the types and has no marker
LEMMA ResetType ==
    ASSUME SessionOK, NEW a, ResetSession(a), handler' \subseteq Accounts
    PROVE  SessionOK' /\ \A b \in Accounts : pending'[b] \subseteq pending[b]
<1>1. up' \in [Accounts -> BOOLEAN]
  BY DEF ResetSession, SessionGone, SessionOK
<1>2. ws' \in [Accounts -> [Channels -> {"none", "open", "closed"}]]
  BY DEF ResetSession, SessionGone, SessionOK
<1>3. /\ pending' \in [Accounts -> SUBSET Channels]
      /\ \A b \in Accounts : pending'[b] \subseteq pending[b]
  BY DEF ResetSession, SessionOK
<1> QED
  BY <1>1, <1>2, <1>3 DEF ResetSession, SessionOK

\* Everything else that happens from outside
LEMMA WorldInv ==
    ASSUME IInv, World
    PROVE  IInv'
<1> USE Parts
<1>1. ASSUME NEW a \in Accounts, InvalidateSession(a)
      PROVE  IInv'
  <2>1. up' \in [Accounts -> BOOLEAN]
    BY <1>1 DEF InvalidateSession, SessionOK
  <2>2. ws' \in [Accounts -> [Channels -> {"none", "open", "closed"}]]
    <3> DEFINE row == [ch \in Channels |-> IF ws[a][ch] = "none" THEN "none" ELSE "closed"]
    <3>1. row \in [Channels -> {"none", "open", "closed"}] /\ ws' = [ws EXCEPT ![a] = row]
      BY <1>1 DEF InvalidateSession
    <3> HIDE DEF row
    <3> QED
      BY <3>1 DEF SessionOK
  <2>3. chan' \in [Accounts -> [Channels -> {"down", "connected"}]]
    BY <1>1 DEF InvalidateSession, SessionOK
  <2>4. Flight'
    BY <1>1, FlightStays DEF InvalidateSession, calls
  <2>5. MarkerBacked'
    BY <1>1, MarkersStay DEF InvalidateSession, calls
  <2>6. OtherOK' /\ LoopsOK'
    BY <1>1, Counted DEF InvalidateSession, OtherOK, LoopsOK
  <2> QED
    BY <1>1, <2>1, <2>2, <2>3, <2>4, <2>5, <2>6 DEF InvalidateSession, SessionOK, IInv, TypeOK, Flight, OtherOK
<1>2. ASSUME NEW a \in Accounts, NEW ch \in Channels, Message(a, ch)
      PROVE  IInv'
  <2>1. SessionOK'
    BY <1>2 DEF Message, SessionOK
  <2>2. Flight'
    BY <1>2, FlightStays DEF Message, calls
  <2>3. MarkerBacked' /\ OtherOK' /\ LoopsOK'
    BY <1>2, MarkersStay DEF Message, calls, OtherOK, LoopsOK
  <2> QED
    BY <2>1, <2>2, <2>3 DEF IInv, TypeOK, Flight, OtherOK
<1>3. ASSUME NEW a \in Accounts, ManualReconnect(a)
      PROVE  IInv'
  <2>1. Flight' /\ \A q \in Procs : q # User => proc'[q] = proc[q]
    BY <1>3, JoinsFlight, Coroutines DEF ManualReconnect
  <2>2. MarkerBacked'
    BY <1>3, <2>1, MarkersStay, Coroutines DEF ManualReconnect, sessions
  <2>3. SessionOK' /\ OtherOK' /\ LoopsOK'
    BY <1>3, Counted DEF ManualReconnect, sessions, SessionOK, OtherOK, LoopsOK
  <2> QED
    BY <2>1, <2>2, <2>3 DEF IInv, TypeOK, Flight, OtherOK
<1>4. ASSUME NEW a \in Accounts, StatusNotStored(a)
      PROVE  IInv'
  <2>1. Running(a) /\ First(a) /\ "failed" \in DOMAIN Recorded
    BY <1>4, Outcomes DEF StatusNotStored, Running, Flight, Queueing
  <2>2. Flight' /\ \A p \in Procs : proc'[p].acct = proc[p].acct /\ proc'[p].ch = proc[p].ch
    BY <1>4, <2>1, TaskEndsFlight DEF StatusNotStored
  <2>3. MarkerBacked'
    BY <1>4, <2>2, MarkersStay, Coroutines DEF StatusNotStored
  <2>4. SessionOK' /\ OtherOK' /\ LoopsOK'
    BY <1>4, Counted DEF StatusNotStored, SessionOK, OtherOK, LoopsOK
  <2> QED
    BY <2>2, <2>3, <2>4 DEF IInv, TypeOK, Flight, OtherOK
<1>5. CASE RequestReload
  <2>1. PICK L \in InOrder(Accounts \X {Reload}) : reload' = [at |-> "queued", todo |-> L]
    BY <1>5 DEF RequestReload
  <2>2. L \in Seq(Accounts \X {Reload}) /\ L # <<>>
    <3>1. IsFiniteSet({Reload})
      BY FS_Singleton
    <3>2. IsFiniteSet(Accounts \X {Reload})
      BY <3>1, FinitePairs
    <3>3. Accounts \X {Reload} # {}
      <4>1. PICK a \in Accounts : TRUE
        BY RecoveryAssumption DEF RecoveryAssumption
      <4>2. <<a, Reload>> \in Accounts \X {Reload}
        OBVIOUS
      <4> QED
        BY <4>2
    <3> QED
      BY <2>1, <3>2, <3>3, InOrderType
  <2>3. LoopsOK'
    BY <1>5, <2>1, <2>2 DEF RequestReload, LoopsOK
  <2>4. /\ lockq' \in Seq(Accounts \cup {Reload})
        /\ \A i, j \in DOMAIN lockq' : lockq'[i] = lockq'[j] => i = j
        /\ \A y : Waits(y)' <=> Waits(y) \/ y = Reload
        /\ \A y : First(y) => First(y)'
    BY <1>5, QueueUp DEF RequestReload, Flight, Queueing
  <2>5. UNCHANGED <<task, proc>> /\ reload'.at = "queued" /\ reload.at = "none"
    BY <1>5, <2>1 DEF RequestReload
  <2>6. FlightOK'
    BY <2>4, <2>5 DEF Flight, FlightOK
  <2>7. Queueing'
    BY <2>4, <2>5, Coroutines DEF Flight, Queueing, Running
  <2>8. Owned'
    BY <2>5 DEF Flight, Owned, Running, Awaits, Owns
  <2>9. SessionOK' /\ OtherOK' /\ MarkerBacked'
    BY <1>5, Counted, MarkersStay DEF RequestReload, sessions, SessionOK, OtherOK
  <2> QED
    BY <2>3, <2>6, <2>7, <2>8, <2>9 DEF IInv, TypeOK, OtherOK
<1> QED
  BY <1>1, <1>2, <1>3, <1>4, <1>5, ChannelFailsInv DEF World

\* A step of the rebuild of one account
LEMMA RebuildInv ==
    ASSUME IInv, NEW a \in Accounts, Rebuild(a)
    PROVE  IInv'
<1> USE Parts
<1>1. CASE BeginRebuild(a)
  <2>1. Running(a) /\ First(a)
    <3>1. Running(a) /\ lockq \in Seq(Accounts \cup {Reload}) /\ lockq # <<>> /\ Head(lockq) = a
      BY <1>1 DEF BeginRebuild, Running, Flight, FlightOK
    <3> QED
      BY <3>1 DEF First
  <2>2. OtherOK' /\ LoopsOK'
    BY <1>1, Counted DEF BeginRebuild, OtherOK, LoopsOK
  <2>3. CASE /\ ResetSession(a) /\ handler' = handler \ {a}
             /\ task' = [task EXCEPT ![a].phase = "login",
                                     ![a].affected = {ch \in Channels : Serves(a, ch)}]
             /\ UNCHANGED <<lockq, proc, left>>
    <3> DEFINE r == [task[a] EXCEPT !.phase = "login",
                                    !.affected = {ch \in Channels : Serves(a, ch)}]
    <3>1. /\ r \in [phase : {"login", "rebalance"}, outcome : {"none"} \cup DOMAIN Recorded,
                    affected : SUBSET Channels]
          /\ r.phase = "login"
      BY DEF Flight, FlightOK
    <3>2. task' = [task EXCEPT ![a] = r]
      BY <2>3
    <3> HIDE DEF r
    <3>3. Flight'
      BY <1>1, <2>1, <2>3, <3>1, <3>2, GoesOn DEF BeginRebuild
    <3>4. SessionOK' /\ \A b \in Accounts : pending'[b] \subseteq pending[b]
      BY <2>3, ResetType DEF SessionOK
    <3>5. MarkerBacked'
      BY <2>3, <3>4, MarkersStay
    <3> QED
      BY <2>2, <3>3, <3>4, <3>5 DEF IInv, TypeOK, Flight, OtherOK
  <2>4. CASE TaskEnds(a, "failed") /\ UNCHANGED sessions
    <3>1. Flight' /\ \A p \in Procs : proc'[p].acct = proc[p].acct /\ proc'[p].ch = proc[p].ch
      BY <1>1, <2>1, <2>4, TaskEndsFlight, Outcomes DEF BeginRebuild
    <3>2. SessionOK' /\ MarkerBacked'
      BY <2>4, <3>1, MarkersStay, Coroutines DEF sessions, SessionOK
    <3> QED
      BY <2>2, <3>1, <3>2 DEF IInv, TypeOK, Flight, OtherOK
  <2> QED
    BY <1>1, <2>3, <2>4 DEF BeginRebuild
<1>2. CASE EndLogin(a)
  <2>1. PICK outcome \in DOMAIN Recorded :
          /\ LoginEnds(outcome)
          /\ up' = [up EXCEPT ![a] = (outcome = "ok")]
          /\ task' = [task EXCEPT ![a].phase = "rebalance", ![a].outcome = outcome]
    BY <1>2 DEF EndLogin
  <2> DEFINE r == [task[a] EXCEPT !.phase = "rebalance", !.outcome = outcome]
  <2>2. /\ r \in [phase : {"login", "rebalance"}, outcome : {"none"} \cup DOMAIN Recorded,
                  affected : SUBSET Channels]
        /\ r.outcome # "none"
    <3>1. task[a] \in [phase : {"none", "queued", "login", "rebalance"},
                       outcome : {"none"} \cup DOMAIN Recorded,
                       affected : SUBSET Channels]
      BY DEF Flight, FlightOK
    <3>2. outcome # "none"
      BY Outcomes
    <3> QED
      BY <3>1, <3>2
  <2>3. task' = [task EXCEPT ![a] = r]
    BY <2>1
  <2> HIDE DEF r
  <2>4. Running(a) /\ First(a)
    BY <1>2 DEF EndLogin, Running, Flight, Queueing
  <2>5. Flight'
    BY <1>2, <2>2, <2>3, <2>4, GoesOn DEF EndLogin
  <2>6. SessionOK'
    BY <1>2, <2>1 DEF EndLogin, SessionOK
  <2>7. OtherOK' /\ LoopsOK'
    BY <1>2, <2>1, Counted DEF EndLogin, LoginEnds, OtherOK, LoopsOK
  <2>8. MarkerBacked'
    BY <1>2, MarkersStay DEF EndLogin
  <2> QED
    BY <2>5, <2>6, <2>7, <2>8 DEF IInv, TypeOK, Flight, OtherOK
<1>3. CASE RebalanceAfterLogin(a)
  <2>1. PICK outcome \in DOMAIN Recorded : TaskEnds(a, outcome)
    <3>1. task[a].outcome \in DOMAIN Recorded /\ "failed" \in DOMAIN Recorded
      BY <1>3, Outcomes DEF RebalanceAfterLogin, Flight, FlightOK
    <3> QED
      BY <1>3, <3>1 DEF RebalanceAfterLogin
  <2>2. Running(a) /\ First(a)
    BY <1>3 DEF RebalanceAfterLogin, Running, Flight, Queueing
  <2>3. Flight' /\ \A p \in Procs : proc'[p].acct = proc[p].acct /\ proc'[p].ch = proc[p].ch
    BY <1>3, <2>1, <2>2, TaskEndsFlight DEF RebalanceAfterLogin
  <2>4. /\ SessionOK' /\ \A b \in Accounts : pending'[b] \subseteq pending[b]
        /\ serve' \in [Channels -> Accounts \cup {NoAccount}]
        /\ left' \in 0..MaxFaults
    BY <1>3, AssignType DEF RebalanceAfterLogin, IInv
  <2>5. MarkerBacked'
    BY <2>3, <2>4, MarkersStay, Coroutines
  <2>6. OtherOK' /\ LoopsOK'
    BY <1>3, <2>4 DEF RebalanceAfterLogin, OtherOK, LoopsOK
  <2> QED
    BY <2>3, <2>4, <2>5, <2>6 DEF IInv, TypeOK, Flight, OtherOK
<1> QED
  BY <1>1, <1>2, <1>3 DEF Rebuild

\* A step of reload_from_db
LEMMA ReloadInv ==
    ASSUME IInv, ReloadStep
    PROVE  IInv'
<1> USE Parts
<1>1. CASE BeginReload
  <2>1. lockq \in Seq(Accounts \cup {Reload}) /\ First(Reload)
    BY <1>1 DEF BeginReload, Flight, FlightOK, Queueing, Waits, First
  <2>2. reload' = [reload EXCEPT !.at = "login"] /\ reload.at = "queued" /\ reload'.at = "login"
    BY <1>1 DEF BeginReload, LoopsOK
  <2>3. Flight'
    <3>1. FlightOK'
      BY <1>1 DEF BeginReload, calls, Flight, FlightOK
    <3>2. Queueing'
      BY <1>1, <2>1, <2>2 DEF BeginReload, calls, Flight, Queueing, Running, Waits, First
    <3>3. Owned'
      BY <1>1 DEF BeginReload, calls, Flight, Owned, Running, Awaits, Owns
    <3> QED
      BY <3>1, <3>2, <3>3 DEF Flight
  <2>4. SessionOK' /\ \A b \in Accounts : pending'[b] \subseteq pending[b]
    BY <1>1, ResetType DEF BeginReload, SessionOK
  <2>5. MarkerBacked'
    BY <1>1, <2>4, MarkersStay DEF BeginReload, calls
  <2>6. OtherOK' /\ LoopsOK'
    BY <1>1, <2>2 DEF BeginReload, OtherOK, LoopsOK
  <2> QED
    BY <2>3, <2>4, <2>5, <2>6 DEF IInv, TypeOK, Flight, OtherOK
<1>2. CASE ReloadLogin
  <2> DEFINE a == Head(reload.todo)[1]
             rest == Tail(reload.todo)
             next == IF rest = <<>> THEN {} ELSE {rest[1][1]}
             at == IF rest = <<>> THEN "rebalance" ELSE "login"
  <2>1. PICK outcome \in DOMAIN Recorded :
          /\ LoginEnds(outcome) /\ Record(a, outcome)
          /\ up' = [b \in Accounts |-> IF b = a THEN outcome = "ok" ELSE b \notin next /\ up[b]]
    BY <1>2 DEF ReloadLogin
  <2>2. /\ ws' = [b \in Accounts |-> IF b \in next THEN [ch \in Channels |-> "none"] ELSE ws[b]]
        /\ pending' = [b \in Accounts |-> IF b \in next THEN {} ELSE pending[b]]
        /\ reload' = [at |-> at, todo |-> rest]
        /\ reload.at = "login"
        /\ UNCHANGED <<chan, handler, serve, task, lockq, proc, dog, cooling>>
    BY <1>2 DEF ReloadLogin, calls
  <2>3. LoopsOK'
    <3>1. reload.todo \in Seq(Accounts \X {Reload}) /\ reload.todo # <<>>
      BY <2>2 DEF LoopsOK
    <3>2. rest \in Seq(Accounts \X {Reload})
      BY <3>1
    <3> HIDE DEF rest
    <3> QED
      BY <2>2, <3>2 DEF LoopsOK
  <2>4. reload'.at \in {"login", "rebalance"}
    BY <2>2
  <2> HIDE DEF a, rest, next, at
  <2>5. Flight'
    <3>1. FlightOK'
      BY <2>2 DEF Flight, FlightOK
    <3>2. Queueing'
      BY <2>2, <2>4 DEF Flight, Queueing, Running, Waits, First
    <3>3. Owned'
      BY <2>2 DEF Flight, Owned, Running, Awaits, Owns
    <3> QED
      BY <3>1, <3>2, <3>3 DEF Flight
  <2>6. SessionOK'
    <3>1. up' \in [Accounts -> BOOLEAN]
      BY <2>1 DEF SessionOK
    <3>2. ws' \in [Accounts -> [Channels -> {"none", "open", "closed"}]]
      BY <2>2 DEF SessionOK
    <3> QED
      BY <2>2, <3>1, <3>2 DEF SessionOK
  <2>7. MarkerBacked'
    BY <2>2, MarkersStay
  <2>8. OtherOK'
    <3>1. left' \in 0..MaxFaults
      BY <2>1, Counted DEF LoginEnds, OtherOK
    <3> QED
      BY <2>1, <2>2, <3>1, RecordType DEF OtherOK
  <2> QED
    BY <2>3, <2>5, <2>6, <2>7, <2>8 DEF IInv, TypeOK, Flight, OtherOK
<1>3. CASE RebalanceAfterReload
  <2>1. reload.at = "rebalance" /\ First(Reload)
    BY <1>3 DEF RebalanceAfterReload, Flight, Queueing
  <2>2. reload' = [at |-> "none", todo |-> <<>>] /\ UNCHANGED <<task, proc>>
    BY <1>3 DEF RebalanceAfterReload
  <2>3. /\ lockq' \in Seq(Accounts \cup {Reload})
        /\ \A i, j \in DOMAIN lockq' : lockq'[i] = lockq'[j] => i = j
        /\ \A y : Waits(y)' <=> Waits(y) /\ y # Reload
    BY <1>3, <2>1, QueueDown DEF RebalanceAfterReload, Flight
  <2>4. FlightOK'
    BY <2>2, <2>3 DEF Flight, FlightOK
  <2>5. Queueing'
    <3>1. \A b \in Accounts : task[b].phase \notin {"login", "rebalance"} /\ b # Reload
      BY <2>1, Coroutines DEF Flight, Queueing, First
    <3> QED
      BY <2>2, <2>3, <3>1 DEF Flight, Queueing, Running
  <2>6. Owned'
    BY <2>2 DEF Flight, Owned, Running, Awaits, Owns
  <2>7. /\ SessionOK' /\ \A b \in Accounts : pending'[b] \subseteq pending[b]
        /\ serve' \in [Channels -> Accounts \cup {NoAccount}]
        /\ left' \in 0..MaxFaults
    BY <1>3, AssignType DEF RebalanceAfterReload, IInv
  <2>8. MarkerBacked'
    BY <2>2, <2>7, MarkersStay
  <2>9. OtherOK' /\ LoopsOK'
    BY <1>3, <2>2, <2>7 DEF RebalanceAfterReload, OtherOK, LoopsOK
  <2> QED
    BY <2>4, <2>5, <2>6, <2>7, <2>8, <2>9 DEF IInv, TypeOK, OtherOK
<1> QED
  BY <1>1, <1>2, <1>3 DEF ReloadStep

\* The watchdog's turn, when it awaits nothing
LEMMA WatchdogInv ==
    ASSUME IInv, Watchdog
    PROVE  IInv'
<1> USE Parts
<1>1. ASSUME NEW at, DogRuns(at) PROVE proc[Dog].pc = "idle" /\ dog.at = at
  BY <1>1 DEF DogRuns
<1>2. CASE RefreshSessions
  <2>1. PICK L \in InOrder({a \in Accounts : ~up[a]} \X {NoAccount}) : ReconnectEach("down", L)
    BY <1>2 DEF RefreshSessions
  <2>2. L \in Seq(Accounts \X (Channels \cup {NoAccount}))
    <3> DEFINE S == {a \in Accounts : ~up[a]} \X {NoAccount}
    <3>1. IsFiniteSet(S) /\ S \subseteq Accounts \X (Channels \cup {NoAccount})
      BY FinitePairs, FS_Singleton
    <3>2. L \in Seq(S)
      BY <2>1, <3>1, InOrderType
    <3> HIDE DEF S
    <3> QED
      BY <3>1, <3>2
  <2>3. /\ Flight' /\ \A q \in Notes : proc'[q] = proc[q]
        /\ dog' \in [at : {"sleep", "down", "stalled"},
                     todo : Seq(Accounts \X (Channels \cup {NoAccount}))]
    BY <1>1, <1>2, <2>1, <2>2, ReconnectFlight DEF RefreshSessions
  <2>4. SessionOK' /\ OtherOK' /\ LoopsOK'
    BY <1>2, <2>3 DEF RefreshSessions, sessions, SessionOK, OtherOK, LoopsOK
  <2>5. MarkerBacked'
    BY <1>2, <2>3, MarkersStay DEF RefreshSessions, sessions
  <2> QED
    BY <2>3, <2>4, <2>5 DEF IInv, TypeOK, Flight, OtherOK
<1>3. CASE RefreshRolling
  <2>1. PICK moved \in SUBSET Channels : Assign(moved)
    <3>1. Rolling \subseteq Channels
      BY RecoveryAssumption DEF RecoveryAssumption
    <3> QED
      BY <1>3, <3>1 DEF RefreshRolling
  <2>2. /\ SessionOK' /\ \A b \in Accounts : pending'[b] \subseteq pending[b]
        /\ serve' \in [Channels -> Accounts \cup {NoAccount}]
        /\ left' \in 0..MaxFaults
    BY <1>3, <2>1, AssignType DEF RefreshRolling, IInv
  <2>3. PICK L \in InOrder(Stalled') : ReconnectEach("stalled", L)
    BY <1>3 DEF RefreshRolling
  <2>4. L \in Seq(Accounts \X (Channels \cup {NoAccount}))
    <3>1. Stalled' \subseteq Accounts \X Channels
      BY DEF Stalled
    <3>2. IsFiniteSet(Stalled')
      BY <3>1, FinitePairs, RecoveryAssumption DEF RecoveryAssumption
    <3>3. L \in Seq(Stalled')
      BY <2>3, <3>2, InOrderType
    <3>4. Stalled' \subseteq Accounts \X (Channels \cup {NoAccount})
      BY <3>1
    <3> QED
      BY <3>3, <3>4
  <2>5. /\ Flight' /\ \A q \in Notes : proc'[q] = proc[q]
        /\ dog' \in [at : {"sleep", "down", "stalled"},
                     todo : Seq(Accounts \X (Channels \cup {NoAccount}))]
    BY <1>1, <1>3, <2>3, <2>4, ReconnectFlight DEF RefreshRolling
  <2>6. OtherOK' /\ LoopsOK'
    BY <1>3, <2>2, <2>5 DEF RefreshRolling, OtherOK, LoopsOK
  <2>7. MarkerBacked'
    BY <2>2, <2>5, MarkersStay
  <2> QED
    BY <2>2, <2>5, <2>6, <2>7 DEF IInv, TypeOK, Flight, OtherOK
<1>4. CASE AssignMissing
  <2> DEFINE missing == {ch \in Channels : serve'[ch] = NoAccount}
  <2>1. /\ SessionOK' /\ \A b \in Accounts : pending'[b] \subseteq pending[b]
        /\ serve' \in [Channels -> Accounts \cup {NoAccount}]
        /\ left' \in 0..MaxFaults
    BY <1>4, AssignType DEF AssignMissing, IInv
  <2>2. PICK L \in InOrder({0} \X missing) :
           dog' = IF missing = {} THEN Sleeping ELSE [at |-> "missing", todo |-> L]
    BY <1>4 DEF AssignMissing
  <2>3. L \in Seq({0} \X Channels)
    <3> DEFINE S == {0} \X missing
    <3>1. IsFiniteSet({0}) /\ IsFiniteSet(missing)
      BY FS_Singleton, FS_Subset, RecoveryAssumption DEF RecoveryAssumption
    <3>2. IsFiniteSet(S) /\ S \subseteq {0} \X Channels
      BY <3>1, FS_Product
    <3>3. L \in Seq(S)
      BY <2>2, <3>2, InOrderType
    <3> HIDE DEF S
    <3> QED
      BY <3>2, <3>3
  <2>4. LoopsOK'
    <3> HIDE DEF missing
    <3>1. /\ Sleeping \in [at : {"sleep", "down", "stalled"},
                           todo : Seq(Accounts \X (Channels \cup {NoAccount}))]
          /\ [at |-> "missing", todo |-> L] \in [at : {"missing"}, todo : Seq({0} \X Channels)]
      BY <2>3 DEF Sleeping
    <3> QED
      BY <1>4, <2>2, <3>1 DEF AssignMissing, LoopsOK
  <2>5. Flight'
    BY <1>4, FlightStays DEF AssignMissing, calls
  <2>6. MarkerBacked' /\ OtherOK'
    BY <1>4, <2>1, MarkersStay DEF AssignMissing, calls, OtherOK
  <2> QED
    BY <2>1, <2>4, <2>5, <2>6 DEF IInv, TypeOK, Flight, OtherOK
<1>5. CASE RecoverMissing
  <2>1. dog \in [at : {"missing"}, todo : Seq({0} \X Channels)] /\ dog.todo # <<>>
    BY <1>1, <1>5 DEF RecoverMissing, LoopsOK
  <2> DEFINE ch == Head(dog.todo)[2]
  <2>2. ch \in Channels /\ Tail(dog.todo) \in Seq({0} \X Channels)
    <3>1. dog.todo \in Seq({0} \X Channels)
      BY <2>1
    <3>2. Head(dog.todo) \in {0} \X Channels
      BY <2>1, <3>1
    <3> QED
      BY <2>1, <3>1, <3>2
  <2>3. UNCHANGED reload /\ dog' = [dog EXCEPT !.todo = Tail(@)]
    BY <1>5 DEF RecoverMissing
  <2>4. LoopsOK'
    BY <2>1, <2>2, <2>3 DEF LoopsOK
  <2> HIDE DEF ch
  <2>5. \/ UNCHANGED <<calls, cooling>>
        \/ \E a \in Accounts : /\ cooling' = cooling \cup {<<a, ch>>}
                               /\ UNCHANGED calls \/ Joins(Dog, a, ch)
    BY <1>5 DEF RecoverMissing, OrphanCandidates, ch
  <2>6. Flight' /\ \A q \in Notes : proc'[q] = proc[q]
    <3>1. CASE UNCHANGED calls
      BY <2>3, <3>1, FlightStays DEF calls
    <3>2. ASSUME NEW a \in Accounts, Joins(Dog, a, ch)
          PROVE  Flight' /\ \A q \in Notes : proc'[q] = proc[q]
      BY <1>1, <1>5, <2>2, <2>3, <3>2, JoinsFlight, Coroutines DEF RecoverMissing
    <3> QED
      BY <2>5, <3>1, <3>2
  <2>7. SessionOK' /\ MarkerBacked'
    BY <1>5, <2>6, MarkersStay DEF RecoverMissing, sessions, SessionOK
  <2>8. OtherOK'
    BY <1>5, <2>2, <2>5 DEF RecoverMissing, OtherOK
  <2> QED
    BY <2>4, <2>6, <2>7, <2>8 DEF IInv, TypeOK, Flight, OtherOK
<1>6. CASE RefreshOver
  <2>1. Sleeping \in [at : {"sleep", "down", "stalled"},
                      todo : Seq(Accounts \X (Channels \cup {NoAccount}))]
    BY DEF Sleeping
  <2>2. Flight' /\ MarkerBacked'
    BY <1>6, FlightStays, MarkersStay DEF RefreshOver, calls, sessions
  <2>3. SessionOK' /\ OtherOK' /\ LoopsOK'
    BY <1>6, <2>1 DEF RefreshOver, sessions, SessionOK, OtherOK, LoopsOK
  <2> QED
    BY <2>2, <2>3 DEF IInv, TypeOK, Flight, OtherOK
<1>7. CASE WatchdogReturns
  <2>1. proc[Dog].result # "none" /\ rec' \in [Accounts -> {"ready", "backoff", "blocked"}]
    BY <1>7, ReturnsType, Coroutines DEF WatchdogReturns
  <2>2. CASE dog.at # "missing" /\ UNCHANGED <<sessions, serve, left>>
             /\ ReconnectEach(dog.at, dog.todo)
    <3>1. /\ dog.todo \in Seq(Accounts \X (Channels \cup {NoAccount}))
          /\ dog.at \in {"sleep", "down", "stalled"}
      BY <2>2 DEF LoopsOK
    <3>2. /\ Flight' /\ \A q \in Notes : proc'[q] = proc[q]
          /\ dog' \in [at : {"sleep", "down", "stalled"},
                       todo : Seq(Accounts \X (Channels \cup {NoAccount}))]
      BY <1>7, <2>1, <2>2, <3>1, ReconnectFlight DEF WatchdogReturns
    <3>3. SessionOK' /\ MarkerBacked'
      BY <2>2, <3>2, MarkersStay DEF sessions, SessionOK
    <3>4. OtherOK' /\ LoopsOK'
      BY <1>7, <2>1, <2>2, <3>2 DEF WatchdogReturns, OtherOK, LoopsOK
    <3> QED
      BY <3>2, <3>3, <3>4 DEF IInv, TypeOK, Flight, OtherOK
  <2>3. CASE /\ dog.at = "missing"
             /\ Assign({ch \in Channels : ch = proc[Dog].ch /\ serve[ch] = NoAccount})
             /\ proc' = [proc EXCEPT ![Dog] = Idle]
             /\ UNCHANGED <<up, handler, task, lockq, dog>>
    <3>1. Flight'
      BY <1>7, <2>1, <2>3, GoesIdle, Coroutines DEF WatchdogReturns
    <3>2. /\ SessionOK' /\ \A b \in Accounts : pending'[b] \subseteq pending[b]
          /\ serve' \in [Channels -> Accounts \cup {NoAccount}]
          /\ left' \in 0..MaxFaults
      BY <2>3, AssignType DEF IInv
    <3>3. \A m \in Notes : proc'[m] = proc[m]
      BY <2>3, Coroutines DEF Flight, FlightOK
    <3>4. MarkerBacked'
      BY <3>2, <3>3, MarkersStay
    <3>5. OtherOK' /\ LoopsOK'
      BY <1>7, <2>1, <2>3, <3>2 DEF WatchdogReturns, OtherOK, LoopsOK
    <3> QED
      BY <3>1, <3>2, <3>4, <3>5 DEF IInv, TypeOK, Flight, OtherOK
  <2> QED
    BY <1>7, <2>2, <2>3 DEF WatchdogReturns
<1> QED
  BY <1>2, <1>3, <1>4, <1>5, <1>6, <1>7 DEF Watchdog

\* A notification's turn
LEMMA NotificationInv ==
    ASSUME IInv, NEW n \in Notes, Notification(n)
    PROVE  IInv'
<1> USE Parts
<1>1. CASE RecoverNotification(n)
  <2>1. proc[n].pc = "posted" /\ n \in Procs
    BY <1>1, Coroutines DEF RecoverNotification
  <2>2. OtherOK' /\ LoopsOK'
    BY <1>1 DEF RecoverNotification, OtherOK, LoopsOK
  <2>3. CASE /\ CompleteRequest(proc[n].acct, proc[n].ch, FALSE)
             /\ proc' = [proc EXCEPT ![n] = Idle] /\ UNCHANGED <<task, lockq>>
    <3>1. Flight'
      BY <1>1, <2>1, <2>3, GoesIdle DEF RecoverNotification
    <3>2. SessionOK' /\ MarkerBacked'
      BY <1>1, <2>3, MarkerReleased DEF RecoverNotification
    <3> QED
      BY <2>2, <3>1, <3>2 DEF IInv, TypeOK, Flight, OtherOK
  <2>4. CASE Joins(n, proc[n].acct, proc[n].ch) /\ UNCHANGED <<pending, chan>>
    <3>1. proc[n].acct \in Accounts /\ proc[n].ch \in Channels \cup {NoAccount}
      BY <2>1 DEF Flight, FlightOK
    <3>2. /\ Flight' /\ \A q \in Procs : q # n => proc'[q] = proc[q]
          /\ proc'[n].acct = proc[n].acct /\ proc'[n].ch = proc[n].ch
      BY <1>1, <2>1, <2>4, <3>1, JoinsFlight DEF RecoverNotification
    <3>3. \A m \in Notes : proc'[m].acct = proc[m].acct /\ proc'[m].ch = proc[m].ch
      BY <3>2, Coroutines
    <3>4. SessionOK' /\ MarkerBacked'
      BY <1>1, <2>4, <3>3, MarkersStay DEF RecoverNotification, SessionOK
    <3> QED
      BY <2>2, <3>2, <3>4 DEF IInv, TypeOK, Flight, OtherOK
  <2> QED
    BY <1>1, <2>3, <2>4 DEF RecoverNotification
<1>2. CASE NotificationReturns(n)
  <2>1. proc[n].result # "none" /\ rec' \in [Accounts -> {"ready", "backoff", "blocked"}]
    BY <1>2, ReturnsType, Coroutines DEF NotificationReturns
  <2>2. Flight'
    BY <1>2, <2>1, GoesIdle, Coroutines DEF NotificationReturns
  <2>3. (proc[n].result = "ok") \in BOOLEAN
    OBVIOUS
  <2>4. SessionOK' /\ MarkerBacked'
    BY <1>2, <2>3, MarkerReleased DEF NotificationReturns
  <2>5. OtherOK' /\ LoopsOK'
    BY <1>2, <2>1 DEF NotificationReturns, OtherOK, LoopsOK
  <2> QED
    BY <2>2, <2>4, <2>5 DEF IInv, TypeOK, Flight, OtherOK
<1> QED
  BY <1>1, <1>2 DEF Notification

\* The operator's request returns, and time passes
LEMMA OthersInv ==
    ASSUME IInv,
           \/ ManualReturns
           \/ \E a \in Accounts : BackoffOver(a)
           \/ \E a \in Accounts, ch \in Channels : CooldownOver(a, ch)
    PROVE  IInv'
<1> USE Parts
<1>1. CASE ManualReturns
  <2>1. proc[User].result # "none" /\ rec' \in [Accounts -> {"ready", "backoff", "blocked"}]
    BY <1>1, ReturnsType, Coroutines DEF ManualReturns
  <2>2. Flight'
    BY <1>1, <2>1, GoesIdle, Coroutines DEF ManualReturns
  <2>3. \A m \in Notes : proc'[m] = proc[m]
    BY <1>1, Coroutines DEF ManualReturns, Flight, FlightOK
  <2>4. SessionOK' /\ MarkerBacked'
    BY <1>1, <2>3, MarkersStay DEF ManualReturns, sessions, SessionOK
  <2>5. OtherOK' /\ LoopsOK'
    BY <1>1, <2>1 DEF ManualReturns, OtherOK, LoopsOK
  <2> QED
    BY <2>2, <2>4, <2>5 DEF IInv, TypeOK, Flight, OtherOK
<1>2. ASSUME NEW a \in Accounts, BackoffOver(a) PROVE IInv'
  <2>1. Flight' /\ MarkerBacked'
    BY <1>2, FlightStays, MarkersStay DEF BackoffOver, calls, sessions
  <2>2. SessionOK' /\ OtherOK' /\ LoopsOK'
    BY <1>2 DEF BackoffOver, sessions, SessionOK, OtherOK, LoopsOK
  <2> QED
    BY <2>1, <2>2 DEF IInv, TypeOK, Flight, OtherOK
<1>3. ASSUME NEW a \in Accounts, NEW ch \in Channels, CooldownOver(a, ch) PROVE IInv'
  <2>1. Flight' /\ MarkerBacked'
    BY <1>3, FlightStays, MarkersStay DEF CooldownOver, calls, sessions
  <2>2. SessionOK' /\ OtherOK' /\ LoopsOK'
    BY <1>3 DEF CooldownOver, sessions, SessionOK, OtherOK, LoopsOK
  <2> QED
    BY <2>1, <2>2 DEF IInv, TypeOK, Flight, OtherOK
<1> QED
  BY <1>1, <1>2, <1>3

-----------------------------------------------------------------------------
(* The theorems                                                            *)

LEMMA InitInv == Init => IInv
<1> SUFFICES ASSUME Init PROVE IInv
  OBVIOUS
<1> USE RecoveryAssumption DEF RecoveryAssumption
<1>1. SessionOK
  BY DEF Init, SessionOK
<1>2. FlightOK
  <2>1. NoTask \in [phase : {"none", "queued", "login", "rebalance"},
                    outcome : {"none"} \cup DOMAIN Recorded, affected : SUBSET Channels]
    BY DEF NoTask
  <2>2. Idle \in [pc : {"idle", "posted", "owner", "joiner"}, acct : Accounts \cup {NoAccount},
                  ch : Channels \cup {NoAccount}, result : {"none"} \cup DOMAIN Recorded]
    BY DEF Idle
  <2>3. NoTask.phase = "none" /\ Idle.pc = "idle"
    BY DEF NoTask, Idle
  <2> QED
    BY <2>1, <2>2, <2>3 DEF Init, FlightOK
<1>3. LoopsOK /\ OtherOK
  BY DEF Init, LoopsOK, OtherOK, Sleeping
<1>4. Queueing /\ Owned
  <2>1. /\ lockq = <<>> /\ reload.at = "none"
        /\ \A a \in Accounts : task[a].phase = "none"
        /\ \A p \in Procs : proc[p].pc = "idle"
    BY DEF Init, NoTask, Idle
  <2> QED
    BY <2>1 DEF Queueing, Owned, Running, Waits, First, Awaits, Owns
<1>5. MarkerBacked
  BY DEF Init, MarkerBacked
<1> QED
  BY <1>1, <1>2, <1>3, <1>4, <1>5, Parts DEF Flight

LEMMA StepInv == IInv /\ [Next]_vars => IInv'
<1> SUFFICES ASSUME IInv, [Next]_vars PROVE IInv'
  OBVIOUS
<1>1. CASE UNCHANGED vars
  <2>1. UNCHANGED <<up, ws, chan, handler, pending, serve, rec, task, lockq, reload,
                    proc, dog, cooling, left>>
    BY <1>1 DEF vars, sessions
  <2>2. Flight' /\ MarkerBacked'
    BY <2>1, FlightStays, MarkersStay, Parts
  <2>3. SessionOK' /\ OtherOK' /\ LoopsOK'
    BY <2>1, Parts DEF SessionOK, OtherOK, LoopsOK
  <2> QED
    BY <2>2, <2>3 DEF IInv, TypeOK, Flight, OtherOK
<1>2. CASE Next
  BY <1>2, WorldInv, RebuildInv, ReloadInv, WatchdogInv, NotificationInv, OthersInv DEF Next
<1> QED
  BY <1>1, <1>2

\* The strengthening the theorems below follow from: beside the types, everyone queues
\* at most once for _reload_lock, who works under it holds it, and every running rebuild
\* has exactly one owner.
THEOREM InductiveInvariant == Spec => []IInv
  BY InitInv, StepInv, PTL DEF Spec

\* Every recovery marker is backed by a notification that will release it, however the
\* callbacks, the rebuilds, the reload and the watchdog interleave.
THEOREM MarkerCorrect == Spec => []MarkerBacked
<1>1. IInv => MarkerBacked
  BY DEF IInv
<1> QED
  BY <1>1, InductiveInvariant, PTL

\* A set with exactly one element, or with none, is counted right
LEMMA CountsOnce ==
    ASSUME NEW S, NEW P \in BOOLEAN, P => S # {}, ~P => S = {},
           \A x, y \in S : x = y
    PROVE  Cardinality(S) = IF P THEN 1 ELSE 0
<1>1. CASE P
  <2>1. PICK x \in S : TRUE
    BY <1>1
  <2>2. S = {x}
    BY <2>1
  <2> QED
    BY <1>1, <2>2, FS_Singleton
<1>2. CASE ~P
  BY <1>2, FS_EmptySet
<1> QED
  BY <1>1, <1>2

\* Every variable keeps the shape of the Python object it stands for, and rebuilds are
\* single-flight: a running one has exactly one owner and one place in the queue for
\* _reload_lock, and nobody awaits one that does not run.
THEOREM RebuildsCorrect == Spec => []RebuildsSound
<1>1. IInv => SingleFlight
  <2> SUFFICES ASSUME IInv, NEW a \in Accounts
               PROVE  LET awaiting(pc) == {p \in Procs : /\ proc[p].pc = pc /\ proc[p].acct = a
                                                         /\ proc[p].result = "none"}
                          once == IF Running(a) THEN 1 ELSE 0
                      IN /\ Cardinality(awaiting("owner")) = once
                         /\ ~Running(a) => awaiting("joiner") = {}
                         /\ Cardinality({i \in DOMAIN lockq : lockq[i] = a}) = once
    BY DEF SingleFlight
  <2> DEFINE owners == {p \in Procs : /\ proc[p].pc = "owner" /\ proc[p].acct = a
                                      /\ proc[p].result = "none"}
             places == {i \in DOMAIN lockq : lockq[i] = a}
  <2>1. Owned /\ Queueing /\ Running(a) \in BOOLEAN
    BY DEF IInv, Running
  <2>2. Cardinality(owners) = IF Running(a) THEN 1 ELSE 0
    <3>1. /\ Running(a) => owners # {}
          /\ ~Running(a) => owners = {}
          /\ \A x, y \in owners : x = y
      BY <2>1 DEF Owned, Owns, Awaits
    <3> HIDE DEF owners
    <3> QED
      BY <2>1, <3>1, CountsOnce
  <2>3. Cardinality(places) = IF Running(a) THEN 1 ELSE 0
    <3>1. /\ Running(a) => places # {}
          /\ ~Running(a) => places = {}
          /\ \A x, y \in places : x = y
      BY <2>1 DEF Queueing, Waits
    <3> HIDE DEF places
    <3> QED
      BY <2>1, <3>1, CountsOnce
  <2>4. ~Running(a) => {p \in Procs : /\ proc[p].pc = "joiner" /\ proc[p].acct = a
                                      /\ proc[p].result = "none"} = {}
    BY <2>1 DEF Owned, Awaits
  <2> QED
    BY <2>2, <2>3, <2>4
<1>2. IInv => RebuildsSound
  BY <1>1 DEF IInv, RebuildsSound
<1> QED
  BY <1>2, InductiveInvariant, PTL

-----------------------------------------------------------------------------
(* Every ticker is served by the session it is assigned to                 *)

\* While the login of a rebuild runs the session has no owner callback, so that a rebuild
\* that ends there without one leaves the account deaf rather than silently unserved
Detached == \A a \in Accounts : task[a].phase = "login" => a \notin handler

Tended == ServedBySession /\ Detached

\* The websocket of every ticker that an assignment of C gives to a session is open, and
\* the other tickers and websockets are left alone
LEMMA AssignServes ==
    ASSUME TypeOK, NEW C \in SUBSET Channels, Assign(C)
    PROVE  \A ch \in Channels, a \in Accounts : serve'[ch] = a =>
               IF ch \in C THEN ws'[a][ch] = "open"
               ELSE serve[ch] = a /\ ws'[a][ch] = ws[a][ch]
<1>1. PICK pick \in [C -> Accounts \cup {NoAccount}] :
        /\ serve' = [ch \in Channels |-> IF ch \in C THEN pick[ch] ELSE serve[ch]]
        /\ ws' = [a \in Accounts |-> [ch \in Channels |->
                        IF ch \in {c \in C : pick[c] = a} THEN "open" ELSE ws[a][ch]]]
  BY DEF Assign
<1> SUFFICES ASSUME NEW ch \in Channels, NEW a \in Accounts, serve'[ch] = a
             PROVE  IF ch \in C THEN ws'[a][ch] = "open"
                    ELSE serve[ch] = a /\ ws'[a][ch] = ws[a][ch]
  OBVIOUS
<1>2. ws'[a][ch] = IF ch \in {c \in C : pick[c] = a} THEN "open" ELSE ws[a][ch]
  BY <1>1
<1> QED
  BY <1>1, <1>2

\* A session that is as settled as it was, and whose tickers have the websockets they had
LEMMA ServedStays ==
    ASSUME ServedBySession,
           \A a \in Accounts, ch \in Channels :
               serve'[ch] = a /\ up'[a] /\ a \in handler' /\ Settled(a)' =>
                   \/ /\ serve[ch] = a /\ up[a] /\ a \in handler /\ Settled(a)
                      /\ ws[a][ch] # "none" => ws'[a][ch] # "none"
                   \/ ws'[a][ch] # "none"
    PROVE  ServedBySession'
  BY DEF ServedBySession, Serves, Deaf

\* An assignment outside a rebuild and outside a reload
LEMMA AssignTends ==
    ASSUME IInv, Tended, NEW C \in SUBSET Channels, Assign(C),
           UNCHANGED <<up, handler, reload>>,
           \A a \in Accounts : \/ task'[a].phase = task[a].phase
                               \/ /\ task[a].phase = "none" /\ task'[a].phase = "queued"
    PROVE  Tended'
<1>1. \A ch \in Channels, a \in Accounts : serve'[ch] = a =>
          IF ch \in C THEN ws'[a][ch] = "open"
          ELSE serve[ch] = a /\ ws'[a][ch] = ws[a][ch]
  BY AssignServes DEF IInv
<1>2. \A a \in Accounts : Settled(a)' => Settled(a)
  BY DEF Settled
<1>3. ServedBySession'
  BY <1>1, <1>2, ServedStays DEF Tended
<1>4. Detached'
  BY DEF Tended, Detached
<1> QED
  BY <1>3, <1>4 DEF Tended

\* A step that touches neither the sessions nor the assignments
LEMMA TendedStays ==
    ASSUME Tended, UNCHANGED <<up, handler, reload, serve>>,
           \A a \in Accounts, ch \in Channels : ws[a][ch] # "none" => ws'[a][ch] # "none",
           \A a \in Accounts : \/ task'[a].phase = task[a].phase
                               \/ /\ task[a].phase = "none" /\ task'[a].phase = "queued"
                               \/ /\ task[a].phase = "queued" /\ task'[a].phase = "none"
    PROVE  Tended'
  BY DEF Tended, Detached, ServedBySession, Serves, Deaf, Settled

\* A request for a rebuild leaves every rebuild that runs where it is
LEMMA JoinsPhase ==
    ASSUME FlightOK, NEW p, NEW a \in Accounts, NEW ch, Joins(p, a, ch), NEW b \in Accounts
    PROVE  \/ task'[b].phase = task[b].phase
           \/ task[b].phase = "none" /\ task'[b].phase = "queued"
<1> DEFINE queued == [NoTask EXCEPT !.phase = "queued"]
<1>1. queued.phase = "queued"
  BY DEF NoTask
<1>2. UNCHANGED task \/ (~Running(a) /\ task' = [task EXCEPT ![a] = queued])
  BY DEF Joins
<1> HIDE DEF queued
<1>3. CASE UNCHANGED task
  BY <1>3
<1>4. CASE ~Running(a) /\ task' = [task EXCEPT ![a] = queued]
  BY <1>1, <1>4 DEF FlightOK, Running
<1> QED
  BY <1>2, <1>3, <1>4

\* A turn of the watchdog over a list of accounts requests at most one rebuild
LEMMA ReconnectPhase ==
    ASSUME FlightOK, NEW at, NEW L \in Seq(Accounts \X (Channels \cup {NoAccount})),
           ReconnectEach(at, L), NEW b \in Accounts
    PROVE  \/ task'[b].phase = task[b].phase
           \/ task[b].phase = "none" /\ task'[b].phase = "queued"
<1>1. CASE UNCHANGED task
  BY <1>1
<1>2. CASE \E i \in DOMAIN L : Joins(Dog, L[i][1], L[i][2])
  <2>1. PICK i \in 1..Len(L) : Joins(Dog, L[i][1], L[i][2])
    BY <1>2
  <2>2. L[i][1] \in Accounts
    OBVIOUS
  <2> QED
    BY <2>1, <2>2, JoinsPhase
<1> QED
  BY <1>1, <1>2 DEF ReconnectEach

\* The end of a rebuild, for its account and for the others
LEMMA TaskEndsPhase ==
    ASSUME FlightOK, NEW a \in Accounts, NEW outcome, TaskEnds(a, outcome)
    PROVE  \A b \in Accounts : task'[b].phase = IF b = a THEN "none" ELSE task[b].phase
<1>1. task' = [task EXCEPT ![a] = NoTask] /\ NoTask.phase = "none"
  BY DEF TaskEnds, NoTask
<1> QED
  BY <1>1 DEF FlightOK

\* What happens from outside
LEMMA WorldTends ==
    ASSUME IInv, Tended, World
    PROVE  Tended'
<1> USE DEF IInv, TypeOK
<1>1. ASSUME NEW a \in Accounts, InvalidateSession(a)
      PROVE  Tended'
  <2>1. /\ \A b \in Accounts : up'[b] = IF b = a THEN FALSE ELSE up[b]
        /\ \A b \in Accounts : b # a => ws'[b] = ws[b]
        /\ UNCHANGED <<handler, serve, task, reload>>
    BY <1>1 DEF InvalidateSession, SessionOK, calls
  <2>2. ServedBySession'
    BY <2>1, ServedStays DEF Tended, Settled
  <2> QED
    BY <2>1, <2>2 DEF Tended, Detached
<1>2. ASSUME NEW a \in Accounts, NEW ch \in Channels, Message(a, ch)
      PROVE  Tended'
  BY <1>2, TendedStays DEF Message, calls
<1>3. ASSUME NEW a \in Accounts, ManualReconnect(a)
      PROVE  Tended'
  <2>1. \A b \in Accounts : \/ task'[b].phase = task[b].phase
                            \/ task[b].phase = "none" /\ task'[b].phase = "queued"
    BY <1>3, JoinsPhase DEF ManualReconnect
  <2> QED
    BY <1>3, <2>1, TendedStays DEF ManualReconnect, sessions
<1>4. ASSUME NEW a \in Accounts, StatusNotStored(a)
      PROVE  Tended'
  <2>1. /\ \A b \in Accounts : b # a => up'[b] = up[b]
        /\ UNCHANGED <<ws, handler, serve, reload>>
        /\ task[a].phase = "login"
    BY <1>4 DEF StatusNotStored, SessionOK
  <2>2. \A b \in Accounts : task'[b].phase = IF b = a THEN "none" ELSE task[b].phase
    BY <1>4, TaskEndsPhase DEF StatusNotStored
  <2> QED
    BY <2>1, <2>2 DEF Tended, Detached, ServedBySession, Serves, Deaf, Settled
<1>5. ASSUME NEW a \in Accounts, NEW ch \in Channels, ChannelFails(a, ch)
      PROVE  Tended'
  <2>1. PICK socket \in {"open", "closed"} : ws' = [ws EXCEPT ![a][ch] = socket]
    BY <1>5 DEF ChannelFails
  <2>2. \A b \in Accounts, c \in Channels : ws[b][c] # "none" => ws'[b][c] # "none"
    BY <2>1 DEF SessionOK
  <2> QED
    BY <1>5, <2>2, TendedStays DEF ChannelFails
<1>6. CASE RequestReload
  <2>1. reload.at = "none" /\ reload'.at = "queued" /\ UNCHANGED <<up, ws, handler, serve, task>>
    BY <1>6 DEF RequestReload, sessions
  <2> QED
    BY <2>1 DEF Tended, Detached, ServedBySession, Serves, Deaf, Settled
<1> QED
  BY <1>1, <1>2, <1>3, <1>4, <1>5, <1>6 DEF World

\* A step of the rebuild of one account
LEMMA RebuildTends ==
    ASSUME IInv, Tended, NEW a \in Accounts, Rebuild(a)
    PROVE  Tended'
<1> USE DEF IInv, TypeOK
<1>1. CASE BeginRebuild(a)
  <2>1. task[a].phase = "queued" /\ UNCHANGED <<serve, reload>>
    BY <1>1 DEF BeginRebuild
  <2>2. CASE /\ ResetSession(a) /\ handler' = handler \ {a}
             /\ task' = [task EXCEPT ![a].phase = "login",
                                     ![a].affected = {ch \in Channels : Serves(a, ch)}]
    <3>1. /\ \A b \in Accounts : up'[b] = IF b = a THEN FALSE ELSE up[b]
          /\ \A b \in Accounts : b # a => ws'[b] = ws[b]
          /\ \A b \in Accounts : b \in handler' <=> b # a /\ b \in handler
      BY <2>2 DEF ResetSession, SessionGone, SessionOK
    <3>2. \A b \in Accounts : task'[b].phase = IF b = a THEN "login" ELSE task[b].phase
      BY <2>2 DEF FlightOK
    <3>3. ServedBySession'
      BY <2>1, <3>1, <3>2, ServedStays DEF Tended, Settled
    <3> QED
      BY <3>1, <3>2, <3>3 DEF Tended, Detached
  <2>3. CASE TaskEnds(a, "failed") /\ UNCHANGED sessions
    BY <2>1, <2>3, TaskEndsPhase, TendedStays DEF sessions
  <2> QED
    BY <1>1, <2>2, <2>3 DEF BeginRebuild
<1>2. CASE EndLogin(a)
  <2>1. /\ \A b \in Accounts : b # a => up'[b] = up[b] /\ task'[b] = task[b]
        /\ \A b \in Accounts : b # a => (b \in handler' <=> b \in handler)
        /\ task'[a].phase = "rebalance" /\ UNCHANGED <<ws, serve, reload>>
    BY <1>2 DEF EndLogin, SessionOK, FlightOK
  <2> QED
    BY <2>1 DEF Tended, Detached, ServedBySession, Serves, Deaf, Settled
<1>3. CASE RebalanceAfterLogin(a)
  <2>1. \A ch \in Channels, b \in Accounts : serve'[ch] = b => ws'[b][ch] = "open"
    BY <1>3, AssignServes DEF RebalanceAfterLogin
  <2>2. \A b \in Accounts : task'[b].phase = IF b = a THEN "none" ELSE task[b].phase
    BY <1>3, TaskEndsPhase DEF RebalanceAfterLogin
  <2>3. UNCHANGED handler
    BY <1>3 DEF RebalanceAfterLogin
  <2> QED
    BY <2>1, <2>2, <2>3 DEF Tended, Detached, ServedBySession, Serves
<1> QED
  BY <1>1, <1>2, <1>3 DEF Rebuild

\* A step of reload_from_db
LEMMA ReloadTends ==
    ASSUME IInv, Tended, ReloadStep
    PROVE  Tended'
<1> USE DEF IInv, TypeOK
<1>1. CASE BeginReload \/ ReloadLogin
  <2>1. reload'.at \in {"login", "rebalance"} /\ UNCHANGED <<handler, task>>
    <3>1. CASE BeginReload
      BY <3>1 DEF BeginReload, LoopsOK, calls
    <3>2. CASE ReloadLogin
      BY <3>2 DEF ReloadLogin, calls
    <3> QED
      BY <1>1, <3>1, <3>2
  <2> QED
    BY <2>1 DEF Tended, Detached, ServedBySession, Settled
<1>2. CASE RebalanceAfterReload
  <2>1. \A ch \in Channels, b \in Accounts : serve'[ch] = b => ws'[b][ch] = "open"
    BY <1>2, AssignServes DEF RebalanceAfterReload
  <2> QED
    BY <1>2, <2>1 DEF RebalanceAfterReload, Tended, Detached, ServedBySession, Serves
<1> QED
  BY <1>1, <1>2 DEF ReloadStep

\* The watchdog's turn: it never assigns a ticker to a session without opening a websocket
LEMMA WatchdogTends ==
    ASSUME IInv, Tended, Watchdog
    PROVE  Tended'
<1>0. FlightOK /\ LoopsOK /\ SessionOK
  BY DEF IInv, TypeOK
<1>1. CASE RefreshSessions
  <2>1. PICK L \in InOrder({a \in Accounts : ~up[a]} \X {NoAccount}) : ReconnectEach("down", L)
    BY <1>1 DEF RefreshSessions
  <2>2. L \in Seq(Accounts \X (Channels \cup {NoAccount}))
    <3> DEFINE S == {a \in Accounts : ~up[a]} \X {NoAccount}
    <3>1. IsFiniteSet(S) /\ S \subseteq Accounts \X (Channels \cup {NoAccount})
      BY FinitePairs, FS_Singleton
    <3>2. L \in Seq(S)
      BY <2>1, <3>1, InOrderType
    <3> HIDE DEF S
    <3> QED
      BY <3>1, <3>2
  <2>3. \A b \in Accounts : \/ task'[b].phase = task[b].phase
                            \/ task[b].phase = "none" /\ task'[b].phase = "queued"
    BY <1>0, <2>1, <2>2, ReconnectPhase
  <2> QED
    BY <1>1, <2>3, TendedStays DEF RefreshSessions, sessions
<1>2. CASE RefreshRolling
  <2>1. PICK moved \in SUBSET Channels : Assign(moved)
    <3>1. Rolling \subseteq Channels
      BY RecoveryAssumption DEF RecoveryAssumption
    <3> QED
      BY <1>2, <3>1 DEF RefreshRolling
  <2>2. PICK L \in InOrder(Stalled') : ReconnectEach("stalled", L)
    BY <1>2 DEF RefreshRolling
  <2>3. L \in Seq(Accounts \X (Channels \cup {NoAccount}))
    <3>1. Stalled' \subseteq Accounts \X Channels
      BY DEF Stalled
    <3>2. IsFiniteSet(Stalled')
      BY <3>1, FinitePairs, RecoveryAssumption DEF RecoveryAssumption
    <3>3. L \in Seq(Stalled')
      BY <2>2, <3>2, InOrderType
    <3>4. Stalled' \subseteq Accounts \X (Channels \cup {NoAccount})
      BY <3>1
    <3> QED
      BY <3>3, <3>4
  <2>4. \A b \in Accounts : \/ task'[b].phase = task[b].phase
                            \/ task[b].phase = "none" /\ task'[b].phase = "queued"
    BY <1>0, <2>2, <2>3, ReconnectPhase
  <2>5. UNCHANGED <<up, handler, reload>>
    BY <1>2 DEF RefreshRolling
  <2> QED
    BY <2>1, <2>4, <2>5, AssignTends
<1>3. CASE AssignMissing
  <2>1. UNCHANGED <<up, handler, reload, task>>
    BY <1>3 DEF AssignMissing, calls
  <2>2. Assign({ch \in Channels : serve[ch] = NoAccount})
    BY <1>3 DEF AssignMissing
  <2> QED
    BY <2>1, <2>2, AssignTends
<1>4. CASE RecoverMissing
  <2>1. UNCHANGED sessions /\ UNCHANGED <<serve, reload>>
    BY <1>4 DEF RecoverMissing
  <2>2. \/ UNCHANGED task
        \/ \E a \in Accounts : Joins(Dog, a, Head(dog.todo)[2])
    BY <1>4 DEF RecoverMissing, OrphanCandidates, calls
  <2>3. \A b \in Accounts : \/ task'[b].phase = task[b].phase
                            \/ task[b].phase = "none" /\ task'[b].phase = "queued"
    BY <1>0, <2>2, JoinsPhase
  <2> QED
    BY <2>1, <2>3, TendedStays DEF sessions
<1>5. CASE RefreshOver
  BY <1>5, TendedStays DEF RefreshOver, sessions, calls
<1>6. CASE WatchdogReturns
  <2>1. UNCHANGED reload
    BY <1>6 DEF WatchdogReturns
  <2>2. CASE dog.at # "missing" /\ UNCHANGED <<sessions, serve, left>>
             /\ ReconnectEach(dog.at, dog.todo)
    <3>1. dog.todo \in Seq(Accounts \X (Channels \cup {NoAccount}))
      BY <1>0, <2>2 DEF LoopsOK
    <3>2. \A b \in Accounts : \/ task'[b].phase = task[b].phase
                              \/ task[b].phase = "none" /\ task'[b].phase = "queued"
      BY <1>0, <2>2, <3>1, ReconnectPhase
    <3> QED
      BY <2>1, <2>2, <3>2, TendedStays DEF sessions
  <2>3. CASE /\ Assign({ch \in Channels : ch = proc[Dog].ch /\ serve[ch] = NoAccount})
             /\ UNCHANGED <<up, handler, task, lockq, dog>>
    BY <2>1, <2>3, AssignTends
  <2> QED
    BY <1>6, <2>2, <2>3 DEF WatchdogReturns
<1> QED
  BY <1>1, <1>2, <1>3, <1>4, <1>5, <1>6 DEF Watchdog

\* A notification's turn, the operator's return, and time
LEMMA OthersTend ==
    ASSUME IInv, Tended,
           \/ \E n \in Notes : Notification(n)
           \/ ManualReturns
           \/ \E a \in Accounts : BackoffOver(a)
           \/ \E a \in Accounts, ch \in Channels : CooldownOver(a, ch)
    PROVE  Tended'
<1>0. FlightOK
  BY DEF IInv, TypeOK
<1>1. ASSUME NEW n \in Notes, RecoverNotification(n)
      PROVE  Tended'
  <2>1. UNCHANGED <<up, ws, handler, serve, reload>>
    BY <1>1 DEF RecoverNotification
  <2>2. proc[n].acct \in Accounts
    BY <1>0, <1>1, Coroutines DEF RecoverNotification, FlightOK
  <2>3. UNCHANGED task \/ Joins(n, proc[n].acct, proc[n].ch)
    BY <1>1 DEF RecoverNotification
  <2>4. \A b \in Accounts : \/ task'[b].phase = task[b].phase
                            \/ task[b].phase = "none" /\ task'[b].phase = "queued"
    BY <1>0, <2>2, <2>3, JoinsPhase
  <2> QED
    BY <2>1, <2>4, TendedStays
<1>2. ASSUME NEW n \in Notes, NotificationReturns(n)
      PROVE  Tended'
  BY <1>2, TendedStays DEF NotificationReturns
<1>3. CASE ManualReturns
  BY <1>3, TendedStays DEF ManualReturns, sessions
<1>4. ASSUME NEW a \in Accounts, BackoffOver(a) PROVE Tended'
  BY <1>4, TendedStays DEF BackoffOver, sessions, calls
<1>5. ASSUME NEW a \in Accounts, NEW ch \in Channels, CooldownOver(a, ch) PROVE Tended'
  BY <1>5, TendedStays DEF CooldownOver, sessions, calls
<1> QED
  BY <1>1, <1>2, <1>3, <1>4, <1>5 DEF Notification

\* A settled session that is up and has its owner callback has a websocket for every
\* ticker assigned to it, however rebuilds, the reload, the watchdog, the notifications
\* and the callbacks interleave and whichever of their steps fail.
THEOREM ServedCorrect == Spec => []ServedBySession
<1>1. Init => Tended
  <2> SUFFICES ASSUME Init PROVE Tended
    OBVIOUS
  <2>1. \A a \in Accounts : task[a].phase = "none"
    BY DEF Init, NoTask
  <2>2. \A a \in Accounts, ch \in Channels : Serves(a, ch) => ws[a][ch] = "open"
    BY DEF Init
  <2> QED
    BY <2>1, <2>2 DEF Tended, Detached, ServedBySession
<1>2. IInv /\ Tended /\ [Next]_vars => Tended'
  <2> SUFFICES ASSUME IInv, Tended, [Next]_vars PROVE Tended'
    OBVIOUS
  <2>1. CASE UNCHANGED vars
    BY <2>1, TendedStays DEF vars, sessions, calls
  <2>2. CASE Next
    BY <2>2, WorldTends, RebuildTends, ReloadTends, WatchdogTends, OthersTend DEF Next
  <2> QED
    BY <2>1, <2>2
<1>3. Tended => ServedBySession
  BY DEF Tended
<1> QED
  BY <1>1, <1>2, <1>3, InductiveInvariant, PTL DEF Spec
=============================================================================
