----------------------- MODULE SubscriptionPool_proofs -----------------------
(* Machine-checked proofs about SubscriptionPool, for every set of tickers,  *)
(* contracts, accounts, sources and coroutines and every choice of faults:   *)
(* its types, the safety of its tables, and what the pool at rest owes.      *)
EXTENDS SubscriptionPool, SequenceTheorems, FiniteSetTheorems, TLAPS

-----------------------------------------------------------------------------
(* Types of the pieces the actions are built from                          *)

\* A subscription's channels are members of the session's channel table
LEMMA ChannelsType ==
    ASSUME NEW c \in Contracts, NEW m \in Modes
    PROVE  /\ Channels(c, m) \subseteq Subs
           /\ \A i \in DOMAIN ChannelsFor[m] : <<c, ChannelsFor[m][i]>> \in Subs
  BY DEF Channels, Subs

\* The coroutines are finitely many
LEMMA FiniteProcs == IsFiniteSet(Procs)
  BY PoolAssumption, FS_Union, FS_Singleton DEF PoolAssumption, Procs, Callers

\* The ranked accounts are a sequence of accounts
LEMMA CandidatesType ==
    ASSUME NEW counts, NEW t, NEW c, NEW q \in CandidateManagers(counts, t, c)
    PROVE  q \in Seq(Accounts)
<1> DEFINE up == {a \in Accounts : Connected(a)}
           n == Cardinality(up)
<1>1. IsFiniteSet(up)
  BY PoolAssumption, FS_Subset DEF PoolAssumption
<1>2. n \in Nat
  BY <1>1, FS_CardinalityType
<1>3. q \in [1..n -> up]
  BY DEF CandidateManagers
<1>4. q \in [1..n -> Accounts]
  BY <1>3
<1> HIDE DEF n, up
<1> QED
  BY <1>2, <1>4

\* The idle coroutine is well-typed
LEMMA IdleType == Idle \in Tasks
  BY DEF Idle, Tasks, Modes

LEMMA InitTypeOK == Init => TypeOK
<1> SUFFICES ASSUME Init PROVE TypeOK
  OBVIOUS
<1>1. ProcOK
  BY IdleType DEF Init, ProcOK, Idle, InEnsure, InLock
<1>2. PoolOK /\ LockOK
  BY DEF Init, PoolOK, LockOK
<1>3. SessionOK
  BY PoolAssumption DEF PoolAssumption, Init, SessionOK
<1> QED
  BY <1>1, <1>2, <1>3, PoolAssumption DEF PoolAssumption, Init, TypeOK

\* A helper that returns leaves its coroutine well-typed
LEMMA ReturnType ==
    ASSUME ProcOK, NEW p \in Procs, Return(p)
    PROVE  ProcOK'
<1>1. Returned(p) \in Tasks /\ Returned(p).pc \in {"idle", "loop"}
  BY IdleType DEF Returned, ProcOK, Tasks, Idle, Modes
<1> QED
  BY <1>1 DEF Return, ProcOK, InEnsure, InLock

\* Queueing for the lock, and leaving it
LEMMA QueueType ==
    ASSUME LockOK, NEW p \in Procs, Queue(p)
    PROVE  LockOK'
<1> DEFINE W == {q \in Procs : waiting[q] > 0}
<1>1. Cardinality(W) \in Nat
  BY FiniteProcs, FS_Subset, FS_CardinalityType
<1> HIDE DEF W
<1>2. waiting' = waiting \/ waiting' = [waiting EXCEPT ![p] = 1 + Cardinality(W)]
  BY DEF Queue, W
<1> QED
  BY <1>1, <1>2 DEF Queue, LockOK

LEMMA LeaveType ==
    ASSUME LockOK, NEW T, Leave(T)
    PROVE  LockOK'
<1> DEFINE n(W, q) == Cardinality({r \in W : waiting[r] <= waiting[q]})
           places(W) == [q \in Procs |-> IF q \in W THEN n(W, q) ELSE 0]
<1>1. ASSUME NEW W \in SUBSET Procs PROVE places(W) \in [Procs -> Nat]
  <2>1. \A q \in Procs : n(W, q) \in Nat
    BY FiniteProcs, FS_Subset, FS_CardinalityType
  <2> HIDE DEF n
  <2> QED
    BY <2>1
<1>2. \E W \in SUBSET Procs : waiting' = places(W)
  BY DEF Leave
<1>3. holder' \in Procs \cup {Nobody}
  BY DEF Leave, LockOK
<1> HIDE DEF places
<1>4. waiting' \in [Procs -> Nat]
  BY <1>1, <1>2
<1> QED
  BY <1>3, <1>4 DEF LockOK

\* Dropping an assignment keeps the pool's tables and the channel tables typed
LEMMA RemoveType ==
    ASSUME PoolOK, sdk \in [Accounts -> SUBSET Subs], NEW t \in Tickers,
           RemoveAssignmentLocked(t)
    PROVE  PoolOK' /\ sdk' \in [Accounts -> SUBSET Subs]
<1>1. phys' \in [Keys -> Nat]
  BY DEF PoolOK, RemoveAssignmentLocked, CountsWithout, Assigned
<1>2. aliases' \in [Contracts -> SUBSET Tickers]
  BY DEF PoolOK, RemoveAssignmentLocked, AliasesWithout, Assigned, Keys
<1>3. assign' \in [Tickers -> Keys \cup {NoAssignment}]
  BY DEF PoolOK, RemoveAssignmentLocked
<1>4. sdk' \in [Accounts -> SUBSET Subs]
  BY DEF PoolOK, RemoveAssignmentLocked, Assigned, Keys
<1> QED
  BY <1>1, <1>2, <1>3, <1>4 DEF PoolOK

\* Recording one does too
LEMMA RecordType ==
    ASSUME PoolOK, NEW t \in Tickers, NEW k \in Keys, RecordAssignment(t, k)
    PROVE  PoolOK'
<1>1. k.contract \in Contracts
  BY DEF Keys
<1>2. phys' \in [Keys -> Nat] /\ assign' \in [Tickers -> Keys \cup {NoAssignment}]
  BY DEF PoolOK, RecordAssignment
<1>3. aliases' \in [Contracts -> SUBSET Tickers]
  BY <1>1 DEF PoolOK, RecordAssignment
<1> QED
  BY <1>2, <1>3 DEF PoolOK

\* The coroutines cancelled and restarted by _schedule_task
LEMMA ScheduleType ==
    ASSUME ProcOK, LockOK, NEW T \in SUBSET Tickers, NEW helper,
           \A t \in T : helper[t] \in {"ensure", "refresh"},
           ScheduleTasks(T, helper)
    PROVE  ProcOK' /\ LockOK'
<1>1. LockOK'
  BY LeaveType DEF ScheduleTasks
<1> DEFINE start(p) == [Idle EXCEPT !.pc = helper[p], !.ticker = p]
<1>2. \A p \in T : start(p) \in Tasks /\ start(p).pc \in {"ensure", "refresh"}
                   /\ start(p).ticker \in Tickers
  BY IdleType DEF Idle, Tasks
<1>3. \A p \in Procs : proc'[p] = IF p \in T THEN start(p) ELSE proc[p]
  BY DEF ScheduleTasks
<1>4. DOMAIN proc' = Procs
  BY DEF ScheduleTasks
<1>5. proc' = [p \in Procs |-> proc'[p]]
  BY DEF ScheduleTasks
<1> HIDE DEF start
<1>6. \A p \in Procs : proc'[p] \in Tasks
  BY <1>2, <1>3 DEF ProcOK
<1>7. proc' \in [Procs -> Tasks]
  BY <1>5, <1>6
<1>8. ProcOK'
  BY <1>2, <1>3, <1>7 DEF ProcOK, InEnsure, InLock
<1> QED
  BY <1>1, <1>8

\* A turn of a caller's loop
LEMMA TurnType ==
    ASSUME ProcOK, LockOK, NEW p \in Procs,
           NEW todo \in SUBSET ({"remove", "refresh", "ensure", "missing"} \X Tickers),
           Turn(p, todo)
    PROVE  ProcOK' /\ LockOK'
<1>1. CASE proc' = [proc EXCEPT ![p] = Idle] /\ UNCHANGED lock
  BY <1>1, IdleType DEF ProcOK, LockOK, lock, Idle, InEnsure, InLock
<1>2. ASSUME NEW x \in todo, NEW pc \in {"removing", "refresh", "loop", "ensure"},
             proc' = [proc EXCEPT ![p] = [Idle EXCEPT !.pc = pc, !.ticker = x[2],
                                                      !.todo = todo \ {x}]],
             Queue(p) \/ UNCHANGED lock
      PROVE  ProcOK' /\ LockOK'
  <2>1. LockOK'
    BY <1>2, QueueType DEF LockOK, lock
  <2> DEFINE new == [Idle EXCEPT !.pc = pc, !.ticker = x[2], !.todo = todo \ {x}]
  <2>2. x[2] \in Tickers
    OBVIOUS
  <2>3. new \in Tasks /\ new.pc = pc /\ new.ticker \in Tickers
    BY IdleType, <2>2 DEF Idle, Tasks
  <2> HIDE DEF new
  <2>4. ProcOK'
    BY <1>2, <2>3 DEF ProcOK, InEnsure, InLock, new
  <2> QED
    BY <2>1, <2>4
<1> DEFINE of(h) == {x \in todo : x[1] \in h}
           first == IF of({"remove", "refresh"}) # {} THEN of({"remove", "refresh"})
                    ELSE IF of({"ensure"}) # {} THEN of({"ensure"})
                    ELSE todo
           call(x) == CASE x[1] = "remove" -> "removing"
                        [] x[1] = "refresh" -> "refresh"
                        [] x[1] = "missing" /\ Assigned(x[2]) -> "loop"
                        [] OTHER -> "ensure"
<1>3. \A x \in todo : call(x) \in {"removing", "refresh", "loop", "ensure"}
  OBVIOUS
<1>4. first \subseteq todo
  OBVIOUS
<1>5. \/ proc' = [proc EXCEPT ![p] = Idle] /\ UNCHANGED lock
      \/ \E x \in first :
          /\ proc' = [proc EXCEPT ![p] = [Idle EXCEPT !.pc = call(x), !.ticker = x[2],
                                                     !.todo = todo \ {x}]]
          /\ Queue(p) \/ UNCHANGED lock
  BY DEF Turn
<1> HIDE DEF first, call
<1> QED
  BY <1>1, <1>2, <1>3, <1>4, <1>5

\* A new session forgets the futures of the old one and nothing else
LEMMA ResetType ==
    ASSUME ProcOK, SessionOK, NEW a \in Accounts, NEW phase \in {"init", "down"},
           sdk \in [Accounts -> SUBSET Subs], late \subseteq [acct : Accounts, sub : Subs],
           ResetSession(a, phase)
    PROVE  /\ ProcOK' /\ SessionOK'
           /\ sdk' \in [Accounts -> SUBSET Subs]
           /\ late' \subseteq [acct : Accounts, sub : Subs]
<1> DEFINE S == [phase : {"up", "init", "down", "invalid"},
                  mode : Modes, started : BOOLEAN, healthy : BOOLEAN]
           new == [session[a] EXCEPT !.phase = phase, !.mode = "Speed", !.started = FALSE]
<1>0. session' = [session EXCEPT ![a] = new] /\ new \in S
  BY DEF ResetSession, SessionOK, Modes
<1>1. SessionOK'
  <2> HIDE DEF new
  <2> QED  BY <1>0 DEF SessionOK
<1>2. sdk' \in [Accounts -> SUBSET Subs] /\ late' \subseteq [acct : Accounts, sub : Subs]
  BY DEF ResetSession
<1>3. proc' = [p \in Procs |-> proc'[p]]
  BY DEF ResetSession
<1>4. \A p \in Procs : proc'[p] = proc[p] \/ proc'[p] = [proc[p] EXCEPT !.live = FALSE]
  BY DEF ResetSession
<1>4a. \A p \in Procs : proc[p] \in Tasks
  BY DEF ProcOK
<1>4b. ASSUME NEW r \in Tasks, NEW q, q = r \/ q = [r EXCEPT !.live = FALSE]
      PROVE  /\ q \in Tasks
             /\ q.pc = r.pc /\ q.ticker = r.ticker /\ q.target = r.target
             /\ q.cands = r.cands /\ q.mode = r.mode /\ q.ch = r.ch
  BY <1>4b DEF Tasks
<1>5. \A p \in Procs : /\ proc'[p] \in Tasks
                       /\ proc'[p].pc = proc[p].pc /\ proc'[p].ticker = proc[p].ticker
                       /\ proc'[p].target = proc[p].target /\ proc'[p].cands = proc[p].cands
                       /\ proc'[p].mode = proc[p].mode /\ proc'[p].ch = proc[p].ch
  <2> SUFFICES ASSUME NEW p \in Procs
               PROVE  /\ proc'[p] \in Tasks
                      /\ proc'[p].pc = proc[p].pc /\ proc'[p].ticker = proc[p].ticker
                      /\ proc'[p].target = proc[p].target /\ proc'[p].cands = proc[p].cands
                      /\ proc'[p].mode = proc[p].mode /\ proc'[p].ch = proc[p].ch
    OBVIOUS
  <2>1. PICK r \in Tasks : r = proc[p]
    BY <1>4a
  <2>2. PICK q : q = proc'[p]
    OBVIOUS
  <2>3. q = r \/ q = [r EXCEPT !.live = FALSE]
    BY <1>4, <2>1, <2>2
  <2> QED
    BY <1>4b, <2>1, <2>2, <2>3
<1>6. proc' \in [Procs -> Tasks]
  BY <1>3, <1>5
<1>7. ProcOK'
  BY <1>5, <1>6 DEF ProcOK
<1> QED
  BY <1>1, <1>2, <1>7

\* The account a coroutine works on, the key it would hold there
LEMMA HeadType ==
    ASSUME TypeOK, NEW p \in Procs, proc[p].pc \in InLock
    PROVE  /\ Head(proc[p].cands) \in Accounts
           /\ Tail(proc[p].cands) \in Seq(Accounts)
           /\ proc[p].target \in Contracts /\ proc[p].ticker \in Tickers
           /\ proc[p].mode \in Modes
           /\ KeyOf(Head(proc[p].cands), proc[p].target) \in Keys
           /\ \A m \in Modes : [acct |-> Head(proc[p].cands), contract |-> proc[p].target,
                               mode |-> m] \in Keys
<1>1. /\ proc[p].cands \in Seq(Accounts) /\ proc[p].cands # <<>>
      /\ proc[p].target \in Contracts /\ proc[p].ticker \in Tickers /\ proc[p].mode \in Modes
  BY DEF TypeOK, ProcOK, Tasks, InEnsure, InLock
<1>2. Head(proc[p].cands) \in Accounts /\ Tail(proc[p].cands) \in Seq(Accounts)
  BY <1>1, HeadTailProperties
<1>3. \A a \in Accounts : session[a].mode \in Modes
  BY DEF TypeOK, SessionOK
<1> QED
  BY <1>1, <1>2, <1>3 DEF KeyOf, Keys

\* Trying the next account, or giving up
LEMMA NextCandidateType ==
    ASSUME TypeOK, NEW p \in Procs, proc[p].pc \in InLock, NextCandidate(p)
    PROVE  ProcOK' /\ LockOK'
<1>1. CASE Len(proc[p].cands) > 1
  <2> DEFINE s == proc[p].cands
  <2>1. s \in Seq(Accounts) /\ s # <<>>
    BY DEF TypeOK, ProcOK, Tasks
  <2>2. Tail(s) \in Seq(Accounts) /\ Tail(s) # <<>>
    <3>1. Tail(s) \in Seq(Accounts) /\ Len(Tail(s)) = Len(s) - 1
      BY <2>1, HeadTailProperties
    <3>2. Len(Tail(s)) > 0
      <4> HIDE DEF s
      <4>1. Len(s) \in Nat
        BY <2>1, LenProperties
      <4> QED
        BY <1>1, <3>1, <4>1 DEF s
    <3>3. ASSUME NEW u \in Seq(Accounts), Len(u) > 0 PROVE u # <<>>
      BY <3>3, EmptySeq
    <3> HIDE DEF s
    <3> QED
      BY <3>1, <3>2, <3>3
  <2> DEFINE new == [proc[p] EXCEPT !.pc = "starting", !.cands = Tail(proc[p].cands)]
  <2>3. proc' = [proc EXCEPT ![p] = new] /\ UNCHANGED lock
    BY <1>1 DEF NextCandidate
  <2>4. proc[p] \in Tasks
    BY DEF TypeOK, ProcOK
  <2>5. /\ new \in Tasks /\ new.pc = "starting" /\ new.cands = Tail(proc[p].cands)
        /\ new.target = proc[p].target /\ new.ticker = proc[p].ticker
        /\ new.ch = proc[p].ch /\ new.mode = proc[p].mode
    BY <2>2, <2>4 DEF Tasks
  <2> HIDE DEF new
  <2>6. ProcOK'
    BY <2>2, <2>3, <2>5 DEF TypeOK, ProcOK, InEnsure, InLock
  <2> QED
    BY <2>3, <2>6 DEF TypeOK, LockOK, lock
<1>2. CASE ~(Len(proc[p].cands) > 1)
  BY <1>2, ReturnType, LeaveType DEF NextCandidate, Release, TypeOK
<1> QED
  BY <1>1, <1>2

\* The channel loop, resumed at channel i
LEMMA SubscribeType ==
    ASSUME TypeOK, NEW p \in Procs, proc[p].pc \in InLock, NEW i \in Nat,
           NEW mode \in Modes, SubscribeFrom(p, i, mode)
    PROVE  PoolOK' /\ ProcOK' /\ LockOK' /\ sdk' \in [Accounts -> SUBSET Subs]
<1> DEFINE a == Head(proc[p].cands)
           c == proc[p].target
           k == [acct |-> a, contract |-> c, mode |-> mode]
<1>0. a \in Accounts /\ c \in Contracts /\ proc[p].ticker \in Tickers /\ k \in Keys
  BY HeadType
<1>1. CASE RecordAssignment(proc[p].ticker, k) /\ Return(p) /\ Release(p) /\ UNCHANGED sdk
  <2> HIDE DEF k
  <2>1. PoolOK'
    BY <1>0, <1>1, RecordType DEF TypeOK
  <2> QED
    BY <1>1, <2>1, ReturnType, LeaveType DEF Release, TypeOK
<1>2. ASSUME NEW j \in DOMAIN ChannelsFor[mode],
             sdk' = [sdk EXCEPT ![a] = @ \cup {<<c, ChannelsFor[mode][j]>>}],
             proc' = [proc EXCEPT ![p].pc = "subscribing", ![p].mode = mode,
                                  ![p].ch = j, ![p].live = TRUE],
             UNCHANGED <<assign, phys, aliases, lock>>
      PROVE  PoolOK' /\ ProcOK' /\ LockOK' /\ sdk' \in [Accounts -> SUBSET Subs]
  <2>1. <<c, ChannelsFor[mode][j]>> \in Subs
    BY <1>0, ChannelsType
  <2>2. sdk' \in [Accounts -> SUBSET Subs]
    BY <1>0, <1>2, <2>1 DEF TypeOK
  <2>3. j \in Nat
    BY PoolAssumption DEF PoolAssumption
  <2> DEFINE new == [proc[p] EXCEPT !.pc = "subscribing", !.mode = mode, !.ch = j,
                                    !.live = TRUE]
  <2>4. proc' = [proc EXCEPT ![p] = new]
    BY <1>2
  <2>5. proc[p] \in Tasks /\ proc[p].cands # <<>>
    BY DEF TypeOK, ProcOK
  <2>6. /\ new \in Tasks /\ new.pc = "subscribing" /\ new.cands = proc[p].cands
        /\ new.target = c /\ new.ticker = proc[p].ticker /\ new.ch = j /\ new.mode = mode
    BY <2>3, <2>5 DEF Tasks
  <2> HIDE DEF new
  <2>7. ProcOK'
    BY <1>0, <2>3, <2>4, <2>5, <2>6 DEF TypeOK, ProcOK, InEnsure, InLock
  <2> QED
    BY <1>2, <2>2, <2>7 DEF TypeOK, PoolOK, LockOK, lock
<1> QED
  BY <1>1, <1>2 DEF SubscribeFrom

-----------------------------------------------------------------------------
(* Type correctness                                                        *)

\* What a step of a helper leaves alone
LEMMA HelperType ==
    ASSUME TypeOK, NEW p \in Procs, Helper(p)
    PROVE  TypeOK'
<1> USE DEF TypeOK
<1>1. CASE RefreshTickerAssignment(p)
  <2>1. proc[p].pc = "refresh" /\ proc[p] \in Tasks /\ proc[p].ticker \in Tickers
    BY <1>1 DEF RefreshTickerAssignment, ProcOK
  <2>2. PICK pc \in {"ensure", "removing"} :
           /\ proc' = [proc EXCEPT ![p].pc = pc]
           /\ Queue(p) \/ UNCHANGED lock
    BY <1>1 DEF RefreshTickerAssignment
  <2>3. LockOK'
    BY <2>2, QueueType DEF LockOK, lock
  <2>4. ProcOK'
    BY <2>1, <2>2 DEF ProcOK, Tasks, InEnsure, InLock
  <2> QED
    BY <1>1, <2>3, <2>4 DEF RefreshTickerAssignment, PoolOK, SessionOK
<1>2. CASE RemoveAssignment(p)
  <2>1. proc[p].ticker \in Tickers
    BY <1>2 DEF RemoveAssignment, ProcOK
  <2>2. PoolOK' /\ sdk' \in [Accounts -> SUBSET Subs]
    BY <1>2, <2>1, RemoveType DEF RemoveAssignment
  <2> QED
    BY <1>2, <2>2, ReturnType, LeaveType DEF RemoveAssignment, Release, SessionOK
<1>3. CASE ResolveTarget(p)
  <2> DEFINE t == proc[p].ticker
  <2>1. t \in Tickers /\ proc[p] \in Tasks
    BY <1>3 DEF ResolveTarget, ProcOK
  <2>2. CASE HasAnySource(t) /\ Resolved(t)
    <3>1. resolve[t] \in Contracts
      BY <2>1, <2>2 DEF Resolved
    <3>2. /\ proc' = [proc EXCEPT ![p].pc = "locking", ![p].target = resolve[t]]
          /\ Queue(p)
      BY <1>3, <2>2 DEF ResolveTarget
    <3>3. ProcOK'
      BY <2>1, <3>1, <3>2 DEF ProcOK, Tasks, InEnsure, InLock
    <3> QED
      BY <1>3, <3>2, <3>3, QueueType DEF ResolveTarget, PoolOK, SessionOK
  <2>3. CASE ~(HasAnySource(t) /\ Resolved(t))
    <3>1. Return(p) /\ UNCHANGED lock
      BY <1>3, <2>3 DEF ResolveTarget
    <3> QED
      BY <1>3, <3>1, ReturnType DEF ResolveTarget, PoolOK, SessionOK, LockOK, lock
  <2> QED
    BY <2>2, <2>3
<1>4. CASE ChooseManagers(p)
  <2> DEFINE t == proc[p].ticker
             c == proc[p].target
  <2>1. t \in Tickers /\ c \in Contracts /\ proc[p] \in Tasks
    BY <1>4 DEF ChooseManagers, ProcOK, InEnsure
  <2>2. CASE NothingToDo(t, c)
    <3>1. Return(p) /\ Release(p) /\ UNCHANGED <<assign, phys, aliases, sdk>>
      BY <1>4, <2>2 DEF ChooseManagers
    <3> QED
      BY <1>4, <3>1, ReturnType, LeaveType DEF ChooseManagers, Release, PoolOK, SessionOK
  <2>3. CASE ~NothingToDo(t, c)
    <3>1. PICK q \in CandidateManagers(CountsWithout(t), t, c) :
            /\ RemoveAssignmentLocked(t)
            /\ IF q = <<>> THEN Return(p) /\ Release(p)
               ELSE /\ proc' = [proc EXCEPT ![p].pc = "starting", ![p].cands = q]
                    /\ UNCHANGED lock
      BY <1>4, <2>3 DEF ChooseManagers
    <3>2. PoolOK' /\ sdk' \in [Accounts -> SUBSET Subs]
      BY <2>1, <3>1, RemoveType
    <3>3. CASE q = <<>>
      BY <1>4, <3>1, <3>2, <3>3, ReturnType, LeaveType DEF ChooseManagers, Release, SessionOK
    <3>4. CASE q # <<>>
      <4>1. q \in Seq(Accounts)
        BY CandidatesType
      <4> DEFINE new == [proc[p] EXCEPT !.pc = "starting", !.cands = q]
      <4>2. proc' = [proc EXCEPT ![p] = new] /\ UNCHANGED lock
        BY <3>1, <3>4
      <4>3. /\ new \in Tasks /\ new.pc = "starting" /\ new.cands = q
            /\ new.target = c /\ new.ticker = t /\ new.ch = proc[p].ch
            /\ new.mode = proc[p].mode
        BY <2>1, <4>1 DEF Tasks
      <4> HIDE DEF new
      <4>5. ProcOK'
        BY <2>1, <3>4, <4>2, <4>3 DEF ProcOK, InEnsure, InLock
      <4> QED
        BY <1>4, <3>2, <4>2, <4>5 DEF ChooseManagers, SessionOK, LockOK, lock
    <3> QED
      BY <3>3, <3>4
  <2> QED
    BY <2>2, <2>3
<1>5. CASE StartWs(p)
  <2> DEFINE a == Head(proc[p].cands)
  <2>1. proc[p].pc \in InLock /\ proc[p] \in Tasks
    BY <1>5 DEF StartWs, InLock, ProcOK
  <2>2. a \in Accounts
    BY <2>1, HeadType
  <2>3. CASE NextCandidate(p) /\ UNCHANGED session
    BY <1>5, <2>1, <2>3, NextCandidateType DEF StartWs, PoolOK, SessionOK
  <2>4. CASE /\ session' = [session EXCEPT ![a].started = TRUE,
                                ![a].healthy = @ \/ ~session[a].started]
             /\ proc' = [proc EXCEPT ![p].pc = "started"]
             /\ UNCHANGED lock
    <3>1. SessionOK'
      <4> DEFINE new == [session[a] EXCEPT !.started = TRUE,
                                           !.healthy = @ \/ ~session[a].started]
                 S == [phase : {"up", "init", "down", "invalid"},
                       mode : Modes, started : BOOLEAN, healthy : BOOLEAN]
      <4>1. session[a] \in S
        BY <2>2 DEF SessionOK
      <4>2. new \in S
        BY <4>1
      <4>3. session' = [session EXCEPT ![a] = new]
        BY <2>4
      <4> HIDE DEF new
      <4> QED
        BY <2>2, <4>2, <4>3 DEF SessionOK
    <3>2. ProcOK'
      BY <2>1, <2>4 DEF ProcOK, Tasks, InEnsure, InLock
    <3> QED
      BY <1>5, <2>4, <3>1, <3>2 DEF StartWs, PoolOK, LockOK, lock
  <2> QED
    BY <1>5, <2>3, <2>4 DEF StartWs
<1>6. CASE SubscribeTarget(p)
  <2> DEFINE a == Head(proc[p].cands)
             k == KeyOf(a, proc[p].target)
  <2>1. proc[p].pc \in InLock
    BY <1>6 DEF SubscribeTarget, InLock
  <2>2. k \in Keys /\ k.mode \in Modes /\ proc[p].ticker \in Tickers
    BY <2>1, HeadType DEF Keys
  <2>3. CASE /\ RecordAssignment(proc[p].ticker, k)
             /\ Return(p) /\ Release(p)
             /\ UNCHANGED sdk
    <3> HIDE DEF k
    <3> QED
      BY <1>6, <2>2, <2>3, RecordType, ReturnType, LeaveType
      DEF SubscribeTarget, Release, SessionOK
  <2>4. CASE SubscribeFrom(p, 1, k.mode)
    <3>1. PoolOK' /\ ProcOK' /\ LockOK' /\ sdk' \in [Accounts -> SUBSET Subs]
      <4> HIDE DEF k
      <4> QED
        BY <2>1, <2>2, <2>4, SubscribeType
    <3> QED
      BY <1>6, <3>1 DEF SubscribeTarget, SessionOK
  <2> QED
    BY <1>6, <2>3, <2>4 DEF SubscribeTarget
<1>7. CASE NextChannel(p)
  <2>1. /\ proc[p].pc \in InLock /\ proc[p].ch + 1 \in Nat /\ proc[p].mode \in Modes
        /\ SubscribeFrom(p, proc[p].ch + 1, proc[p].mode)
    BY <1>7 DEF NextChannel, InLock, ProcOK, Tasks
  <2>2. PoolOK' /\ ProcOK' /\ LockOK' /\ sdk' \in [Accounts -> SUBSET Subs]
    BY <2>1, SubscribeType
  <2> QED
    BY <1>7, <2>2 DEF NextChannel, SessionOK
<1>8. CASE FailSubscribe(p)
  <2> DEFINE a == Head(proc[p].cands)
             c == proc[p].target
             ch == ChannelsFor[proc[p].mode][proc[p].ch]
  <2>1. proc[p].pc \in InLock /\ NextCandidate(p)
    BY <1>8 DEF FailSubscribe, InLock
  <2>2. a \in Accounts /\ c \in Contracts /\ proc[p].mode \in Modes
    BY <2>1, HeadType
  <2>3. proc[p].ch \in DOMAIN ChannelsFor[proc[p].mode]
    BY <1>8 DEF FailSubscribe, ProcOK
  <2>4. <<c, ch>> \in Subs
    BY <2>2, <2>3, ChannelsType
  <2>5. late' = late \/ late' = late \cup {[acct |-> a, sub |-> <<c, ch>>]}
    BY <1>8 DEF FailSubscribe
  <2>6. late' \subseteq [acct : Accounts, sub : Subs]
    <3> HIDE DEF ch
    <3> QED
      BY <2>2, <2>4, <2>5
  <2>7. sdk' \in [Accounts -> SUBSET Subs]
    BY <1>8, <2>2 DEF FailSubscribe
  <2> QED
    BY <1>8, <2>1, <2>6, <2>7, NextCandidateType DEF FailSubscribe, PoolOK, SessionOK
<1>9. CASE AckSubscribe(p)
  <2> DEFINE a == Head(proc[p].cands)
  <2>1. proc[p].pc \in InLock /\ proc[p] \in Tasks
    BY <1>9 DEF AckSubscribe, InLock, ProcOK
  <2>2. a \in Accounts
    BY <2>1, HeadType
  <2>3. SessionOK'
    BY <1>9, <2>2 DEF AckSubscribe, SessionOK
  <2>4. ProcOK'
    BY <1>9, <2>1 DEF AckSubscribe, ProcOK, Tasks, InEnsure, InLock
  <2> QED
    BY <1>9, <2>3, <2>4 DEF AckSubscribe, PoolOK, LockOK, lock
<1> QED
  BY <1>1, <1>2, <1>3, <1>4, <1>5, <1>6, <1>7, <1>8, <1>9 DEF Helper

\* A caller that has listed the helper calls of its loop
LEMMA LoopBeginsType ==
    ASSUME ProcOK, NEW p \in Procs,
           NEW todo \in SUBSET ({"remove", "refresh", "ensure", "missing"} \X Tickers),
           proc' = [proc EXCEPT ![p].pc = "loop", ![p].todo = todo]
    PROVE  ProcOK'
<1> DEFINE new == [proc[p] EXCEPT !.pc = "loop", !.todo = todo]
<1>1. proc' = [proc EXCEPT ![p] = new]
  OBVIOUS
<1>2. proc[p] \in Tasks
  BY DEF ProcOK
<1>3. new \in Tasks /\ new.pc = "loop"
  BY <1>2 DEF Tasks
<1>4. \A q \in Procs : proc'[q] = IF q = p THEN new ELSE proc[q]
  BY <1>1 DEF ProcOK
<1> HIDE DEF new
<1>5. proc' \in [Procs -> Tasks]
  BY <1>1, <1>3 DEF ProcOK
<1> QED
  BY <1>3, <1>4, <1>5 DEF ProcOK, InEnsure, InLock

\* A call of the pool's users
LEMMA UserType ==
    ASSUME TypeOK, User
    PROVE  TypeOK'
<1> USE DEF TypeOK
<1>1. ASSUME NEW s \in Sources, NEW t \in Tickers, TrackTicker(s, t) \/ UntrackTicker(s, t)
      PROVE  TypeOK'
  <2>1. \E helper : /\ \A u \in {t} : helper[u] \in {"ensure", "refresh"}
                   /\ ScheduleTasks({t}, helper)
    <3>1. ScheduleTasks({t}, [u \in {t} |-> "ensure"]) \/ ScheduleTasks({t}, [u \in {t} |-> "refresh"])
      BY <1>1 DEF TrackTicker, UntrackTicker
    <3>2. \A x : \A u \in {t} : [v \in {t} |-> x][u] = x
      OBVIOUS
    <3> QED
      BY <3>1, <3>2
  <2>2. ProcOK' /\ LockOK'
    BY <2>1, ScheduleType
  <2>3. source' \in [Sources -> SUBSET Tickers]
    BY <1>1 DEF TrackTicker, UntrackTicker
  <2> QED
    BY <1>1, <2>2, <2>3 DEF TrackTicker, UntrackTicker, PoolOK, SessionOK
<1>2. ASSUME NEW s \in Sources, NEW T \in SUBSET Tickers, SetSourceTickers(s, T)
      PROVE  TypeOK'
  <2> DEFINE changed == (source[s] \ T) \cup (T \ source[s])
             helper == [t \in changed |-> IF t \in T THEN "ensure" ELSE "refresh"]
  <2>1. changed \in SUBSET Tickers /\ ScheduleTasks(changed, helper)
    BY <1>2 DEF SetSourceTickers
  <2>2. \A t \in changed : helper[t] \in {"ensure", "refresh"}
    OBVIOUS
  <2> HIDE DEF changed, helper
  <2>3. ProcOK' /\ LockOK'
    BY <2>1, <2>2, ScheduleType
  <2> QED
    BY <1>2, <2>3 DEF SetSourceTickers, PoolOK, SessionOK
<1>3. ASSUME NEW p \in Consumers, NEW s \in Sources, NEW T \in SUBSET Tickers,
             EnsureSourceTickers(p, s, T)
      PROVE  TypeOK'
  <2> DEFINE todo == {<<"refresh", t>> : t \in source[s] \ T}
                      \cup {<<"ensure", t>> : t \in T \ source[s]}
                      \cup {<<"missing", t>> : t \in T}
  <2>1. p \in Procs /\ todo \in SUBSET ({"remove", "refresh", "ensure", "missing"} \X Tickers)
    BY DEF Procs, Callers
  <2>2. proc' = [proc EXCEPT ![p].pc = "loop", ![p].todo = todo]
    BY <1>3 DEF EnsureSourceTickers
  <2> HIDE DEF todo
  <2>3. ProcOK'
    BY <2>1, <2>2, LoopBeginsType
  <2> QED
    BY <1>3, <2>3 DEF EnsureSourceTickers, PoolOK, SessionOK, LockOK, lock
<1> QED
  BY <1>1, <1>2, <1>3 DEF User

\* A step of the outside world
LEMMA WorldType ==
    ASSUME TypeOK, World
    PROVE  TypeOK'
<1> USE DEF TypeOK
<1>1. ASSUME NEW r \in late, LateAck(r)
      PROVE  TypeOK'
  <2>1. r.acct \in Accounts /\ r.sub \in Subs
    OBVIOUS
  <2>2. SessionOK'
    <3> DEFINE S == [phase : {"up", "init", "down", "invalid"},
                     mode : Modes, started : BOOLEAN, healthy : BOOLEAN]
               healed == [session[r.acct] EXCEPT !.healthy = TRUE]
    <3>1. session[r.acct] \in S
      BY <2>1 DEF SessionOK
    <3>2. healed \in S
      BY <3>1
    <3>3. session' = [session EXCEPT ![r.acct] = healed]
      BY <1>1 DEF LateAck
    <3> HIDE DEF healed
    <3> QED
      BY <3>2, <3>3 DEF SessionOK
  <2>3. sdk' \in [Accounts -> SUBSET Subs] /\ late' \subseteq late
    BY <1>1, <2>1 DEF LateAck
  <2> QED
    BY <1>1, <2>2, <2>3 DEF LateAck, PoolOK, ProcOK, LockOK, lock
<1>2. ASSUME NEW a \in Accounts, Disconnect(a) \/ InvalidateSession(a)
      PROVE  TypeOK'
  <2> DEFINE S == [phase : {"up", "init", "down", "invalid"},
                   mode : Modes, started : BOOLEAN, healthy : BOOLEAN]
             lost == [session[a] EXCEPT !.started = FALSE, !.healthy = FALSE]
             invalid == [session[a] EXCEPT !.phase = "invalid", !.started = FALSE,
                                           !.healthy = FALSE]
  <2>1. SessionOK'
    <3>1. session[a] \in S
      BY DEF SessionOK
    <3>2. lost \in S /\ invalid \in S
      BY <3>1
    <3>3. \/ session' = [session EXCEPT ![a] = lost]
          \/ session' = [session EXCEPT ![a] = invalid]
      BY <1>2 DEF Disconnect, InvalidateSession
    <3> HIDE DEF lost, invalid
    <3> QED
      BY <3>2, <3>3 DEF SessionOK
  <2> QED
    BY <1>2, <2>1 DEF Disconnect, InvalidateSession, PoolOK, ProcOK, LockOK, lock
<1>3. CASE RestReinitialize
  <2>1. ResetSession(Primary, "init") /\ Primary \in Accounts
    BY <1>3, PoolAssumption DEF PoolAssumption, RestReinitialize
  <2> QED
    BY <1>3, <2>1, ResetType DEF RestReinitialize, PoolOK, LockOK, lock
<1>4. ASSUME NEW t \in Tickers, Roll(t)
      PROVE  TypeOK'
  <2>1. resolve' \in [Tickers -> Contracts \cup {NoContract}]
    BY <1>4 DEF Roll
  <2> QED
    BY <1>4, <2>1 DEF Roll, PoolOK, ProcOK, SessionOK, LockOK, lock
<1> QED
  BY <1>1, <1>2, <1>3, <1>4 DEF World

\* A session that comes up, or fails to
LEMMA SessionUpType ==
    ASSUME SessionOK, NEW a \in Accounts, NEW start \in BOOLEAN,
           \/ SessionUp(a, start)
           \/ session' = [session EXCEPT ![a].phase = "down"]
    PROVE  SessionOK'
<1> DEFINE S == [phase : {"up", "init", "down", "invalid"},
                 mode : Modes, started : BOOLEAN, healthy : BOOLEAN]
           up == [session[a] EXCEPT !.phase = "up", !.mode = Mode[a], !.started = start,
                                    !.healthy = @ \/ start]
           down == [session[a] EXCEPT !.phase = "down"]
<1>1. session[a] \in S /\ Mode[a] \in Modes
  BY PoolAssumption DEF PoolAssumption, SessionOK
<1>2. up \in S /\ down \in S
  BY <1>1
<1>3. session' = [session EXCEPT ![a] = up] \/ session' = [session EXCEPT ![a] = down]
  BY DEF SessionUp
<1> HIDE DEF up, down
<1> QED
  BY <1>2, <1>3 DEF SessionOK

\* The rebuild, the REST login and the callers' loops
LEMMA RebuildType ==
    ASSUME TypeOK, Rebuilding \/ RestLogin \/ \E A \in SUBSET Accounts : StartRebuild(A)
    PROVE  TypeOK'
<1> USE DEF TypeOK
<1>1. ASSUME NEW a \in Accounts, BeginLogin(a)
      PROVE  TypeOK'
  <2>1. ResetSession(a, "init")
    BY <1>1 DEF BeginLogin
  <2> QED
    BY <1>1, <2>1, ResetType DEF BeginLogin, PoolOK, LockOK, lock
<1>2. CASE EndLogin
  <2>1. SessionOK'
    BY <1>2, SessionUpType DEF EndLogin
  <2> QED
    BY <1>2, <2>1 DEF EndLogin, PoolOK, ProcOK, LockOK, lock
<1>3. CASE RebalanceAssignments
  <2>1. Rebuilder \in Procs
    BY DEF Procs
  <2>2. RebalanceCalls \in SUBSET ({"remove", "refresh", "ensure", "missing"} \X Tickers)
    BY DEF RebalanceCalls, Desired
  <2>3. ProcOK' /\ LockOK'
    BY <1>3, <2>1, <2>2, TurnType DEF RebalanceAssignments
  <2> QED
    BY <1>3, <2>3 DEF RebalanceAssignments, PoolOK, SessionOK
<1>4. CASE RestLogin
  <2>1. Primary \in Accounts
    BY PoolAssumption DEF PoolAssumption
  <2>2. SessionOK'
    BY <1>4, <2>1, SessionUpType DEF RestLogin
  <2> QED
    BY <1>4, <2>2 DEF RestLogin, PoolOK, ProcOK, LockOK, lock
<1>5. ASSUME NEW A \in SUBSET Accounts, StartRebuild(A)
      PROVE  TypeOK'
  BY <1>5 DEF StartRebuild, PoolOK, ProcOK, SessionOK, LockOK, lock
<1> QED
  BY <1>1, <1>2, <1>3, <1>4, <1>5 DEF Rebuilding

LEMMA LoopType ==
    ASSUME TypeOK,
           \/ \E p \in Callers \cup {Rebuilder} : LoopTurn(p)
           \/ \E p \in Watchdogs : RefreshSessionAssignments(p)
    PROVE  TypeOK'
<1> USE DEF TypeOK
<1>1. ASSUME NEW p \in Callers \cup {Rebuilder}, LoopTurn(p)
      PROVE  TypeOK'
  <2>1. p \in Procs
    BY DEF Procs
  <2>2. proc[p].todo \in SUBSET ({"remove", "refresh", "ensure", "missing"} \X Tickers)
    BY <2>1 DEF ProcOK, Tasks
  <2>3. ProcOK' /\ LockOK'
    BY <1>1, <2>1, <2>2, TurnType DEF LoopTurn
  <2>4. rebuild' = rebuild \/ rebuild' = [rebuild EXCEPT !.pc = "idle"]
    BY <1>1 DEF LoopTurn
  <2> QED
    BY <1>1, <2>3, <2>4 DEF LoopTurn, PoolOK, SessionOK
<1>2. ASSUME NEW p \in Watchdogs, RefreshSessionAssignments(p)
      PROVE  TypeOK'
  <2> DEFINE todo == {<<"ensure", t>> : t \in {u \in Desired : Assigned(u)}}
                      \cup {<<"missing", t>> : t \in Desired}
  <2>1. p \in Procs /\ todo \in SUBSET ({"remove", "refresh", "ensure", "missing"} \X Tickers)
    BY DEF Procs, Callers, Desired
  <2>2. proc' = [proc EXCEPT ![p].pc = "loop", ![p].todo = todo]
    BY <1>2 DEF RefreshSessionAssignments
  <2> HIDE DEF todo
  <2>3. ProcOK'
    BY <2>1, <2>2, LoopBeginsType
  <2> QED
    BY <1>2, <2>3 DEF RefreshSessionAssignments, PoolOK, SessionOK, LockOK, lock
<1> QED
  BY <1>1, <1>2

\* TypeOK holds in every reachable state: no step of a coroutine, an SDK thread or
\* a caller leaves a table, the lock or a coroutine's locals malformed.
THEOREM TypeCorrect == Spec => []TypeOK
<1>1. TypeOK /\ [Next]_vars => TypeOK'
  <2> SUFFICES ASSUME TypeOK, [Next]_vars PROVE TypeOK'
    OBVIOUS
  <2>1. CASE Next
    BY <2>1, HelperType, LoopType, RebuildType, UserType, WorldType DEF Next
  <2>2. CASE UNCHANGED vars
    BY <2>2 DEF vars, lock, TypeOK, PoolOK, LockOK, ProcOK, SessionOK
  <2> QED
    BY <2>1, <2>2
<1> QED
  BY <1>1, InitTypeOK, PTL DEF Spec

-----------------------------------------------------------------------------
(* The safety of the pool's bookkeeping, proved from one inductive         *)
(* invariant: only the owner of _assignment_lock touches the assignments,  *)
(* and the ticker it places is unassigned, so a reference is counted once. *)

\* The inductive invariant
Bookkeeping == RefCountExact /\ AliasIndexExact
IInv == TypeOK /\ LockDiscipline /\ Bookkeeping

poolTables == <<assign, phys, aliases>>

-----------------------------------------------------------------------------
(* The tables                                                              *)

\* The tickers assigned to a key are finitely many
LEMMA AssignedToFinite == ASSUME NEW k PROVE IsFiniteSet(AssignedTo(k))
  BY PoolAssumption, FS_Subset DEF PoolAssumption, AssignedTo

\* Dropping an assignment takes one reference off its key and one alias off its
\* contract, and changes nothing for a ticker that has none
LEMMA RemoveExact ==
    ASSUME PoolOK, Bookkeeping, NEW t \in Tickers, RemoveAssignmentLocked(t)
    PROVE  /\ Bookkeeping'
           /\ \A u \in Tickers : Assigned(u)' <=> (u # t /\ Assigned(u))
<1>1. \A u \in Tickers : assign'[u] = IF u = t THEN NoAssignment ELSE assign[u]
  BY DEF PoolOK, RemoveAssignmentLocked
<1>2. \A u \in Tickers : Assigned(u)' <=> (u # t /\ Assigned(u))
  BY <1>1 DEF Assigned
<1>3. \A k \in Keys : AssignedTo(k)' = AssignedTo(k) \ {t}
  BY <1>1, PoolAssumption DEF PoolAssumption, AssignedTo
<1>4. RefCountExact'
  <2> SUFFICES ASSUME NEW k \in Keys PROVE phys'[k] = Cardinality(AssignedTo(k)')
    BY DEF RefCountExact
  <2>1. phys[k] = Cardinality(AssignedTo(k)) /\ phys[k] \in Nat
    BY DEF Bookkeeping, RefCountExact, PoolOK
  <2>2. CASE t \in AssignedTo(k)
    <3>1. Cardinality(AssignedTo(k) \ {t}) = Cardinality(AssignedTo(k)) - 1
      BY <2>2, AssignedToFinite, FS_RemoveElement
    <3>2. phys'[k] = IF phys[k] > 1 THEN phys[k] - 1 ELSE 0
      BY <2>2, PoolAssumption
      DEF PoolAssumption, AssignedTo, RemoveAssignmentLocked, CountsWithout, Assigned, PoolOK
    <3>3. Cardinality(AssignedTo(k) \ {t}) \in Nat
      BY AssignedToFinite, FS_RemoveElement, FS_CardinalityType
    <3>4. phys'[k] = Cardinality(AssignedTo(k) \ {t})
      BY <2>1, <3>1, <3>2, <3>3
    <3> QED
      BY <1>3, <3>4
  <2>3. CASE t \notin AssignedTo(k)
    <3>1. AssignedTo(k) \ {t} = AssignedTo(k)
      BY <2>3
    <3>2. phys'[k] = phys[k]
      BY <2>3 DEF AssignedTo, RemoveAssignmentLocked, CountsWithout, Assigned, PoolOK
    <3> QED
      BY <1>3, <2>1, <3>1, <3>2
  <2> QED
    BY <2>2, <2>3
<1>5. AliasIndexExact'
  <2> SUFFICES ASSUME NEW c \in Contracts
               PROVE  aliases'[c] = {u \in Tickers : Assigned(u)' /\ assign'[u].contract = c}
    BY DEF AliasIndexExact
  <2>1. aliases[c] = {u \in Tickers : Assigned(u) /\ assign[u].contract = c}
    BY DEF Bookkeeping, AliasIndexExact
  <2>2. aliases'[c] = aliases[c] \ {t}
    BY <2>1 DEF RemoveAssignmentLocked, AliasesWithout, PoolOK
  <2> QED
    BY <1>1, <1>2, <2>1, <2>2
<1> QED
  BY <1>2, <1>4, <1>5 DEF Bookkeeping

\* Recording an assignment for a ticker that has none adds one of each
LEMMA RecordExact ==
    ASSUME PoolOK, Bookkeeping, NEW t \in Tickers, ~Assigned(t),
           NEW k \in Keys, RecordAssignment(t, k)
    PROVE  Bookkeeping'
<1>1. \A u \in Tickers : assign'[u] = IF u = t THEN k ELSE assign[u]
  BY DEF PoolOK, RecordAssignment
<1>2. \A u \in Tickers : Assigned(u)' <=> (u = t \/ Assigned(u))
  BY <1>1, PoolAssumption DEF PoolAssumption, Assigned
<1>3. RefCountExact'
  <2> SUFFICES ASSUME NEW j \in Keys PROVE phys'[j] = Cardinality(AssignedTo(j)')
    BY DEF RefCountExact
  <2>1. phys[j] = Cardinality(AssignedTo(j)) /\ phys[j] \in Nat
    BY DEF Bookkeeping, RefCountExact, PoolOK
  <2>2. t \notin AssignedTo(j)
    BY PoolAssumption DEF PoolAssumption, AssignedTo, Assigned
  <2>3. CASE j = k
    <3>1. AssignedTo(j)' = AssignedTo(j) \cup {t}
      BY <1>1, <2>3 DEF AssignedTo
    <3>2. Cardinality(AssignedTo(j) \cup {t}) = Cardinality(AssignedTo(j)) + 1
      BY <2>2, AssignedToFinite, FS_AddElement
    <3>3. phys'[j] = phys[j] + 1
      BY <2>3 DEF RecordAssignment, PoolOK
    <3> QED
      BY <2>1, <3>1, <3>2, <3>3
  <2>4. CASE j # k
    <3>1. AssignedTo(j)' = AssignedTo(j)
      BY <1>1, <2>2, <2>4 DEF AssignedTo
    <3>2. phys'[j] = phys[j]
      BY <2>4 DEF RecordAssignment, PoolOK
    <3> QED
      BY <2>1, <3>1, <3>2
  <2> QED
    BY <2>3, <2>4
<1>4. AliasIndexExact'
  <2> SUFFICES ASSUME NEW c \in Contracts
               PROVE  aliases'[c] = {u \in Tickers : Assigned(u)' /\ assign'[u].contract = c}
    BY DEF AliasIndexExact
  <2>1. aliases[c] = {u \in Tickers : Assigned(u) /\ assign[u].contract = c}
    BY DEF Bookkeeping, AliasIndexExact
  <2>2. aliases'[c] = IF c = k.contract THEN aliases[c] \cup {t} ELSE aliases[c]
    BY DEF RecordAssignment, PoolOK
  <2> QED
    BY <1>1, <1>2, <2>1, <2>2
<1> QED
  BY <1>3, <1>4 DEF Bookkeeping

\* Tables that do not change stay exact
LEMMA StutterExact ==
    ASSUME Bookkeeping, UNCHANGED <<assign, phys, aliases>>
    PROVE  /\ Bookkeeping'
           /\ \A u \in Tickers : Assigned(u)' <=> Assigned(u)
  BY DEF Bookkeeping, RefCountExact, AliasIndexExact, AssignedTo, Assigned

-----------------------------------------------------------------------------
(* The lock                                                                *)

\* When the owner returns nobody is left in the locked part
LEMMA OwnerLeaves ==
    ASSUME ProcOK, LockDiscipline, NEW p \in Procs, holder = p, Return(p)
    PROVE  LockDiscipline'
<1>1. \A q \in Procs : proc'[q] = IF q = p THEN Returned(p) ELSE proc[q]
  BY DEF Return, ProcOK
<1>2. Returned(p).pc \notin InLock
  BY DEF Returned, Idle, InLock
<1> QED
  BY <1>1, <1>2 DEF LockDiscipline

\* When it goes on with an unassigned ticker it is still alone there
LEMMA OwnerStays ==
    ASSUME LockDiscipline, NEW p \in Procs, holder = p, UNCHANGED lock,
           \A q \in Procs \ {p} : proc'[q] = proc[q],
           ~Assigned(proc[p].ticker)'
    PROVE  LockDiscipline'
  BY DEF LockDiscipline, lock

\* Somebody else who moves, and may queue, does not take the lock from its owner
LEMMA OutsiderMoves ==
    ASSUME LockDiscipline, NEW p \in Procs, Queue(p) \/ UNCHANGED lock,
           \A q \in Procs \ {p} : proc'[q] = proc[q],
           proc'[p].pc \notin InLock, UNCHANGED assign
    PROVE  LockDiscipline'
<1>1. \A q \in Procs : holder = q => holder' = q
  BY PoolAssumption DEF PoolAssumption, Queue, lock
<1> QED
  BY <1>1 DEF LockDiscipline, Assigned

\* Cancelled coroutines leave the locked part together with the lock
LEMMA CancelledLeave ==
    ASSUME LockDiscipline, NEW T \in SUBSET Tickers, NEW helper,
           \A t \in T : helper[t] \in {"ensure", "refresh"},
           ScheduleTasks(T, helper), UNCHANGED assign
    PROVE  LockDiscipline'
<1>1. \A q \in Procs : proc'[q] = IF q \in T THEN [Idle EXCEPT !.pc = helper[q], !.ticker = q]
                                              ELSE proc[q]
  BY DEF ScheduleTasks
<1>2. \A q \in T : proc'[q].pc \notin InLock
  BY <1>1 DEF Idle, InLock, Procs
<1>3. holder \notin T => holder' = holder
  BY DEF ScheduleTasks, Leave
<1> QED
  BY <1>1, <1>2, <1>3 DEF LockDiscipline, Assigned

\* A turn of a loop is a step of an outsider
LEMMA TurnDiscipline ==
    ASSUME ProcOK, LockDiscipline, NEW p \in Procs, NEW todo, Turn(p, todo), UNCHANGED assign
    PROVE  LockDiscipline'
<1>1. PICK new : proc' = [proc EXCEPT ![p] = new] /\ new.pc \notin InLock
  <2>1. Idle.pc \notin InLock
    BY DEF Idle, InLock
  <2>2. ASSUME NEW pc \in {"removing", "refresh", "loop", "ensure"}, NEW x
        PROVE  [Idle EXCEPT !.pc = pc, !.ticker = x[2], !.todo = todo \ {x}].pc \notin InLock
    BY DEF Idle, InLock
  <2> QED
    BY <2>1, <2>2 DEF Turn
<1>2. /\ \A q \in Procs \ {p} : proc'[q] = proc[q]
      /\ proc'[p].pc \notin InLock
  BY <1>1 DEF ProcOK
<1>3. Queue(p) \/ UNCHANGED lock
  BY DEF Turn
<1> QED
  BY <1>2, <1>3, OutsiderMoves

-----------------------------------------------------------------------------
(* The steps of a helper                                                   *)

\* The next candidate account, or giving up
LEMMA NextCandidateSafe ==
    ASSUME IInv, NEW p \in Procs, proc[p].pc \in InLock, NextCandidate(p),
           UNCHANGED poolTables
    PROVE  LockDiscipline' /\ Bookkeeping'
<1>1. holder = p /\ ~Assigned(proc[p].ticker)
  BY DEF IInv, LockDiscipline
<1>2. proc[p].ticker \in Tickers
  BY DEF IInv, TypeOK, ProcOK, InLock
<1>3. Bookkeeping'
  BY StutterExact DEF IInv, poolTables
<1>4. CASE Return(p)
  BY <1>1, <1>3, <1>4, OwnerLeaves DEF IInv, TypeOK
<1>5. CASE /\ proc' = [proc EXCEPT ![p].pc = "starting", ![p].cands = Tail(@)]
           /\ UNCHANGED lock
  <2>1. \A q \in Procs \ {p} : proc'[q] = proc[q]
    BY <1>5 DEF IInv, TypeOK, ProcOK
  <2>2. proc'[p].ticker = proc[p].ticker
    BY <1>5 DEF IInv, TypeOK, ProcOK, Tasks
  <2>3. ~Assigned(proc[p].ticker)'
    BY <1>1, <2>2 DEF Assigned, poolTables
  <2>4. LockDiscipline'
    BY <1>1, <1>5, <2>1, <2>3, OwnerStays DEF IInv
  <2> QED
    BY <1>3, <2>4
<1> QED
  BY <1>3, <1>4, <1>5 DEF NextCandidate

\* The channel loop: either it records the assignment and leaves, or it waits
LEMMA SubscribeFromSafe ==
    ASSUME IInv, NEW p \in Procs, proc[p].pc \in InLock, NEW i, NEW mode \in Modes,
           SubscribeFrom(p, i, mode)
    PROVE  LockDiscipline' /\ Bookkeeping'
<1> DEFINE k == [acct |-> Head(proc[p].cands), contract |-> proc[p].target, mode |-> mode]
<1>1. holder = p /\ ~Assigned(proc[p].ticker)
  BY DEF IInv, LockDiscipline
<1>2. proc[p].ticker \in Tickers /\ k \in Keys
  BY HeadType DEF IInv, TypeOK, ProcOK, InLock, Keys
<1>3. CASE RecordAssignment(proc[p].ticker, k) /\ Return(p)
  <2> HIDE DEF k
  <2> QED
    BY <1>1, <1>2, <1>3, RecordExact, OwnerLeaves DEF IInv, TypeOK
<1>4. ASSUME NEW j,
             proc' = [proc EXCEPT ![p].pc = "subscribing", ![p].mode = mode,
                                  ![p].ch = j, ![p].live = TRUE],
             UNCHANGED <<assign, phys, aliases, lock>>
      PROVE  LockDiscipline' /\ Bookkeeping'
  <2>1. \A q \in Procs \ {p} : proc'[q] = proc[q]
    BY <1>4 DEF IInv, TypeOK, ProcOK
  <2>2. proc'[p].ticker = proc[p].ticker
    BY <1>4 DEF IInv, TypeOK, ProcOK, Tasks
  <2>3. ~Assigned(proc[p].ticker)'
    BY <1>1, <1>4, <2>2 DEF Assigned
  <2>4. LockDiscipline'
    BY <1>1, <1>4, <2>1, <2>3, OwnerStays DEF IInv
  <2> QED
    BY <1>4, <2>4, StutterExact DEF IInv
<1> QED
  BY <1>3, <1>4 DEF SubscribeFrom

LEMMA HelperSafe ==
    ASSUME IInv, NEW p \in Procs, Helper(p)
    PROVE  LockDiscipline' /\ Bookkeeping'
<1>0. /\ TypeOK /\ LockDiscipline /\ Bookkeeping /\ ProcOK /\ PoolOK
      /\ sdk \in [Accounts -> SUBSET Subs]
  BY DEF IInv, TypeOK
<1>1. ASSUME RefreshTickerAssignment(p) \/ ResolveTarget(p)
      PROVE  LockDiscipline' /\ Bookkeeping'
  <2>1. UNCHANGED <<assign, phys, aliases>> /\ (Queue(p) \/ UNCHANGED lock)
    BY <1>1 DEF RefreshTickerAssignment, ResolveTarget
  <2>2. \/ proc' = [proc EXCEPT ![p].pc = "ensure"]
        \/ proc' = [proc EXCEPT ![p].pc = "removing"]
        \/ proc' = [proc EXCEPT ![p].pc = "locking", ![p].target = resolve[proc[p].ticker]]
        \/ proc' = [proc EXCEPT ![p] = Returned(p)] /\ Returned(p).pc \in {"idle", "loop"}
    BY <1>1 DEF RefreshTickerAssignment, ResolveTarget, Return, Returned, Idle
  <2>3. (\A q \in Procs \ {p} : proc'[q] = proc[q]) /\ proc'[p].pc \notin InLock
    BY <1>0, <2>2 DEF ProcOK, Tasks, InLock
  <2>4. LockDiscipline'
    BY <1>0, <2>1, <2>3, OutsiderMoves
  <2> QED
    BY <1>0, <2>1, <2>4, StutterExact
<1>2. ASSUME RemoveAssignment(p)
      PROVE  LockDiscipline' /\ Bookkeeping'
  <2>1. proc[p].ticker \in Tickers /\ holder = p /\ Return(p)
        /\ RemoveAssignmentLocked(proc[p].ticker)
    BY <1>0, <1>2 DEF RemoveAssignment, Holds, ProcOK
  <2> QED
    BY <1>0, <2>1, RemoveExact, OwnerLeaves
<1>3. ASSUME ChooseManagers(p)
      PROVE  LockDiscipline' /\ Bookkeeping'
  <2>1. proc[p].ticker \in Tickers /\ holder = p
    BY <1>0, <1>3 DEF ChooseManagers, Holds, ProcOK, InEnsure
  <2>2. CASE Return(p) /\ UNCHANGED <<assign, phys, aliases>>
    BY <1>0, <2>1, <2>2, OwnerLeaves, StutterExact
  <2>3. CASE RemoveAssignmentLocked(proc[p].ticker) /\ Return(p)
    BY <1>0, <2>1, <2>3, OwnerLeaves, RemoveExact
  <2>4. ASSUME NEW q, RemoveAssignmentLocked(proc[p].ticker), UNCHANGED lock,
               proc' = [proc EXCEPT ![p].pc = "starting", ![p].cands = q]
        PROVE  LockDiscipline' /\ Bookkeeping'
    <3>1. Bookkeeping'
      BY <1>0, <2>1, <2>4, RemoveExact
    <3>2. (\A r \in Procs \ {p} : proc'[r] = proc[r]) /\ proc'[p].ticker = proc[p].ticker
      BY <1>0, <2>4 DEF ProcOK, Tasks
    <3>3. ~Assigned(proc[p].ticker)'
      BY <1>0, <2>1, <2>4, <3>2 DEF RemoveAssignmentLocked, Assigned, PoolOK
    <3> QED
      BY <1>0, <2>1, <2>4, <3>1, <3>2, <3>3, OwnerStays
  <2> QED
    BY <1>3, <2>2, <2>3, <2>4 DEF ChooseManagers
<1>4. ASSUME NEW x \in InLock, proc[p].pc = x
      PROVE  holder = p /\ ~Assigned(proc[p].ticker) /\ proc[p].ticker \in Tickers
  BY <1>0, <1>4 DEF LockDiscipline, ProcOK, InLock
<1>5. ASSUME NEW pc, proc' = [proc EXCEPT ![p].pc = pc], UNCHANGED <<assign, phys, aliases>>,
             UNCHANGED lock, proc[p].pc \in InLock
      PROVE  LockDiscipline' /\ Bookkeeping'
  <2>1. (\A q \in Procs \ {p} : proc'[q] = proc[q]) /\ proc'[p].ticker = proc[p].ticker
    BY <1>0, <1>5 DEF ProcOK, Tasks
  <2>2. ~Assigned(proc[p].ticker)'
    BY <1>4, <1>5, <2>1 DEF Assigned
  <2>3. LockDiscipline'
    BY <1>0, <1>4, <1>5, <2>1, <2>2, OwnerStays
  <2> QED
    BY <1>0, <1>5, <2>3, StutterExact
<1>6. ASSUME StartWs(p)
      PROVE  LockDiscipline' /\ Bookkeeping'
  <2>1. proc[p].pc \in InLock /\ UNCHANGED poolTables
    BY <1>6 DEF StartWs, InLock, poolTables
  <2>2. CASE NextCandidate(p)
    BY <2>1, <2>2, NextCandidateSafe
  <2>3. CASE proc' = [proc EXCEPT ![p].pc = "started"] /\ UNCHANGED lock
    BY <1>5, <2>1, <2>3 DEF poolTables
  <2> QED
    BY <1>6, <2>2, <2>3 DEF StartWs
<1>7. ASSUME SubscribeTarget(p)
      PROVE  LockDiscipline' /\ Bookkeeping'
  <2> DEFINE k == KeyOf(Head(proc[p].cands), proc[p].target)
  <2>1. proc[p].pc \in InLock /\ k \in Keys /\ k.mode \in Modes
    <3>1. proc[p].pc \in InLock
      BY <1>7 DEF SubscribeTarget, InLock
    <3> QED
      BY <1>0, <3>1, HeadType DEF Keys
  <2>2. CASE RecordAssignment(proc[p].ticker, k) /\ Return(p)
    <3> HIDE DEF k
    <3> QED
      BY <1>0, <1>4, <2>1, <2>2, RecordExact, OwnerLeaves
  <2>3. CASE SubscribeFrom(p, 1, k.mode)
    <3> HIDE DEF k
    <3> QED
      BY <2>1, <2>3, SubscribeFromSafe
  <2> QED
    BY <1>7, <2>2, <2>3 DEF SubscribeTarget
<1>8. ASSUME NextChannel(p)
      PROVE  LockDiscipline' /\ Bookkeeping'
  <2>1. /\ proc[p].pc \in InLock /\ proc[p].mode \in Modes
        /\ SubscribeFrom(p, proc[p].ch + 1, proc[p].mode)
    BY <1>0, <1>8 DEF NextChannel, InLock, ProcOK, Tasks
  <2> QED
    BY <2>1, SubscribeFromSafe
<1>9. ASSUME FailSubscribe(p)
      PROVE  LockDiscipline' /\ Bookkeeping'
  <2>1. proc[p].pc \in InLock /\ NextCandidate(p) /\ UNCHANGED poolTables
    BY <1>9 DEF FailSubscribe, InLock, poolTables
  <2> QED
    BY <2>1, NextCandidateSafe
<1>10. ASSUME AckSubscribe(p)
       PROVE  LockDiscipline' /\ Bookkeeping'
  BY <1>5, <1>10 DEF AckSubscribe, InLock, lock
<1> QED
  BY <1>1, <1>2, <1>3, <1>6, <1>7, <1>8, <1>9, <1>10 DEF Helper

-----------------------------------------------------------------------------
(* The other steps: none of them writes the pool's tables                  *)

LEMMA OthersSafe ==
    ASSUME IInv,
           \/ \E p \in Callers \cup {Rebuilder} : LoopTurn(p)
           \/ \E p \in Watchdogs : RefreshSessionAssignments(p)
           \/ \E A \in SUBSET Accounts : StartRebuild(A)
           \/ Rebuilding \/ RestLogin \/ User \/ World
    PROVE  LockDiscipline' /\ Bookkeeping'
<1>0. /\ TypeOK /\ LockDiscipline /\ Bookkeeping /\ ProcOK
      /\ Callers \cup {Rebuilder} \subseteq Procs /\ Watchdogs \subseteq Procs
      /\ Consumers \subseteq Procs
  BY DEF IInv, TypeOK, Procs, Callers
<1>1. UNCHANGED <<assign, phys, aliases>>
  BY DEF LoopTurn, RefreshSessionAssignments, StartRebuild, Rebuilding, BeginLogin, EndLogin,
         RebalanceAssignments, RestLogin, User, TrackTicker, UntrackTicker, SetSourceTickers,
         EnsureSourceTickers, World, LateAck, Disconnect, InvalidateSession,
         RestReinitialize, Roll
<1>2. Bookkeeping'
  BY <1>0, <1>1, StutterExact
<1> SUFFICES LockDiscipline'
  BY <1>2
<1>3. ASSUME NEW p \in Callers \cup {Rebuilder}, LoopTurn(p)
      PROVE  LockDiscipline'
  BY <1>0, <1>1, <1>3, TurnDiscipline DEF LoopTurn
<1>4. ASSUME RebalanceAssignments
      PROVE  LockDiscipline'
  BY <1>0, <1>1, <1>4, TurnDiscipline DEF RebalanceAssignments
<1>5. ASSUME NEW p \in Procs, NEW todo, UNCHANGED lock,
             proc' = [proc EXCEPT ![p].pc = "loop", ![p].todo = todo]
      PROVE  LockDiscipline'
  <2>1. (\A q \in Procs \ {p} : proc'[q] = proc[q]) /\ proc'[p].pc \notin InLock
    BY <1>0, <1>5 DEF ProcOK, Tasks, InLock
  <2> QED
    BY <1>0, <1>1, <1>5, <2>1, OutsiderMoves
<1>6. ASSUME NEW T \in SUBSET Tickers, NEW helper,
             \A t \in T : helper[t] \in {"ensure", "refresh"}, ScheduleTasks(T, helper)
      PROVE  LockDiscipline'
  BY <1>0, <1>1, <1>6, CancelledLeave
<1>7. ASSUME UNCHANGED <<proc, lock>>
      PROVE  LockDiscipline'
  BY <1>0, <1>1, <1>7 DEF LockDiscipline, lock, Assigned
<1>8. ASSUME NEW a \in Accounts, NEW phase, ResetSession(a, phase), UNCHANGED lock
      PROVE  LockDiscipline'
  <2>1. \A p \in Procs : proc'[p] = proc[p] \/ proc'[p] = [proc[p] EXCEPT !.live = FALSE]
    BY <1>8 DEF ResetSession
  <2>2. \A p \in Procs : proc[p] \in Tasks
    BY <1>0 DEF ProcOK
  <2>3. ASSUME NEW r \in Tasks, NEW q, q = r \/ q = [r EXCEPT !.live = FALSE]
        PROVE  q.pc = r.pc /\ q.ticker = r.ticker
    BY <2>3 DEF Tasks
  <2>4. \A p \in Procs : proc'[p].pc = proc[p].pc /\ proc'[p].ticker = proc[p].ticker
    BY <2>1, <2>2, <2>3
  <2> QED
    BY <1>0, <1>1, <1>8, <2>4 DEF LockDiscipline, lock, Assigned
<1>9. CASE User
  <2>1. ASSUME NEW s \in Sources, NEW t \in Tickers, TrackTicker(s, t) \/ UntrackTicker(s, t)
        PROVE  LockDiscipline'
    <3>1. \/ ScheduleTasks({t}, [u \in {t} |-> "ensure"])
          \/ ScheduleTasks({t}, [u \in {t} |-> "refresh"])
      BY <2>1 DEF TrackTicker, UntrackTicker
    <3>2. \A x : \A u \in {t} : [v \in {t} |-> x][u] = x
      OBVIOUS
    <3> QED
      BY <1>6, <3>1, <3>2
  <2>2. ASSUME NEW s \in Sources, NEW T \in SUBSET Tickers, SetSourceTickers(s, T)
        PROVE  LockDiscipline'
    <3> DEFINE changed == (source[s] \ T) \cup (T \ source[s])
               helper == [t \in changed |-> IF t \in T THEN "ensure" ELSE "refresh"]
    <3>1. changed \in SUBSET Tickers /\ ScheduleTasks(changed, helper)
      BY <1>0, <2>2 DEF SetSourceTickers, TypeOK
    <3>2. \A t \in changed : helper[t] \in {"ensure", "refresh"}
      OBVIOUS
    <3> HIDE DEF changed, helper
    <3> QED
      BY <1>6, <3>1, <3>2
  <2>3. ASSUME NEW p \in Consumers, NEW s \in Sources, NEW T \in SUBSET Tickers,
               EnsureSourceTickers(p, s, T)
        PROVE  LockDiscipline'
    BY <1>0, <1>5, <2>3 DEF EnsureSourceTickers, lock
  <2> QED
    BY <1>9, <2>1, <2>2, <2>3 DEF User
<1>10. ASSUME NEW p \in Watchdogs, RefreshSessionAssignments(p)
       PROVE  LockDiscipline'
  BY <1>0, <1>5, <1>10 DEF RefreshSessionAssignments, lock
<1>11. CASE World
  <2>1. CASE RestReinitialize
    BY <1>8, <2>1, PoolAssumption DEF PoolAssumption, RestReinitialize
  <2> QED
    BY <1>7, <1>11, <2>1 DEF World, LateAck, Disconnect, InvalidateSession, Roll
<1>12. CASE Rebuilding
  <2>1. ASSUME NEW a \in Accounts, BeginLogin(a) PROVE LockDiscipline'
    BY <1>8, <2>1 DEF BeginLogin
  <2> QED
    BY <1>4, <1>7, <1>12, <2>1 DEF Rebuilding, EndLogin
<1>13. ASSUME RestLogin \/ \E A \in SUBSET Accounts : StartRebuild(A)
       PROVE  LockDiscipline'
  BY <1>7, <1>13 DEF RestLogin, StartRebuild
<1> QED
  BY <1>3, <1>9, <1>10, <1>11, <1>12, <1>13

-----------------------------------------------------------------------------
(* The theorems                                                            *)

LEMMA InitSafe == Init => LockDiscipline /\ Bookkeeping
<1> SUFFICES ASSUME Init PROVE LockDiscipline /\ Bookkeeping
  OBVIOUS
<1>1. \A t \in Tickers : ~Assigned(t)
  BY DEF Init, Assigned
<1>2. \A k \in Keys : AssignedTo(k) = {}
  BY <1>1, PoolAssumption DEF PoolAssumption, AssignedTo, Assigned
<1>3. Bookkeeping
  BY <1>1, <1>2, FS_EmptySet DEF Init, Bookkeeping, RefCountExact, AliasIndexExact
<1> QED
  BY <1>3 DEF Init, Idle, InLock, LockDiscipline

\* The inductive invariant holds in every reachable state of the pool.
THEOREM InductiveInvariant == Spec => []IInv
<1>1. Init => IInv
  BY InitTypeOK, InitSafe DEF IInv
<1>2. IInv /\ [Next]_vars => LockDiscipline' /\ Bookkeeping'
  <2> SUFFICES ASSUME IInv, [Next]_vars PROVE LockDiscipline' /\ Bookkeeping'
    OBVIOUS
  <2>1. CASE Next
    BY <2>1, HelperSafe, OthersSafe DEF Next
  <2>2. CASE UNCHANGED vars
    <3>1. UNCHANGED <<assign, phys, aliases, proc, holder>>
      BY <2>2 DEF vars, lock
    <3> QED
      BY <3>1, StutterExact DEF IInv, LockDiscipline, Assigned
  <2> QED
    BY <2>1, <2>2
<1>3. []TypeOK /\ [][Next]_vars /\ LockDiscipline /\ Bookkeeping => []IInv
  BY <1>2, PTL DEF IInv
<1> QED
  BY <1>1, <1>3, TypeCorrect, InitSafe, PTL DEF Spec

\* _ensure_assignment is alone in its locked part, and the ticker it places there
\* stays unassigned, however its coroutine is cancelled or its session rebuilt; no table is malformed.
THEOREM LockSafety == Spec => []PlacingSound
<1>1. IInv => PlacingSound
  BY DEF IInv, PlacingSound
<1> QED  BY <1>1, InductiveInvariant, PTL

\* _physical_subscriptions counts exactly the assignments that hold each key.
THEOREM RefCountCorrect == Spec => []RefCountExact
  BY InductiveInvariant, PTL DEF IInv, Bookkeeping

\* _resolved_to_requested lists exactly the tickers assigned to each contract.
THEOREM AliasCorrect == Spec => []AliasIndexExact
  BY InductiveInvariant, PTL DEF IInv, Bookkeeping

-----------------------------------------------------------------------------
(* No orphan: a ticker that lost its last source while it was assigned, or *)
(* was being assigned, is owed a removal by some coroutine.                *)

\* A coroutine r of p that will still look whether t is wanted
Owes(p, r, t) ==
    \/ r.pc \in {"refresh", "removing"} /\ r.ticker = t
    \/ p \notin Tickers /\ r.pc # "idle" /\ <<"refresh", t>> \in r.todo

Placing(r, t) == r.pc \in InLock /\ r.ticker = t
Held(t) == Assigned(t) \/ \E p \in Procs : Placing(proc[p], t)

RemovalOwed ==
    \A t \in Tickers : Held(t) /\ ~HasAnySource(t) => \E p \in Procs : Owes(p, proc[p], t)

\* A task works on the ticker it is named after
OwnTicker == \A t \in Tickers : proc[t].pc # "idle" => proc[t].ticker = t

\* The rebuilder makes calls only while it rebalances
RebuilderRests == rebuild.pc # "rebalance" => proc[Rebuilder].pc = "idle"

OrphanInv == OwnTicker /\ RebuilderRests /\ RemovalOwed

\* One coroutine moves, and what it owed it still owes, or it is not needed any more
LEMMA OneMoves ==
    ASSUME OrphanInv, NEW p \in Procs, NEW r, NEW q, r = proc[p],
           \A x \in Procs : proc'[x] = IF x = p THEN q ELSE proc[x],
           \A t \in Tickers : Assigned(t)' => Assigned(t) \/ Placing(r, t),
           \A t \in Tickers : Placing(q, t) => Placing(r, t) \/ HasAnySource(t)',
           \A t \in Tickers : HasAnySource(t) => HasAnySource(t)' \/ Owes(p, q, t),
           \A t \in Tickers : Owes(p, r, t) => Owes(p, q, t) \/ HasAnySource(t)' \/ ~Held(t)',
           p \in Tickers /\ q.pc # "idle" => q.ticker = p,
           RebuilderRests'
    PROVE  OrphanInv'
<1>1. OwnTicker'
  <2>1. Tickers \subseteq Procs
    BY DEF Procs
  <2> QED  BY <2>1 DEF OrphanInv, OwnTicker
<1>2. RemovalOwed'
  <2> SUFFICES ASSUME NEW t \in Tickers, Held(t)', ~HasAnySource(t)'
               PROVE  \E x \in Procs : Owes(x, proc'[x], t)
    BY DEF RemovalOwed, Owes
  <2>1. CASE HasAnySource(t)
    BY <2>1
  <2>2. CASE ~HasAnySource(t)
    <3>1. \A x \in Procs : Placing(proc'[x], t) => Placing(proc[x], t)
      OBVIOUS
    <3>2. Assigned(t)' \/ \E x \in Procs : Placing(proc'[x], t)
      BY DEF Held, Placing
    <3>3. Held(t)
      BY <3>1, <3>2 DEF Held
    <3>4. PICK x \in Procs : Owes(x, proc[x], t)
      BY <2>2, <3>3 DEF OrphanInv, RemovalOwed
    <3> QED  BY <3>4
  <2> QED  BY <2>1, <2>2
<1> QED  BY <1>1, <1>2 DEF OrphanInv

\* The helper returns: a loop keeps the calls it still has to make
LEMMA ReturnKeeps ==
    ASSUME ProcOK, OrphanInv, NEW p \in Procs, Return(p), proc[p].pc # "idle",
           UNCHANGED <<source, rebuild>>,
           \A t \in Tickers : Assigned(t)' => Assigned(t) \/ Placing(proc[p], t),
           \A t \in Tickers : proc[p].pc \in {"refresh", "removing"} /\ proc[p].ticker = t => ~Held(t)'
    PROVE  OrphanInv'
<1>1. PICK r \in Tasks : r = proc[p]
  BY DEF ProcOK
<1>2. PICK q : q = Returned(p)
  OBVIOUS
<1>3. /\ q.pc = IF p \in Tickers THEN "idle" ELSE "loop"
      /\ q.todo = r.todo
  BY <1>1, <1>2 DEF Returned, Idle
<1>4. \A x \in Procs : proc'[x] = IF x = p THEN q ELSE proc[x]
  BY <1>2 DEF Return, ProcOK
<1>5. \A t \in Tickers : HasAnySource(t)' <=> HasAnySource(t)
  BY DEF HasAnySource
<1>6. \A t \in Tickers : ~Placing(q, t)
  BY <1>3 DEF Placing, InLock
<1>7. \A t \in Tickers : Owes(p, r, t) => Owes(p, q, t) \/ ~Held(t)'
  <2> SUFFICES ASSUME NEW t \in Tickers, Owes(p, r, t)
               PROVE  Owes(p, q, t) \/ ~Held(t)'
    OBVIOUS
  <2>1. CASE r.pc \in {"refresh", "removing"} /\ r.ticker = t
    BY <1>1, <2>1
  <2>2. CASE p \notin Tickers /\ <<"refresh", t>> \in r.todo
    BY <1>3, <2>2 DEF Owes
  <2> QED  BY <2>1, <2>2 DEF Owes
<1>8. RebuilderRests'
  <2>1. Rebuilder \in Procs
    BY DEF Procs
  <2> QED  BY <1>4, <2>1 DEF OrphanInv, RebuilderRests
<1>9. \A t \in Tickers : Assigned(t)' => Assigned(t) \/ Placing(r, t)
  BY <1>1
<1> QED  BY <1>1, <1>3, <1>4, <1>5, <1>6, <1>7, <1>8, <1>9, OneMoves

\* The helper goes on with its ticker
LEMMA GoesOn ==
    ASSUME ProcOK, OrphanInv, NEW p \in Procs, NEW q, proc' = [proc EXCEPT ![p] = q],
           proc[p].pc # "idle", q.pc # "idle",
           q.ticker = proc[p].ticker, q.todo = proc[p].todo,
           UNCHANGED <<source, rebuild>>,
           \A t \in Tickers : Assigned(t)' => Assigned(t) \/ Placing(proc[p], t),
           q.pc \in InLock => proc[p].pc \in InLock \/ HasAnySource(proc[p].ticker),
           proc[p].pc \in {"refresh", "removing"} =>
               q.pc = "removing" \/ HasAnySource(proc[p].ticker)
    PROVE  OrphanInv'
<1>1. PICK r \in Tasks : r = proc[p]
  BY DEF ProcOK
<1>2. \A x \in Procs : proc'[x] = IF x = p THEN q ELSE proc[x]
  BY DEF ProcOK
<1>3. \A t \in Tickers : HasAnySource(t)' <=> HasAnySource(t)
  BY DEF HasAnySource
<1>4. \A t \in Tickers : Placing(q, t) => Placing(r, t) \/ HasAnySource(t)'
  BY <1>1, <1>3 DEF Placing
<1>5. \A t \in Tickers : Owes(p, r, t) => Owes(p, q, t) \/ HasAnySource(t)'
  <2> SUFFICES ASSUME NEW t \in Tickers, Owes(p, r, t)
               PROVE  Owes(p, q, t) \/ HasAnySource(t)
    BY <1>3
  <2>1. CASE r.pc \in {"refresh", "removing"} /\ r.ticker = t
    <3>1. q.ticker = t /\ (q.pc = "removing" \/ HasAnySource(t))
      BY <1>1, <2>1
    <3> QED  BY <3>1 DEF Owes
  <2>2. CASE p \notin Tickers /\ r.pc # "idle" /\ <<"refresh", t>> \in r.todo
    <3>1. q.todo = r.todo
      BY <1>1
    <3> QED  BY <2>2, <3>1 DEF Owes
  <2> QED  BY <2>1, <2>2 DEF Owes
<1>6. RebuilderRests'
  <2>1. Rebuilder \in Procs
    BY DEF Procs
  <2> QED  BY <1>2, <2>1 DEF OrphanInv, RebuilderRests
<1>7. p \in Tickers => q.ticker = p
  BY DEF OrphanInv, OwnTicker
<1>8. \A t \in Tickers : Assigned(t)' => Assigned(t) \/ Placing(r, t)
  BY <1>1
<1> QED  BY <1>1, <1>2, <1>3, <1>4, <1>5, <1>6, <1>7, <1>8, OneMoves

\* Whoever takes an assignment away, it stays away while nobody is in the locked part
LEMMA FreeWhenRemoved ==
    ASSUME ProcOK, PoolOK, LockDiscipline, NEW p \in Procs, holder = p, proc[p].pc \notin InLock,
           Return(p), NEW t \in Tickers, RemoveAssignmentLocked(t)
    PROVE  ~Held(t)'
<1>1. \A x \in Procs : proc'[x] = IF x = p THEN Returned(p) ELSE proc[x]
  BY DEF Return, ProcOK
<1>2. Returned(p).pc \notin InLock
  BY DEF Returned, Idle, InLock
<1>3. \A x \in Procs : proc'[x].pc \notin InLock
  BY <1>1, <1>2 DEF LockDiscipline
<1>4. ~Assigned(t)'
  BY DEF RemoveAssignmentLocked, Assigned, PoolOK
<1> QED  BY <1>3, <1>4 DEF Held, Placing

\* The channel loop records what its coroutine was placing, or waits
LEMMA SubscribeKeeps ==
    ASSUME IInv, OrphanInv, NEW p \in Procs, proc[p].pc \in InLock, NEW i, NEW mode,
           SubscribeFrom(p, i, mode), UNCHANGED <<source, rebuild>>
    PROVE  OrphanInv'
<1>1. ProcOK /\ PoolOK /\ proc[p].pc \notin {"idle", "refresh", "removing"}
  BY DEF IInv, TypeOK, InLock
<1>2. ASSUME NEW k, RecordAssignment(proc[p].ticker, k), Return(p)
      PROVE  OrphanInv'
  <2>1. \A t \in Tickers : Assigned(t)' => Assigned(t) \/ Placing(proc[p], t)
    BY <1>1, <1>2 DEF RecordAssignment, Assigned, Placing, PoolOK
  <2> QED  BY <1>1, <1>2, <2>1, ReturnKeeps
<1>3. ASSUME NEW j,
             proc' = [proc EXCEPT ![p].pc = "subscribing", ![p].mode = mode,
                                  ![p].ch = j, ![p].live = TRUE],
             UNCHANGED <<assign, phys, aliases, lock>>
      PROVE  OrphanInv'
  <2>1. PICK r \in Tasks : r = proc[p]
    BY <1>1 DEF ProcOK
  <2>2. PICK q : q = [r EXCEPT !.pc = "subscribing", !.mode = mode, !.ch = j, !.live = TRUE]
    OBVIOUS
  <2>3. q.pc = "subscribing" /\ q.ticker = r.ticker /\ q.todo = r.todo
    BY <2>2 DEF Tasks
  <2>4. proc' = [proc EXCEPT ![p] = q]
    BY <1>3, <2>1, <2>2
  <2>5. \A t \in Tickers : Assigned(t)' => Assigned(t)
    BY <1>3 DEF Assigned
  <2> QED  BY <1>1, <2>1, <2>3, <2>4, <2>5, GoesOn
<1> QED  BY <1>2, <1>3 DEF SubscribeFrom

LEMMA NextCandidateKeeps ==
    ASSUME IInv, OrphanInv, NEW p \in Procs, proc[p].pc \in InLock, NextCandidate(p),
           UNCHANGED <<source, rebuild, assign>>
    PROVE  OrphanInv'
<1>1. ProcOK /\ proc[p].pc \notin {"idle", "refresh", "removing"}
  BY DEF IInv, TypeOK, InLock
<1>2. \A t \in Tickers : Assigned(t)' => Assigned(t)
  BY DEF Assigned
<1>3. CASE Return(p)
  BY <1>1, <1>2, <1>3, ReturnKeeps
<1>4. CASE proc' = [proc EXCEPT ![p].pc = "starting", ![p].cands = Tail(@)]
  <2>1. PICK r \in Tasks : r = proc[p]
    BY <1>1 DEF ProcOK
  <2>2. PICK q : q = [r EXCEPT !.pc = "starting", !.cands = Tail(@)]
    OBVIOUS
  <2>3. q.pc = "starting" /\ q.ticker = r.ticker /\ q.todo = r.todo
    BY <2>2 DEF Tasks
  <2>4. proc' = [proc EXCEPT ![p] = q]
    BY <1>4, <2>1, <2>2
  <2> QED  BY <1>1, <1>2, <2>1, <2>3, <2>4, GoesOn
<1> QED  BY <1>3, <1>4 DEF NextCandidate

LEMMA HelperKeeps ==
    ASSUME IInv, OrphanInv, NEW p \in Procs, Helper(p)
    PROVE  OrphanInv'
<1>0. /\ ProcOK /\ PoolOK /\ LockDiscipline
      /\ UNCHANGED <<source, rebuild>>
  BY DEF IInv, TypeOK, Helper, RefreshTickerAssignment, RemoveAssignment, ResolveTarget, ChooseManagers,
         StartWs, SubscribeTarget, NextChannel, FailSubscribe, AckSubscribe
<1>1. PICK r \in Tasks : r = proc[p]
  BY <1>0 DEF ProcOK
\* A helper that goes to pc, and keeps its ticker and its todo
<1>2. ASSUME NEW pc \in {"ensure", "removing", "starting", "started", "acked", "locking"},
             NEW q, proc' = [proc EXCEPT ![p] = q], q.pc = pc, q.ticker = r.ticker, q.todo = r.todo,
             r.pc # "idle",
             \A t \in Tickers : Assigned(t)' => Assigned(t),
             pc \in InLock => r.pc \in InLock \/ HasAnySource(r.ticker),
             r.pc = "refresh" => pc = "removing" \/ HasAnySource(r.ticker),
             r.pc # "removing"
      PROVE  OrphanInv'
  <2>1. \A t \in Tickers : Assigned(t)' => Assigned(t) \/ Placing(proc[p], t)
    BY <1>2
  <2> QED  BY <1>0, <1>1, <1>2, <2>1, GoesOn
<1>3. ASSUME NEW pc \in {"ensure", "removing", "started", "acked"}, proc' = [proc EXCEPT ![p].pc = pc],
             r.pc # "idle", \A t \in Tickers : Assigned(t)' => Assigned(t),
             pc \in InLock => r.pc \in InLock,
             r.pc = "refresh" => pc = "removing" \/ HasAnySource(r.ticker),
             r.pc # "removing"
      PROVE  OrphanInv'
  <2>1. PICK q : q = [r EXCEPT !.pc = pc]
    OBVIOUS
  <2>2. q.pc = pc /\ q.ticker = r.ticker /\ q.todo = r.todo
    BY <2>1 DEF Tasks
  <2>3. proc' = [proc EXCEPT ![p] = q]
    BY <1>1, <1>3, <2>1
  <2>4. pc \in {"ensure", "removing", "starting", "started", "acked", "locking"}
    OBVIOUS
  <2>5. \A t \in Tickers : Assigned(t)' => Assigned(t)
    BY <1>3
  <2>6. pc \in InLock => r.pc \in InLock \/ HasAnySource(r.ticker)
    BY <1>3
  <2> QED  BY <1>2, <1>3, <2>2, <2>3, <2>4, <2>5, <2>6
<1>4. CASE RefreshTickerAssignment(p)
  <2>1. \A t \in Tickers : Assigned(t)' => Assigned(t)
    BY <1>4 DEF RefreshTickerAssignment, Assigned
  <2> QED  BY <1>1, <1>3, <1>4, <2>1 DEF RefreshTickerAssignment, InLock
<1>5. CASE RemoveAssignment(p)
  <2>1. /\ r.pc = "removing" /\ holder = p /\ r.ticker \in Tickers
        /\ Return(p) /\ RemoveAssignmentLocked(r.ticker)
    BY <1>0, <1>1, <1>5 DEF RemoveAssignment, Holds, ProcOK
  <2>2. ~Held(r.ticker)'
    BY <1>0, <1>1, <2>1, FreeWhenRemoved DEF InLock
  <2>3. \A t \in Tickers : Assigned(t)' => Assigned(t)
    BY <1>0, <2>1 DEF RemoveAssignmentLocked, Assigned, PoolOK
  <2>4. \A t \in Tickers : proc[p].ticker = t => ~Held(t)'
    BY <1>1, <2>2
  <2> QED  BY <1>0, <1>1, <2>1, <2>3, <2>4, ReturnKeeps
<1>6. CASE ResolveTarget(p)
  <2>1. r.pc = "ensure" /\ \A t \in Tickers : Assigned(t)' => Assigned(t)
    BY <1>1, <1>6 DEF ResolveTarget, Assigned
  <2>2. CASE Return(p)
    BY <1>0, <1>1, <2>1, <2>2, ReturnKeeps
  <2>3. CASE proc' = [proc EXCEPT ![p].pc = "locking", ![p].target = resolve[proc[p].ticker]]
    <3>1. PICK q : q = [r EXCEPT !.pc = "locking", !.target = resolve[proc[p].ticker]]
      OBVIOUS
    <3>2. q.pc = "locking" /\ q.ticker = r.ticker /\ q.todo = r.todo
      BY <3>1 DEF Tasks
    <3>3. proc' = [proc EXCEPT ![p] = q]
      BY <1>1, <2>3, <3>1
    <3> QED  BY <1>2, <2>1, <3>2, <3>3 DEF InLock
  <2> QED  BY <1>6, <2>2, <2>3 DEF ResolveTarget
<1>7. CASE ChooseManagers(p)
  <2>1. r.pc = "locking" /\ r.ticker \in Tickers
    BY <1>0, <1>1, <1>7 DEF ChooseManagers, ProcOK
  <2>2. \A t \in Tickers : Assigned(t)' => Assigned(t)
    BY <1>0, <1>1, <1>7, <2>1 DEF ChooseManagers, RemoveAssignmentLocked, Assigned, PoolOK
  <2>3. CASE Return(p)
    BY <1>0, <1>1, <2>1, <2>2, <2>3, ReturnKeeps
  <2>4. ASSUME NEW c, HasAnySource(r.ticker), proc' = [proc EXCEPT ![p].pc = "starting", ![p].cands = c]
        PROVE  OrphanInv'
    <3>1. PICK q : q = [r EXCEPT !.pc = "starting", !.cands = c]
      OBVIOUS
    <3>2. q.pc = "starting" /\ q.ticker = r.ticker /\ q.todo = r.todo
      BY <3>1 DEF Tasks
    <3>3. proc' = [proc EXCEPT ![p] = q]
      BY <1>1, <2>4, <3>1
    <3> QED  BY <1>2, <2>1, <2>2, <2>4, <3>2, <3>3
  <2> QED  BY <1>1, <1>7, <2>3, <2>4 DEF ChooseManagers, NothingToDo
<1>8. CASE StartWs(p)
  <2>1. r.pc = "starting" /\ UNCHANGED assign
    BY <1>1, <1>8 DEF StartWs
  <2>2. \A t \in Tickers : Assigned(t)' => Assigned(t)
    BY <2>1 DEF Assigned
  <2>3. CASE NextCandidate(p)
    BY <1>0, <1>1, <2>1, <2>3, NextCandidateKeeps DEF InLock
  <2>4. CASE proc' = [proc EXCEPT ![p].pc = "started"]
    BY <1>3, <2>1, <2>2, <2>4 DEF InLock
  <2> QED  BY <1>8, <2>3, <2>4 DEF StartWs
<1>9. CASE SubscribeTarget(p)
  <2>1. r.pc = "started"
    BY <1>1, <1>9 DEF SubscribeTarget
  <2>2. ASSUME NEW k, RecordAssignment(proc[p].ticker, k), Return(p)
        PROVE  OrphanInv'
    <3>1. \A t \in Tickers : Assigned(t)' => Assigned(t) \/ Placing(proc[p], t)
      BY <1>0, <1>1, <2>1, <2>2 DEF RecordAssignment, Assigned, Placing, PoolOK, InLock
    <3> QED  BY <1>0, <1>1, <2>1, <2>2, <3>1, ReturnKeeps
  <2>3. ASSUME NEW mode, SubscribeFrom(p, 1, mode)
        PROVE  OrphanInv'
    BY <1>0, <1>1, <2>1, <2>3, SubscribeKeeps DEF InLock
  <2> QED  BY <1>9, <2>2, <2>3 DEF SubscribeTarget
<1>10. CASE NextChannel(p)
  BY <1>0, <1>1, <1>10, SubscribeKeeps DEF NextChannel, InLock
<1>11. CASE FailSubscribe(p)
  BY <1>0, <1>1, <1>11, NextCandidateKeeps DEF FailSubscribe, InLock
<1>12. CASE AckSubscribe(p)
  <2>1. \A t \in Tickers : Assigned(t)' => Assigned(t)
    BY <1>12 DEF AckSubscribe, Assigned
  <2> QED  BY <1>1, <1>3, <1>12, <2>1 DEF AckSubscribe, InLock
<1> QED  BY <1>4, <1>5, <1>6, <1>7, <1>8, <1>9, <1>10, <1>11, <1>12 DEF Helper

\* Nothing that matters moves
LEMMA SameWork ==
    ASSUME OrphanInv, UNCHANGED <<source, assign>>, RebuilderRests',
           \A p \in Procs : /\ proc'[p].pc = proc[p].pc /\ proc'[p].ticker = proc[p].ticker
                            /\ proc'[p].todo = proc[p].todo
    PROVE  OrphanInv'
<1>1. Tickers \subseteq Procs
  BY DEF Procs
<1>2. OwnTicker'
  BY <1>1 DEF OrphanInv, OwnTicker
<1>3. RemovalOwed'
  <2> SUFFICES ASSUME NEW t \in Tickers, Held(t)', ~HasAnySource(t)'
               PROVE  \E x \in Procs : Owes(x, proc'[x], t)
    BY DEF RemovalOwed, Owes
  <2>1. Held(t) /\ ~HasAnySource(t)
    BY DEF Held, Placing, Assigned, HasAnySource
  <2>2. PICK x \in Procs : Owes(x, proc[x], t)
    BY <2>1 DEF OrphanInv, RemovalOwed
  <2> QED  BY <2>2 DEF Owes
<1> QED  BY <1>2, <1>3 DEF OrphanInv

\* New tasks for the tickers whose sources changed: a ticker that lost one is looked at again
LEMMA SchedulingKeeps ==
    ASSUME OrphanInv, NEW T \in SUBSET Tickers, NEW helper, ScheduleTasks(T, helper),
           UNCHANGED <<assign, rebuild>>,
           \A t \in Tickers \ T : HasAnySource(t)' <=> HasAnySource(t),
           \A t \in T : helper[t] = "refresh" \/ (helper[t] = "ensure" /\ HasAnySource(t)')
    PROVE  OrphanInv'
<1>1. Tickers \subseteq Procs /\ Rebuilder \in Procs /\ Rebuilder \notin T
  BY PoolAssumption DEF PoolAssumption, Procs
<1>2. \A x \in Procs : proc'[x] = IF x \in T THEN [Idle EXCEPT !.pc = helper[x], !.ticker = x] ELSE proc[x]
  BY DEF ScheduleTasks
<1>3. \A x \in T : proc'[x].pc = helper[x] /\ proc'[x].ticker = x
  BY <1>1, <1>2 DEF Idle
<1>4. OwnTicker'
  BY <1>1, <1>2, <1>3 DEF OrphanInv, OwnTicker
<1>5. RebuilderRests'
  BY <1>1, <1>2 DEF OrphanInv, RebuilderRests
<1>6. RemovalOwed'
  <2> SUFFICES ASSUME NEW t \in Tickers, Held(t)', ~HasAnySource(t)'
               PROVE  \E x \in Procs : Owes(x, proc'[x], t)
    BY DEF RemovalOwed, Owes
  <2>1. CASE t \in T
    <3>1. proc'[t].pc = "refresh" /\ proc'[t].ticker = t
      BY <1>3, <2>1
    <3> QED  BY <1>1, <3>1 DEF Owes
  <2>2. CASE t \notin T
    <3>1. \A x \in Procs : Placing(proc'[x], t) => Placing(proc[x], t)
      <4> SUFFICES ASSUME NEW x \in Procs, Placing(proc'[x], t)  PROVE Placing(proc[x], t)
        OBVIOUS
      <4>1. x \notin T
        BY <1>3, <2>2 DEF Placing
      <4> QED  BY <1>2, <4>1
    <3>2. Assigned(t)' \/ \E x \in Procs : Placing(proc'[x], t)
      BY DEF Held, Placing
    <3>3. Held(t) /\ ~HasAnySource(t)
      BY <2>2, <3>1, <3>2 DEF Held, Assigned
    <3>4. PICK x \in Procs : Owes(x, proc[x], t)
      BY <3>3 DEF OrphanInv, RemovalOwed
    <3>5. x \notin T
      <4> SUFFICES ASSUME x \in T  PROVE FALSE
        OBVIOUS
      <4>1. proc[x].ticker = t /\ proc[x].pc # "idle"
        BY <3>4 DEF Owes
      <4> QED  BY <2>2, <4>1 DEF OrphanInv, OwnTicker
    <3> QED  BY <1>2, <3>4, <3>5
  <2> QED  BY <2>1, <2>2
<1> QED  BY <1>4, <1>5, <1>6 DEF OrphanInv

\* A turn of a loop makes the next call, and keeps the others
LEMMA TurnKeeps ==
    ASSUME ProcOK, OrphanInv, NEW p \in Callers \cup {Rebuilder}, NEW todo,
           proc[p].pc = "idle" \/ (proc[p].pc = "loop" /\ proc[p].todo = todo),
           Turn(p, todo), UNCHANGED <<source, assign>>, RebuilderRests'
    PROVE  OrphanInv'
<1>1. p \in Procs /\ p \notin Tickers
  BY PoolAssumption DEF PoolAssumption, Procs
<1>2. PICK r \in Tasks : r = proc[p]
  BY <1>1 DEF ProcOK
<1>3. \A t \in Tickers : (HasAnySource(t)' <=> HasAnySource(t)) /\ (Assigned(t)' <=> Assigned(t))
  BY DEF HasAnySource, Assigned
<1>4. ASSUME NEW q, proc' = [proc EXCEPT ![p] = q], q.pc \notin InLock,
             \A t \in Tickers : <<"refresh", t>> \in todo => Owes(p, q, t)
      PROVE  OrphanInv'
  <2>1. \A x \in Procs : proc'[x] = IF x = p THEN q ELSE proc[x]
    BY <1>4 DEF ProcOK
  <2>2. \A t \in Tickers : Owes(p, r, t) => Owes(p, q, t)
    BY <1>2, <1>4 DEF Owes
  <2>3. \A t \in Tickers : ~Placing(q, t)
    BY <1>4 DEF Placing
  <2> QED  BY <1>1, <1>2, <1>3, <2>1, <2>2, <2>3, OneMoves
<1>5. CASE todo = {} /\ proc' = [proc EXCEPT ![p] = Idle]
  <2>1. Idle.pc \notin InLock
    BY DEF Idle, InLock
  <2> QED  BY <1>4, <1>5, <2>1
<1>6. ASSUME NEW x \in todo, NEW pc,
             pc = CASE x[1] = "remove" -> "removing"
                    [] x[1] = "refresh" -> "refresh"
                    [] x[1] = "missing" /\ Assigned(x[2]) -> "loop"
                    [] OTHER -> "ensure",
             proc' = [proc EXCEPT ![p] = [Idle EXCEPT !.pc = pc, !.ticker = x[2], !.todo = todo \ {x}]]
      PROVE  OrphanInv'
  <2>1. PICK q : q = [Idle EXCEPT !.pc = pc, !.ticker = x[2], !.todo = todo \ {x}]
    OBVIOUS
  <2>2. q.pc = pc /\ q.ticker = x[2] /\ q.todo = todo \ {x}
    BY <2>1 DEF Idle
  <2>3. pc \in {"removing", "refresh", "loop", "ensure"} /\ (x[1] = "refresh" => pc = "refresh")
    BY <1>6
  <2>4. ASSUME NEW t \in Tickers, <<"refresh", t>> \in todo
        PROVE  Owes(p, q, t)
    <3>1. CASE x = <<"refresh", t>>
      BY <2>2, <2>3, <3>1 DEF Owes
    <3>2. CASE x # <<"refresh", t>>
      BY <1>1, <2>2, <2>3, <2>4, <3>2 DEF Owes
    <3> QED  BY <3>1, <3>2
  <2>5. q.pc \notin InLock
    BY <2>2, <2>3 DEF InLock
  <2> QED  BY <1>4, <1>6, <2>1, <2>4, <2>5
<1> QED  BY <1>5, <1>6 DEF Turn

\* A loop begins, with a refresh for each ticker its source has lost
LEMMA LoopBegins ==
    ASSUME ProcOK, OrphanInv, NEW p \in Callers, NEW todo, proc[p].pc = "idle",
           proc' = [proc EXCEPT ![p].pc = "loop", ![p].todo = todo],
           UNCHANGED <<assign, rebuild>>,
           \A t \in Tickers : HasAnySource(t) => HasAnySource(t)' \/ <<"refresh", t>> \in todo
    PROVE  OrphanInv'
<1>1. p \in Procs /\ p \notin Tickers /\ p # Rebuilder /\ Rebuilder \in Procs
  BY PoolAssumption DEF PoolAssumption, Procs
<1>2. PICK r \in Tasks : r = proc[p]
  BY <1>1 DEF ProcOK
<1>3. PICK q : q = [r EXCEPT !.pc = "loop", !.todo = todo]
  OBVIOUS
<1>4. q.pc = "loop" /\ q.todo = todo
  BY <1>3 DEF Tasks
<1>5. \A x \in Procs : proc'[x] = IF x = p THEN q ELSE proc[x]
  BY <1>2, <1>3 DEF ProcOK
<1>6. \A t \in Tickers : HasAnySource(t) => HasAnySource(t)' \/ Owes(p, q, t)
  BY <1>1, <1>4 DEF Owes
<1>7. \A t \in Tickers : ~Placing(q, t) /\ ~Owes(p, r, t)
  BY <1>2, <1>4 DEF Placing, Owes, InLock
<1>8. RebuilderRests'
  BY <1>1, <1>5 DEF OrphanInv, RebuilderRests
<1>9. \A t \in Tickers : Assigned(t)' => Assigned(t)
  BY DEF Assigned
<1> QED  BY <1>1, <1>2, <1>5, <1>6, <1>7, <1>8, <1>9, OneMoves

LEMMA UserKeeps == ASSUME IInv, OrphanInv, User PROVE OrphanInv'
<1>0. ProcOK /\ source \in [Sources -> SUBSET Tickers] /\ Consumers \subseteq Callers
  BY DEF IInv, TypeOK, Callers
<1>1. ASSUME NEW s \in Sources, NEW T, source' = [source EXCEPT ![s] = T], NEW t \in Tickers,
             t \in T \/ t \notin source[s]
      PROVE  HasAnySource(t) => HasAnySource(t)'
  BY <1>0, <1>1 DEF HasAnySource
<1>2. ASSUME NEW s \in Sources, NEW T, source' = [source EXCEPT ![s] = T], NEW t \in Tickers,
             t \in T <=> t \in source[s]
      PROVE  HasAnySource(t) <=> HasAnySource(t)'
  BY <1>0, <1>2 DEF HasAnySource
<1>3. ASSUME NEW s \in Sources, NEW t \in Tickers, TrackTicker(s, t)  PROVE OrphanInv'
  <2>1. PICK T, h : T = source[s] \cup {t} /\ h = [u \in {t} |-> "ensure"]
    OBVIOUS
  <2>2. source' = [source EXCEPT ![s] = T] /\ ScheduleTasks({t}, h) /\ UNCHANGED <<assign, rebuild>>
    BY <1>3, <2>1 DEF TrackTicker
  <2>3. ASSUME NEW u \in Tickers \ {t}  PROVE HasAnySource(u)' <=> HasAnySource(u)
    <3>1. u \in T <=> u \in source[s]
      BY <2>1
    <3> QED  BY <1>2, <2>2, <3>1
  <2>4. h[t] = "ensure" /\ HasAnySource(t)'
    BY <1>0, <2>1, <2>2 DEF HasAnySource
  <2> QED  BY <2>2, <2>3, <2>4, SchedulingKeeps
<1>4. ASSUME NEW s \in Sources, NEW t \in Tickers, UntrackTicker(s, t)  PROVE OrphanInv'
  <2>1. PICK T, h : T = source[s] \ {t} /\ h = [u \in {t} |-> "refresh"]
    OBVIOUS
  <2>2. source' = [source EXCEPT ![s] = T] /\ ScheduleTasks({t}, h) /\ UNCHANGED <<assign, rebuild>>
    BY <1>4, <2>1 DEF UntrackTicker
  <2>3. ASSUME NEW u \in Tickers \ {t}  PROVE HasAnySource(u)' <=> HasAnySource(u)
    <3>1. u \in T <=> u \in source[s]
      BY <2>1
    <3> QED  BY <1>2, <2>2, <3>1
  <2>4. h[t] = "refresh"
    BY <2>1
  <2> QED  BY <2>2, <2>3, <2>4, SchedulingKeeps
<1>5. ASSUME NEW s \in Sources, NEW T \in SUBSET Tickers, SetSourceTickers(s, T)  PROVE OrphanInv'
  <2>1. PICK C, h : /\ C = (source[s] \ T) \cup (T \ source[s])
                    /\ h = [t \in C |-> IF t \in T THEN "ensure" ELSE "refresh"]
    OBVIOUS
  <2>2. source' = [source EXCEPT ![s] = T] /\ ScheduleTasks(C, h) /\ UNCHANGED <<assign, rebuild>>
    BY <1>5, <2>1 DEF SetSourceTickers
  <2>3. \A u \in Tickers \ C : HasAnySource(u)' <=> HasAnySource(u)
    BY <1>2, <2>1, <2>2
  <2>4. \A t \in C : h[t] = "refresh" \/ (h[t] = "ensure" /\ HasAnySource(t)')
    BY <1>0, <2>1, <2>2 DEF HasAnySource
  <2>5. C \in SUBSET Tickers
    BY <1>0, <2>1
  <2> QED  BY <2>2, <2>3, <2>4, <2>5, SchedulingKeeps
<1>6. ASSUME NEW p \in Consumers, NEW s \in Sources, NEW T \in SUBSET Tickers, EnsureSourceTickers(p, s, T)
      PROVE  OrphanInv'
  <2>1. PICK todo : todo = {<<"refresh", t>> : t \in source[s] \ T}
                           \cup {<<"ensure", t>> : t \in T \ source[s]}
                           \cup {<<"missing", t>> : t \in T}
    OBVIOUS
  <2>2. /\ source' = [source EXCEPT ![s] = T] /\ proc[p].pc = "idle"
        /\ proc' = [proc EXCEPT ![p].pc = "loop", ![p].todo = todo]
        /\ UNCHANGED <<assign, rebuild>>
    BY <1>6, <2>1 DEF EnsureSourceTickers
  <2>3. ASSUME NEW t \in Tickers, HasAnySource(t), ~ HasAnySource(t)'
        PROVE  <<"refresh", t>> \in todo
    <3>1. t \in source[s] \ T
      BY <1>1, <2>2, <2>3
    <3> QED  BY <2>1, <3>1
  <2>4. \A t \in Tickers : HasAnySource(t) => HasAnySource(t)' \/ <<"refresh", t>> \in todo
    BY <2>3
  <2>5. p \in Callers
    BY <1>0
  <2> QED  BY <1>0, <2>2, <2>4, <2>5, LoopBegins
<1> QED  BY <1>3, <1>4, <1>5, <1>6 DEF User

LEMMA OthersKeepOrphans ==
    ASSUME IInv, OrphanInv,
           \/ \E p \in Callers \cup {Rebuilder} : LoopTurn(p)
           \/ \E p \in Watchdogs : RefreshSessionAssignments(p)
           \/ \E A \in SUBSET Accounts : StartRebuild(A)
           \/ Rebuilding \/ RestLogin \/ World
    PROVE  OrphanInv'
<1>0. ProcOK /\ Watchdogs \subseteq Callers /\ Callers \cup {Rebuilder} \subseteq Procs
      /\ rebuild \in [pc : {"idle", "next", "login", "rebalance"}, acct : Accounts, left : SUBSET Accounts]
  BY DEF IInv, TypeOK, Callers, Procs
<1>1. ASSUME NEW p \in Callers \cup {Rebuilder}, LoopTurn(p)  PROVE OrphanInv'
  <2>1. proc[p].pc = "loop" /\ Turn(p, proc[p].todo) /\ UNCHANGED <<source, assign>>
    BY <1>1 DEF LoopTurn
  <2>2. PICK todo : todo = proc[p].todo
    OBVIOUS
  <2>3. RebuilderRests'
    <3>1. CASE p = Rebuilder /\ todo = {}
      <4>1. proc' = [proc EXCEPT ![p] = Idle]
        BY <2>1, <2>2, <3>1 DEF Turn
      <4> QED  BY <1>0, <3>1, <4>1 DEF RebuilderRests, Idle, ProcOK
    <3>2. CASE p = Rebuilder /\ todo # {}
      BY <1>1, <2>1, <2>2, <3>2 DEF LoopTurn, OrphanInv, RebuilderRests
    <3>3. CASE p # Rebuilder
      <4>1. proc'[Rebuilder] = proc[Rebuilder]
        BY <1>0, <2>1, <3>3 DEF Turn, ProcOK
      <4> QED  BY <1>1, <3>3, <4>1 DEF LoopTurn, OrphanInv, RebuilderRests
    <3> QED  BY <3>1, <3>2, <3>3
  <2> QED  BY <1>0, <2>1, <2>2, <2>3, TurnKeeps
<1>2. ASSUME NEW p \in Watchdogs, RefreshSessionAssignments(p)  PROVE OrphanInv'
  <2>1. PICK todo : todo = {<<"ensure", t>> : t \in {u \in Desired : Assigned(u)}}
                           \cup {<<"missing", t>> : t \in Desired}
    OBVIOUS
  <2>2. /\ proc[p].pc = "idle" /\ UNCHANGED <<source, assign, rebuild>>
        /\ proc' = [proc EXCEPT ![p].pc = "loop", ![p].todo = todo]
    BY <1>2, <2>1 DEF RefreshSessionAssignments
  <2>3. \A t \in Tickers : HasAnySource(t)' <=> HasAnySource(t)
    BY <2>2 DEF HasAnySource
  <2>4. p \in Callers
    BY <1>0
  <2> QED  BY <1>0, <2>2, <2>3, <2>4, LoopBegins
<1>3. ASSUME UNCHANGED <<source, assign, proc>>, rebuild'.pc = "rebalance" <=> rebuild.pc = "rebalance"
      PROVE  OrphanInv'
  <2>1. RebuilderRests'
    BY <1>3 DEF OrphanInv, RebuilderRests
  <2> QED  BY <1>3, <2>1, SameWork
<1>4. ASSUME NEW A \in SUBSET Accounts, StartRebuild(A)  PROVE OrphanInv'
  <2>1. rebuild.pc = "idle" /\ rebuild'.pc = "next"
    BY <1>0, <1>4 DEF StartRebuild
  <2> QED  BY <1>3, <1>4, <2>1 DEF StartRebuild
<1>5. ASSUME NEW a \in Accounts, NEW phase, ResetSession(a, phase), UNCHANGED <<source, assign>>,
             rebuild'.pc = "rebalance" <=> rebuild.pc = "rebalance"
      PROVE  OrphanInv'
  <2>1. \A p \in Procs : proc'[p] = proc[p] \/ proc'[p] = [proc[p] EXCEPT !.live = FALSE]
    BY <1>5 DEF ResetSession
  <2>2. ASSUME NEW r \in Tasks, NEW q, q = r \/ q = [r EXCEPT !.live = FALSE]
        PROVE  q.pc = r.pc /\ q.ticker = r.ticker /\ q.todo = r.todo
    BY <2>2 DEF Tasks
  <2>3. \A p \in Procs : /\ proc'[p].pc = proc[p].pc /\ proc'[p].ticker = proc[p].ticker
                         /\ proc'[p].todo = proc[p].todo
    BY <1>0, <2>1, <2>2 DEF ProcOK
  <2>4. RebuilderRests'
    BY <1>0, <1>5, <2>3 DEF OrphanInv, RebuilderRests
  <2> QED  BY <1>5, <2>3, <2>4, SameWork
<1>6. CASE Rebuilding
  <2>1. ASSUME NEW a \in Accounts, BeginLogin(a)  PROVE OrphanInv'
    <3>1. rebuild.pc = "next" /\ rebuild'.pc = "login"
      BY <1>0, <2>1 DEF BeginLogin
    <3> QED  BY <1>5, <2>1, <3>1 DEF BeginLogin
  <2>2. CASE EndLogin
    <3>1. rebuild.pc = "login" /\ rebuild'.pc = "next"
      BY <1>0, <2>2 DEF EndLogin
    <3> QED  BY <1>3, <2>2, <3>1 DEF EndLogin
  <2>3. CASE RebalanceAssignments
    <3>1. PICK todo : todo = RebalanceCalls
      OBVIOUS
    <3>2. /\ Turn(Rebuilder, todo) /\ proc[Rebuilder].pc = "idle" /\ UNCHANGED <<source, assign>>
          /\ rebuild' = [rebuild EXCEPT !.pc = IF todo = {} THEN "idle" ELSE "rebalance"]
      BY <2>3, <3>1 DEF RebalanceAssignments, OrphanInv, RebuilderRests
    <3>3. RebuilderRests'
      <4>1. CASE todo = {}
        <5>1. proc' = [proc EXCEPT ![Rebuilder] = Idle]
          BY <3>2, <4>1 DEF Turn
        <5> QED  BY <1>0, <5>1 DEF RebuilderRests, Idle, ProcOK
      <4>2. CASE todo # {}
        <5>1. rebuild'.pc = "rebalance"
          BY <1>0, <3>2, <4>2
        <5> QED  BY <5>1 DEF RebuilderRests
      <4> QED  BY <4>1, <4>2
    <3> QED  BY <1>0, <3>2, <3>3, TurnKeeps
  <2> QED  BY <1>6, <2>1, <2>2, <2>3 DEF Rebuilding
<1>7. CASE RestLogin
  BY <1>3, <1>7 DEF RestLogin
<1>8. CASE World
  <2>1. CASE RestReinitialize
    BY <1>5, <2>1, PoolAssumption DEF PoolAssumption, RestReinitialize
  <2> QED  BY <1>3, <1>8, <2>1 DEF World, LateAck, Disconnect, InvalidateSession, Roll
<1> QED  BY <1>1, <1>2, <1>4, <1>6, <1>7, <1>8

\* Once the pool has come to rest, a ticker nobody wants holds no assignment: whoever dropped the last
\* source while the ticker was being placed, the removal was still to come
\* (backend/fubon_realtime_pool.py, untrack_ticker and _refresh_ticker_assignment).
THEOREM NoOrphanCorrect == Spec => []NoOrphanAssignment
<1>1. Init => OrphanInv
  BY DEF Init, OrphanInv, OwnTicker, RebuilderRests, RemovalOwed, Held, Placing, Assigned, Idle, InLock,
         Procs
<1>2. IInv /\ OrphanInv /\ [Next]_vars => OrphanInv'
  <2> SUFFICES ASSUME IInv, OrphanInv, [Next]_vars  PROVE OrphanInv'
    OBVIOUS
  <2>1. CASE Next
    BY <2>1, HelperKeeps, UserKeeps, OthersKeepOrphans DEF Next
  <2>2. CASE UNCHANGED vars
    <3>1. UNCHANGED <<source, assign, proc, rebuild>>
      BY <2>2 DEF vars
    <3>2. RebuilderRests'
      BY <3>1 DEF OrphanInv, RebuilderRests
    <3> QED  BY <3>1, <3>2, SameWork
  <2> QED  BY <2>1, <2>2
<1>3. OrphanInv => NoOrphanAssignment
  <2> SUFFICES ASSUME OrphanInv, Quiet, NEW t \in Tickers, Assigned(t)  PROVE HasAnySource(t)
    BY DEF NoOrphanAssignment
  <2>1. \A p \in Procs : ~Owes(p, proc[p], t)
    BY DEF Quiet, Owes
  <2> QED  BY <2>1 DEF OrphanInv, RemovalOwed, Held
<1> QED  BY <1>1, <1>2, <1>3, InductiveInvariant, PTL DEF Spec

-----------------------------------------------------------------------------
(* No silenced alias, in an environment where the sessions last.  A new    *)
(* session may serve its first subscriptions in another mode, and the      *)
(* modes share a channel, so this needs every assignment of an account to  *)
(* have the account's mode.                                                *)

SessionsLast == Faults \cap {"disconnect", "invalidate", "rest", "reload"} = {}

Attempted(p) == [acct |-> Head(proc[p].cands), contract |-> proc[p].target, mode |-> proc[p].mode]

\* Every session is the first one, and a subscription is requested only while nobody has it
OneSession ==
    /\ rebuild.pc = "idle"
    /\ \A a \in Accounts : session[a].phase = "up" /\ session[a].healthy /\ session[a].mode = Mode[a]
OneMode == \A t \in Tickers : Assigned(t) => assign[t].mode = Mode[assign[t].acct]
RequestedOnce ==
    \A p \in Procs : proc[p].pc \in {"subscribing", "acked"} =>
        proc[p].mode = Mode[Head(proc[p].cands)] /\ phys[Attempted(p)] = 0

CalmInv == OneSession /\ OneMode /\ RequestedOnce

Requesting == {"subscribing", "acked"}

\* What an assignment that stays has subscribed, it keeps
AliasStays ==
    \A t \in Tickers :
        Assigned(t) /\ assign'[t] = assign[t] =>
            Channels(assign[t].contract, assign[t].mode) \cap sdk[assign[t].acct] \subseteq sdk'[assign[t].acct]

\* An assigned ticker is counted, and two of them twice
LEMMA AssignedCounted ==
    ASSUME IInv, NEW t \in Tickers, Assigned(t)
    PROVE  /\ assign[t] \in Keys /\ phys[assign[t]] >= 1
           /\ \A u \in Tickers \ {t} : assign[u] = assign[t] => phys[assign[t]] >= 2
<1>1. PICK k : k = assign[t]
  OBVIOUS
<1>2. k \in Keys
  BY <1>1 DEF IInv, TypeOK, PoolOK, Assigned
<1>3. phys[k] = Cardinality(AssignedTo(k)) /\ phys[k] \in Nat
  BY <1>2 DEF IInv, TypeOK, PoolOK, Bookkeeping, RefCountExact
<1>4. IsFiniteSet(AssignedTo(k)) /\ t \in AssignedTo(k)
  BY <1>1, AssignedToFinite DEF AssignedTo
<1>5. phys[k] >= 1
  BY <1>3, <1>4, FS_EmptySet
<1>6. ASSUME NEW u \in Tickers \ {t}, assign[u] = k  PROVE phys[k] >= 2
  <2>1. PICK S : S = AssignedTo(k) \ {u}
    OBVIOUS
  <2>2. u \in AssignedTo(k) /\ t \in S
    BY <1>4, <1>6, <2>1 DEF AssignedTo
  <2>3. IsFiniteSet(S) /\ Cardinality(S) = Cardinality(AssignedTo(k)) - 1
    BY <1>4, <2>1, <2>2, FS_RemoveElement
  <2>4. Cardinality(S) # 0 /\ Cardinality(S) \in Nat
    BY <2>2, <2>3, FS_EmptySet, FS_CardinalityType
  <2> QED  BY <1>3, <2>3, <2>4
<1> QED  BY <1>1, <1>2, <1>5, <1>6

\* An account has one mode, so two assignments of a contract to it have the same key
LEMMA SameKey ==
    ASSUME OneMode, NEW t \in Tickers, Assigned(t), NEW k \in Keys, assign[t] \in Keys,
           k.mode = Mode[k.acct], assign[t].acct = k.acct, assign[t].contract = k.contract
    PROVE  assign[t] = k
<1>1. assign[t].mode = k.mode
  BY DEF OneMode
<1> QED  BY <1>1 DEF Keys

\* The last reference alone unsubscribes
LEMMA RemovalSilencesNone ==
    ASSUME IInv, OneMode, NEW u \in Tickers, RemoveAssignmentLocked(u)
    PROVE  AliasStays /\ OneMode'
<1>0. PoolOK /\ sdk \in [Accounts -> SUBSET Subs]
  BY DEF IInv, TypeOK
<1>1. \A t \in Tickers : assign'[t] = IF t = u THEN NoAssignment ELSE assign[t]
  BY <1>0 DEF RemoveAssignmentLocked, PoolOK
<1>2. OneMode'
  BY <1>1 DEF OneMode, Assigned
<1>3. ASSUME NEW t \in Tickers, Assigned(t), assign'[t] = assign[t]
      PROVE  Channels(assign[t].contract, assign[t].mode) \cap sdk[assign[t].acct] \subseteq sdk'[assign[t].acct]
  <2>1. t # u /\ assign[t] \in Keys
    BY <1>0, <1>1, <1>3 DEF Assigned, PoolOK
  <2>2. CASE Assigned(u) /\ LastReference(assign[u])
    <3>1. PICK k \in Keys : k = assign[u]
      BY <1>0, <2>2 DEF Assigned, PoolOK
    <3>2. sdk' = [sdk EXCEPT ![k.acct] = @ \ Channels(k.contract, k.mode)] /\ k.mode = Mode[k.acct]
      BY <2>2, <3>1 DEF RemoveAssignmentLocked, OneMode
    <3>3. assign[t] # k
      BY <2>1, <2>2, <3>1, <1>3, AssignedCounted DEF LastReference, IInv, TypeOK, PoolOK
    <3>4. assign[t].acct # k.acct \/ assign[t].contract # k.contract
      BY <1>3, <2>1, <3>1, <3>2, <3>3, SameKey
    <3>5. assign[t].acct \in Accounts
      BY <2>1 DEF Keys
    <3>6. assign[t].contract # k.contract =>
              Channels(assign[t].contract, assign[t].mode) \cap Channels(k.contract, k.mode) = {}
      BY DEF Channels
    <3>7. sdk'[assign[t].acct] = IF assign[t].acct = k.acct
                                 THEN sdk[assign[t].acct] \ Channels(k.contract, k.mode)
                                 ELSE sdk[assign[t].acct]
      BY <1>0, <3>2, <3>5
    <3> QED  BY <3>4, <3>6, <3>7
  <2>3. CASE ~(Assigned(u) /\ LastReference(assign[u]))
    BY <2>3 DEF RemoveAssignmentLocked
  <2> QED  BY <2>2, <2>3
<1> QED  BY <1>2, <1>3 DEF AliasStays

\* A failed request takes its channels back from the session, where nobody else has them
LEMMA FailureSilencesNone ==
    ASSUME IInv, CalmInv, NEW p \in Procs, FailSubscribe(p)
    PROVE  AliasStays
<1>0. ProcOK /\ sdk \in [Accounts -> SUBSET Subs]
  BY DEF IInv, TypeOK
<1>1. proc[p].pc = "subscribing"
  BY DEF FailSubscribe
<1>2. PICK k : k = Attempted(p)
  OBVIOUS
<1>3. /\ k \in Keys /\ k.acct = Head(proc[p].cands) /\ k.contract = proc[p].target
      /\ k.mode = proc[p].mode
  BY <1>0, <1>1, <1>2, HeadType DEF Attempted, Keys, ProcOK, InLock, InEnsure, Tasks
<1>4. k.mode = Mode[k.acct] /\ phys[k] = 0
  BY <1>1, <1>2, <1>3 DEF CalmInv, RequestedOnce
<1>5. sdk' = [sdk EXCEPT ![k.acct] = @ \ FirstChannels(k.contract, k.mode, proc[p].ch)]
  BY <1>3 DEF FailSubscribe
<1> SUFFICES ASSUME NEW t \in Tickers, Assigned(t)
             PROVE  Channels(assign[t].contract, assign[t].mode) \cap sdk[assign[t].acct] \subseteq sdk'[assign[t].acct]
  BY DEF AliasStays
<1>6. assign[t] \in Keys /\ phys[assign[t]] >= 1
  BY AssignedCounted
<1>7. assign[t].acct # k.acct \/ assign[t].contract # k.contract
  BY <1>3, <1>4, <1>6, SameKey DEF CalmInv
<1>8. assign[t].contract # k.contract =>
          Channels(assign[t].contract, assign[t].mode) \cap FirstChannels(k.contract, k.mode, proc[p].ch) = {}
  BY DEF Channels, FirstChannels
<1>9. sdk'[assign[t].acct] = IF assign[t].acct = k.acct
                             THEN sdk[assign[t].acct] \ FirstChannels(k.contract, k.mode, proc[p].ch)
                             ELSE sdk[assign[t].acct]
  BY <1>0, <1>5, <1>6 DEF Keys
<1> QED  BY <1>7, <1>8, <1>9

\* The owner of the lock is the only one that may be requesting
LEMMA OwnerRequests ==
    ASSUME ProcOK, LockDiscipline, NEW p \in Procs, holder = p, NEW q,
           proc' = [proc EXCEPT ![p] = q], q.pc \notin Requesting
    PROVE  RequestedOnce'
<1>1. \A x \in Procs : proc'[x].pc \notin Requesting
  BY DEF ProcOK, LockDiscipline, InLock, Requesting
<1> QED  BY <1>1 DEF RequestedOnce, Requesting

\* Requests whose coroutines and counts stay are still the only ones
LEMMA RequestsStay ==
    ASSUME RequestedOnce, UNCHANGED phys,
           \A x \in Procs : proc'[x].pc \in Requesting =>
               /\ proc[x].pc \in Requesting /\ proc'[x].cands = proc[x].cands
               /\ proc'[x].target = proc[x].target /\ proc'[x].mode = proc[x].mode
    PROVE  RequestedOnce'
<1> SUFFICES ASSUME NEW x \in Procs, proc'[x].pc \in Requesting
             PROVE  (proc[x].mode = Mode[Head(proc[x].cands)] /\ phys[Attempted(x)] = 0)'
  BY DEF RequestedOnce, Requesting
<1>1. proc[x].mode = Mode[Head(proc[x].cands)] /\ phys[Attempted(x)] = 0
  BY DEF RequestedOnce, Requesting
<1>2. Attempted(x)' = Attempted(x)
  BY DEF Attempted
<1> QED  BY <1>1, <1>2

\* The channel loop, in the mode of its account and for a key that nobody has
LEMMA SubscribeCalm ==
    ASSUME IInv, CalmInv, NEW p \in Procs, proc[p].pc \in InLock, NEW i, NEW mode \in Modes,
           SubscribeFrom(p, i, mode), mode = Mode[Head(proc[p].cands)],
           phys[[acct |-> Head(proc[p].cands), contract |-> proc[p].target, mode |-> mode]] = 0
    PROVE  OneMode' /\ RequestedOnce' /\ AliasStays
<1>0. /\ ProcOK /\ PoolOK /\ LockDiscipline /\ holder = p /\ ~Assigned(proc[p].ticker)
      /\ sdk \in [Accounts -> SUBSET Subs]
  BY DEF IInv, TypeOK, LockDiscipline
<1>1. PICK k \in Keys : k = [acct |-> Head(proc[p].cands), contract |-> proc[p].target, mode |-> mode]
  BY HeadType DEF IInv
<1>2. k.mode = Mode[k.acct] /\ k.acct \in Accounts /\ k.acct = Head(proc[p].cands)
  BY <1>1 DEF Keys
<1>3. CASE RecordAssignment(proc[p].ticker, k) /\ Return(p) /\ UNCHANGED sdk
  <2>1. \A t \in Tickers : assign'[t] = IF t = proc[p].ticker THEN k ELSE assign[t]
    BY <1>0, <1>3 DEF RecordAssignment, PoolOK
  <2>2. OneMode'
    BY <1>2, <2>1 DEF OneMode, CalmInv, Assigned
  <2>3. Returned(p).pc \notin Requesting
    BY DEF Returned, Idle, Requesting
  <2>4. RequestedOnce'
    <3>1. PICK q : q = Returned(p)
      OBVIOUS
    <3> QED  BY <1>0, <1>3, <2>3, <3>1, OwnerRequests DEF Return
  <2> QED  BY <1>3, <2>2, <2>4 DEF AliasStays
<1>4. ASSUME NEW j, sdk' = [sdk EXCEPT ![k.acct] = @ \cup {<<proc[p].target, ChannelsFor[mode][j]>>}],
             proc' = [proc EXCEPT ![p].pc = "subscribing", ![p].mode = mode,
                                  ![p].ch = j, ![p].live = TRUE],
             UNCHANGED <<assign, phys, aliases, lock>>
      PROVE  OneMode' /\ RequestedOnce' /\ AliasStays
  <2>1. OneMode'
    BY <1>4 DEF OneMode, CalmInv, Assigned
  <2>2. PICK r \in Tasks : r = proc[p]
    BY <1>0 DEF ProcOK
  <2>3. PICK q : q = [r EXCEPT !.pc = "subscribing", !.mode = mode, !.ch = j, !.live = TRUE]
    OBVIOUS
  <2>4. q.mode = mode /\ q.cands = r.cands /\ q.target = r.target
    BY <2>3 DEF Tasks
  <2>5. \A x \in Procs : proc'[x] = IF x = p THEN q ELSE proc[x]
    BY <1>0, <1>4, <2>2, <2>3 DEF ProcOK
  <2>6. \A x \in Procs \ {p} : proc'[x].pc \notin Requesting
    BY <1>0, <2>5 DEF LockDiscipline, InLock, Requesting
  <2>7. Attempted(p)' = k /\ proc'[p].mode = Mode[Head(proc'[p].cands)]
    BY <1>1, <1>2, <2>2, <2>4, <2>5 DEF Attempted
  <2>8. phys'[k] = 0
    BY <1>1, <1>4
  <2>9. RequestedOnce'
    BY <2>6, <2>7, <2>8 DEF RequestedOnce, Requesting
  <2>10. \A a \in Accounts : sdk[a] \subseteq sdk'[a]
    BY <1>0, <1>4
  <2>11. \A t \in Tickers : Assigned(t) => assign[t].acct \in Accounts
    BY <1>0 DEF PoolOK, Assigned, Keys
  <2> QED  BY <2>1, <2>9, <2>10, <2>11 DEF AliasStays
<1> QED  BY <1>1, <1>2, <1>3, <1>4 DEF SubscribeFrom

\* The next candidate has no request yet
LEMMA NextCandidateCalm ==
    ASSUME IInv, NEW p \in Procs, proc[p].pc \in InLock, NextCandidate(p)
    PROVE  RequestedOnce'
<1>0. ProcOK /\ LockDiscipline /\ holder = p
  BY DEF IInv, TypeOK, LockDiscipline
<1>1. PICK r \in Tasks : r = proc[p]
  BY <1>0 DEF ProcOK
<1>2. PICK q : proc' = [proc EXCEPT ![p] = q] /\ (q = Returned(p) \/ q = [r EXCEPT !.pc = "starting", !.cands = Tail(@)])
  BY <1>1 DEF NextCandidate, Return
<1>3. q.pc \notin Requesting
  BY <1>1, <1>2 DEF Returned, Idle, Requesting, Tasks
<1> QED  BY <1>0, <1>2, <1>3, OwnerRequests

LEMMA HelperCalm ==
    ASSUME IInv, CalmInv, NEW p \in Procs, Helper(p)
    PROVE  OneMode' /\ RequestedOnce' /\ AliasStays
<1>0. /\ TypeOK /\ ProcOK /\ PoolOK /\ LockDiscipline /\ OneSession /\ OneMode /\ RequestedOnce
  BY DEF IInv, TypeOK, CalmInv
<1>1. PICK r \in Tasks : r = proc[p]
  BY <1>0 DEF ProcOK
<1>2. ASSUME UNCHANGED <<assign, sdk>>
      PROVE  OneMode' /\ AliasStays
  BY <1>0, <1>2 DEF OneMode, Assigned, AliasStays
<1>3. ASSUME NEW q, proc' = [proc EXCEPT ![p] = q], q.pc \notin Requesting, UNCHANGED phys
      PROVE  RequestedOnce'
  <2>1. \A x \in Procs : proc'[x] = IF x = p THEN q ELSE proc[x]
    BY <1>0, <1>3 DEF ProcOK
  <2> QED  BY <1>0, <1>3, <2>1, RequestsStay
<1>4. Returned(p).pc \notin Requesting
  BY DEF Returned, Idle, Requesting
<1>5. CASE RefreshTickerAssignment(p) \/ ResolveTarget(p)
  <2>1. UNCHANGED <<assign, sdk, phys>>
    BY <1>5 DEF RefreshTickerAssignment, ResolveTarget
  <2>2. CASE Return(p)
    <3>1. PICK q : q = Returned(p)
      OBVIOUS
    <3> QED  BY <1>2, <1>3, <1>4, <2>1, <2>2, <3>1 DEF Return
  <2>3. ASSUME NEW pc \in {"ensure", "removing"}, proc' = [proc EXCEPT ![p].pc = pc]
        PROVE  RequestedOnce'
    <3>1. PICK q : q = [r EXCEPT !.pc = pc]
      OBVIOUS
    <3>2. q.pc \notin Requesting /\ proc' = [proc EXCEPT ![p] = q]
      BY <1>1, <2>3, <3>1 DEF Tasks, Requesting
    <3> QED  BY <1>3, <2>1, <3>2
  <2>4. ASSUME proc' = [proc EXCEPT ![p].pc = "locking", ![p].target = resolve[proc[p].ticker]]
        PROVE  RequestedOnce'
    <3>1. PICK q : q = [r EXCEPT !.pc = "locking", !.target = resolve[proc[p].ticker]]
      OBVIOUS
    <3>2. q.pc \notin Requesting /\ proc' = [proc EXCEPT ![p] = q]
      BY <1>1, <2>4, <3>1 DEF Tasks, Requesting
    <3> QED  BY <1>3, <2>1, <3>2
  <2> QED  BY <1>2, <1>5, <2>1, <2>2, <2>3, <2>4 DEF RefreshTickerAssignment, ResolveTarget
<1>6. CASE RemoveAssignment(p)
  <2>1. proc[p].ticker \in Tickers /\ holder = p /\ RemoveAssignmentLocked(proc[p].ticker) /\ Return(p)
    BY <1>0, <1>6 DEF RemoveAssignment, Holds, ProcOK
  <2>2. PICK q : q = Returned(p)
    OBVIOUS
  <2> QED  BY <1>0, <1>4, <2>1, <2>2, OwnerRequests, RemovalSilencesNone DEF Return
<1>7. CASE ChooseManagers(p)
  <2>1. proc[p].ticker \in Tickers /\ holder = p
    BY <1>0, <1>7 DEF ChooseManagers, Holds, ProcOK
  <2>2. ASSUME Return(p)  PROVE RequestedOnce'
    <3>1. PICK q : q = Returned(p)
      OBVIOUS
    <3> QED  BY <1>0, <1>4, <2>1, <2>2, <3>1, OwnerRequests DEF Return
  <2>3. ASSUME NEW c, proc' = [proc EXCEPT ![p].pc = "starting", ![p].cands = c]
        PROVE  RequestedOnce'
    <3>1. PICK q : q = [r EXCEPT !.pc = "starting", !.cands = c]
      OBVIOUS
    <3>2. q.pc \notin Requesting /\ proc' = [proc EXCEPT ![p] = q]
      BY <1>1, <2>3, <3>1 DEF Tasks, Requesting
    <3> QED  BY <1>0, <2>1, <3>2, OwnerRequests
  <2>4. RequestedOnce'
    BY <1>7, <2>2, <2>3 DEF ChooseManagers
  <2>5. RemoveAssignmentLocked(proc[p].ticker) \/ UNCHANGED <<assign, sdk>>
    BY <1>7 DEF ChooseManagers
  <2> QED  BY <1>0, <1>2, <2>1, <2>4, <2>5, RemovalSilencesNone
<1>8. CASE StartWs(p)
  <2>1. r.pc = "starting" /\ UNCHANGED <<assign, sdk, phys>>
    BY <1>1, <1>8 DEF StartWs
  <2>2. CASE NextCandidate(p)
    <3>1. RequestedOnce'
      BY <1>1, <2>1, <2>2, NextCandidateCalm DEF InLock
    <3> QED  BY <1>2, <2>1, <3>1
  <2>3. CASE proc' = [proc EXCEPT ![p].pc = "started"]
    <3>1. PICK q : q = [r EXCEPT !.pc = "started"]
      OBVIOUS
    <3>2. q.pc \notin Requesting /\ proc' = [proc EXCEPT ![p] = q]
      BY <1>1, <2>3, <3>1 DEF Tasks, Requesting
    <3> QED  BY <1>2, <1>3, <2>1, <3>2
  <2> QED  BY <1>8, <2>2, <2>3 DEF StartWs
<1>9. CASE SubscribeTarget(p)
  <2>1. r.pc = "started" /\ proc[p].pc \in InLock
    BY <1>1, <1>9 DEF SubscribeTarget, InLock
  <2>2. PICK k \in Keys : k = KeyOf(Head(proc[p].cands), proc[p].target)
    BY <1>0, <2>1, HeadType
  <2>3. /\ k.acct = Head(proc[p].cands) /\ k.contract = proc[p].target
        /\ k.acct \in Accounts /\ k.mode = Mode[k.acct] /\ k.mode \in Modes
    BY <1>0, <2>2 DEF KeyOf, Keys, OneSession
  <2>4. k = [acct |-> Head(proc[p].cands), contract |-> proc[p].target, mode |-> k.mode]
    BY <2>2 DEF KeyOf
  <2>5. CASE phys[k] > 0
    <3>1. /\ RecordAssignment(proc[p].ticker, k) /\ Return(p) /\ UNCHANGED sdk
          /\ holder = p
      BY <1>0, <1>9, <2>1, <2>2, <2>5 DEF SubscribeTarget, LockDiscipline
    <3>2. \A t \in Tickers : assign'[t] = IF t = proc[p].ticker THEN k ELSE assign[t]
      BY <1>0, <3>1 DEF RecordAssignment, PoolOK
    <3>3. OneMode'
      BY <1>0, <2>3, <3>2 DEF OneMode, Assigned
    <3>4. PICK q : q = Returned(p)
      OBVIOUS
    <3>5. RequestedOnce'
      BY <1>0, <1>4, <3>1, <3>4, OwnerRequests DEF Return
    <3> QED  BY <3>1, <3>3, <3>5 DEF AliasStays
  <2>6. CASE ~(phys[k] > 0)
    <3>1. phys[k] = 0
      BY <1>0, <2>2, <2>6 DEF PoolOK
    <3>2. PICK mode \in Modes : mode = k.mode
      BY <2>3
    <3>3. SubscribeFrom(p, 1, mode)
      BY <1>9, <2>2, <2>6, <3>2 DEF SubscribeTarget
    <3>4. phys[[acct |-> Head(proc[p].cands), contract |-> proc[p].target, mode |-> mode]] = 0
      BY <2>4, <3>1, <3>2
    <3> QED  BY <2>1, <2>3, <3>2, <3>3, <3>4, SubscribeCalm
  <2> QED  BY <2>5, <2>6
<1>10. CASE NextChannel(p)
  <2>1. r.pc = "acked" /\ proc[p].pc \in InLock
    BY <1>1, <1>10 DEF NextChannel, InLock
  <2>2. PICK mode \in Modes : mode = proc[p].mode
    BY <1>1 DEF Tasks
  <2>3. mode = Mode[Head(proc[p].cands)]
        /\ phys[[acct |-> Head(proc[p].cands), contract |-> proc[p].target, mode |-> mode]] = 0
    BY <1>0, <1>1, <2>1, <2>2 DEF RequestedOnce, Attempted
  <2>4. PICK i : SubscribeFrom(p, i, mode)
    BY <1>10, <2>2 DEF NextChannel
  <2> QED  BY <2>1, <2>3, <2>4, SubscribeCalm
<1>11. CASE FailSubscribe(p)
  <2>1. UNCHANGED assign /\ NextCandidate(p) /\ proc[p].pc \in InLock
    BY <1>11 DEF FailSubscribe, InLock
  <2>2. OneMode'
    BY <1>0, <2>1 DEF OneMode, Assigned
  <2> QED  BY <1>11, <2>1, <2>2, NextCandidateCalm, FailureSilencesNone
<1>12. CASE AckSubscribe(p)
  <2>1. r.pc = "subscribing" /\ UNCHANGED <<assign, sdk, phys>> /\ proc' = [proc EXCEPT ![p].pc = "acked"]
    BY <1>1, <1>12 DEF AckSubscribe
  <2>2. PICK q : q = [r EXCEPT !.pc = "acked"]
    OBVIOUS
  <2>3. q.cands = r.cands /\ q.target = r.target /\ q.mode = r.mode
    BY <2>2 DEF Tasks
  <2>4. \A x \in Procs : proc'[x] = IF x = p THEN q ELSE proc[x]
    BY <1>0, <1>1, <2>1, <2>2 DEF ProcOK
  <2>5. RequestedOnce'
    BY <1>0, <1>1, <2>1, <2>3, <2>4, RequestsStay DEF Requesting
  <2> QED  BY <1>2, <2>1, <2>5
<1> QED  BY <1>5, <1>6, <1>7, <1>8, <1>9, <1>10, <1>11, <1>12 DEF Helper

\* A session that lasts stays up
LEMMA SessionsStay ==
    ASSUME IInv, CalmInv, SessionsLast, [Next]_vars
    PROVE  OneSession'
<1>0. OneSession /\ PoolAssumption /\ session \in [Accounts -> [phase : {"up", "init", "down", "invalid"},
                       mode : Modes, started : BOOLEAN, healthy : BOOLEAN]]
      /\ rebuild \in [pc : {"idle", "next", "login", "rebalance"}, acct : Accounts, left : SUBSET Accounts]
      /\ \A p \in Procs : proc[p].pc \in InLock => Head(proc[p].cands) \in Accounts
  BY PoolAssumption, HeadType DEF CalmInv, IInv, TypeOK, SessionOK
<1>1. \A A \in SUBSET Accounts : ~StartRebuild(A)
  BY <1>0 DEF StartRebuild, NeedsRebuild, Connected, OneSession, SessionsLast
<1>2. ~Rebuilding
  BY <1>0 DEF Rebuilding, BeginLogin, EndLogin, RebalanceAssignments, OneSession
<1>3. ~RestLogin /\ ~RestReinitialize
  BY <1>0 DEF PoolAssumption, RestLogin, RestReinitialize, OneSession
<1>4. \A a \in Accounts : ~Disconnect(a) /\ ~InvalidateSession(a)
  BY DEF Disconnect, InvalidateSession, SessionsLast
<1>5. ASSUME UNCHANGED <<session, rebuild>>  PROVE OneSession'
  BY <1>0, <1>5 DEF OneSession
<1>6. ASSUME NEW p \in Procs, Helper(p)  PROVE OneSession'
  <2>1. CASE StartWs(p)
    <3>1. PICK a \in Accounts : a = Head(proc[p].cands)
      BY <1>0, <2>1 DEF StartWs, InLock
    <3>2. CASE session' = [session EXCEPT ![a].started = TRUE, ![a].healthy = @ \/ ~session[a].started]
      <4>1. PICK u \in [phase : {"up", "init", "down", "invalid"},
                       mode : Modes, started : BOOLEAN, healthy : BOOLEAN] : u = session[a]
        BY <1>0
      <4>2. PICK w : w = [u EXCEPT !.started = TRUE, !.healthy = TRUE]
        OBVIOUS
      <4>3. w.phase = u.phase /\ w.mode = u.mode /\ w.healthy = TRUE
        BY <4>2
      <4>4. u.healthy = TRUE /\ u.phase = "up" /\ u.mode = Mode[a]
        BY <1>0, <4>1 DEF OneSession
      <4>5. session' = [session EXCEPT ![a] = w]
        BY <3>2, <4>1, <4>2, <4>4
      <4>6. \A b \in Accounts : session'[b] = IF b = a THEN w ELSE session[b]
        BY <1>0, <4>5
      <4>7. UNCHANGED rebuild
        BY <2>1 DEF StartWs
      <4>8. ASSUME NEW b \in Accounts
            PROVE  session'[b].phase = "up" /\ session'[b].healthy /\ session'[b].mode = Mode[b]
        <5>1. CASE b = a
          BY <4>3, <4>4, <4>6, <5>1
        <5>2. CASE b # a
          BY <1>0, <4>6, <5>2 DEF OneSession
        <5> QED  BY <5>1, <5>2
      <4> QED  BY <1>0, <4>7, <4>8 DEF OneSession
    <3> QED  BY <1>5, <2>1, <3>1, <3>2 DEF StartWs
  <2>2. CASE AckSubscribe(p)
    <3>1. PICK a \in Accounts : a = Head(proc[p].cands)
      BY <1>0, <2>2 DEF AckSubscribe, InLock
    <3>2. session' = [session EXCEPT ![a].healthy = TRUE] /\ UNCHANGED rebuild
      BY <2>2, <3>1 DEF AckSubscribe
    <3> QED  BY <1>0, <3>2 DEF OneSession
  <2> QED  BY <1>5, <1>6, <2>1, <2>2 DEF Helper, RefreshTickerAssignment, RemoveAssignment, ResolveTarget,
             ChooseManagers, SubscribeTarget, NextChannel, FailSubscribe
<1>7. ASSUME NEW p \in Callers \cup {Rebuilder}, LoopTurn(p)  PROVE OneSession'
  <2>1. rebuild'.pc = "idle"
    BY <1>0, <1>7 DEF LoopTurn, OneSession
  <2> QED  BY <1>0, <1>7, <2>1 DEF LoopTurn, OneSession
<1>8. ASSUME NEW r \in late, LateAck(r)  PROVE OneSession'
  BY <1>0, <1>8 DEF LateAck, OneSession
<1>9. CASE World
  BY <1>3, <1>4, <1>5, <1>8, <1>9 DEF World, Roll
<1>10. CASE User
  BY <1>5, <1>10 DEF User, TrackTicker, UntrackTicker, SetSourceTickers, EnsureSourceTickers
<1>11. ASSUME NEW p \in Watchdogs, RefreshSessionAssignments(p)  PROVE OneSession'
  BY <1>5, <1>11 DEF RefreshSessionAssignments
<1>12. CASE UNCHANGED vars
  BY <1>5, <1>12 DEF vars
<1> QED  BY <1>1, <1>2, <1>3, <1>6, <1>7, <1>9, <1>10, <1>11, <1>12 DEF Next

\* The other steps request nothing and take no channel away
LEMMA OthersCalm ==
    ASSUME IInv, CalmInv, SessionsLast,
           \/ \E p \in Callers \cup {Rebuilder} : LoopTurn(p)
           \/ \E p \in Watchdogs : RefreshSessionAssignments(p)
           \/ User \/ World \/ UNCHANGED vars
    PROVE  OneMode' /\ RequestedOnce' /\ AliasStays
<1>0. /\ ProcOK /\ RequestedOnce /\ OneMode /\ OneSession /\ sdk \in [Accounts -> SUBSET Subs]
      /\ PoolOK /\ Callers \cup {Rebuilder} \cup Watchdogs \cup Consumers \subseteq Procs
  BY DEF IInv, TypeOK, CalmInv, Procs, Callers
<1>1. ~RestReinitialize
  BY <1>0, PoolAssumption DEF PoolAssumption, RestReinitialize, OneSession
<1>2. UNCHANGED <<assign, phys>>
  BY <1>1 DEF LoopTurn, RefreshSessionAssignments, User, TrackTicker, UntrackTicker, SetSourceTickers,
         EnsureSourceTickers, World, LateAck, Disconnect, InvalidateSession, Roll, vars
<1>3. OneMode'
  BY <1>0, <1>2 DEF OneMode, Assigned
<1>4. AliasStays
  <2>1. UNCHANGED sdk \/ \E r \in late : sdk' = [sdk EXCEPT ![r.acct] = @ \cup {r.sub}]
    BY <1>1 DEF LoopTurn, RefreshSessionAssignments, User, TrackTicker, UntrackTicker, SetSourceTickers,
           EnsureSourceTickers, World, LateAck, Disconnect, InvalidateSession, Roll, vars
  <2>2. \A a \in Accounts : sdk[a] \subseteq sdk'[a]
    BY <1>0, <2>1
  <2>3. \A t \in Tickers : Assigned(t) => assign[t].acct \in Accounts
    BY <1>0 DEF PoolOK, Assigned, Keys
  <2> QED  BY <2>2, <2>3 DEF AliasStays
<1>5. ASSUME NEW p \in Procs, NEW q, proc' = [proc EXCEPT ![p] = q], q.pc \notin Requesting
      PROVE  RequestedOnce'
  <2>1. \A x \in Procs : proc'[x] = IF x = p THEN q ELSE proc[x]
    BY <1>0, <1>5 DEF ProcOK
  <2> QED  BY <1>0, <1>2, <1>5, <2>1, RequestsStay
<1>6. ASSUME NEW p \in Callers \cup {Rebuilder}, LoopTurn(p)  PROVE RequestedOnce'
  <2>1. Idle.pc \notin Requesting
    BY DEF Idle, Requesting
  <2>2. ASSUME NEW pc \in {"removing", "refresh", "loop", "ensure"}, NEW x, NEW y
        PROVE  [Idle EXCEPT !.pc = pc, !.ticker = x, !.todo = y].pc \notin Requesting
    BY DEF Idle, Requesting
  <2>3. PICK q : proc' = [proc EXCEPT ![p] = q] /\ q.pc \notin Requesting
    BY <1>6, <2>1, <2>2 DEF LoopTurn, Turn
  <2> QED  BY <1>0, <1>5, <2>3
<1>7. ASSUME NEW p \in Procs, NEW todo, proc' = [proc EXCEPT ![p].pc = "loop", ![p].todo = todo]
      PROVE  RequestedOnce'
  <2>1. PICK r \in Tasks : r = proc[p]
    BY <1>0 DEF ProcOK
  <2>2. PICK q : q = [r EXCEPT !.pc = "loop", !.todo = todo]
    OBVIOUS
  <2>3. q.pc \notin Requesting /\ proc' = [proc EXCEPT ![p] = q]
    BY <1>7, <2>1, <2>2 DEF Tasks, Requesting
  <2> QED  BY <1>5, <2>3
<1>8. ASSUME NEW T \in SUBSET Tickers, NEW h, ScheduleTasks(T, h), \A t \in T : h[t] \in {"ensure", "refresh"}
      PROVE  RequestedOnce'
  <2>1. \A x \in Procs : proc'[x] = IF x \in T THEN [Idle EXCEPT !.pc = h[x], !.ticker = x] ELSE proc[x]
    BY <1>8 DEF ScheduleTasks
  <2>2. \A x \in T : x \in Procs /\ proc'[x].pc = h[x]
    BY <2>1 DEF Idle, Procs
  <2>3. \A x \in T : proc'[x].pc \notin Requesting
    BY <1>8, <2>2 DEF Requesting
  <2> QED  BY <1>0, <1>2, <2>1, <2>3, RequestsStay
<1>9. ASSUME UNCHANGED proc  PROVE RequestedOnce'
  BY <1>0, <1>2, <1>9, RequestsStay
<1>10. CASE User
  <2>1. ASSUME NEW s \in Sources, NEW t \in Tickers, TrackTicker(s, t) \/ UntrackTicker(s, t)
        PROVE  RequestedOnce'
    <3>1. PICK x \in {"ensure", "refresh"} : ScheduleTasks({t}, [u \in {t} |-> x])
      BY <2>1 DEF TrackTicker, UntrackTicker
    <3>2. PICK h : h = [u \in {t} |-> x]
      OBVIOUS
    <3> QED  BY <1>8, <3>1, <3>2
  <2>2. ASSUME NEW s \in Sources, NEW T \in SUBSET Tickers, SetSourceTickers(s, T)
        PROVE  RequestedOnce'
    <3>1. PICK C, h : /\ C = (source[s] \ T) \cup (T \ source[s])
                      /\ h = [t \in C |-> IF t \in T THEN "ensure" ELSE "refresh"]
      OBVIOUS
    <3>2. C \in SUBSET Tickers /\ ScheduleTasks(C, h)
      BY <2>2, <3>1 DEF SetSourceTickers, IInv, TypeOK
    <3>3. \A t \in C : h[t] \in {"ensure", "refresh"}
      BY <3>1
    <3> QED  BY <1>8, <3>2, <3>3
  <2>3. ASSUME NEW p \in Consumers, NEW s \in Sources, NEW T \in SUBSET Tickers, EnsureSourceTickers(p, s, T)
        PROVE  RequestedOnce'
    BY <1>0, <1>7, <2>3 DEF EnsureSourceTickers
  <2> QED  BY <1>3, <1>4, <1>10, <2>1, <2>2, <2>3 DEF User
<1>11. ASSUME NEW p \in Watchdogs, RefreshSessionAssignments(p)  PROVE RequestedOnce'
  BY <1>0, <1>7, <1>11 DEF RefreshSessionAssignments
<1>12. CASE World
  <2>1. UNCHANGED proc
    BY <1>1, <1>12 DEF World, LateAck, Disconnect, InvalidateSession, Roll
  <2> QED  BY <1>3, <1>4, <1>9, <2>1
<1>13. CASE UNCHANGED vars
  BY <1>3, <1>4, <1>9, <1>13 DEF vars
<1> QED  BY <1>3, <1>4, <1>6, <1>10, <1>11, <1>12, <1>13

\* While the sessions last, an assignment that stays keeps its channels: neither the removal of another
\* alias of its contract nor the clean-up after another attempt takes them
\* (backend/fubon_realtime_pool.py, _remove_assignment_locked and _subscribe_target_on_manager).
THEOREM AliasesKeepChannels == ASSUME SessionsLast PROVE Spec => NoSilencedAlias
<1>1. Init => CalmInv
  BY DEF Init, CalmInv, OneSession, OneMode, RequestedOnce, Assigned, Idle
<1>2. IInv /\ CalmInv /\ [Next]_vars => CalmInv' /\ AliasStays
  <2> SUFFICES ASSUME IInv, CalmInv, [Next]_vars  PROVE CalmInv' /\ AliasStays
    OBVIOUS
  <2>1. OneSession'
    BY SessionsStay
  <2>2. (\A A \in SUBSET Accounts : ~StartRebuild(A)) /\ ~Rebuilding /\ ~RestLogin
    BY PoolAssumption DEF CalmInv, OneSession, PoolAssumption, SessionsLast, StartRebuild, NeedsRebuild,
       Connected, Rebuilding, BeginLogin, EndLogin, RebalanceAssignments, RestLogin
  <2>3. OneMode' /\ RequestedOnce' /\ AliasStays
    BY <2>2, HelperCalm, OthersCalm DEF Next
  <2> QED  BY <2>1, <2>3 DEF CalmInv
<1>3. AliasStays =>
        \A t \in Tickers :
          Assigned(t) /\ assign'[t] = assign[t] =>
            LET k == assign[t]
            IN Connected(k.acct) /\ session[k.acct].healthy =>
                 \/ Channels(k.contract, k.mode) \cap sdk[k.acct] \subseteq sdk'[k.acct]
                 \/ session'[k.acct].phase = "init"
  BY DEF AliasStays
<1> QED  BY <1>1, <1>2, <1>3, InductiveInvariant, PTL DEF Spec, NoSilencedAlias

=============================================================================
