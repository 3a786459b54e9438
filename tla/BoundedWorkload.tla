--------------------------- MODULE BoundedWorkload ---------------------------
(***************************************************************************)
(* BoundedWorkloadExecutor (backend/workload_executor.py): requests hand   *)
(* synchronous work to a small pool of workers.  A slot of an              *)
(* asyncio.Semaphore admits a request; the slot is released when the       *)
(* worker has finished, not when the request gives up.                     *)
(*                                                                         *)
(* An action is the code of run() between two awaits, a callback of the    *)
(* event loop, or a step of a worker.  A request id stands for one call of *)
(* run() and the work it started, and is used again when both are over.    *)
(* shutdown() ends a generation (an executor and its semaphore); a later   *)
(* run() starts the next.  shutdown() is called once, as the lifespan does.*)
(***************************************************************************)
EXTENDS Naturals, Sequences, FiniteSets

CONSTANTS
    Requests,       \* concurrent calls of run()
    MaxWorkers,     \* max_workers
    Generations,    \* bound: how many times startup() builds an executor
    Faults          \* "timeout", "cancel", "break", "shutdown": what may happen

ASSUME WorkloadAssumption ==
    /\ IsFiniteSet(Requests)
    /\ MaxWorkers \in Nat \ {0}
    /\ IsFiniteSet(Generations) /\ Generations = 1..Cardinality(Generations) /\ Generations # {}
    /\ Faults \subseteq {"timeout", "cancel", "break", "shutdown"}

VARIABLES
    pc,         \* the await each call is suspended in
    gen,        \* the generation whose semaphore it captured, 1 while it is idle
    job,        \* its work: "none", "working", or "finished" and not yet noticed
    host,       \* the executor the work was handed to, 0 for the loop's default one or while idle
    value,      \* _value of each generation's semaphore
    queue,      \* its waiters that have not been woken, in order
    executor,   \* the generation _executor belongs to, 0 for None
    built,      \* how many generations startup() has built
    broken,     \* the process pools that lost a worker
    closing,    \* progress of shutdown()
    active      \* _active

calls == <<pc, gen, job, host>>
semaphore == <<value, queue>>
vars == <<calls, semaphore, executor, built, broken, closing, active>>

-----------------------------------------------------------------------------
(* asyncio.Semaphore                                                       *)

Granted(g) == {r \in Requests : pc[r] = "granted" /\ gen[r] = g}
Working(g) == {r \in Requests : job[r] = "working" /\ host[r] = g}
Holders(g) == {r \in Requests : job[r] # "none" /\ gen[r] = g}

\* Semaphore.locked: a newcomer waits behind a waiter that was woken and has not
\* run yet, even when there is a free slot
Locked(g) == value[g] = 0 \/ queue[g] # <<>> \/ Granted(g) # {}

\* The loop _wake_next of acquire(): v free slots go to the first waiters of q
\* Woken names those, whatever becomes of the request that wakes them
Woken(v, q) == {q[i] : i \in {j \in DOMAIN q : j <= v}}
SlotsAfter(v, q) == IF v <= Len(q) THEN 0 ELSE v - Len(q)
QueueAfter(v, q) == IF v <= Len(q) THEN SubSeq(q, v + 1, Len(q)) ELSE <<>>

\* v slots of generation g are shared out among the waiters q, and r goes on to p
ShareOut(g, v, q, r, p) ==
    /\ value' = [value EXCEPT ![g] = SlotsAfter(v, q)]
    /\ queue' = [queue EXCEPT ![g] = QueueAfter(v, q)]
    /\ pc' = [s \in Requests |-> IF s \in Woken(v, q) THEN "granted"
                                 ELSE IF s = r THEN p ELSE pc[s]]

\* What r captured is gone with its call
Forgets(r) == gen' = [gen EXCEPT ![r] = 1] /\ host' = [host EXCEPT ![r] = 0]

\* release_slot: one slot back, to the first waiter if there is one
ReleaseSlot(r) ==
    LET g == gen[r]
        v == IF queue[g] = <<>> THEN 0 ELSE 1
    IN /\ value' = [value EXCEPT ![g] = @ + 1 - v]
       /\ queue' = [queue EXCEPT ![g] = QueueAfter(v, @)]
       /\ pc' = [s \in Requests |-> IF s \in Woken(v, queue[g]) THEN "granted"
                                    ELSE IF s = r THEN "idle" ELSE pc[s]]
       /\ job' = [job EXCEPT ![r] = "none"]
       /\ Forgets(r)
       /\ active' = IF active = 0 THEN 0 ELSE active - 1

-----------------------------------------------------------------------------
(* run()                                                                   *)

Init ==
    /\ pc = [r \in Requests |-> "idle"] /\ gen = [r \in Requests |-> 1]
    /\ job = [r \in Requests |-> "none"] /\ host = [r \in Requests |-> 0]
    /\ value = [g \in Generations |-> MaxWorkers]
    /\ queue = [g \in Generations |-> <<>>]
    /\ executor = 0 /\ built = 0 /\ broken = {} /\ closing = "no" /\ active = 0

\* run_in_executor, to the executor that is there now: a broken process pool
\* raises before the try block that releases the slot
\* Its semaphore is that of generation g
Submit(r, e, g) ==
    /\ active' = active + 1
    /\ IF e \in broken THEN Forgets(r) /\ UNCHANGED job
       ELSE /\ gen' = [gen EXCEPT ![r] = g] /\ host' = [host EXCEPT ![r] = e]
            /\ job' = [job EXCEPT ![r] = "working"]

AfterSubmit(e) == IF e \in broken THEN "idle" ELSE "running"

\* run() up to its first await: startup() if there is no executor, then a slot or
\* a place in the queue
Run(r) ==
    LET g == IF executor = 0 THEN built + 1 ELSE executor
    IN /\ pc[r] = "idle" /\ job[r] = "none"
       /\ g \in Generations
       /\ executor' = g
       /\ built' = IF executor = 0 THEN g ELSE built
       /\ \/ /\ Locked(g)
             /\ gen' = [gen EXCEPT ![r] = g]
             /\ queue' = [queue EXCEPT ![g] = Append(@, r)]
             /\ pc' = [pc EXCEPT ![r] = "waiting"]
             /\ UNCHANGED <<value, job, host, active>>
          \/ /\ ~Locked(g)
             /\ value' = [value EXCEPT ![g] = @ - 1]
             /\ Submit(r, g, g)
             /\ pc' = [pc EXCEPT ![r] = AfterSubmit(g)]
             /\ UNCHANGED queue
       /\ UNCHANGED <<broken, closing>>

\* The end of acquire(): free slots go to those who queued behind r
WakesOthers(r) ==
    ShareOut(gen[r], value[gen[r]], queue[gen[r]], r, AfterSubmit(executor))

\* A waiter that was woken runs, and hands its work to _executor
Resume(r) ==
    /\ pc[r] = "granted"
    /\ WakesOthers(r)
    /\ Submit(r, executor, gen[r])
    /\ UNCHANGED <<executor, built, broken, closing>>

\* The budget of a waiting call is over, or it is cancelled
Withdraw(r) ==
    LET g == gen[r]
    IN /\ Faults \cap {"timeout", "cancel"} # {}
       /\ \/ /\ pc[r] = "waiting"
             /\ \E i \in DOMAIN queue[g] :
                   /\ queue[g][i] = r
                   /\ ShareOut(g, value[g], SubSeq(queue[g], 1, i - 1)
                                   \o SubSeq(queue[g], i + 1, Len(queue[g])), r, "idle")
          \/ /\ pc[r] = "granted"
             /\ ShareOut(g, value[g] + 1, queue[g], r, "idle")
       /\ Forgets(r)
       /\ UNCHANGED <<job, executor, built, broken, closing, active>>

\* mutant: the slot is released with the request, while the work goes on
ReleasesNow(r) ==
    /\ ShareOut(gen[r], value[gen[r]] + 1, queue[gen[r]], r, "left")
    /\ UNCHANGED <<gen, job, host, active>>

\* mutant: no callback is added, the slot is never released
ForgetsSlot(r) ==
    /\ pc' = [pc EXCEPT ![r] = "idle"] /\ job' = [job EXCEPT ![r] = "none"]
    /\ UNCHANGED <<gen, host, semaphore, active>>

\* The call ends before its work, which keeps the slot until its callback runs
LeavesWork(r) ==
    /\ pc' = [pc EXCEPT ![r] = "left"]
    /\ UNCHANGED <<gen, job, host, semaphore, active>>

TimeOut(r) ==
    /\ "timeout" \in Faults
    /\ pc[r] = "running"
    /\ LeavesWork(r)
    /\ UNCHANGED <<executor, built, broken, closing>>

Cancel(r) ==
    /\ "cancel" \in Faults
    /\ pc[r] = "running"
    /\ \/ job[r] = "working" /\ LeavesWork(r)
       \/ job[r] = "finished" /\ ReleaseSlot(r)
    /\ UNCHANGED <<executor, built, broken, closing>>

\* run() returns or raises what the work did, or release_slot is called back
Finish(r) ==
    /\ pc[r] \in {"running", "left"} /\ job[r] = "finished"
    /\ ReleaseSlot(r)
    /\ UNCHANGED <<executor, built, broken, closing>>

-----------------------------------------------------------------------------
(* Workers                                                                 *)

WorkerDone(r) ==
    /\ job[r] = "working"
    /\ job' = [job EXCEPT ![r] = "finished"]
    /\ UNCHANGED <<pc, gen, host, semaphore, executor, built, broken, closing, active>>

\* A worker process dies: its pool fails all its work and takes no more
Break(e) ==
    /\ "break" \in Faults
    /\ e \in 1..built \ broken
    /\ broken' = broken \cup {e}
    /\ job' = [r \in Requests |-> IF r \in Working(e) THEN "finished" ELSE job[r]]
    /\ UNCHANGED <<pc, gen, host, semaphore, executor, built, closing, active>>

-----------------------------------------------------------------------------
(* shutdown()                                                              *)

Shutdown ==
    /\ "shutdown" \in Faults
    /\ closing = "no" /\ executor # 0
    /\ executor' = 0 /\ closing' = "closing"
    /\ UNCHANGED <<calls, semaphore, built, broken, active>>

\* The executor has joined its workers in a thread
ShutdownReturns ==
    /\ closing = "closing" /\ Working(1) = {}
    /\ closing' = "done" /\ active' = 0
    /\ UNCHANGED <<calls, semaphore, executor, built, broken>>

-----------------------------------------------------------------------------
Progress(r) == Resume(r) \/ Finish(r) \/ WorkerDone(r)

Next ==
    \/ \E r \in Requests : Run(r) \/ Withdraw(r) \/ TimeOut(r) \/ Cancel(r)
    \/ \E r \in Requests : Progress(r)
    \/ \E e \in Generations : Break(e)
    \/ Shutdown \/ ShutdownReturns

Spec == Init /\ [][Next]_vars

\* The event loop runs what is ready, and the work given to a worker ends
LiveSpec == Spec /\ \A r \in Requests : WF_vars(Progress(r))

-----------------------------------------------------------------------------
(* Properties                                                              *)

SlotAccount(g) == value[g] + Cardinality(Granted(g)) + Cardinality(Holders(g))

\* Every variable keeps to the values the code gives it, and a semaphore's queue
\* lists its waiting calls.
TypeOK ==
    /\ pc \in [Requests -> {"idle", "waiting", "granted", "running", "left"}]
    /\ gen \in [Requests -> Generations]
    /\ job \in [Requests -> {"none", "working", "finished"}]
    /\ host \in [Requests -> Generations \cup {0}]
    /\ value \in [Generations -> Nat]
    /\ queue \in [Generations -> Seq(Requests)]
    /\ \A g \in Generations, r \in Requests :
          (\E i \in DOMAIN queue[g] : queue[g][i] = r) <=> pc[r] = "waiting" /\ gen[r] = g
    /\ \A r \in Requests : pc[r] \in {"running", "left"} <=> job[r] # "none"
    /\ executor \in {0, built} /\ built \in Generations \cup {0}
    /\ broken \subseteq 1..built
    /\ closing \in {"no", "closing", "done"}
    /\ active \in Nat

\* A slot is free, promised to one waiter, or held by one piece of work: timeouts
\* and cancellations, also of a waiter that has just been woken, neither lose a
\* slot nor make one.  Only a broken pool may lose some.
SlotsConserved ==
    \A g \in Generations : /\ SlotAccount(g) <= MaxWorkers
                           /\ broken = {} => SlotAccount(g) = MaxWorkers

\* _active counts the work the workers still have, abandoned work included, until
\* a pool breaks or a shutdown resets it.
ActiveExact ==
    broken = {} /\ closing # "done" =>
        active = Cardinality({r \in Requests : job[r] # "none"})

\* The slots add up, the work is counted, and every variable keeps to its type.
SlotsExact == TypeOK /\ SlotsConserved /\ ActiveExact

\* The executor of the lifespan keeps to its hard worker cap, whatever times out or
\* is cancelled and whatever a restart leaves behind.
Cap == INSTANCE WorkerCap WITH running <- Working(1)
CapRespected == Cap!Spec

\* A call that waits for a slot is admitted or gives up: the workers' ends reach it.
EventuallyAdmitted ==
    \A r \in Requests : pc[r] = "waiting" ~> (pc[r] # "waiting" \/ broken # {})

\* The semaphore is held until the worker really finishes, and no longer.
NoLeakedSlot == \A g \in Generations : SlotAccount(g) = MaxWorkers

=============================================================================
