--------------------------- MODULE FutoptRecorder ---------------------------
(***************************************************************************)
(* The recorder of futures candles (FutoptCandleRecorder in                *)
(* backend/futopt_history_service.py).                                     *)
(*                                                                         *)
(* One task starts and stops the recording with the trading session.  The  *)
(* SDK's thread hands each candle to a handler, which schedules a callback *)
(* that puts it in a bounded queue; a consumer task stores what is queued. *)
(* Every await of these tasks is a step boundary; the scheduler may cancel *)
(* the recording task at any of them.                                      *)
(***************************************************************************)
EXTENDS Naturals, Sequences, FiniteSets

CONSTANTS
    QueueMax,
    MaxCandles, MaxSessions, MaxShifts, MaxRaises      \* bounds

ASSUME RecorderAssumption ==
    /\ QueueMax \in Nat \ {0}
    /\ MaxCandles \in Nat /\ MaxSessions \in Nat /\ MaxShifts \in Nat /\ MaxRaises \in Nat

VARIABLES
    session, sessions,  \* is it trading time, and how often it has begun
    ready, shifts,      \* does the pool serve the subscriptions, and how often that changed
    held,               \* the pool keeps the recorder's tickers under its source
    handlers,           \* handlers of the recorder registered with the pool
    recorder,           \* the fields of the object
    loop,               \* the task that runs it
    consumer,           \* the consumer task
    callbacks,          \* candles scheduled by the handler, not yet queued
    queue, unfinished,  \* the queue and its count for join
    fate,               \* what became of each candle
    late                \* the candles queued when the recorder had no handler any more

frPool == <<session, sessions, ready, shifts, held, handlers>>
frQueue == <<callbacks, queue, unfinished, fate, late>>
frVars == <<session, sessions, ready, shifts, held, handlers, recorder, loop, consumer, callbacks, queue, unfinished, fate, late>>

Candles == 1..MaxCandles
QueueOpen == recorder.queue

FrInit ==
    /\ session = FALSE /\ sessions = 0 /\ ready \in BOOLEAN /\ shifts = 0
    /\ held = FALSE /\ handlers = 0
    /\ recorder = [active |-> FALSE, handler |-> FALSE, source |-> FALSE, subscribed |-> FALSE, queue |-> FALSE]
    /\ loop = [pc |-> "asleep", saw |-> FALSE, final |-> FALSE, timedOut |-> FALSE, raised |-> 0]
    /\ consumer = [pc |-> "none", candle |-> 0]
    /\ callbacks = <<>> /\ queue = <<>> /\ unfinished = 0
    /\ fate = [c \in Candles |-> "unseen"] /\ late = {}

-----------------------------------------------------------------------------
(* The session, the pool and the thread of the SDK                         *)

Opens == /\ ~session /\ sessions < MaxSessions
         /\ session' = TRUE /\ sessions' = sessions + 1
         /\ UNCHANGED <<ready, shifts, held, handlers, recorder, loop, consumer>> /\ UNCHANGED frQueue
Closes == /\ session /\ session' = FALSE
          /\ UNCHANGED <<sessions, ready, shifts, held, handlers, recorder, loop, consumer>> /\ UNCHANGED frQueue
Shift == /\ shifts < MaxShifts /\ shifts' = shifts + 1 /\ ready' = ~ready
         /\ UNCHANGED <<session, sessions, held, handlers, recorder, loop, consumer>> /\ UNCHANGED frQueue

Candle(c) ==
    /\ handlers > 0 /\ fate[c] = "unseen" /\ \A d \in 1..(c - 1) : fate[d] # "unseen"
    /\ fate' = [fate EXCEPT ![c] = "scheduled"]
    /\ callbacks' = Append(callbacks, c)
    /\ UNCHANGED frPool /\ UNCHANGED <<recorder, loop, consumer, queue, unfinished, late>>

Full == Len(queue) >= QueueMax

\* mutant: the candle that makes room is not counted as done
DropUncounted(n) == n
DropCounted(n) == n - 1

\* _enqueue_latest: the oldest candle makes room for the newest
PutCandle ==
    /\ callbacks # <<>> /\ callbacks' = Tail(callbacks)
    /\ LET c == Head(callbacks) IN
       IF ~QueueOpen
       THEN fate' = [fate EXCEPT ![c] = "ignored"] /\ UNCHANGED <<queue, unfinished, late>>
       ELSE /\ late' = IF recorder.handler THEN late ELSE late \cup {c}
            /\ IF Full
               THEN /\ queue' = Append(Tail(queue), c)
                    /\ unfinished' = DropCounted(unfinished) + 1
                    /\ fate' = [fate EXCEPT ![c] = "queued", ![Head(queue)] = "dropped"]
               ELSE /\ queue' = Append(queue, c) /\ unfinished' = unfinished + 1
                    /\ fate' = [fate EXCEPT ![c] = "queued"]
    /\ UNCHANGED frPool /\ UNCHANGED <<recorder, loop, consumer>>

-----------------------------------------------------------------------------
(* _consume                                                                *)

FirstIn(q) == [candle |-> Head(q), rest |-> Tail(q)]

Consume ==
    /\ consumer.pc = "waiting" /\ queue # <<>>
    /\ LET next == FirstIn(queue) IN
       /\ consumer' = [pc |-> "storing", candle |-> next.candle]
       /\ queue' = next.rest /\ fate' = [fate EXCEPT ![next.candle] = "held"]
    /\ UNCHANGED frPool /\ UNCHANGED <<recorder, loop, callbacks, unfinished, late>>

\* _process_message: the row is stored under every alias, or the database fails
Stored(ok) ==
    /\ consumer.pc = "storing"
    /\ consumer' = [pc |-> "waiting", candle |-> 0] /\ unfinished' = unfinished - 1
    /\ fate' = [fate EXCEPT ![consumer.candle] = IF ok THEN "stored" ELSE "failed"]
    /\ UNCHANGED frPool /\ UNCHANGED <<recorder, loop, callbacks, queue, late>>

-----------------------------------------------------------------------------
(* start_ws                                                                *)

\* What is left in a queue that is given up
Abandoned == [c \in Candles |-> IF fate[c] \in {"queued", "held"} THEN "lost" ELSE fate[c]]

\* A new queue and a new handler; then the pool is asked for the subscriptions
StartBegins ==
    /\ handlers' = handlers + 1 /\ held' = TRUE
    /\ recorder' = [recorder EXCEPT !.handler = TRUE, !.queue = TRUE]
    /\ queue' = <<>> /\ unfinished' = 0
    /\ loop' = [loop EXCEPT !.pc = "starting", !.saw = TRUE]
    /\ UNCHANGED <<session, sessions, ready, shifts, consumer, callbacks, fate, late>>

StartEnds ==
    /\ loop.pc = "starting"
    /\ IF ready
       THEN /\ recorder' = [active |-> TRUE, handler |-> TRUE, source |-> TRUE, subscribed |-> TRUE, queue |-> TRUE]
            /\ consumer' = [pc |-> "waiting", candle |-> 0]
            /\ UNCHANGED <<handlers, queue, unfinished, fate>>
       ELSE \* deferred: what came in meanwhile is given up with the queue
            /\ recorder' = [recorder EXCEPT !.handler = FALSE, !.source = TRUE, !.subscribed = FALSE, !.queue = FALSE]
            /\ handlers' = handlers - 1 /\ queue' = <<>> /\ unfinished' = 0
            /\ fate' = [c \in Candles |-> IF fate[c] = "queued" THEN "deferred" ELSE fate[c]]
            /\ UNCHANGED consumer
    /\ loop' = [loop EXCEPT !.pc = IF ready THEN "checking" ELSE "asleep"]
    /\ UNCHANGED <<session, sessions, ready, shifts, held, callbacks, late>>

\* The pool raises: the task leaves its loop
Raises ==
    /\ loop.pc \in {"starting", "renewing"} /\ loop.raised < MaxRaises
    /\ loop' = [loop EXCEPT !.pc = "finally", !.final = TRUE, !.raised = @ + 1]
    /\ UNCHANGED frPool /\ UNCHANGED <<recorder, consumer>> /\ UNCHANGED frQueue

-----------------------------------------------------------------------------
(* run                                                                     *)

\* mutant: only a recorder with subscriptions is stopped
SubscribedOnly == ~session /\ recorder.subscribed
MustStop == ~session /\ recorder.active

Poll ==
    /\ loop.pc = "asleep"
    /\ IF session /\ ~recorder.active THEN StartBegins
       ELSE /\ loop' = [loop EXCEPT !.saw = session, !.pc = IF MustStop THEN "stopping" ELSE "checking"]
            /\ UNCHANGED frPool /\ UNCHANGED <<recorder, consumer>> /\ UNCHANGED frQueue

\* A recorder whose subscriptions are gone asks for them again
Check ==
    /\ loop.pc = "checking"
    /\ loop' = [loop EXCEPT !.pc = IF loop.saw /\ recorder.active /\ ~ready THEN "renewing" ELSE "asleep"]
    /\ recorder' = [recorder EXCEPT !.subscribed = IF loop.saw /\ recorder.active THEN ready ELSE @]
    /\ UNCHANGED frPool /\ UNCHANGED consumer /\ UNCHANGED frQueue
Renew ==
    /\ loop.pc = "renewing"
    /\ recorder' = [recorder EXCEPT !.subscribed = ready] /\ loop' = [loop EXCEPT !.pc = "asleep"]
    /\ UNCHANGED frPool /\ UNCHANGED consumer /\ UNCHANGED frQueue

\* The scheduler cancels the task: whatever it awaits, finally stops the recording
CancelRun ==
    /\ ~loop.final /\ loop.pc # "ended"
    /\ loop' = [loop EXCEPT !.pc = "finally", !.final = TRUE]
    /\ UNCHANGED frPool /\ UNCHANGED <<recorder, consumer>> /\ UNCHANGED frQueue

-----------------------------------------------------------------------------
(* stop_ws                                                                 *)

NothingToStop == ~recorder.active /\ ~recorder.handler /\ ~recorder.source

Finally ==
    /\ loop.pc = "finally"
    /\ loop' = [loop EXCEPT !.pc = IF NothingToStop THEN "ended" ELSE "stopping"]
    /\ UNCHANGED frPool /\ UNCHANGED <<recorder, consumer>> /\ UNCHANGED frQueue

\* The pool has let go of the tickers: the handler goes, and the queue drains
Released ==
    /\ loop.pc = "stopping"
    /\ held' = FALSE /\ handlers' = IF recorder.handler THEN handlers - 1 ELSE handlers
    /\ recorder' = [recorder EXCEPT !.source = FALSE, !.handler = FALSE]
    /\ loop' = [loop EXCEPT !.pc = "draining"]
    /\ UNCHANGED <<session, sessions, ready, shifts, consumer>> /\ UNCHANGED frQueue

QueueJoined == QueueOpen => unfinished = 0

\* join returns, or the time for it is over
Drained(timedOut) ==
    /\ loop.pc = "draining" /\ (timedOut = ~QueueJoined)
    /\ loop' = [loop EXCEPT !.pc = "cancelling", !.timedOut = @ \/ timedOut]
    /\ UNCHANGED frPool /\ UNCHANGED <<recorder, consumer>> /\ UNCHANGED frQueue

\* The consumer is cancelled, in the middle of a row if it must
Stops ==
    /\ loop.pc = "cancelling"
    /\ consumer' = [pc |-> "none", candle |-> 0]
    /\ queue' = <<>> /\ unfinished' = 0 /\ fate' = Abandoned
    /\ recorder' = [recorder EXCEPT !.active = FALSE, !.subscribed = FALSE, !.queue = FALSE]
    /\ loop' = [loop EXCEPT !.pc = IF loop.final THEN "ended" ELSE "checking"]
    /\ UNCHANGED frPool /\ UNCHANGED <<callbacks, late>>

-----------------------------------------------------------------------------
LoopStep == Poll \/ StartEnds \/ Check \/ Renew \/ Finally \/ Released \/ Stops \/ \E b \in BOOLEAN : Drained(b)

FrNext ==
    \/ Opens \/ Closes \/ Shift \/ PutCandle \/ Consume \/ Raises \/ CancelRun \/ LoopStep
    \/ \E c \in Candles : Candle(c)
    \/ \E ok \in BOOLEAN : Stored(ok)

\* The task is scheduled: its sleeps end and the pool and the queue answer or time out
FrSpec == FrInit /\ [][FrNext]_frVars /\ WF_frVars(LoopStep)

-----------------------------------------------------------------------------
(* What the recorder promises                                              *)

\* Types, and only an active recorder or one that starts or stops has a queue
FrTypeOK ==
    /\ handlers \in 0..MaxSessions + 1 /\ unfinished \in 0..QueueMax + 1
    /\ QueueOpen => Len(queue) <= QueueMax /\ (recorder.active \/ loop.pc # "asleep")
    /\ ~QueueOpen => consumer.pc = "none"

\* The pool never has more than the recorder's own handler, however starts are deferred,
\* raise or are cancelled; once the task has ended the pool is rid of it
HandlerOwned ==
    /\ handlers = IF recorder.handler THEN 1 ELSE 0
    /\ loop.pc = "ended" => handlers = 0 /\ ~held

\* The count join waits for is what is queued and what the consumer holds, although full
\* queues drop candles behind its back
QueueCounted ==
    QueueOpen => unfinished = Len(queue) + (IF consumer.pc = "storing" THEN 1 ELSE 0)

\* A stop whose drain did not time out loses no candle queued while the handler was registered
StopStoresAll ==
    ~loop.timedOut => \A c \in Candles : fate[c] = "lost" => c \in late

\* The candles are stored in the order they came: an older one is never stored after a newer
NoneOvertakes ==
    consumer.pc = "storing" => \A c \in Candles : c > consumer.candle => fate[c] \notin {"stored", "failed", "held"}

\* In a session, with the pool ready, a recorder that still runs becomes active; out of a
\* session it ceases to be
RecordsSession ==
    /\ (session /\ ready /\ ~loop.final) ~> (recorder.active \/ ~session \/ ~ready \/ loop.final)
    /\ (~session /\ recorder.active) ~> (~recorder.active \/ session)

\* Every candle taken is queued, stored, or counted as given up, in order, and the handler is
\* registered for one recorder
CandlesAccounted ==
    /\ FrTypeOK /\ HandlerOwned /\ QueueCounted /\ StopStoresAll /\ NoneOvertakes

=============================================================================
