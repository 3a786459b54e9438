----------------------------- MODULE BotRuntime -----------------------------
(***************************************************************************)
(* The running paper trading bots (backend/routers/paper_trading.py and    *)
(* start/stop of bot_runner.py): requests and the autostart task start and *)
(* stop instances, keep the table of active bots and write the bots' rows. *)
(*                                                                         *)
(* An action is the code of a handler between two awaits.  Instances, the  *)
(* table and the pool's handlers live in memory; rows and fills survive a  *)
(* restart.  Any database or provider call may fail.                       *)
(***************************************************************************)
EXTENDS Naturals, FiniteSets

CONSTANTS
    Bots, BotRequests,      \* bots, and requests under way at once
    Autostart,              \* the autostart task, as a caller of the start routine
    MaxInstances,           \* bound: instances built between two restarts
    MaxAttempts,            \* autostart attempts
    MaxBoots                \* bound: how often the process starts

ASSUME BotAssumption ==
    Bots # {} /\ Autostart \notin BotRequests /\ MaxInstances \in Nat /\ MaxAttempts \in Nat \ {0}

VARIABLES
    row,        \* the status column of each bot, or "gone"
    activeBots, \* _active_bots
    inst,       \* the instances: bot, status, whether a handler is registered
    op,         \* what each caller is doing: the last thing done before its await
    auto,       \* the autostart task: phase, bots to start, attempt, failures
    process,    \* whether the process runs, and how often it was started
    saved,      \* how often the fills of an instance were stored
    raced,      \* bots whose requests have overlapped
    halfStopped \* bots whose stop failed on its way

brVars == <<row, activeBots, inst, op, auto, process, saved, raced, halfStopped>>

BotInstances == 1..MaxInstances
NoInstance == 0
BotCallers == BotRequests \cup {Autostart}
Idle == [pc |-> "idle", bot |-> CHOOSE b \in Bots : TRUE, inst |-> NoInstance]
NoBot(b) == [bot |-> b, status |-> "none", handler |-> FALSE]

Busy(p, b) == op[p].pc # "idle" /\ op[p].bot = b
BotRuns(b) == activeBots[b] # NoInstance /\ inst[activeBots[b]].status = "running"
WriteRow(b, s) == row' = [row EXCEPT ![b] = IF @ = "gone" THEN @ ELSE s]
Overlap(p, b) == raced' = IF \E q \in BotCallers \ {p} : Busy(q, b) THEN raced \cup {b} ELSE raced
Moves(p, pc) == op' = [op EXCEPT ![p].pc = pc]

BrInit ==
    /\ row \in [Bots -> {"idle", "running"}]
    /\ activeBots = [b \in Bots |-> NoInstance]
    /\ inst = [i \in BotInstances |-> NoBot(CHOOSE b \in Bots : TRUE)]
    /\ op = [p \in BotCallers |-> Idle]
    /\ auto = [phase |-> "off", todo |-> {}, attempt |-> 0, failed |-> FALSE]
    /\ process = [up |-> FALSE, boots |-> 0]
    /\ saved = [i \in BotInstances |-> 0]
    /\ raced = {} /\ halfStopped = {}

-----------------------------------------------------------------------------
(* _start_paper_trading_bot_by_id                                          *)

\* mutant: a bot that runs is started again
AlwaysStarts(b) == TRUE
MayStart(b) == row[b] # "gone" /\ ~BotRuns(b)

\* The row is read, a running bot is left alone; then account, margin, contracts and
\* warm-up bars are awaited
StartBegins(p, b) ==
    /\ op[p].pc = "idle"
    /\ op' = IF MayStart(b) THEN [op EXCEPT ![p] = [pc |-> "preparing", bot |-> b, inst |-> NoInstance]]
             ELSE op
    /\ Overlap(p, b)
    /\ UNCHANGED <<row, activeBots, inst, process, saved, halfStopped>>

\* The instance is built, registers its handler and becomes the active one
StartRegisters(p) ==
    /\ op[p].pc = "preparing"
    /\ \E i \in BotInstances :
          /\ inst[i].status = "none" /\ \A j \in 1..(i - 1) : inst[j].status # "none"
          /\ inst' = [inst EXCEPT ![i] = [bot |-> op[p].bot, status |-> "running", handler |-> TRUE]]
          /\ activeBots' = [activeBots EXCEPT ![op[p].bot] = i]
          /\ op' = [op EXCEPT ![p].pc = "registered", ![p].inst = i]
    /\ UNCHANGED <<row, auto, process, saved, raced, halfStopped>>

StartPersists(p) ==
    /\ op[p].pc = "registered"
    /\ WriteRow(op[p].bot, "running")
    /\ op' = [op EXCEPT ![p] = Idle]
    /\ UNCHANGED <<activeBots, inst, auto, process, saved, raced, halfStopped>>

\* An error on the way; the autostart task notes it in the row, if the row can be written
StartFails(p) ==
    /\ op[p].pc \in {"preparing", "registered"}
    /\ op' = [op EXCEPT ![p] = Idle]
    /\ IF p = Autostart
       THEN /\ auto' = [auto EXCEPT !.failed = TRUE]
            /\ WriteRow(op[p].bot, "error") \/ UNCHANGED row
       ELSE UNCHANGED <<row, auto>>
    /\ UNCHANGED <<activeBots, inst, process, saved, raced, halfStopped>>

-----------------------------------------------------------------------------
(* stop_paper_trading_bot and delete_paper_trading_bot                     *)

Stopped(x) == [x EXCEPT !.status = "stopped", !.handler = FALSE]

BotStopBegins(p, b) ==
    /\ op[p].pc = "idle" /\ activeBots[b] # NoInstance
    /\ inst' = [inst EXCEPT ![activeBots[b]] = Stopped(@)]
    /\ op' = [op EXCEPT ![p] = [pc |-> "stopped", bot |-> b, inst |-> activeBots[b]]]
    /\ Overlap(p, b)
    /\ UNCHANGED <<row, activeBots, auto, process, saved, halfStopped>>

StopPersists(p) ==
    /\ op[p].pc = "stopped"
    /\ WriteRow(op[p].bot, "stopped")
    /\ Moves(p, "saving")
    /\ UNCHANGED <<activeBots, inst, auto, process, saved, raced, halfStopped>>

SaveFills(i) == saved' = [saved EXCEPT ![i] = @ + 1]

\* Fills, equity and risk events are stored, then whatever is active for the bot goes
BotStopEnds(p) ==
    /\ op[p].pc = "saving"
    /\ IF row[op[p].bot] = "gone" THEN UNCHANGED saved ELSE SaveFills(op[p].inst)
    /\ activeBots' = [activeBots EXCEPT ![op[p].bot] = NoInstance]
    /\ op' = [op EXCEPT ![p] = Idle]
    /\ UNCHANGED <<row, inst, auto, process, raced, halfStopped>>

\* An error on the way leaves the stopped instance active; its fills may be stored
StopFails(p) ==
    /\ op[p].pc \in {"stopped", "saving"}
    /\ UNCHANGED saved \/ (op[p].pc = "saving" /\ saved[op[p].inst] < 2 /\ SaveFills(op[p].inst))
    /\ halfStopped' = halfStopped \cup {op[p].bot}
    /\ op' = [op EXCEPT ![p] = Idle]
    /\ UNCHANGED <<row, activeBots, inst, auto, process, raced>>

MayDelete(b) == activeBots[b] = NoInstance /\ row[b] # "gone"

DeleteBegins(p, b) ==
    /\ op[p].pc = "idle" /\ MayDelete(b)
    /\ op' = [op EXCEPT ![p] = [pc |-> "deleting", bot |-> b, inst |-> NoInstance]]
    /\ Overlap(p, b)
    /\ UNCHANGED <<row, activeBots, inst, auto, process, saved, halfStopped>>

DeleteEnds(p) ==
    /\ op[p].pc = "deleting"
    /\ row' = [row EXCEPT ![op[p].bot] = "gone"]
    /\ op' = [op EXCEPT ![p] = Idle]
    /\ UNCHANGED <<activeBots, inst, auto, process, saved, raced, halfStopped>>

-----------------------------------------------------------------------------
(* The autostart task                                                      *)

AutoReaches(phase) == auto' = [auto EXCEPT !.phase = phase]

\* The pool's warm-up, or its time-out, and the pause before another attempt
AutoWakes ==
    /\ auto.phase \in {"waiting", "sleeping"}
    /\ auto' = [auto EXCEPT !.phase = "listing", !.attempt = @ + 1, !.failed = FALSE]
    /\ UNCHANGED <<row, activeBots, inst, op, process, saved, raced, halfStopped>>

Listed == {b \in Bots : row[b] # "gone"}

AutoLists ==
    /\ auto.phase = "listing"
    /\ \/ auto' = [auto EXCEPT !.phase = "starting", !.todo = Listed]
       \/ AutoReaches("failed")
    /\ UNCHANGED <<row, activeBots, inst, op, process, saved, raced, halfStopped>>

\* mutant: a bot is never done with
StillToDo(b) == auto.todo
RestToDo(b) == auto.todo \ {b}

\* One bot after the other; a bot that was deleted meanwhile counts as a failure
AutoStarts(b) ==
    /\ auto.phase = "starting" /\ b \in auto.todo
    /\ StartBegins(Autostart, b)
    /\ auto' = [auto EXCEPT !.todo = RestToDo(b), !.failed = @ \/ row[b] = "gone"]

AfterAttempt == IF ~auto.failed THEN "completed"
                ELSE IF auto.attempt < MaxAttempts THEN "sleeping" ELSE "completed_with_errors"

AutoAttemptEnds ==
    /\ auto.phase = "starting" /\ auto.todo = {} /\ op[Autostart].pc = "idle"
    /\ AutoReaches(AfterAttempt)
    /\ UNCHANGED <<row, activeBots, inst, op, process, saved, raced, halfStopped>>

-----------------------------------------------------------------------------
(* The process                                                             *)

\* Memory is gone; rows stay, and so does the account of what was stored
LosesMemory ==
    /\ activeBots' = [b \in Bots |-> NoInstance]
    /\ inst' = [i \in BotInstances |-> NoBot(CHOOSE b \in Bots : TRUE)]
    /\ op' = [p \in BotCallers |-> Idle]
    /\ saved' = [i \in BotInstances |-> 0]
    /\ raced' = {} /\ halfStopped' = {}
    /\ UNCHANGED row

Boot ==
    /\ ~process.up /\ process.boots < MaxBoots
    /\ process' = [up |-> TRUE, boots |-> process.boots + 1]
    /\ \E phase \in {"waiting", "off"} :
          auto' = [phase |-> phase, todo |-> {}, attempt |-> 0, failed |-> FALSE]
    /\ UNCHANGED <<row, activeBots, inst, op, saved, raced, halfStopped>>

\* shutdown_paper_trading_runtime, and a crash: rows keep their status for the next start
Down ==
    /\ process.up
    /\ process' = [process EXCEPT !.up = FALSE]
    /\ auto' = [auto EXCEPT !.phase = "cancelled"]
    /\ LosesMemory

-----------------------------------------------------------------------------
BrRequest(p) ==
    \/ \E b \in Bots : BotStopBegins(p, b) \/ DeleteBegins(p, b) \/ (StartBegins(p, b) /\ UNCHANGED auto)
    \/ StopPersists(p) \/ BotStopEnds(p) \/ StopFails(p) \/ DeleteEnds(p)

BrStart(p) == StartRegisters(p) \/ StartPersists(p) \/ StartFails(p)
AutoStep == AutoWakes \/ AutoLists \/ (op[Autostart].pc = "idle" /\ \E b \in Bots : AutoStarts(b))
            \/ AutoAttemptEnds

BrNext ==
    \/ process.up /\ \E p \in BotRequests : BrRequest(p)
    \/ process.up /\ \E p \in BotCallers : BrStart(p)
    \/ process.up /\ AutoStep
    \/ Boot \/ Down

\* The autostart task runs while the process is up, and its calls are answered
BrFairness == WF_brVars(process.up /\ (AutoStep \/ BrStart(Autostart)))
BrSpec == BrInit /\ [][BrNext]_brVars /\ BrFairness

-----------------------------------------------------------------------------
(* Properties                                                              *)

\* Every variable keeps to the values the code gives it.
BrTypeOK ==
    /\ row \in [Bots -> {"idle", "running", "stopped", "error", "gone"}]
    /\ activeBots \in [Bots -> BotInstances \cup {NoInstance}]
    /\ inst \in [BotInstances -> [bot : Bots, status : {"none", "running", "stopped"}, handler : BOOLEAN]]
    /\ \A p \in BotCallers : op[p].pc \in {"idle", "preparing", "registered", "stopped", "saving", "deleting"}
    /\ auto.attempt \in 0..MaxAttempts
    /\ saved \in [BotInstances -> Nat]

\* A handler the pool calls belongs to the active instance of its bot, so stopping the
\* bot stops all that trades for it: only requests that overlap for one bot can leave
\* a bot that trades and that nobody can stop.
HandlersOwned ==
    \A i \in BotInstances : inst[i].handler /\ inst[i].bot \notin raced => activeBots[inst[i].bot] = i

\* A bot that trades has a row, unless its deletion met its start.
TradingBotHasRow ==
    \A i \in BotInstances : inst[i].handler /\ inst[i].bot \notin raced => row[inst[i].bot] # "gone"

\* Once an autostart has completed without a failure, a row says "running" only for a
\* bot that is active, whatever was started and stopped since.
RowHasInstance ==
    process.up /\ auto.phase = "completed" =>
       \A b \in Bots \ raced :
          row[b] = "running" /\ (\A p \in BotCallers : ~Busy(p, b)) => activeBots[b] # NoInstance

\* The fills of an instance that was stopped and given up are stored, and stored once,
\* unless its stop failed on the way.
FillsStoredOnce ==
    \A i \in BotInstances :
       LET b == inst[i].bot IN
       inst[i].status = "stopped" /\ b \notin raced \cup halfStopped /\ activeBots[b] # i => saved[i] = 1

\* The autostart task comes to an end, however many bots fail to start.
AutostartEnds ==
    auto.phase = "waiting" ~>
       auto.phase \in {"completed", "completed_with_errors", "failed", "cancelled"}

\* The registered instances, the bots that trade and the rows of the database agree
BotsOwned ==
    /\ BrTypeOK /\ HandlersOwned /\ TradingBotHasRow /\ RowHasInstance /\ FillsStoredOnce

=============================================================================
