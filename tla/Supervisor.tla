------------------------------ MODULE Supervisor ------------------------------
(***************************************************************************)
(* The local supervisor of the backend process                             *)
(* (backend/service_supervisor.py), on Windows as deployed.                *)
(*                                                                         *)
(* A supervisor starts the backend, polls it, and starts it again when it  *)
(* crashed, hung or was asked to restart.  The stop and restart commands   *)
(* talk to it through marker files and the state of the port.  A backend   *)
(* that shuts down lets the port go before its process has ended, and      *)
(* nothing keeps a second supervisor from being run while the port is free.*)
(***************************************************************************)
EXTENDS Naturals, FiniteSets, Sequences, Common

CONSTANTS
    Supervisors,            \* numbered in the order in which they are run
    MaxCrashes, CrashWindow, StableRuntime, InitialBackoff, MaxBackoff,
    MaxSpawns,              \* a bound
    Scenarios   \* how many runs, backends, stops, restarts and time a behaviour may have, and
                \* whether a kill may fail and a run be interrupted by its keyboard

\* A run that clears the list is as long as the window, and every backoff takes time
ASSUME SupervisorAssumption ==
    /\ Supervisors \subseteq Nat
    /\ MaxCrashes \in Nat \ {0} /\ CrashWindow \in Nat /\ StableRuntime \in Nat /\ StableRuntime >= CrashWindow
    /\ InitialBackoff \in Nat \ {0} /\ MaxBackoff \in Nat \ {0} /\ MaxSpawns \in Nat
    /\ \A n \in 0..MaxSpawns : InitialBackoff * 2 ^ n >= 1
    /\ \A x \in Scenarios : x.spawns \in 0..MaxSpawns /\ x.restarts \in Nat

VARIABLES
    now,
    sup,        \* the supervisors
    child,      \* the backends they started, by number
    marks,      \* the stop, restart and breaker files
    stateFile,  \* the backend the state file names, or 0
    restarts,   \* requests of a restart, and what the last one completed says
    stopper,    \* the stop command
    scenario,   \* the bounds of this behaviour
    crashLog,   \* for each supervisor, when its backends crashed
    unkilled    \* the backends that were alive after all that their supervisor tried

svVars == <<now, sup, child, marks, stateFile, restarts, stopper, scenario, crashLog, unkilled>>

Spawns == 1..MaxSpawns
Nobody == 0
Alive(c) == child[c].state \in {"starting", "serving", "hung", "closing"}
Listens(c) == child[c].state \in {"serving", "hung"}
Port == {c \in Spawns : Listens(c)}
Spawned == Cardinality({c \in Spawns : child[c].state # "none"})
NewSup == [pc |-> "off", child |-> Nobody, crashes |-> {}, count |-> 0, pending |-> 0, reason |-> "none", since |-> 0]

SvInit ==
    /\ now = 1
    /\ sup = [s \in Supervisors |-> NewSup]
    /\ child = [c \in Spawns |-> [state |-> "none", code |-> 0]]
    /\ marks = [stop |-> FALSE, restart |-> 0, breaker |-> FALSE]
    /\ stateFile = Nobody
    /\ restarts = [asked |-> 0, completed |-> {}]
    /\ stopper = [pc |-> "idle", child |-> Nobody, stops |-> 0]
    /\ scenario \in Scenarios
    /\ crashLog = [s \in Supervisors |-> {}]
    /\ unkilled = {}

-----------------------------------------------------------------------------
(* The backend process                                                     *)

Becomes(c, state, code) == child' = [child EXCEPT ![c] = [state |-> state, code |-> code]]
OnlyChild == UNCHANGED <<now, sup, marks, stateFile, restarts, stopper, crashLog, unkilled, scenario>>

Binds(c) == child[c].state = "starting" /\ Port = {} /\ Becomes(c, "serving", 0) /\ OnlyChild
Hangs(c) == child[c].state = "serving" /\ Becomes(c, "hung", 0) /\ OnlyChild
\* It crashes, for one because another process has the port
Crashes(c) == Alive(c) /\ Becomes(c, "dead", 1) /\ OnlyChild
\* A shutdown, by itself or on CTRL_BREAK: the port is let go first, the process ends later
Closes(c) == child[c].state = "serving" /\ Becomes(c, "closing", 0) /\ OnlyChild
Exits(c) == child[c].state = "closing" /\ Becomes(c, "dead", 0) /\ OnlyChild

-----------------------------------------------------------------------------
(* run                                                                     *)

\* preflight: only a listening backend is seen
RunBegins(s) ==
    /\ sup[s].pc = "off" /\ Port = {}
    /\ \A x \in Supervisors : x < s => sup[x].pc # "off"
    /\ Cardinality({x \in Supervisors : sup[x].pc # "off"}) < scenario.runs
    /\ marks' = [stop |-> FALSE, restart |-> 0, breaker |-> FALSE]
    /\ sup' = [sup EXCEPT ![s] = [NewSup EXCEPT !.pc = "spawning"]]
    /\ crashLog' = [crashLog EXCEPT ![s] = {}]
    /\ UNCHANGED <<now, child, stateFile, restarts, stopper, unkilled, scenario>>

Spawn(s) ==
    /\ sup[s].pc = "spawning"
    /\ IF marks.stop
       THEN /\ sup' = [sup EXCEPT ![s].pc = "ended"]
            /\ UNCHANGED <<child, stateFile, restarts, scenario>>
       ELSE /\ Spawned < scenario.spawns
            /\ Becomes(Spawned + 1, "starting", 0)
            /\ stateFile' = Spawned + 1
            /\ restarts' = [restarts EXCEPT !.completed = IF sup[s].pending = 0 THEN @ ELSE @ \cup {sup[s].pending}]
            /\ sup' = [sup EXCEPT ![s] = [@ EXCEPT !.pc = "watching", !.child = Spawned + 1, !.pending = 0, !.since = now]]
    /\ UNCHANGED <<now, marks, stopper, crashLog, unkilled, scenario>>

\* The readiness probe is answered, be it by another supervisor's backend
Ready == \E c \in Spawns : child[c].state = "serving"

\* mutant: the stop marker is not looked at
NeverStops(s) ==
    CASE child[sup[s].child].state = "dead" -> "exited" [] marks.restart # 0 -> "restart"
      [] ~Ready -> "unhealthy" [] OTHER -> "none"
\* _wait_for_child: what one round of polling finds first; a backend that stays unready is recycled
Finds(s) ==
    CASE child[sup[s].child].state = "dead" -> "exited" [] marks.stop -> "stop"
      [] marks.restart # 0 -> "restart" [] ~Ready -> "unhealthy" [] OTHER -> "none"

Watch(s) ==
    /\ sup[s].pc = "watching" /\ Finds(s) # "none"
    /\ sup' = [sup EXCEPT ![s].pc = IF Finds(s) = "exited" THEN "over" ELSE "terminating", ![s].reason = Finds(s),
                          ![s].pending = IF Finds(s) = "restart" THEN marks.restart ELSE 0]
    /\ UNCHANGED <<now, child, marks, stateFile, restarts, stopper, crashLog, unkilled, scenario>>

Dead == [state |-> "dead", code |-> 1]
Killed(C) == [c \in Spawns |-> IF c \in C /\ Alive(c) THEN Dead ELSE child[c]]

\* _terminate_started_process: after CTRL_BREAK the backend ends in time, and the port is free
Ends(s) ==
    /\ sup[s].pc = "terminating" /\ child[sup[s].child].state = "dead" /\ Port = {}
    /\ sup' = [sup EXCEPT ![s].pc = "over"]
    /\ UNCHANGED <<now, child, marks, stateFile, restarts, stopper, crashLog, unkilled, scenario>>

\* Else whoever listens is killed, or the backend itself when nobody does, and the backend
\* once more if it is still there; no failure of a kill is looked at
Forces(s) ==
    /\ sup[s].pc = "terminating" /\ ~(child[sup[s].child].state = "dead" /\ Port = {})
    /\ sup' = [sup EXCEPT ![s].pc = "over"]
    /\ \E C \in SUBSET (Port \cup {sup[s].child}) :
         /\ ~scenario.fails => C = Port \cup {sup[s].child}
         /\ child' = Killed(C)
         /\ unkilled' = IF Alive(sup[s].child) /\ sup[s].child \notin C THEN unkilled \cup {sup[s].child} ELSE unkilled
    /\ UNCHANGED <<now, marks, stateFile, restarts, stopper, crashLog, scenario>>

\* A keyboard interrupt is a planned stop while the backend is watched or terminated, and ends
\* the run as it is before a backend is started and in a backoff
Interrupted(s) ==
    /\ scenario.interrupts
    /\ \/ /\ sup[s].pc \in {"watching", "terminating"}
          /\ marks' = [marks EXCEPT !.stop = TRUE]
          /\ sup' = [sup EXCEPT ![s].pc = "terminating", ![s].reason = "stop", ![s].pending = 0]
       \/ /\ sup[s].pc \in {"spawning", "backoff"}
          /\ sup' = [sup EXCEPT ![s].pc = "ended"]
          /\ UNCHANGED marks
    /\ UNCHANGED <<now, child, stateFile, restarts, stopper, crashLog, unkilled, scenario>>

\* The state file is cleared if it is still this backend's
ClearsState(s) ==
    /\ sup[s].pc = "over"
    /\ stateFile' = IF stateFile = sup[s].child THEN Nobody ELSE stateFile

RestartTaken == [marks EXCEPT !.restart = 0]

PlannedRestart(s) ==
    /\ sup[s].reason = "restart" /\ ClearsState(s)
    /\ marks' = RestartTaken
    /\ sup' = [sup EXCEPT ![s].pc = "spawning", ![s].count = 0]
    /\ UNCHANGED <<now, child, restarts, stopper, crashLog, unkilled, scenario>>

\* Only a backend that exits by itself has an exit code
CleanEnd(s) == marks.stop \/ sup[s].reason = "stop" \/ (sup[s].reason = "exited" /\ child[sup[s].child].code = 0)

PlannedStop(s) ==
    /\ sup[s].reason # "restart" /\ ClearsState(s) /\ CleanEnd(s)
    /\ marks' = [marks EXCEPT !.stop = FALSE, !.restart = 0]
    /\ sup' = [sup EXCEPT ![s].pc = "ended"]
    /\ UNCHANGED <<now, child, restarts, stopper, crashLog, unkilled, scenario>>

\* mutant: crashes are never forgotten
KeptCrashes(s) == sup[s].crashes \cup {<<now, sup[s].child>>}
\* A long run clears the list, and what is out of the window drops off it
CrashTimes(s) ==
    LET before == IF Floor0(now - sup[s].since) >= StableRuntime THEN {} ELSE sup[s].crashes
    IN {t \in before \cup {<<now, sup[s].child>>} : now - t[1] <= CrashWindow}

Backoff(s) == Least({MaxBackoff, InitialBackoff * 2 ^ sup[s].count})

Crashed(s) ==
    /\ sup[s].reason # "restart" /\ ClearsState(s) /\ ~CleanEnd(s)
    /\ crashLog' = [crashLog EXCEPT ![s] = @ \cup {<<now, sup[s].child>>}]
    /\ IF Cardinality(CrashTimes(s)) >= MaxCrashes
       THEN /\ marks' = [marks EXCEPT !.breaker = TRUE]
            /\ sup' = [sup EXCEPT ![s] = [@ EXCEPT !.pc = "ended", !.crashes = CrashTimes(s)]]
       ELSE /\ sup' = [sup EXCEPT ![s] = [@ EXCEPT !.pc = "backoff", !.crashes = CrashTimes(s),
                                                   !.count = sup[s].count + 1, !.since = now + Backoff(s)]]
            /\ UNCHANGED marks
    /\ UNCHANGED <<now, child, restarts, stopper, unkilled, scenario>>

Waited(s) == now >= sup[s].since

\* A stop ends the wait, and leaves its marker for the next run to clear
WaitBackoff(s) ==
    /\ sup[s].pc = "backoff" /\ (marks.stop \/ Waited(s))
    /\ sup' = [sup EXCEPT ![s].pc = IF marks.stop THEN "ended" ELSE "spawning"]
    /\ UNCHANGED <<now, child, marks, stateFile, restarts, stopper, crashLog, unkilled, scenario>>

-----------------------------------------------------------------------------
(* request_supervised_restart and request_stop                             *)

RequestRestart ==
    /\ restarts.asked < scenario.restarts
    /\ restarts' = [restarts EXCEPT !.asked = @ + 1]
    /\ marks' = [marks EXCEPT !.restart = restarts.asked + 1]
    /\ UNCHANGED <<now, sup, child, stateFile, stopper, crashLog, unkilled, scenario>>

\* Without a listening backend there is nothing to stop; else the backend is confirmed
StopBegins ==
    /\ stopper.pc \in {"idle", "stopped", "nothing", "refused"} /\ stopper.stops < scenario.stops
    /\ IF Port = {}
       THEN /\ marks' = [marks EXCEPT !.restart = 0, !.stop = FALSE]
            /\ stopper' = [pc |-> "nothing", child |-> Nobody, stops |-> stopper.stops + 1]
       ELSE /\ marks' = [marks EXCEPT !.restart = 0]
            /\ stopper' = [pc |-> "confirmed", child |-> CHOOSE c \in Port : TRUE, stops |-> stopper.stops + 1]
    /\ UNCHANGED <<now, sup, child, stateFile, restarts, crashLog, unkilled, scenario>>

StopMarks ==
    /\ stopper.pc = "confirmed" /\ stopper' = [stopper EXCEPT !.pc = "waiting"]
    /\ marks' = [marks EXCEPT !.stop = TRUE]
    /\ UNCHANGED <<now, sup, child, stateFile, restarts, crashLog, unkilled, scenario>>

\* The port is free, which is all that the command waits for
StopSees ==
    /\ stopper.pc = "waiting" /\ Port = {}
    /\ stopper' = [stopper EXCEPT !.pc = "stopped"]
    /\ UNCHANGED <<now, sup, child, marks, stateFile, restarts, crashLog, unkilled, scenario>>

\* The time is over and the confirmed backend is killed; a kill that fails while somebody
\* listens is an error, and leaves the marker
StopForces ==
    /\ stopper.pc = "waiting"
    /\ \/ /\ Alive(stopper.child) /\ child' = Killed({stopper.child})
          /\ stopper' = [stopper EXCEPT !.pc = "stopped"]
       \/ /\ ~Alive(stopper.child) \/ scenario.fails
          /\ stopper' = [stopper EXCEPT !.pc = IF Port = {} THEN "stopped" ELSE "refused"]
          /\ UNCHANGED child
    /\ UNCHANGED <<now, sup, marks, stateFile, restarts, crashLog, unkilled, scenario>>

SvTick == now < scenario.time /\ now' = now + 1 /\ UNCHANGED <<sup, child, marks, stateFile, restarts, stopper, crashLog, unkilled, scenario>>

-----------------------------------------------------------------------------
SupStep(s) ==
    Spawn(s) \/ Watch(s) \/ Ends(s) \/ Forces(s) \/ PlannedRestart(s) \/ PlannedStop(s) \/ Crashed(s) \/ WaitBackoff(s)

SvNext ==
    \/ \E c \in Spawns : Binds(c) \/ Hangs(c) \/ Crashes(c) \/ Closes(c) \/ Exits(c)
    \/ \E s \in Supervisors : RunBegins(s) \/ SupStep(s) \/ Interrupted(s)
    \/ RequestRestart \/ StopBegins \/ StopMarks \/ StopSees \/ StopForces \/ SvTick

\* A supervisor's process is scheduled and its polls go on; time passes
SvFairness == (\A s \in Supervisors : WF_svVars(SupStep(s))) /\ WF_svVars(SvTick)
SvSpec == SvInit /\ [][SvNext]_svVars /\ SvFairness

-----------------------------------------------------------------------------
(* What the supervisor promises                                            *)

Runs(s) == sup[s].pc \notin {"off", "ended"}

\* Types, and no backend is started before its backoff is over
SvTypeOK ==
    /\ \A s \in Supervisors : sup[s].child \in 0..MaxSpawns /\ sup[s].count <= MaxSpawns
    /\ stateFile \in 0..MaxSpawns /\ marks.restart \in 0..scenario.restarts
    /\ \A s \in Supervisors : sup[s].pc = "spawning" => sup[s].since <= now

\* Whatever is started, restarted, stopped or given up, and by whichever supervisor: a backend
\* that is alive is watched by a supervisor that runs, unless it withstood kills that failed
NothingLeftBehind ==
    /\ \A c \in Spawns : Alive(c) /\ c \notin unkilled => \E s \in Supervisors : Runs(s) /\ sup[s].child = c
    /\ unkilled # {} => scenario.fails

\* The crashes a supervisor counts are those in the window before its last one, although a
\* long run clears the list; with MaxCrashes of them it starts nothing any more
BreakerExact ==
    \A s \in Supervisors : crashLog[s] # {} =>
        LET last == Greatest({t[1] : t \in crashLog[s]}) IN
        /\ sup[s].crashes = {t \in crashLog[s] : last - t[1] <= CrashWindow}
        /\ Runs(s) => Cardinality(sup[s].crashes) < MaxCrashes

\* The state file names a backend that a running supervisor has just started or still watches
StateNamesChild ==
    stateFile # Nobody => \E s \in Supervisors : Runs(s) /\ sup[s].child = stateFile

\* A restart is reported completed only when it was asked for, and never while its request is pending
RestartsReported == restarts.completed \subseteq 1..restarts.asked /\ marks.restart \notin restarts.completed

\* After a stop that was answered "stop requested" the confirmed backend is off the port for
\* good, although it may still be shutting down
StopFreesPort == stopper.pc = "stopped" => ~Listens(stopper.child)

\* A stop marker ends every supervisor that runs, unless one of them ends first and clears it
StopEndsRun ==
    marks.stop /\ (\E s \in Supervisors : Runs(s)) ~> (\A s \in Supervisors : ~Runs(s)) \/ ~marks.stop

\* What the supervisor leaves running, writes to its files and counts as crashes is what
\* happened
SupervisionExact ==
    /\ SvTypeOK /\ NothingLeftBehind /\ BreakerExact /\ StateNamesChild /\ RestartsReported /\ StopFreesPort

=============================================================================
