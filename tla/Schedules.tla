------------------------------ MODULE Schedules ------------------------------
(***************************************************************************)
(* The loops of backend/scheduler.py that keep to the clock: the daily     *)
(* syncs, the sync of Taiwan history in its window, and the restart that   *)
(* the maintenance loop asks for.                                          *)
(*                                                                         *)
(* A behaviour is about one loop, its job, from some time of the first day *)
(* on.  Time is counted in units shorter than the shortest sleep.  A sleep *)
(* is cut to whole seconds, so a loop may wake one unit early.  The sync   *)
(* that some loops run once when they start is left out.                   *)
(***************************************************************************)
EXTENDS Integers, FiniteSets, Common

CONSTANTS
    DayUnits, MinSleep,         \* a day, and the shortest sleep until a time of day
    Starts,                     \* when the loop may be started; days are counted from 1
    Jobs,                       \* the loops: kind, at, and the end of a window
    StartDelay, RetryEvery,     \* of the window loop
    OutageGrace, CheckEvery, Weekend,   \* of the maintenance loop; the days of Weekend have no window
    MaxNow                      \* bound

\* A window ends at another time than it begins: at least a minute later, which is the shortest sleep
ASSUME ScheduleAssumption ==
    /\ {DayUnits, MinSleep, StartDelay, OutageGrace, MaxNow} \subseteq Nat
    /\ {RetryEvery, CheckEvery} \subseteq Nat \ {0} /\ 1 < MinSleep /\ MinSleep < DayUnits
    /\ Starts \subseteq DayUnits..MaxNow /\ IsFiniteSet(Weekend) /\ Weekend \subseteq Nat
    /\ \A j \in Jobs :
          /\ j.kind \in {"daily", "history", "maintenance"}
          /\ j.at \in 0..DayUnits - 1 /\ j.end \in 0..DayUnits - 1
          /\ j.kind = "history" =>
                 IF j.at < j.end THEN j.end - j.at >= MinSleep
                 ELSE j.at > j.end /\ j.end + DayUnits - j.at >= MinSleep

VARIABLES
    time,
    job,        \* the loop this behaviour is about
    since,      \* when the loop was started
    loop,       \* the loop
    healthy,    \* do all subscribed channels get messages
    runs,       \* what has run: when it began, the time it was for, its date, when it ended, and
                \* whether the coverage was ready then
    requests,   \* when a restart was requested, and when all channels were last seen healthy before
    looks       \* when the loop last saw every channel healthy, and when an outage

scVars == <<time, job, since, loop, healthy, runs, requests, looks>>

DayOf(t) == t \div DayUnits
TimeOn(day, at) == day * DayUnits + at
Never == -1

\* next_run of the daily loops and _next_daily_window_start
NextAt(t, at) == IF t >= TimeOn(DayOf(t), at) THEN TimeOn(DayOf(t) + 1, at) ELSE TimeOn(DayOf(t), at)

\* When a loop wakes that sleeps from t until a time
Wakes(t, until) == {t + Greatest({MinSleep, until - t - early}) : early \in {0, 1}}

Sleeps(pc, wake, for) == loop' = [loop EXCEPT !.pc = pc, !.wake = wake, !.for = for]
Awake(pc) == loop.pc = pc /\ time >= loop.wake
OnlyLoop == UNCHANGED <<time, job, since, healthy, requests, looks>>

\* A run begins, with the date of the day it begins on
RunBegins(for) ==
    runs' = runs \cup {[at |-> time, for |-> for, date |-> DayOf(time), end |-> Never, ready |-> FALSE]}
RunEnds(ready) ==
    runs' = {IF r.end = Never THEN [r EXCEPT !.end = time, !.ready = ready] ELSE r : r \in runs}

SleepUntilTime == \E w \in Wakes(time, NextAt(time, job.at)) : Sleeps("sleeping", w, NextAt(time, job.at))

-----------------------------------------------------------------------------
(* The daily loops                                                         *)

DailyBegins ==
    /\ job.kind = "daily" /\ Awake("starting")
    /\ SleepUntilTime /\ UNCHANGED runs /\ OnlyLoop

DailyRuns ==
    /\ job.kind = "daily" /\ Awake("sleeping")
    /\ RunBegins(loop.for) /\ loop' = [loop EXCEPT !.pc = "running"] /\ OnlyLoop

DailyEnds ==
    /\ job.kind = "daily" /\ loop.pc = "running"
    /\ RunEnds(TRUE) /\ SleepUntilTime /\ OnlyLoop

-----------------------------------------------------------------------------
(* taiwan_full_history_sync_loop                                           *)

\* mutant: a window ends on the day it begins
SameDay(t) == TimeOn(DayOf(t), job.end)
\* _window_stop_after
StopAfter(t) == IF SameDay(t) <= t THEN SameDay(t) + DayUnits ELSE SameDay(t)

\* _active_daily_window: the start of the window a time is in, or Never
ActiveWindow(t) ==
    LET begin == TimeOn(DayOf(t), job.at)
        end == TimeOn(DayOf(t), job.end)
    IN  IF job.at < job.end THEN (IF begin <= t /\ t < end THEN begin ELSE Never)
        ELSE IF t >= begin THEN begin
        ELSE IF t < end THEN begin - DayUnits
        ELSE Never

Attempts(for, stop) ==
    /\ RunBegins(for)
    /\ loop' = [loop EXCEPT !.pc = "running", !.for = for, !.stop = stop]

\* After the delay of the start a window that is open is joined
WindowLoopBegins ==
    /\ job.kind = "history" /\ Awake("starting") /\ OnlyLoop
    /\ LET begin == ActiveWindow(time)
       IN  IF begin # Never THEN Attempts(begin, StopAfter(begin))
           ELSE SleepUntilTime /\ UNCHANGED runs

WindowOpens ==
    /\ job.kind = "history" /\ Awake("sleeping") /\ OnlyLoop
    /\ Attempts(loop.for, StopAfter(time))

\* The sync ended with what it found, and the coverage of its day is read
AttemptEnds(ready) ==
    /\ job.kind = "history" /\ loop.pc = "running" /\ OnlyLoop
    /\ RunEnds(ready)
    /\ IF ready \/ time + RetryEvery >= loop.stop THEN SleepUntilTime
       ELSE Sleeps("retrying", time + RetryEvery, loop.for)

AttemptsAgain ==
    /\ job.kind = "history" /\ Awake("retrying") /\ OnlyLoop
    /\ Attempts(loop.for, loop.stop)

-----------------------------------------------------------------------------
(* fubon_maintenance_restart_loop                                          *)

\* next_fubon_maintenance_window
NextWindow(t) ==
    LET first == IF t > TimeOn(DayOf(t), job.at) THEN DayOf(t) + 1 ELSE DayOf(t)
    IN  TimeOn(Least({d \in first..first + Cardinality(Weekend) : d \notin Weekend}), job.at)

Watches == job.kind = "maintenance" /\ Awake("starting") /\ UNCHANGED <<time, job, since, healthy, runs>>
LooksAgain(episode, window) ==
    loop' = [loop EXCEPT !.wake = time + CheckEvery, !.episode = episode, !.window = window]

\* An observation that fails leaves the episode as it is
ObservationFails == Watches /\ LooksAgain(loop.episode, loop.window) /\ UNCHANGED <<requests, looks>>

SeesHealthy == Watches /\ healthy /\ LooksAgain(Never, Never) /\ looks' = [looks EXCEPT !.sound = time] /\ UNCHANGED requests

Episode == IF loop.episode = Never THEN time ELSE loop.episode
Window == IF loop.episode = Never THEN NextWindow(time) ELSE loop.window
Due == time >= Window /\ time - Episode >= OutageGrace

SeenBroken == looks' = [looks EXCEPT !.broken = time]

SeesOutage ==
    /\ Watches /\ ~healthy /\ ~Due
    /\ LooksAgain(Episode, Window) /\ SeenBroken /\ UNCHANGED requests

\* A request that was taken is the last thing the loop does
RequestsRestart(taken) ==
    /\ Watches /\ ~healthy /\ Due /\ SeenBroken
    /\ requests' = requests \cup {[at |-> time, sound |-> looks.sound]}
    /\ IF taken THEN loop' = [loop EXCEPT !.pc = "requested", !.episode = Episode, !.window = Window]
       ELSE LooksAgain(Episode, NextWindow(time + 1))

-----------------------------------------------------------------------------
ScInit ==
    /\ job \in Jobs /\ since \in Starts /\ time = since
    /\ loop = [pc |-> "starting", wake |-> since + StartDelay, for |-> Never, stop |-> Never,
               episode |-> Never, window |-> Never]
    /\ healthy \in (IF job.kind = "maintenance" THEN BOOLEAN ELSE {TRUE})
    /\ runs = {} /\ requests = {} /\ looks = [sound |-> since - 1, broken |-> Never]

Overdue == loop.pc \in {"starting", "sleeping", "retrying"} /\ time >= loop.wake
Overruns == job.kind = "history" /\ loop.pc = "running" /\ time >= loop.stop

\* A sleep that is over ends at once, and a sync of history stops with its window
ScTick ==
    /\ time < MaxNow /\ ~Overdue /\ ~Overruns /\ time' = time + 1
    /\ healthy' \in (IF job.kind = "maintenance" THEN BOOLEAN ELSE {TRUE})
    /\ UNCHANGED <<job, since, loop, runs, requests, looks>>

ScNext ==
    \/ DailyBegins \/ DailyRuns \/ DailyEnds
    \/ WindowLoopBegins \/ WindowOpens \/ AttemptsAgain \/ \E ready \in BOOLEAN : AttemptEnds(ready)
    \/ ObservationFails \/ SeesHealthy \/ SeesOutage \/ \E taken \in BOOLEAN : RequestsRestart(taken)
    \/ ScTick

ScSpec == ScInit /\ [][ScNext]_scVars

-----------------------------------------------------------------------------
(* Properties                                                              *)

Hours == 0..DayOf(MaxNow)
ScTypeOK ==
    /\ time \in since..MaxNow /\ job \in Jobs /\ healthy \in BOOLEAN
    /\ loop.pc \in {"starting", "sleeping", "running", "retrying", "requested"}
    /\ Cardinality({r \in runs : r.end = Never}) = IF loop.pc = "running" THEN 1 ELSE 0

\* The times of the job that have come since the loop was ready
Times == {t \in {TimeOn(d, job.at) : d \in Hours} : since + StartDelay < t /\ t <= time}

\* Every daily time has its run, a unit early or a shortest sleep late, unless the run before it
\* was still going on
DailyServed ==
    job.kind = "daily" => \A t \in Times : time >= t + MinSleep =>
        \E r \in runs : \/ r.at \in t - 1..t + MinSleep
                       \/ (r.at < t /\ (r.end = Never \/ r.end >= t))

\* A daily run works on the day it is for.  The code does not hold to this within a minute of
\* midnight, where waking early or late changes the date
DatesRight ==
    job.kind = "daily" /\ job.at \in 1..DayUnits - MinSleep => \A r \in runs :
        r.date = DayOf(r.for) \/ r.at > r.for + MinSleep

EndOf(t) == IF job.end > job.at THEN t - job.at + job.end ELSE t - job.at + job.end + DayUnits
Ended == {t \in Times \cup {ActiveWindow(since + StartDelay)} : t # Never /\ EndOf(t) <= time /\ loop.pc # "running"}
AttemptsFor(t) == {r \in runs : r.for = t}

\* Syncs of history begin within their window; every window has one, and the last one was either
\* complete or too late to be repeated
WindowsServed ==
    job.kind = "history" =>
        /\ \A r \in runs : r.at \in r.for - 1..EndOf(r.for) - 1
        /\ \A t \in Ended : \E r \in AttemptsFor(t) :
              /\ \A q \in AttemptsFor(t) : q.at <= r.at
              /\ r.ready \/ r.end + RetryEvery >= EndOf(t)

Windows == {TimeOn(d, job.at) : d \in Hours \ Weekend}

\* A restart is requested in a window that came after the channels were last seen healthy, once
\* for each window, and never for an outage shorter than the grace time
RestartJustified ==
    \A q \in requests :
        /\ q.at - q.sound > OutageGrace
        /\ \E w \in Windows : w > q.sound /\ w <= q.at /\ \A p \in requests : p.at < q.at => p.at < w

\* An outage seen at a window or after it, and longer than the grace time, has led to a request
OutageEndsInRestart ==
    job.kind = "maintenance" /\ loop.episode # Never /\ looks.broken >= loop.episode + OutageGrace =>
        \A w \in Windows : w >= loop.episode /\ w <= looks.broken => \E q \in requests : q.at >= w

\* What holds of every loop at any time
SchedulesKept ==
    ScTypeOK /\ DailyServed /\ DatesRight /\ WindowsServed /\ RestartJustified /\ OutageEndsInRestart

=============================================================================
