---------------------------- MODULE FutoptRefresh ----------------------------
(***************************************************************************)
(* Refreshes of futures history behind a read of the database              *)
(* (FutoptRefreshCoordinator and load_futopt_ohlc_db_first in              *)
(* backend/futopt_history_service.py).                                     *)
(*                                                                         *)
(* A read whose rows are old begins a refresh of its key, or joins the one *)
(* under way.  A read without rows waits for it, shielded, up to a limit.  *)
(* A finished task reports through a callback that runs later, so a new    *)
(* refresh may begin between the two.                                      *)
(***************************************************************************)
EXTENDS Naturals, FiniteSets, Sequences

CONSTANTS
    Histories,          \* symbol, period, interval and session
    Readers,
    MaxRefreshes,   \* max_concurrent_refreshes
    MaxTasks        \* bound

ASSUME CoordinatorAssumption == MaxRefreshes \in Nat \ {0} /\ MaxTasks \in Nat /\ Histories # {}

VARIABLES
    work,       \* the tasks by number
    listed,     \* the task of each key, or 0
    outcome,    \* the last outcome of each key
    reports, \* the tasks that are done and have not reported
    reader,     \* the reads of the history
    stage       \* the coordinator: open, closing, closed

fhVars == <<work, listed, outcome, reports, reader, stage>>

TaskIds == 1..MaxTasks
Working == {n \in TaskIds : work[n].pc \in {"created", "working"}}
OfKey(k) == {n \in TaskIds : work[n].pc # "none" /\ work[n].key = k}
Created == Cardinality({n \in TaskIds : work[n].pc # "none"})

NotReading == [pc |-> "idle", task |-> 0, empty |-> FALSE]

FhInit ==
    /\ work = [n \in TaskIds |-> [pc |-> "none", key |-> CHOOSE k \in Histories : TRUE, cancel |-> FALSE, result |-> "none"]]
    /\ listed = [k \in Histories |-> 0]
    /\ outcome = [k \in Histories |-> "idle"]
    /\ reports = <<>>
    /\ reader = [r \in Readers |-> NotReading]
    /\ stage = "open"

-----------------------------------------------------------------------------
(* load_futopt_ohlc_db_first, in the background mode                       *)

UnderWayFor(k) == listed[k] # 0 /\ work[listed[k]].pc # "done"

\* begin: refused when the coordinator is closed, which fails the read
BeginRefresh(k, n) ==
    IF UnderWayFor(k)
    THEN n = listed[k] /\ UNCHANGED <<work, listed, outcome>>
    ELSE /\ n = Created + 1 /\ n <= MaxTasks
         /\ work' = [work EXCEPT ![n] = [pc |-> "created", key |-> k, cancel |-> FALSE, result |-> "none"]]
         /\ listed' = [listed EXCEPT ![k] = n]
         /\ outcome' = [outcome EXCEPT ![k] = "running"]

Reads(r, k, empty) ==
    /\ reader[r].pc = "idle" /\ stage = "open"
    /\ \E n \in TaskIds :
          BeginRefresh(k, n) /\ reader' = [reader EXCEPT ![r] = [pc |-> "begun", task |-> n, empty |-> empty]]
    /\ UNCHANGED <<reports, stage>>

\* A read with rows answers with them at once
Answers(r) ==
    /\ reader[r].pc = "begun" /\ ~reader[r].empty
    /\ reader' = [reader EXCEPT ![r] = NotReading]
    /\ UNCHANGED <<work, listed, outcome, reports, stage>>

Shielded(n) == work

\* A read without rows waits until the task is done, or its time is over
Waits(r) ==
    /\ reader[r].pc = "begun" /\ reader[r].empty
    /\ reader' = [reader EXCEPT ![r] = NotReading]
    /\ work' = Shielded(reader[r].task)
    /\ UNCHANGED <<listed, outcome, reports, stage>>

-----------------------------------------------------------------------------
(* The tasks and their reports                                             *)

SlotOpen == Cardinality({n \in TaskIds : work[n].pc = "working"}) < MaxRefreshes

GetsGoing(n) ==
    /\ work[n].pc = "created" /\ ~work[n].cancel /\ SlotOpen
    /\ work' = [work EXCEPT ![n].pc = "working"]
    /\ UNCHANGED <<listed, outcome, reports, reader, stage>>

Ends(n, result) ==
    /\ work[n].pc \in {"created", "working"}
    /\ IF result = "cancelled" THEN work[n].cancel ELSE ~work[n].cancel /\ work[n].pc = "working"
    /\ work' = [work EXCEPT ![n].pc = "done", ![n].result = result]
    /\ reports' = Append(reports, n)
    /\ UNCHANGED <<listed, outcome, reader, stage>>

\* mutant: the task listed now is taken off
TakesOff(k, n) == [listed EXCEPT ![k] = 0]
OwnEntry(k, n) == IF listed[k] = n THEN [listed EXCEPT ![k] = 0] ELSE listed

\* _finish
Finish ==
    /\ reports # <<>>
    /\ LET n == Head(reports)
           k == work[n].key
       IN /\ listed' = OwnEntry(k, n)
          /\ outcome' = [outcome EXCEPT ![k] = work[n].result]
    /\ reports' = Tail(reports)
    /\ UNCHANGED <<work, reader, stage>>

\* get_status
Status(k) == IF UnderWayFor(k) THEN "running" ELSE outcome[k]

CancelsAll == [n \in TaskIds |-> IF n \in Working /\ \E k \in Histories : listed[k] = n THEN [work[n] EXCEPT !.cancel = TRUE] ELSE work[n]]

Gathered == \A k \in Histories : listed[k] # 0 => work[listed[k]].pc = "done"

\* shutdown: no new task, the listed ones are cancelled, then awaited
ShutdownBegins ==
    /\ stage = "open" /\ stage' = "closing"
    /\ work' = CancelsAll
    /\ UNCHANGED <<listed, outcome, reports, reader>>
ShutdownEnds ==
    /\ stage = "closing" /\ Gathered
    /\ stage' = "closed" /\ listed' = [k \in Histories |-> 0]
    /\ UNCHANGED <<work, outcome, reports, reader>>

-----------------------------------------------------------------------------
Results == {"refreshed", "failed", "cancelled"}     \* an answer without rows counts as refreshed here
TaskEnds(n) == GetsGoing(n) \/ \E result \in Results : Ends(n, result)

FhNext ==
    \/ \E r \in Readers : Answers(r) \/ Waits(r) \/ \E k \in Histories, empty \in BOOLEAN : Reads(r, k, empty)
    \/ \E n \in TaskIds : TaskEnds(n)
    \/ Finish \/ ShutdownBegins \/ ShutdownEnds

FhSpec == FhInit /\ [][FhNext]_fhVars

-----------------------------------------------------------------------------
(* What the coordinator promises                                           *)

\* Types, and the provider never has more refreshes than the semaphore lets through
FhTypeOK ==
    /\ outcome \in [Histories -> Results \cup {"idle", "running"}] /\ listed \in [Histories -> 0..MaxTasks]
    /\ Cardinality({n \in TaskIds : work[n].pc = "working"}) <= MaxRefreshes

\* A key never has two refreshes under way, although a task reports after it is done
OneRefresh == \A k \in Histories : Cardinality(OfKey(k) \cap Working) <= 1

\* Whatever is under way is listed: shutdown and later reads find it
WorkListed == \A n \in Working : listed[work[n].key] = n

\* Only a shutdown cancels a refresh: the reads that give up waiting do not
ReadsCancelNothing == stage = "open" => \A n \in TaskIds : ~work[n].cancel

\* Once all reports are in, the status of a key is that of its newest task, although an
\* older task may have reported after the newer had begun
OutcomeIsNewest ==
    reports = <<>> => \A k \in Histories : OfKey(k) # {} =>
        LET n == CHOOSE n \in OfKey(k) : \A o \in OfKey(k) : o <= n IN
        Status(k) = IF work[n].pc = "done" THEN work[n].result ELSE "running"

\* No refresh outlives a shutdown
ClosedIsQuiet == stage = "closed" => Working = {}

\* What the coordinator promises of its refreshes, of their readers and of their outcomes
HistoryOrderly ==
    FhTypeOK /\ OneRefresh /\ WorkListed /\ ReadsCancelNothing /\ OutcomeIsNewest /\ ClosedIsQuiet

=============================================================================
