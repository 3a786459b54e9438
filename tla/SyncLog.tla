------------------------------- MODULE SyncLog -------------------------------
(***************************************************************************)
(* The retention of sync_log (backend/storage_maintenance.py and           *)
(* repositories/storage_lifecycle.py): a day is summarised, and after a    *)
(* grace time its entries are deleted in batches, one batch per call.      *)
(*                                                                         *)
(* Two operators may call at once, entries of the day may still come, and  *)
(* a call may die between two queries.  The number of rows an entry added  *)
(* is left out: it is summed and compared as the entries are counted.  So  *)
(* are the cutoff, taken to be after every day, and the recent backup both *)
(* calls ask for, taken to be there.                                       *)
(***************************************************************************)
EXTENDS Naturals, FiniteSets, Common

CONSTANTS
    Kinds,              \* ticker and status of an entry
    LogOperators,
    LogGrace,           \* days a summary rests before the clean-up
    BatchSize,
    MaxLogged, LogDays, MaxLogDay  \* bounds: entries, days with entries, days

ASSUME SyncLogAssumption ==
    /\ IsFiniteSet(Kinds)
    /\ {LogGrace, BatchSize, MaxLogDay} \subseteq Nat \ {0} /\ {MaxLogged, LogDays} \subseteq Nat
    /\ LogDays <= MaxLogDay

VARIABLES
    date,       \* today
    syncLog,    \* the entries of each day: id and kind
    lastId,     \* of the entries, counted up
    summary,    \* entries counted by day and kind, 0 without a summary
    stamped,    \* the day a day's summary was last changed, 0 without one
    dryRuns,    \* dry runs that were completed: the action and its cutoff
    executed,   \* days with a recorded clean-up
    run,        \* what each operator's call is doing
    deleted,    \* entries deleted, by day and kind
    recounted   \* days summarised again although entries were gone

slVars == <<date, syncLog, lastId, summary, stamped, dryRuns, executed, run, deleted, recounted>>

Dates == 1..LogDays
NoCount == [d \in Dates |-> [k \in Kinds |-> 0]]
NoRun == [pc |-> "idle", day |-> 0, first |-> FALSE]

SlInit ==
    /\ date = 1 /\ syncLog = [d \in Dates |-> {}] /\ lastId = 0
    /\ summary = NoCount /\ stamped = [d \in Dates |-> 0]
    /\ dryRuns = {} /\ executed = {}
    /\ run = [o \in LogOperators |-> NoRun]
    /\ deleted = NoCount /\ recounted = {}

OfKind(entries, k) == Cardinality({e \in entries : e.kind = k})
Logged(d, k) == OfKind(syncLog[d], k)
LoggedOn(d) == Cardinality(syncLog[d])
\* The sum of the counts of all kinds
CountOf(count) == Cardinality(UNION {{k} \X (1..count[k]) : k \in Kinds})
Runs(o, r) == run' = [run EXCEPT ![o] = r]

-----------------------------------------------------------------------------
\* summarize_sync_log_day replaces the counts of the kinds that still have entries
Summed(d) == [k \in Kinds |-> IF Logged(d, k) > 0 THEN Logged(d, k) ELSE summary[d][k]]
StoresCounts(d) ==
    /\ summary' = [summary EXCEPT ![d] = Summed(d)]
    /\ stamped' = IF Summed(d) = summary[d] THEN stamped ELSE [stamped EXCEPT ![d] = date]
Agrees(d) == CountOf(Summed(d)) = LoggedOn(d)

Rehearse(action) ==
    /\ dryRuns' = dryRuns \cup {action}
    /\ UNCHANGED <<date, syncLog, lastId, summary, stamped, executed, run, deleted, recounted>>

\* get_next_sync_log_summary_date: the first day whose summary does not count its entries
ToSummarize == {d \in Dates : LoggedOn(d) > 0 /\ LoggedOn(d) # CountOf(summary[d])}

StartSummary(o) ==
    /\ run[o].pc = "idle" /\ "summarize" \in dryRuns /\ ToSummarize # {}
    /\ Runs(o, [NoRun EXCEPT !.pc = "summing", !.day = Least(ToSummarize)])
    /\ UNCHANGED <<date, syncLog, lastId, summary, stamped, dryRuns, executed, deleted, recounted>>

\* One transaction, rolled back when the totals differ
Summarize(o) ==
    /\ run[o].pc = "summing"
    /\ LET d == run[o].day IN
       IF Agrees(d)
       THEN StoresCounts(d) /\ recounted' = IF CountOf(deleted[d]) > 0 THEN recounted \cup {d} ELSE recounted
       ELSE UNCHANGED <<summary, stamped, recounted>>
    /\ Runs(o, NoRun)
    /\ UNCHANGED <<date, syncLog, lastId, dryRuns, executed, deleted>>

-----------------------------------------------------------------------------
(* cleanup_sync_log                                                        *)

\* get_next_sync_log_cleanup_date: the first day with entries and a summary that has rested
ToClean == {d \in Dates : LoggedOn(d) > 0 /\ stamped[d] > 0 /\ stamped[d] + LogGrace <= date}

StartBatch(o) ==
    /\ run[o].pc = "idle" /\ "cleanup" \in dryRuns /\ ToClean # {}
    /\ Runs(o, [NoRun EXCEPT !.pc = "starting", !.day = Least(ToClean)])
    /\ UNCHANGED <<date, syncLog, lastId, summary, stamped, dryRuns, executed, deleted, recounted>>

\* mutant: every batch summarises the day first
NeverExecuted(d) == FALSE
\* has_storage_maintenance_execution
HasExecution(d) == d \in executed

LookUpExecution(o) ==
    /\ run[o].pc = "starting"
    /\ Runs(o, [run[o] EXCEPT !.pc = IF HasExecution(run[o].day) THEN "deleting" ELSE "recounting",
                              !.first = run[o].day \notin executed])
    /\ UNCHANGED <<date, syncLog, lastId, summary, stamped, dryRuns, executed, deleted, recounted>>

\* Summarised outside a transaction: the counts stay when the totals differ
Recount(o) ==
    /\ run[o].pc = "recounting"
    /\ LET d == run[o].day IN
       /\ StoresCounts(d)
       /\ recounted' = IF CountOf(deleted[d]) > 0 /\ run[o].first THEN recounted \cup {d} ELSE recounted
       /\ Runs(o, IF Agrees(d) THEN [run[o] EXCEPT !.pc = "deleting"] ELSE NoRun)
    /\ UNCHANGED <<date, syncLog, lastId, dryRuns, executed, deleted>>

\* The first entries of the day, by id
FirstEntries(entries) == {e \in entries : Cardinality({f \in entries : f.id < e.id}) < BatchSize}

DeleteBatch(o) ==
    /\ run[o].pc = "deleting"
    /\ LET d == run[o].day
           batch == FirstEntries(syncLog[d])
       IN /\ syncLog' = [syncLog EXCEPT ![d] = @ \ batch]
          /\ deleted' = [deleted EXCEPT ![d] = [k \in Kinds |-> @[k] + OfKind(batch, k)]]
    /\ Runs(o, [run[o] EXCEPT !.pc = "recording"])
    /\ UNCHANGED <<date, lastId, summary, stamped, dryRuns, executed, recounted>>

RecordRun(o) ==
    /\ run[o].pc = "recording"
    /\ executed' = executed \cup {run[o].day} /\ Runs(o, NoRun)
    /\ UNCHANGED <<date, syncLog, lastId, summary, stamped, dryRuns, deleted, recounted>>

-----------------------------------------------------------------------------
\* log_sync
LogSync(k) ==
    /\ date <= LogDays /\ lastId < MaxLogged /\ lastId' = lastId + 1
    /\ syncLog' = [syncLog EXCEPT ![date] = @ \cup {[id |-> lastId', kind |-> k]}]
    /\ UNCHANGED <<date, summary, stamped, dryRuns, executed, run, deleted, recounted>>

RunDies(o) ==
    /\ run[o].pc # "idle" /\ Runs(o, NoRun)
    /\ UNCHANGED <<date, syncLog, lastId, summary, stamped, dryRuns, executed, deleted, recounted>>

\* A call is over before the day is
Tomorrow ==
    /\ date < MaxLogDay /\ date' = date + 1 /\ \A o \in LogOperators : run[o].pc = "idle"
    /\ UNCHANGED <<syncLog, lastId, summary, stamped, dryRuns, executed, run, deleted, recounted>>

SlNext ==
    \/ \E action \in {"summarize", "cleanup"} : Rehearse(action)
    \/ \E o \in LogOperators : \/ StartSummary(o) \/ Summarize(o) \/ RunDies(o)
                               \/ StartBatch(o) \/ LookUpExecution(o) \/ Recount(o) \/ DeleteBatch(o) \/ RecordRun(o)
    \/ (\E k \in Kinds : LogSync(k)) \/ Tomorrow

SlSpec == SlInit /\ [][SlNext]_slVars

-----------------------------------------------------------------------------
(* What the retention promises                                             *)

SlTypeOK ==
    /\ syncLog \in [Dates -> SUBSET [id : 1..lastId, kind : Kinds]] /\ lastId <= MaxLogged
    /\ summary \in [Dates -> [Kinds -> Nat]] /\ stamped \in [Dates -> 0..MaxLogDay]
    /\ executed \cup recounted \subseteq Dates

\* The summary of a day counts every entry that was deleted, whatever comes late, dies or
\* runs at the same time.  It no longer does once the day was summarised again after a batch:
\* by another summary, as the counts then differ, or by a clean-up that found no record of the
\* first batch
DeletedIsSummarized ==
    \A d \in Dates \ recounted : CountOf(deleted[d]) > 0 =>
        \A k \in Kinds : summary[d][k] = deleted[d][k] + Logged(d, k)

\* What holds of the log and its summary at any time
LogSound == SlTypeOK /\ DeletedIsSummarized

=============================================================================
