-------------------------------- MODULE Alerts --------------------------------
(***************************************************************************)
(* The alert evaluator (backend/alert_engine.py and its loop in            *)
(* scheduler.py) and the alert requests (routers/alerts.py,                *)
(* repositories/alert.py).                                                 *)
(*                                                                         *)
(* The evaluator works on copies of the active alerts and awaits between   *)
(* its steps.  Every update, the evaluator's and a request's, reads the    *)
(* row and then writes all of it, so two of them may overlap.  The value   *)
(* a rule looks at (a price, an indicator, a risk level) is a number.      *)
(***************************************************************************)
EXTENDS Naturals, FiniteSets

CONSTANTS
    AlertIds,
    Values,             \* what a rule may look at, and its levels; 0 is no value
    Rules,              \* conditions an alert may have
    MaxRounds, MaxEdits, MaxMishaps     \* bounds

ASSUME AlertAssumption == 0 \notin Values /\ Rules \subseteq {"gt", "lt", "cross_up", "cross_down"}

VARIABLES
    row,        \* the alerts
    value,      \* the value in the market
    evaluator,  \* the loop
    patch,      \* the request that changes an alert
    notes, logs,            \* notifications and trigger logs of each alert
    rounds, edits, mishaps, \* counted for the bounds
    wanted,     \* what the user last asked of each alert
    armed,      \* how often it was made active
    told,       \* has it been notified since
    observed,   \* the value of its last evaluation
    clobbered,  \* alerts written over a row that had changed since it was read
    overlooked, \* alerts whose options the evaluator put back
    cutShort    \* alerts whose trigger was cut short by an error or the end of the process

alertVars == <<row, value, evaluator, patch, notes, logs, rounds, edits, mishaps,
               wanted, armed, told, observed, clobbered, overlooked, cutShort>>
history == <<wanted, armed, told, observed, clobbered, overlooked, cutShort>>

NoRow == [exists |-> FALSE, active |-> FALSE, triggered |-> FALSE, rule |-> "gt", level |-> 0, last |-> 0, options |-> 0]
Resting == [pc |-> "list", todo |-> {}, id |-> "none", copy |-> NoRow, seen |-> 0, read |-> NoRow]
NoPatch == [pc |-> "idle", id |-> "none", change |-> "none", level |-> 0, read |-> NoRow]
NoWish == [active |-> FALSE, level |-> 0, options |-> 0]
None == [i \in AlertIds |-> 0]

AlertInit ==
    /\ row = [i \in AlertIds |-> NoRow] /\ value \in Values
    /\ evaluator = Resting /\ patch = NoPatch
    /\ notes = None /\ logs = None
    /\ rounds = 0 /\ edits = 0 /\ mishaps = 0
    /\ wanted = [i \in AlertIds |-> NoWish]
    /\ armed = None /\ told = [i \in AlertIds |-> FALSE] /\ observed = None
    /\ clobbered = {} /\ overlooked = {} /\ cutShort = {}

-----------------------------------------------------------------------------
(* AlertEngine.evaluate_active_alerts                                      *)

ListActive ==
    /\ evaluator = Resting /\ rounds < MaxRounds /\ rounds' = rounds + 1
    /\ evaluator' = [Resting EXCEPT !.todo = {[id |-> i, row |-> row[i]] : i \in {j \in AlertIds : row[j].active}}]
    /\ UNCHANGED <<row, value, patch, notes, logs, edits, mishaps, history>>

\* The value is fetched, or there is none; a failure skips the alert
FetchValue(c) ==
    /\ evaluator.pc = "list" /\ c \in evaluator.todo
    /\ \E v \in {0, value} : evaluator' = [evaluator EXCEPT !.pc = "seen", !.todo = @ \ {c}, !.id = c.id,
                                                          !.copy = c.row, !.seen = v]
    /\ UNCHANGED <<row, value, patch, notes, logs, rounds, edits, mishaps, history>>

FetchFails(c) ==
    /\ evaluator.pc = "list" /\ c \in evaluator.todo
    /\ evaluator' = [evaluator EXCEPT !.todo = @ \ {c}]
    /\ UNCHANGED <<row, value, patch, notes, logs, rounds, edits, mishaps, history>>

\* evaluate_alert_rule, on the copy
RuleHolds(c, v) ==
    /\ v # 0
    /\ \/ c.rule = "gt" /\ v > c.level
       \/ c.rule = "lt" /\ v < c.level
       \/ c.rule = "cross_up" /\ c.last # 0 /\ c.last <= c.level /\ v > c.level
       \/ c.rule = "cross_down" /\ c.last # 0 /\ c.last >= c.level /\ v < c.level

ReadRow ==
    /\ evaluator.pc = "seen"
    /\ evaluator' = [evaluator EXCEPT !.pc = "read", !.read = row[evaluator.id]]
    /\ UNCHANGED <<row, value, patch, notes, logs, rounds, edits, mishaps, history>>

\* mutant: the copy is written back, not the row as it is
FromCopy(e) == e.copy
\* update_alert starts from the row it reads
Existing(e) == e.read

\* The options and the last value come from the copy
Evaluated(e) ==
    LET base == [Existing(e) EXCEPT !.options = e.copy.options, !.last = IF e.seen = 0 THEN e.copy.last ELSE e.seen]
    IN IF RuleHolds(e.copy, e.seen) THEN [base EXCEPT !.active = FALSE, !.triggered = TRUE] ELSE base

NextStep(pc) == evaluator' = IF pc = "list" THEN [Resting EXCEPT !.todo = evaluator.todo] ELSE [evaluator EXCEPT !.pc = pc]

\* An alert that is gone is not written, and triggers all the same
WriteRow ==
    /\ evaluator.pc = "read"
    /\ LET i == evaluator.id
           now == row[i]
       IN IF evaluator.read.exists /\ now.exists
          THEN /\ row' = [row EXCEPT ![i] = Evaluated(evaluator)]
               /\ observed' = [observed EXCEPT ![i] = Evaluated(evaluator).last]
               /\ clobbered' = IF now = evaluator.read THEN clobbered ELSE clobbered \cup {i}
               /\ overlooked' = IF evaluator.read.options = evaluator.copy.options THEN overlooked ELSE overlooked \cup {i}
          ELSE UNCHANGED <<row, observed, clobbered, overlooked>>
    /\ NextStep(IF RuleHolds(evaluator.copy, evaluator.seen) THEN "log" ELSE "list")
    /\ UNCHANGED <<value, patch, notes, logs, rounds, edits, mishaps, wanted, armed, told, cutShort>>

CreateTriggerLog ==
    /\ evaluator.pc = "log" /\ logs' = [logs EXCEPT ![evaluator.id] = @ + 1]
    /\ NextStep("notify")
    /\ UNCHANGED <<row, value, patch, notes, rounds, edits, mishaps, history>>

\* The external dispatch follows; its failure is only logged
CreateNotification ==
    /\ evaluator.pc = "notify" /\ notes' = [notes EXCEPT ![evaluator.id] = @ + 1]
    /\ told' = [told EXCEPT ![evaluator.id] = TRUE]
    /\ NextStep("list")
    /\ UNCHANGED <<row, value, patch, logs, rounds, edits, mishaps, wanted, armed, observed, clobbered, overlooked, cutShort>>

Pending == {i \in AlertIds : evaluator.id = i /\ evaluator.pc \in {"log", "notify"}}
Mishap == mishaps < MaxMishaps /\ mishaps' = mishaps + 1 /\ cutShort' = cutShort \cup Pending

\* A step raises: the next alert is evaluated
StepFails ==
    /\ evaluator.pc \in {"seen", "read", "log", "notify"} /\ Mishap
    /\ NextStep("list")
    /\ UNCHANGED <<row, value, patch, notes, logs, rounds, edits, wanted, armed, told, observed, clobbered, overlooked>>

\* The process ends and starts again
Restart ==
    /\ evaluator # Resting /\ Mishap
    /\ evaluator' = Resting /\ patch' = NoPatch
    /\ UNCHANGED <<row, value, notes, logs, rounds, edits, wanted, armed, told, observed, clobbered, overlooked>>

-----------------------------------------------------------------------------
(* The requests                                                            *)

Edit == edits < MaxEdits /\ edits' = edits + 1

CreateAlert(i, rule, level) ==
    /\ armed[i] = 0 /\ patch.pc = "idle"
    /\ row' = [row EXCEPT ![i] = [NoRow EXCEPT !.exists = TRUE, !.active = TRUE, !.rule = rule, !.level = level]]
    /\ wanted' = [wanted EXCEPT ![i] = [active |-> TRUE, level |-> level, options |-> 0]]
    /\ armed' = [armed EXCEPT ![i] = 1]
    /\ UNCHANGED <<value, evaluator, patch, notes, logs, rounds, edits, mishaps, told, observed, clobbered, overlooked, cutShort>>

DeleteAlert(i) ==
    /\ row[i].exists /\ Edit
    /\ row' = [row EXCEPT ![i] = NoRow]
    /\ wanted' = [wanted EXCEPT ![i] = NoWish]
    /\ UNCHANGED <<value, evaluator, patch, notes, logs, rounds, mishaps, armed, told, observed, clobbered, overlooked, cutShort>>

PatchReads(i, change, level) ==
    /\ patch.pc = "idle" /\ row[i].exists /\ Edit
    /\ patch' = [pc |-> "read", id |-> i, change |-> change, level |-> level, read |-> row[i]]
    /\ UNCHANGED <<row, value, evaluator, notes, logs, rounds, mishaps, history>>

\* What the page sends; the options replace the whole condition payload, the last value included
Patched(p) ==
    CASE p.change = "resume" -> [p.read EXCEPT !.active = TRUE, !.triggered = FALSE]
      [] p.change = "pause" -> [p.read EXCEPT !.active = FALSE]
      [] p.change = "level" -> [p.read EXCEPT !.level = p.level]
      [] p.change = "options" -> [p.read EXCEPT !.options = 1, !.last = 0]

PatchWrites ==
    /\ patch.pc = "read" /\ patch' = NoPatch
    /\ LET i == patch.id
           new == Patched(patch)
       IN IF row[i].exists
          THEN /\ row' = [row EXCEPT ![i] = new]
               /\ wanted' = [wanted EXCEPT ![i] = [active |-> new.active, level |-> new.level, options |-> new.options]]
               /\ armed' = [armed EXCEPT ![i] = IF new.active /\ ~row[i].active THEN @ + 1 ELSE @]
               /\ told' = [told EXCEPT ![i] = @ /\ patch.change # "resume"]
               /\ observed' = [observed EXCEPT ![i] = IF patch.change = "options" THEN 0 ELSE @]
               /\ clobbered' = IF row[i] = patch.read THEN clobbered ELSE clobbered \cup {i}
          ELSE UNCHANGED <<row, wanted, armed, told, observed, clobbered>>
    /\ UNCHANGED <<value, evaluator, notes, logs, rounds, edits, mishaps, overlooked, cutShort>>

MarketMoves ==
    /\ value' \in Values \ {value}
    /\ UNCHANGED <<row, evaluator, patch, notes, logs, rounds, edits, mishaps, history>>

AlertNext ==
    \/ ListActive \/ (\E c \in evaluator.todo : FetchValue(c) \/ FetchFails(c))
    \/ ReadRow \/ WriteRow \/ CreateTriggerLog \/ CreateNotification \/ StepFails \/ Restart
    \/ \E i \in AlertIds :
          \/ DeleteAlert(i)
          \/ \E rule \in Rules, level \in Values : CreateAlert(i, rule, level)
          \/ \E change \in {"resume", "pause", "options"} : PatchReads(i, change, 0)
          \/ \E level \in Values : PatchReads(i, "level", level)
    \/ PatchWrites \/ MarketMoves

AlertSpec == AlertInit /\ [][AlertNext]_alertVars

-----------------------------------------------------------------------------
(* What the alerts promise                                                 *)

AlertTypeOK ==
    /\ row \in [AlertIds -> [exists : BOOLEAN, active : BOOLEAN, triggered : BOOLEAN, rule : Rules \cup {"gt"},
                             level : Values \cup {0}, last : Values \cup {0}, options : {0, 1}]]
    /\ evaluator.pc \in {"list", "seen", "read", "log", "notify"}
    /\ \A i \in AlertIds : notes[i] <= logs[i]

\* An alert does not notify more often than it was made active
OncePerArming == \A i \in AlertIds \ clobbered : notes[i] + Cardinality(Pending \cap {i}) <= armed[i]

\* A triggered alert has been notified since it was made active, or is about to be, unless
\* its trigger was cut short
TriggerIsTold ==
    \A i \in AlertIds \ (clobbered \cup cutShort) : row[i].triggered => told[i] \/ i \in Pending

\* What the user changed stays until he changes it again: the level, the options, and that
\* the alert is paused.  Only an update that overlaps another's read and write can undo it,
\* and an evaluation under way puts the old options back
ChangesKept ==
    \A i \in AlertIds \ clobbered : row[i].exists =>
        /\ row[i].level = wanted[i].level
        /\ row[i].active => wanted[i].active
        /\ row[i].options = wanted[i].options \/ i \in overlooked

\* A crossing is judged against the value of the evaluation before
BaselineKept == \A i \in AlertIds \ clobbered : row[i].exists => row[i].last = observed[i]

\* The alerts do what their user last asked of them
AlertsHonest == AlertTypeOK /\ OncePerArming /\ TriggerIsTold /\ ChangesKept /\ BaselineKept

=============================================================================
