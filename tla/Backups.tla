------------------------------ MODULE Backups ------------------------------
(***************************************************************************)
(* MySQL backups (backend/mysql_backup.py), the loop that keeps a recent   *)
(* one (scheduler.py), and restore drills.                                 *)
(*                                                                         *)
(* The loop and the command line work on one directory without a lock.     *)
(* An action is one file operation or one call of a MySQL tool, and the    *)
(* process may die between two of them.  Contents are versions of the      *)
(* database; a dump is whole, cut short, or altered at its full size.      *)
(***************************************************************************)
EXTENDS Naturals, FiniteSets, Common

CONSTANTS
    Scopes, AutoScope,      \* what a backup covers, and the scope of the loop
    Makers,                 \* the loop and the command line
    KeepMinimum, KeepPerScope, RetentionDays, SizeLimit, MaxAgeDays,
    MaxBackups, MaxDays, MaxWrites, \* bounds
    Bounds      \* what a behaviour may do: how many backups, writes and harms, and whether a drill

ASSUME BackupAssumption ==
    /\ AutoScope \in Scopes
    /\ KeepMinimum \in Nat /\ KeepPerScope \in Nat /\ KeepMinimum >= 1 /\ KeepPerScope >= 1
    /\ RetentionDays \in Nat /\ SizeLimit \in Nat
    /\ MaxBackups \in Nat /\ MaxDays \in Nat \ {0} /\ MaxWrites \in Nat \ {0}
    /\ \A b \in Bounds : b.backups \in 0..MaxBackups /\ b.writes \in 0..MaxWrites

VARIABLES
    live,       \* version of the database
    today,
    files,      \* the backups by id: what is on disk
    maker,      \* what each maker is doing
    drill,      \* the restore drill
    bound,      \* the bounds of this behaviour
    harm,       \* what went wrong: a call failed, a process died, a file was damaged
    best        \* the newest backup of each scope a maker has completed

bkVars == <<live, today, files, maker, drill, bound, harm, best>>

Loop == "loop"
Ids == 1..MaxBackups
NoBackup == 0
Nothing == [scope |-> AutoScope, made |-> 0, part |-> FALSE, dump |-> "none", manifest |-> FALSE,
            counted |-> 0, held |-> 0]
AtRest == [pc |-> "idle", id |-> NoBackup, todo |-> {}]
NoDrill == [pc |-> "idle", id |-> NoBackup, version |-> 0, sound |-> FALSE, target |-> FALSE, failed |-> FALSE]

\* The size fits the manifest and the stream opens
Fits(f) == f.manifest /\ f.dump \in {"whole", "altered"}
Healthy == {i \in Ids : Fits(files[i])}
OfScope(S, s) == {i \in S : files[i].scope = s}
Newest(S, n) == {i \in S : Cardinality({j \in S : j > i}) < n}
Started == Cardinality({i \in Ids : files[i].made # 0})

BkInit ==
    /\ live = 1 /\ today = 1
    /\ files = [i \in Ids |-> Nothing]
    /\ maker = [m \in Makers |-> AtRest]
    /\ drill = NoDrill
    /\ bound \in Bounds /\ harm = {}
    /\ best = [s \in Scopes |-> NoBackup]

Harmed(what) == Cardinality(harm) < bound.harms /\ harm' = harm \cup {what}
Goes(m, pc) == maker' = [maker EXCEPT ![m].pc = pc]
OnDisk(i, f) == files' = [files EXCEPT ![i] = f]

-----------------------------------------------------------------------------
(* create_backup                                                           *)

\* latest_backup_status: the newest manifest of the scope must fit and be recent
LoopHealthy ==
    LET S == OfScope({i \in Ids : files[i].manifest}, AutoScope) IN
    S # {} /\ LET i == Greatest(S) IN Fits(files[i]) /\ today - files[i].made <= MaxAgeDays

Begin(m, s) ==
    /\ maker[m].pc = "idle" /\ Started < bound.backups
    /\ m = Loop => s = AutoScope /\ ~LoopHealthy
    /\ OnDisk(Started + 1, [Nothing EXCEPT !.scope = s, !.made = today, !.counted = live])
    /\ maker' = [maker EXCEPT ![m] = [pc |-> "counted", id |-> Started + 1, todo |-> {}]]
    /\ UNCHANGED <<live, today, drill, bound, harm, best>>

Dump(m) ==
    /\ maker[m].pc = "counted"
    /\ OnDisk(maker[m].id, [files[maker[m].id] EXCEPT !.part = TRUE, !.held = live])
    /\ Goes(m, "dumped")
    /\ UNCHANGED <<live, today, drill, bound, harm, best>>

\* mysqldump fails or times out: the partial file goes
DumpFails(m) ==
    /\ maker[m].pc = "counted" /\ Harmed("failed")
    /\ OnDisk(maker[m].id, [files[maker[m].id] EXCEPT !.part = FALSE])
    /\ maker' = [maker EXCEPT ![m] = AtRest]
    /\ UNCHANGED <<live, today, drill, bound, best>>

Move(m) ==
    /\ maker[m].pc = "dumped"
    /\ OnDisk(maker[m].id, [files[maker[m].id] EXCEPT !.part = FALSE, !.dump = "whole"])
    /\ Goes(m, "moved")
    /\ UNCHANGED <<live, today, drill, bound, harm, best>>

WriteManifest(m) ==
    /\ maker[m].pc = "moved"
    /\ OnDisk(maker[m].id, [files[maker[m].id] EXCEPT !.manifest = TRUE])
    /\ Goes(m, "written")
    /\ UNCHANGED <<live, today, drill, bound, harm, best>>

-----------------------------------------------------------------------------
(* verify_backup, then prune_backups                                       *)

\* mutant: the newest are kept whether or not they are healthy
KeptOfAll == Newest({i \in Ids : files[i].manifest}, KeepMinimum)
Protected == Newest(Healthy, KeepMinimum) \cup UNION {Newest(OfScope(Healthy, s), KeepPerScope) : s \in Scopes}

\* What is too old goes, then the oldest until the rest fits the limit
ToPrune(made) ==
    LET free == Healthy \ Protected
        old == {i \in free : files[i].made + RetentionDays < made}
        excess == Floor0(Cardinality(Healthy \ old) - SizeLimit)
    IN old \cup {i \in free \ old : Cardinality({j \in free \ old : j < i}) < excess}

Discarded(f) == [f EXCEPT !.dump = "none", !.manifest = FALSE]

\* The checksum of the whole file; a file it does not match is deleted again
Verify(m) ==
    /\ maker[m].pc = "written"
    /\ LET i == maker[m].id IN
       IF files[i].dump = "whole"
       THEN /\ maker' = [maker EXCEPT ![m].pc = "pruning", ![m].todo = ToPrune(files[i].made)]
            /\ best' = [best EXCEPT ![files[i].scope] = Greatest({@, i})]
            /\ UNCHANGED files
       ELSE /\ OnDisk(i, Discarded(files[i]))
            /\ maker' = [maker EXCEPT ![m] = AtRest]
            /\ UNCHANGED best
    /\ UNCHANGED <<live, today, drill, bound, harm>>

DumpFirst(f) == IF f.dump # "none" THEN [f EXCEPT !.dump = "none"] ELSE [f EXCEPT !.manifest = FALSE]
Removed(f) == f.dump = "none" /\ ~f.manifest

PruneStep(m) ==
    /\ maker[m].pc = "pruning" /\ maker[m].todo # {}
    /\ LET i == Least(maker[m].todo)
           f == DumpFirst(files[i])
       IN /\ OnDisk(i, f)
          /\ maker' = [maker EXCEPT ![m].todo = IF Removed(f) THEN @ \ {i} ELSE @]
    /\ UNCHANGED <<live, today, drill, bound, harm, best>>

Finished(m) ==
    /\ maker[m].pc = "pruning" /\ maker[m].todo = {}
    /\ maker' = [maker EXCEPT ![m] = AtRest]
    /\ UNCHANGED <<live, today, files, drill, bound, harm, best>>

\* The process dies; its files stay as they are
MakerDies(m) ==
    /\ maker[m].pc # "idle" /\ Harmed("died")
    /\ maker' = [maker EXCEPT ![m] = AtRest]
    /\ UNCHANGED <<live, today, files, drill, bound, best>>

\* A dump is cut short or altered on disk
Damage(i) ==
    /\ files[i].dump = "whole" /\ Harmed("damaged")
    /\ \E d \in {"short", "altered"} : OnDisk(i, [files[i] EXCEPT !.dump = d])
    /\ UNCHANGED <<live, today, maker, drill, bound, best>>

-----------------------------------------------------------------------------
(* run_restore_drill                                                       *)

Drill(d) == drill' = d
DrillFails(target) == Drill([NoDrill EXCEPT !.target = target, !.failed = TRUE])

DrillBegins(i) ==
    /\ bound.drills /\ drill.pc = "idle" /\ ~drill.target /\ files[i].manifest
    /\ IF files[i].dump = "whole" THEN Drill([NoDrill EXCEPT !.pc = "verified", !.id = i])
       ELSE DrillFails(FALSE)
    /\ UNCHANGED <<live, today, files, maker, bound, harm, best>>

DrillLoads ==
    /\ drill.pc = "verified"
    /\ LET f == files[drill.id] IN
       IF f.dump \in {"none", "short"} THEN DrillFails(TRUE)
       ELSE Drill([drill EXCEPT !.pc = "loaded", !.target = TRUE, !.version = f.held, !.sound = f.dump = "whole"])
    /\ UNCHANGED <<live, today, files, maker, bound, harm, best>>

\* The rows counted at the start of the backup, and the asset ledgers of the live database
Matches == drill.version = files[drill.id].counted /\ drill.version = live /\ drill.sound

DrillVerifies ==
    /\ drill.pc = "loaded"
    /\ IF Matches THEN Drill([drill EXCEPT !.pc = "passed"]) ELSE DrillFails(TRUE)
    /\ UNCHANGED <<live, today, files, maker, bound, harm, best>>

DropsCopy == FALSE
DrillCleans ==
    /\ drill.pc = "passed"
    /\ Drill([NoDrill EXCEPT !.target = DropsCopy])
    /\ UNCHANGED <<live, today, files, maker, bound, harm, best>>

\* An operator drops the copy a failed drill left
DropTarget ==
    /\ drill.pc = "idle" /\ drill.target
    /\ Drill(NoDrill)
    /\ UNCHANGED <<live, today, files, maker, bound, harm, best>>

-----------------------------------------------------------------------------
Books == live < bound.writes /\ live' = live + 1 /\ UNCHANGED <<today, files, maker, drill, bound, harm, best>>
Night == today < MaxDays /\ today' = today + 1 /\ UNCHANGED <<live, files, maker, drill, bound, harm, best>>

MakerStep(m) == Dump(m) \/ Move(m) \/ WriteManifest(m) \/ Verify(m) \/ PruneStep(m) \/ Finished(m)
DrillStep == DrillLoads \/ DrillVerifies \/ DrillCleans

BkNext ==
    \/ \E m \in Makers : (\E s \in Scopes : Begin(m, s)) \/ MakerStep(m) \/ DumpFails(m) \/ MakerDies(m)
    \/ \E i \in Ids : Damage(i) \/ DrillBegins(i)
    \/ DrillStep \/ DropTarget \/ Books \/ Night

BkSpec == BkInit /\ [][BkNext]_bkVars

-----------------------------------------------------------------------------
(* What the backups promise                                                *)

\* Types, and a partial file belongs to a maker at work unless one died
BkTypeOK ==
    /\ files \in [Ids -> [scope : Scopes, made : 0..MaxDays, part : BOOLEAN, manifest : BOOLEAN,
                          dump : {"none", "whole", "short", "altered"}, counted : 0..MaxWrites, held : 0..MaxWrites]]
    /\ \A i \in Ids : files[i].part => harm # {} \/ \E m \in Makers : maker[m].id = i

Restorable == {i \in Ids : files[i].manifest /\ files[i].dump = "whole"}

\* Whatever is pruned and whoever dies, the newest completed backup of a scope can be
\* restored, as long as no file was damaged
NewestSurvives ==
    "damaged" \notin harm =>
       \A s \in Scopes : best[s] # NoBackup => \E i \in OfScope(Restorable, s) : i >= best[s]

\* No dump is left that retention cannot see: unless a maker died, every dump on disk has
\* its manifest or a maker at work on it, whatever was damaged or failed
NoStrayDump ==
    "died" \notin harm => \A i \in Ids : files[i].dump # "none" =>
                   files[i].manifest \/ \E m \in Makers : maker[m].pc # "idle" /\ i \in {maker[m].id} \cup maker[m].todo

\* A drill that passes has restored what was counted, from an undamaged dump, and the asset
\* ledgers have not changed since the dump
DrillHonest ==
    drill.pc = "passed" => drill.sound /\ drill.version = files[drill.id].held /\ drill.version = files[drill.id].counted

\* Only a drill that failed leaves its copy behind
CopyMeansFailure == drill.pc = "idle" /\ drill.target => drill.failed

\* Once every maker is done the healthy backups fit the limit, or all are protected
LimitKept ==
    harm = {} /\ (\A m \in Makers : maker[m].pc = "idle") =>
       Cardinality(Healthy) <= SizeLimit \/ Healthy \subseteq Protected

\* What a directory of backups promises, and a drill
BackupsHonest ==
    BkTypeOK /\ NewestSurvives /\ NoStrayDump /\ DrillHonest /\ CopyMeansFailure /\ LimitKept

=============================================================================
