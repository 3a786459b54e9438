----------------------------- MODULE ChipArchive -----------------------------
(***************************************************************************)
(* The archive of the branch payloads of Taiwan chip snapshots             *)
(* (backend/storage_maintenance.py, repositories/storage_lifecycle.py,     *)
(* chip_archive_codec.py and the reader in repositories/taiwan_chip.py).   *)
(*                                                                         *)
(* A command archives the payloads of one date and source, the group, and  *)
(* after a grace time clears them online.  Every call is a process of its  *)
(* own, so two of them may interleave at each query, the daily sync may    *)
(* write a row in between, and a call may die.  A payload is a version;    *)
(* groups are numbered by date, and a cutoff is the first date not to be   *)
(* archived.                                                               *)
(***************************************************************************)
EXTENDS Naturals, FiniteSets, Folds, Functions, Common

CONSTANTS
    ChipRows, Groups,   \* the rows of the table and the dates they are of
    GroupOf(_),
    Operators,
    Grace, BackupAge,   \* days before a clean-up, and the age of a backup that still covers
    MaxGroups,          \* groups one call archives
    Cutoffs,            \* cutoffs the operators use
    MaxPayload, MaxSyncs, MaxDay    \* bounds

ASSUME ArchiveAssumption ==
    /\ IsFiniteSet(ChipRows)
    /\ Groups \subseteq Nat \ {0} /\ \A r \in ChipRows : GroupOf(r) \in Groups
    /\ Grace \in Nat \ {0} /\ MaxGroups \in Nat \ {0}
    /\ MaxPayload \in Nat /\ MaxDay \in Nat \ {0}

VARIABLES
    day,
    online,     \* rows that hold their payload
    payload,    \* the version last written for each row, 0 before there is one
    archives,   \* one per group
    vault,      \* days with a backup that can be verified
    rehearsed,  \* dry runs that were completed: the action and its cutoff
    command,    \* what each operator's call is doing
    rewritten,  \* rows written again after they were listed for an archive
    again       \* rows cleared by a call whose group another call had cleared

caVars == <<day, online, payload, archives, vault, rehearsed, command, rewritten, again>>

NoRows == [r \in ChipRows |-> 0]
NoArchive == [status |-> "none", rows |-> NoRows, eligible |-> 0, backup |-> 0]
NoCall == [pc |-> "idle", group |-> 0, count |-> 0, rows |-> NoRows, backup |-> 0, since |-> 0,
           cutoff |-> 0, left |-> 0]

CaInit ==
    /\ day = 1
    /\ online = {} /\ payload = NoRows
    /\ archives = [g \in Groups |-> NoArchive]
    /\ vault = {} /\ rehearsed = {}
    /\ command = [o \in Operators |-> NoCall]
    /\ rewritten = {} /\ again = {}

Moves(o, pc) == command' = [command EXCEPT ![o].pc = pc]
Leaves(o) == command' = [command EXCEPT ![o] = NoCall]

OnlineIn(g) == {r \in online : GroupOf(r) = g}
Held(rows) == {r \in ChipRows : rows[r] > 0}

-----------------------------------------------------------------------------
(* archive_chip_branches                                                   *)

\* get_next_chip_branch_archive_group: the first date with payloads and no archive
Unarchived(cutoff) == {g \in Groups : g < cutoff /\ OnlineIn(g) # {} /\ archives[g].status = "none"}
\* find_covering_backup, of any backup and of the archive's own
Covering == {d \in vault : d + BackupAge >= day}

RehearseArchive(c) ==
    /\ rehearsed' = rehearsed \cup {<<"archive", c>>}
    /\ UNCHANGED <<day, online, payload, archives, vault, command, rewritten, again>>

StartArchive(o, c) ==
    /\ command[o].pc = "idle" /\ <<"archive", c>> \in rehearsed
    /\ command' = [command EXCEPT ![o] = [NoCall EXCEPT !.pc = "choosing", !.cutoff = c, !.left = MaxGroups]]
    /\ UNCHANGED <<day, online, payload, archives, vault, rehearsed, rewritten, again>>

\* The next group with the number of its rows, and the newest backup that covers it
ChooseGroup(o) ==
    /\ command[o].pc = "choosing"
    /\ LET W == Unarchived(command[o].cutoff) IN
       IF command[o].left = 0 \/ W = {} \/ Covering = {} THEN Leaves(o)
       ELSE command' = [command EXCEPT ![o].pc = "chosen", ![o].group = Least(W),
                                 ![o].count = Cardinality(OnlineIn(Least(W))),
                                 ![o].backup = Greatest(Covering)]
    /\ UNCHANGED <<day, online, payload, archives, vault, rehearsed, rewritten, again>>

\* mutant: the number of rows is not compared
AnyNumber(o) == TRUE
\* As many rows as the group had when it was chosen, or as its archive has
SameNumber(o) == Cardinality(OnlineIn(command[o].group)) = command[o].count

ListRows(o) ==
    /\ command[o].pc = "chosen"
    /\ IF SameNumber(o)
       THEN command' = [command EXCEPT ![o].pc = "listed", ![o].since = day,
                        ![o].rows = [r \in ChipRows |-> IF r \in OnlineIn(command[o].group) THEN payload[r] ELSE 0]]
       ELSE Leaves(o)
    /\ UNCHANGED <<day, online, payload, archives, vault, rehearsed, rewritten, again>>

\* upsert_chip_branch_archive and its decoding, in one transaction
StoreArchive(o) ==
    /\ command[o].pc = "listed"
    /\ archives' = [archives EXCEPT ![command[o].group] =
                       [status |-> "archived", rows |-> command[o].rows,
                        eligible |-> command[o].since + Grace, backup |-> command[o].backup]]
    /\ command' = [command EXCEPT ![o] = [NoCall EXCEPT !.pc = "choosing", !.cutoff = command[o].cutoff,
                                                  !.left = command[o].left - 1]]
    /\ UNCHANGED <<day, online, payload, vault, rehearsed, rewritten, again>>

-----------------------------------------------------------------------------
(* cleanup_chip_branches                                                   *)

\* get_next_chip_branch_cleanup_candidate
Ripe == {g \in Groups : archives[g].status = "archived" /\ archives[g].eligible <= day}

RehearseCleanup ==
    /\ Ripe # {} /\ rehearsed' = rehearsed \cup {<<"cleanup", Least(Ripe)>>}
    /\ UNCHANGED <<day, online, payload, archives, vault, command, rewritten, again>>

StartCleanup(o) ==
    /\ command[o].pc = "idle" /\ Ripe # {}
    /\ LET a == archives[Least(Ripe)] IN
       command' = [command EXCEPT ![o] = [NoCall EXCEPT !.pc = "candidate", !.group = Least(Ripe),
                                                  !.count = Cardinality(Held(a.rows)), !.backup = a.backup]]
    /\ UNCHANGED <<day, online, payload, archives, vault, rehearsed, rewritten, again>>

\* A dry run with the same date, and the archive's own backup however old
CheckCleanup(o) ==
    /\ command[o].pc = "candidate"
    /\ IF <<"cleanup", command[o].group>> \in rehearsed /\ command[o].backup \in vault THEN Moves(o, "checked") ELSE Leaves(o)
    /\ UNCHANGED <<day, online, payload, archives, vault, rehearsed, rewritten, again>>

\* The payloads go and the archive is marked, unless the numbers of rows differ
ClearOnline(o) ==
    /\ command[o].pc = "checked"
    /\ LET g == command[o].group IN
       IF SameNumber(o)
       THEN /\ online' = online \ OnlineIn(g)
            /\ archives' = [archives EXCEPT ![g].status = IF @ = "archived" THEN "cleaned" ELSE @]
            /\ again' = IF archives[g].status = "cleaned" THEN again \cup OnlineIn(g) ELSE again
       ELSE UNCHANGED <<online, archives, again>>
    /\ Leaves(o)
    /\ UNCHANGED <<day, payload, vault, rehearsed, rewritten>>

-----------------------------------------------------------------------------
Written == FoldFunction(+, 0, payload)

\* upsert_taiwan_chip_snapshots: a sync writes a row, for the first time or again
SyncRow(r) ==
    /\ payload[r] < MaxPayload /\ Written < MaxSyncs
    /\ payload' = [payload EXCEPT ![r] = @ + 1] /\ online' = online \cup {r}
    /\ rewritten' = IF archives[GroupOf(r)].rows[r] > 0 \/ \E o \in Operators : command[o].pc = "listed" /\ command[o].rows[r] > 0
                    THEN rewritten \cup {r} ELSE rewritten
    /\ UNCHANGED <<day, archives, vault, rehearsed, command, again>>

\* A backup is made, or it is pruned or damaged
BackupMade ==
    /\ day \notin vault /\ vault' = vault \cup {day}
    /\ UNCHANGED <<day, online, payload, archives, rehearsed, command, rewritten, again>>
BackupGone(d) ==
    /\ d \in vault /\ vault' = vault \ {d}
    /\ UNCHANGED <<day, online, payload, archives, rehearsed, command, rewritten, again>>

\* The call dies, or its time is up
CallEnds(o) ==
    /\ command[o].pc # "idle" /\ Leaves(o)
    /\ UNCHANGED <<day, online, payload, archives, vault, rehearsed, rewritten, again>>

\* A call lasts about a minute (max_runtime_seconds), and the grace time is a day at least
NextDay ==
    /\ day < MaxDay /\ \A o \in Operators : command[o].pc = "idle"
    /\ day' = day + 1
    /\ UNCHANGED <<online, payload, archives, vault, rehearsed, command, rewritten, again>>

CaNext ==
    \/ \E c \in Cutoffs : RehearseArchive(c) \/ \E o \in Operators : StartArchive(o, c)
    \/ \E o \in Operators : \/ ChooseGroup(o) \/ ListRows(o) \/ StoreArchive(o)
                            \/ StartCleanup(o) \/ CheckCleanup(o) \/ ClearOnline(o) \/ CallEnds(o)
    \/ \E r \in ChipRows : SyncRow(r)
    \/ RehearseCleanup \/ BackupMade \/ (\E d \in vault : BackupGone(d)) \/ NextDay

CaSpec == CaInit /\ [][CaNext]_caVars

-----------------------------------------------------------------------------
(* What the archive promises                                               *)

\* get_taiwan_chip_snapshot: the payload online, or else the archived one
Readable(r) == IF r \in online THEN payload[r] ELSE archives[GroupOf(r)].rows[r]

CaTypeOK ==
    /\ online \cup rewritten \cup again \subseteq Held(payload)
    /\ archives \in [Groups -> [status : {"none", "archived", "cleaned"}, rows : [ChipRows -> 0..MaxPayload],
                                eligible : 0..(MaxDay + Grace), backup : 0..MaxDay]]
    /\ \A g \in Groups : \A r \in Held(archives[g].rows) : GroupOf(r) = g

\* Whoever archives and clears at the same time, a payload that was ever written can be read,
\* and it is the latest unless the row was written again after it was listed for the archive.
\* Only two clean-ups of one group can lose a payload: the second does not look whether the
\* group is still to be cleared, and counts rows that came after the first
NothingUnreadable ==
    \A r \in Held(payload) \ again : Readable(r) > 0 /\ (Readable(r) # payload[r] => r \in rewritten)

\* Both, in every state: the archive holds every payload that is no longer online
ArchiveKeeps == CaTypeOK /\ NothingUnreadable

=============================================================================
