---------------------------- MODULE Services_proofs ----------------------------
(***************************************************************************)
(* Services that keep records: the archive of broker flows loses no row,   *)
(* the alerts do what their user last asked of them, quotes are refreshed  *)
(* in one flight at a time, and so are the histories of futures, the       *)
(* newest backup survives whatever is pruned and whoever dies, a run of    *)
(* the backfill that is left alone brings the bars up to date, and the     *)
(* loops that keep to the clock serve every time and window.               *)
(***************************************************************************)
EXTENDS ChipArchive, Alerts, QuoteRefresh, FutoptRefresh, Backups, HistoryBackfill, Schedules,
        FiniteSetTheorems, WellFoundedInduction, TLAPS

-----------------------------------------------------------------------------
(* The smallest and the largest of a set                                   *)

\* Least of naturals is one of them, and none is smaller
LEMMA LeastExists ==
    ASSUME NEW S \in SUBSET Nat, S # {}
    PROVE  Least(S) \in S /\ \A x \in S : Least(S) <= x
<1>1. PICK m \in S : \A y \in S : ~ (<<y, m>> \in OpToRel(<, Nat))
  BY WFMin, NatLessThanWellFounded
<1>2. \A y \in S : m <= y
  <2> SUFFICES ASSUME NEW y \in S, ~(m <= y)  PROVE FALSE
    OBVIOUS
  <2>1. y \in Nat /\ m \in Nat
    OBVIOUS
  <2>2. y < m
    BY <2>1
  <2>3. <<y, m>> \in OpToRel(<, Nat)
    BY <2>1, <2>2 DEF OpToRel
  <2> QED  BY <1>1, <2>3
<1> QED  BY <1>2 DEF Least

\* Greatest of naturals with a bound is one of them, and none is greater
LEMMA GreatestExists ==
    ASSUME NEW n \in Nat, NEW S \in SUBSET (0..n), S # {}
    PROVE  Greatest(S) \in S /\ \A x \in S : x <= Greatest(S)
<1> DEFINE T == {n - x : x \in S}
<1>1. T \in SUBSET Nat /\ T # {}
  <2>1. \A x \in S : n - x \in Nat
    OBVIOUS
  <2> QED  BY <2>1
<1>2. PICK m \in T : \A y \in T : m <= y
  BY <1>1, LeastExists
<1>3. PICK x \in S : m = n - x
  BY <1>2
<1>4. \A y \in S : n - y \in T
  OBVIOUS
<1>5. \A y \in S : n - x <= n - y
  BY <1>2, <1>3, <1>4
<1>6. \A y \in S : x >= y
  BY <1>5
<1>7. \A y \in S : y \in Int
  OBVIOUS
<1> QED  BY <1>3, <1>6, <1>7 DEF Greatest

-----------------------------------------------------------------------------
(* The archive of chip payloads                                            *)

CallType == [pc : {"idle", "choosing", "chosen", "listed", "candidate", "checked"},
             group : Groups \cup {0}, count : Nat, rows : [ChipRows -> 0..MaxPayload],
             backup : 0..MaxDay, since : 0..MaxDay, cutoff : Cutoffs \cup {0}, left : Int]

ArchiveTyped ==
    /\ CaTypeOK
    /\ day \in 1..MaxDay /\ vault \subseteq 1..MaxDay
    /\ payload \in [ChipRows -> 0..MaxPayload]
    /\ command \in [Operators -> CallType]

\* A group that is being archived cannot be cleared today
MayArchive(c) ==
    c.pc \in {"chosen", "listed"} =>
        /\ c.group \in Groups
        /\ archives[c.group].status = "none"
           \/ (archives[c.group].status = "archived" /\ archives[c.group].eligible > day)

\* The archive of a group that is being cleared is the one whose rows were counted
MayClear(c) ==
    c.pc \in {"candidate", "checked"} =>
        /\ c.group \in Groups
        /\ archives[c.group].status = "cleaned"
           \/ (archives[c.group].status = "archived" /\ archives[c.group].eligible <= day)
        /\ c.count = Cardinality(Held(archives[c.group].rows))

\* A version that was listed or archived is the latest, or its row was written again
LatestOrRewritten(rows) == \A r \in Held(rows) : rows[r] = payload[r] \/ r \in rewritten

\* What was listed is still online
ListStands(c) ==
    c.pc = "listed" =>
        Held(c.rows) \subseteq OnlineIn(c.group) /\ c.since = day /\ LatestOrRewritten(c.rows)

CallFits(c) == MayArchive(c) /\ MayClear(c) /\ ListStands(c)
CallsFit == \A o \in Operators : CallFits(command[o])

\* What is archived is online until the clean-up
ArchivesStand ==
    \A g \in Groups :
        /\ archives[g].status = "archived" => Held(archives[g].rows) \subseteq OnlineIn(g)
        /\ LatestOrRewritten(archives[g].rows)

\* A payload is online, or it is in the archive of its group and the group was cleared
Kept ==
    \A r \in Held(payload) :
        /\ archives[GroupOf(r)].status # "cleaned" => r \in online
        /\ r \notin online \cup again => archives[GroupOf(r)].rows[r] > 0

ArchiveOK == ArchiveTyped /\ CallsFit /\ ArchivesStand /\ Kept

\* What is promised follows
LEMMA ArchiveOKSuffices == ArchiveOK => ArchiveKeeps
<1> SUFFICES ASSUME ArchiveOK  PROVE NothingUnreadable
  BY DEF ArchiveOK, ArchiveTyped, ArchiveKeeps
<1> SUFFICES ASSUME NEW r \in Held(payload) \ again
             PROVE  Readable(r) > 0 /\ (Readable(r) # payload[r] => r \in rewritten)
  BY DEF NothingUnreadable
<1>1. CASE r \in online
  BY <1>1 DEF Readable, Held
<1>2. CASE r \notin online
  <2>1. archives[GroupOf(r)].rows[r] > 0
    BY <1>2 DEF ArchiveOK, Kept
  <2>2. r \in ChipRows /\ GroupOf(r) \in Groups
    BY ArchiveAssumption DEF Held
  <2>3. archives[GroupOf(r)].rows[r] = payload[r] \/ r \in rewritten
    BY <2>1, <2>2 DEF ArchiveOK, ArchivesStand, LatestOrRewritten, Held
  <2> QED  BY <1>2, <2>1, <2>3 DEF Readable
<1> QED  BY <1>1, <1>2

-----------------------------------------------------------------------------
(* The first state and the steps                                           *)

LEMMA ArchiveInit == CaInit => ArchiveOK
<1> SUFFICES ASSUME CaInit  PROVE ArchiveOK
  OBVIOUS
<1> USE ArchiveAssumption DEF CaInit
<1>1. NoRows \in [ChipRows -> 0..MaxPayload] /\ Held(NoRows) = {}
  BY DEF NoRows, Held
<1>2. NoCall \in CallType /\ NoCall.pc = "idle"
  BY <1>1 DEF NoCall, CallType
<1>3. archives \in [Groups -> [status : {"none", "archived", "cleaned"}, rows : [ChipRows -> 0..MaxPayload],
                               eligible : 0..(MaxDay + Grace), backup : 0..MaxDay]]
  BY <1>1 DEF NoArchive
<1>4. \A g \in Groups : archives[g].status = "none" /\ archives[g].rows = NoRows
  BY DEF NoArchive
<1>5. ArchiveTyped
  BY <1>1, <1>2, <1>3, <1>4 DEF ArchiveTyped, CaTypeOK
<1>6. CallsFit
  BY <1>2 DEF CallsFit, CallFits, MayArchive, MayClear, ListStands
<1>7. ArchivesStand
  BY <1>1, <1>4 DEF ArchivesStand, LatestOrRewritten
<1>8. Kept
  BY <1>1 DEF Kept
<1> QED  BY <1>5, <1>6, <1>7, <1>8 DEF ArchiveOK

\* A step of a call that leaves the tables alone needs only to fit
LEMMA CallMoves ==
    ASSUME ArchiveOK, NEW o \in Operators, NEW c \in CallType, CallFits(c),
           command' = [command EXCEPT ![o] = c],
           UNCHANGED <<day, online, payload, archives, vault, rewritten, again>>
    PROVE  ArchiveOK'
<1>1. ArchiveTyped'
  BY DEF ArchiveOK, ArchiveTyped, CaTypeOK, Held
<1>2. \A p \in Operators : command'[p] = IF p = o THEN c ELSE command[p]
  BY DEF ArchiveOK, ArchiveTyped
<1>3. \A p \in Operators : CallFits(command'[p])
  BY <1>2 DEF ArchiveOK, CallsFit
<1>4. CallsFit'
  <2> SUFFICES ASSUME NEW p \in Operators  PROVE CallFits(command[p])'
    BY DEF CallsFit
  <2>1. CallFits(command'[p])
    BY <1>3
  <2>2. MayArchive(command[p])'
    BY <2>1 DEF CallFits, MayArchive
  <2>3. MayClear(command[p])'
    BY <2>1 DEF CallFits, MayClear, Held
  <2>4. ListStands(command[p])'
    BY <2>1 DEF CallFits, ListStands, LatestOrRewritten, Held, OnlineIn
  <2> QED  BY <2>2, <2>3, <2>4 DEF CallFits
<1>5. ArchivesStand'
  BY DEF ArchiveOK, ArchivesStand, LatestOrRewritten, Held, OnlineIn
<1>6. Kept'
  BY DEF ArchiveOK, Kept, Held
<1> QED  BY <1>1, <1>4, <1>5, <1>6 DEF ArchiveOK

\* A call that has ended asks for nothing
LEMMA NoCallFits == NoCall \in CallType /\ CallFits(NoCall)
<1>1. NoRows \in [ChipRows -> 0..MaxPayload]
  BY ArchiveAssumption DEF NoRows
<1>2. NoCall \in CallType /\ NoCall.pc = "idle"
  BY <1>1, ArchiveAssumption DEF NoCall, CallType
<1> QED  BY <1>2 DEF CallFits, MayArchive, MayClear, ListStands

LEMMA CallLeaves ==
    ASSUME ArchiveOK, NEW o \in Operators, Leaves(o),
           UNCHANGED <<day, online, payload, archives, vault, rewritten, again>>
    PROVE  ArchiveOK'
BY CallMoves, NoCallFits DEF Leaves

\* Rows that hold something are rows of the table, and can be counted
LEMMA HeldCounted ==
    ASSUME NEW rows
    PROVE  IsFiniteSet(Held(rows)) /\ Cardinality(Held(rows)) \in Nat
<1>1. Held(rows) \in SUBSET ChipRows
  BY DEF Held
<1> QED  BY <1>1, ArchiveAssumption, FS_Subset, FS_CardinalityType

LEMMA OnlineCounted ==
    ASSUME ArchiveTyped, NEW g
    PROVE  IsFiniteSet(OnlineIn(g)) /\ Cardinality(OnlineIn(g)) \in Nat
<1>1. OnlineIn(g) \in SUBSET ChipRows
  BY DEF OnlineIn, Held, ArchiveTyped, CaTypeOK
<1> QED  BY <1>1, ArchiveAssumption, FS_Subset, FS_CardinalityType

LEMMA StartArchiveKeeps ==
    ASSUME ArchiveOK, NEW o \in Operators, NEW c \in Cutoffs, StartArchive(o, c)
    PROVE  ArchiveOK'
<1>1. PICK n \in CallType : n = NoCall
  BY NoCallFits
<1>2. PICK d : d = [n EXCEPT !.pc = "choosing", !.cutoff = c, !.left = MaxGroups]
  OBVIOUS
<1>3. d \in CallType /\ d.pc = "choosing"
  <2>1. MaxGroups \in Int /\ c \in Cutoffs \cup {0}
    BY ArchiveAssumption
  <2> QED  BY <1>2, <2>1 DEF CallType
<1>4. CallFits(d)
  BY <1>3 DEF CallFits, MayArchive, MayClear, ListStands
<1>5. command' = [command EXCEPT ![o] = d]
  BY <1>1, <1>2 DEF StartArchive
<1> QED  BY <1>3, <1>4, <1>5, CallMoves DEF StartArchive

LEMMA ChooseGroupKeeps ==
    ASSUME ArchiveOK, NEW o \in Operators, ChooseGroup(o)
    PROVE  ArchiveOK'
<1>1. CASE Leaves(o)
  BY <1>1, CallLeaves DEF ChooseGroup
<1>2. CASE ~ Leaves(o)
  <2>1. PICK W : W = Unarchived(command[o].cutoff)
    OBVIOUS
  <2>2. PICK c \in CallType : c = command[o]
    BY DEF ArchiveOK, ArchiveTyped
  <2>3. PICK g, n, b : g = Least(W) /\ n = Cardinality(OnlineIn(Least(W))) /\ b = Greatest(Covering)
    OBVIOUS
  <2>4. /\ W # {} /\ Covering # {}
        /\ command' = [command EXCEPT ![o].pc = "chosen", ![o].group = g, ![o].count = n, ![o].backup = b]
    BY <1>2, <2>1, <2>3 DEF ChooseGroup
  <2>5. g \in Groups /\ archives[g].status = "none"
    <3>1. W \in SUBSET Nat
      BY <2>1, ArchiveAssumption DEF Unarchived
    <3>2. g \in W
      BY <2>3, <2>4, <3>1, LeastExists
    <3> QED  BY <2>1, <3>2 DEF Unarchived
  <2>6. n \in Nat
    BY <2>3, OnlineCounted DEF ArchiveOK
  <2>7. b \in 0..MaxDay
    <3>1. Covering \in SUBSET (0..MaxDay)
      <4>1. Covering \subseteq 1..MaxDay
        BY DEF Covering, ArchiveOK, ArchiveTyped
      <4> QED  BY <4>1
    <3> QED  BY <2>3, <2>4, <3>1, GreatestExists, ArchiveAssumption
  <2>8. PICK d : d = [c EXCEPT !.pc = "chosen", !.group = g, !.count = n, !.backup = b]
    OBVIOUS
  <2>9. d \in CallType /\ d.pc = "chosen" /\ d.group = g
    BY <2>5, <2>6, <2>7, <2>8 DEF CallType
  <2>10. CallFits(d)
    BY <2>5, <2>9 DEF CallFits, MayArchive, MayClear, ListStands
  <2>11. command' = [command EXCEPT ![o] = d]
    BY <2>2, <2>4, <2>8
  <2> QED  BY <2>9, <2>10, <2>11, CallMoves DEF ChooseGroup
<1> QED  BY <1>1, <1>2

LEMMA ListRowsKeeps ==
    ASSUME ArchiveOK, NEW o \in Operators, ListRows(o)
    PROVE  ArchiveOK'
<1>1. CASE Leaves(o)
  BY <1>1, CallLeaves DEF ListRows
<1>2. CASE ~ Leaves(o)
  <2>1. PICK c \in CallType : c = command[o]
    BY DEF ArchiveOK, ArchiveTyped
  <2>2. PICK t, rows : /\ t = day
                       /\ rows = [r \in ChipRows |-> IF r \in OnlineIn(command[o].group) THEN payload[r] ELSE 0]
    OBVIOUS
  <2>3. command' = [command EXCEPT ![o].pc = "listed", ![o].since = t, ![o].rows = rows]
    BY <1>2, <2>2 DEF ListRows
  <2>4. t \in 0..MaxDay /\ rows \in [ChipRows -> 0..MaxPayload]
    BY <2>2, ArchiveAssumption DEF ArchiveOK, ArchiveTyped
  <2>5. PICK d : d = [c EXCEPT !.pc = "listed", !.since = t, !.rows = rows]
    OBVIOUS
  <2>6. d \in CallType /\ d.pc = "listed" /\ d.group = c.group /\ d.since = t /\ d.rows = rows
    BY <2>4, <2>5 DEF CallType
  <2>7. c.pc = "chosen" /\ CallFits(c)
    BY <2>1 DEF ListRows, ArchiveOK, CallsFit
  <2>8. Held(rows) \subseteq OnlineIn(c.group) /\ \A r \in Held(rows) : rows[r] = payload[r]
    BY <2>1, <2>2 DEF Held
  <2>9. MayArchive(d) /\ MayClear(d)
    BY <2>6, <2>7 DEF CallFits, MayArchive, MayClear
  <2>10. ListStands(d)
    BY <2>2, <2>6, <2>8 DEF ListStands, LatestOrRewritten
  <2>11. command' = [command EXCEPT ![o] = d]
    BY <2>1, <2>3, <2>5
  <2> QED  BY <2>6, <2>9, <2>10, <2>11, CallMoves DEF ListRows, CallFits
<1> QED  BY <1>1, <1>2

LEMMA StartCleanupKeeps ==
    ASSUME ArchiveOK, NEW o \in Operators, StartCleanup(o)
    PROVE  ArchiveOK'
<1>1. PICK g : g = Least(Ripe)
  OBVIOUS
<1>2. g \in Groups /\ archives[g].status = "archived" /\ archives[g].eligible <= day
  <2>1. Ripe \in SUBSET Nat
    BY ArchiveAssumption DEF Ripe
  <2>2. g \in Ripe
    BY <1>1, <2>1, LeastExists DEF StartCleanup
  <2> QED  BY <2>2 DEF Ripe
<1>3. PICK n, b : n = Cardinality(Held(archives[g].rows)) /\ b = archives[g].backup
  OBVIOUS
<1>4. n \in Nat /\ b \in 0..MaxDay
  BY <1>2, <1>3, HeldCounted DEF ArchiveOK, ArchiveTyped, CaTypeOK
<1>5. PICK c \in CallType : c = NoCall
  BY NoCallFits
<1>6. PICK d : d = [c EXCEPT !.pc = "candidate", !.group = g, !.count = n, !.backup = b]
  OBVIOUS
<1>7. d \in CallType /\ d.pc = "candidate" /\ d.group = g /\ d.count = n
  BY <1>2, <1>4, <1>6 DEF CallType
<1>8. CallFits(d)
  BY <1>2, <1>3, <1>7 DEF CallFits, MayArchive, MayClear, ListStands
<1>9. command' = [command EXCEPT ![o] = d]
  BY <1>1, <1>3, <1>5, <1>6 DEF StartCleanup
<1> QED  BY <1>7, <1>8, <1>9, CallMoves DEF StartCleanup

LEMMA CheckCleanupKeeps ==
    ASSUME ArchiveOK, NEW o \in Operators, CheckCleanup(o)
    PROVE  ArchiveOK'
<1>1. CASE Leaves(o)
  BY <1>1, CallLeaves DEF CheckCleanup
<1>2. CASE Moves(o, "checked")
  <2>1. PICK c \in CallType : c = command[o]
    BY DEF ArchiveOK, ArchiveTyped
  <2>2. c.pc = "candidate" /\ CallFits(c)
    BY <2>1 DEF CheckCleanup, ArchiveOK, CallsFit
  <2>3. PICK d : d = [c EXCEPT !.pc = "checked"]
    OBVIOUS
  <2>4. d \in CallType /\ d.pc = "checked" /\ d.group = c.group /\ d.count = c.count
    BY <2>3 DEF CallType
  <2>5. CallFits(d)
    BY <2>2, <2>4 DEF CallFits, MayArchive, MayClear, ListStands
  <2>6. command' = [command EXCEPT ![o] = d]
    BY <1>2, <2>1, <2>3 DEF Moves
  <2> QED  BY <2>4, <2>5, <2>6, CallMoves DEF CheckCleanup
<1> QED  BY <1>1, <1>2 DEF CheckCleanup

ArchiveType == [status : {"none", "archived", "cleaned"}, rows : [ChipRows -> 0..MaxPayload],
                eligible : 0..(MaxDay + Grace), backup : 0..MaxDay]

\* The group was neither cleared nor is it being cleared, so its rows are all online
LEMMA StoreArchiveKeeps ==
    ASSUME ArchiveOK, NEW o \in Operators, StoreArchive(o)
    PROVE  ArchiveOK'
<1>1. PICK c \in CallType : c = command[o]
  BY DEF ArchiveOK, ArchiveTyped
<1>2. PICK g, rows : g = c.group /\ rows = c.rows
  OBVIOUS
<1>3. c.pc = "listed" /\ CallFits(c)
  BY <1>1 DEF StoreArchive, ArchiveOK, CallsFit
<1>4. /\ g \in Groups
      /\ archives[g].status = "none" \/ (archives[g].status = "archived" /\ archives[g].eligible > day)
  BY <1>2, <1>3 DEF CallFits, MayArchive
<1>5. /\ Held(rows) \subseteq OnlineIn(g) /\ c.since = day /\ LatestOrRewritten(rows)
      /\ rows \in [ChipRows -> 0..MaxPayload]
  BY <1>2, <1>3 DEF CallFits, ListStands, CallType
<1>6. PICK a : a = [status |-> "archived", rows |-> rows, eligible |-> c.since + Grace, backup |-> c.backup]
  OBVIOUS
<1>7. /\ a \in ArchiveType /\ a.status = "archived" /\ a.rows = rows
      /\ a.eligible = day + Grace
  BY <1>5, <1>6, ArchiveAssumption DEF ArchiveType, CallType, ArchiveOK, ArchiveTyped
<1>8. a.eligible > day
  BY <1>7, ArchiveAssumption DEF ArchiveOK, ArchiveTyped
<1>9. archives' = [archives EXCEPT ![g] = a]
  BY <1>1, <1>2, <1>6 DEF StoreArchive
<1>10. /\ archives \in [Groups -> ArchiveType]
       /\ \A h \in Groups : archives'[h] = IF h = g THEN a ELSE archives[h]
  BY <1>9 DEF ArchiveOK, ArchiveTyped, CaTypeOK, ArchiveType
<1>11. PICK n \in CallType : n = NoCall
  BY NoCallFits
<1>12. PICK d : d = [n EXCEPT !.pc = "choosing", !.cutoff = c.cutoff, !.left = c.left - 1]
  OBVIOUS
<1>13. d \in CallType /\ d.pc = "choosing"
  <2>1. c.cutoff \in Cutoffs \cup {0} /\ c.left - 1 \in Int
    BY DEF CallType
  <2> QED  BY <1>12, <2>1 DEF CallType
<1>14. command' = [command EXCEPT ![o] = d]
  BY <1>1, <1>11, <1>12 DEF StoreArchive
<1>15. \A p \in Operators : command'[p] = IF p = o THEN d ELSE command[p]
  BY <1>14 DEF ArchiveOK, ArchiveTyped
<1>16. UNCHANGED <<day, online, payload, vault, rewritten, again>>
  BY DEF StoreArchive
<1>17. ArchiveTyped'
  <2>1. command' \in [Operators -> CallType]
    BY <1>13, <1>14 DEF ArchiveOK, ArchiveTyped
  <2>2. archives' \in [Groups -> ArchiveType]
    BY <1>7, <1>9, <1>10
  <2>3. \A r \in Held(rows) : GroupOf(r) = g
    BY <1>5 DEF OnlineIn
  <2>4. \A h \in Groups : \A r \in Held(archives'[h].rows) : GroupOf(r) = h
    BY <1>7, <1>10, <2>3 DEF ArchiveOK, ArchiveTyped, CaTypeOK
  <2> QED  BY <1>16, <2>1, <2>2, <2>4 DEF ArchiveOK, ArchiveTyped, CaTypeOK, ArchiveType, Held
<1>18. CallsFit'
  <2> SUFFICES ASSUME NEW p \in Operators  PROVE CallFits(command[p])'
    BY DEF CallsFit
  <2>1. PICK e \in CallType : e = command'[p]
    BY <1>13, <1>15 DEF ArchiveOK, ArchiveTyped
  <2>2. CallFits(e)
    <3>1. CallFits(d)
      BY <1>13 DEF CallFits, MayArchive, MayClear, ListStands
    <3> QED  BY <1>15, <2>1, <3>1 DEF ArchiveOK, CallsFit
  <2>3. MayArchive(command[p])'
    BY <1>7, <1>8, <1>10, <1>16, <2>1, <2>2 DEF CallFits, MayArchive
  <2>4. e.pc \in {"candidate", "checked"} => e.group # g
    <3>1. archives[g].eligible \in Nat /\ day \in Nat
      BY <1>4, <1>10, ArchiveAssumption DEF ArchiveType, ArchiveOK, ArchiveTyped
    <3> QED  BY <1>4, <2>2, <3>1 DEF CallFits, MayClear
  <2>5. MayClear(command[p])'
    BY <1>10, <1>16, <2>1, <2>2, <2>4 DEF CallFits, MayClear, Held
  <2>6. ListStands(command[p])'
    BY <1>16, <2>1, <2>2 DEF CallFits, ListStands, LatestOrRewritten, Held, OnlineIn
  <2> QED  BY <2>3, <2>5, <2>6 DEF CallFits
<1>19. ArchivesStand'
  <2> SUFFICES ASSUME NEW h \in Groups
               PROVE  /\ archives'[h].status = "archived" => Held(archives'[h].rows) \subseteq OnlineIn(h)
                      /\ LatestOrRewritten(archives'[h].rows)
    BY <1>16 DEF ArchivesStand, LatestOrRewritten, Held, OnlineIn
  <2> QED  BY <1>5, <1>7, <1>10 DEF ArchiveOK, ArchivesStand
<1>20. Kept'
  <2> SUFFICES ASSUME NEW r \in Held(payload)
               PROVE  /\ archives'[GroupOf(r)].status # "cleaned" => r \in online
                      /\ r \notin online \cup again => archives'[GroupOf(r)].rows[r] > 0
    BY <1>16 DEF Kept, Held
  <2>1. GroupOf(r) \in Groups
    BY ArchiveAssumption DEF Held
  <2>2. CASE GroupOf(r) = g
    <3>1. r \in online
      BY <1>4, <2>2 DEF ArchiveOK, Kept
    <3> QED  BY <3>1
  <2>3. CASE GroupOf(r) # g
    BY <1>10, <2>1, <2>3 DEF ArchiveOK, Kept
  <2> QED  BY <2>2, <2>3
<1> QED  BY <1>17, <1>18, <1>19, <1>20 DEF ArchiveOK

\* The archive of the group was the one that was counted, and as many rows are online: the same rows,
\* unless another call had cleared the group
LEMMA ClearOnlineKeeps ==
    ASSUME ArchiveOK, NEW o \in Operators, ClearOnline(o)
    PROVE  ArchiveOK'
<1>1. CASE ~ SameNumber(o)
  BY <1>1, CallLeaves DEF ClearOnline
<1>2. CASE SameNumber(o)
  <2>1. PICK c \in CallType : c = command[o]
    BY DEF ArchiveOK, ArchiveTyped
  <2>2. PICK g, X : g = c.group /\ X = OnlineIn(g)
    OBVIOUS
  <2>3. c.pc = "checked" /\ CallFits(c) /\ Cardinality(X) = c.count
    BY <1>2, <2>1, <2>2 DEF ClearOnline, SameNumber, ArchiveOK, CallsFit
  <2>4. /\ g \in Groups
        /\ archives[g].status = "cleaned"
           \/ (archives[g].status = "archived" /\ archives[g].eligible <= day)
        /\ Cardinality(X) = Cardinality(Held(archives[g].rows))
    BY <2>2, <2>3 DEF CallFits, MayClear
  <2>5. /\ archives' = [archives EXCEPT ![g].status = IF @ = "archived" THEN "cleaned" ELSE @]
        /\ online' = online \ X
        /\ again' = IF archives[g].status = "cleaned" THEN again \cup X ELSE again
        /\ UNCHANGED <<day, payload, vault, rewritten>>
        /\ command' = [command EXCEPT ![o] = NoCall]
    BY <1>2, <2>1, <2>2 DEF ClearOnline, Leaves
  <2>6. PICK a \in ArchiveType : a = archives[g]
    BY <2>4 DEF ArchiveType, ArchiveOK, ArchiveTyped, CaTypeOK
  <2>7. PICK b : b = [a EXCEPT !.status = "cleaned"]
    OBVIOUS
  <2>8. b \in ArchiveType /\ b.status = "cleaned" /\ b.rows = a.rows
    BY <2>7 DEF ArchiveType
  <2>9. archives' = [archives EXCEPT ![g] = b]
    BY <2>4, <2>5, <2>6, <2>7
  <2>10. /\ archives \in [Groups -> ArchiveType]
         /\ \A h \in Groups : archives'[h] = IF h = g THEN b ELSE archives[h]
    BY <2>9 DEF ArchiveOK, ArchiveTyped, CaTypeOK, ArchiveType
  <2>11. \A p \in Operators : command'[p] = IF p = o THEN NoCall ELSE command[p]
    BY <2>5 DEF ArchiveOK, ArchiveTyped
  <2>12. X \subseteq online /\ \A r \in online : r \in X <=> GroupOf(r) = g
    BY <2>2 DEF OnlineIn
  <2>13. archives[g].status = "archived" => X = Held(archives[g].rows)
    <3> SUFFICES ASSUME archives[g].status = "archived"  PROVE X = Held(archives[g].rows)
      OBVIOUS
    <3>1. Held(archives[g].rows) \in SUBSET X
      BY <2>2, <2>4 DEF ArchiveOK, ArchivesStand
    <3>2. IsFiniteSet(X)
      BY <2>2, OnlineCounted DEF ArchiveOK
    <3> QED  BY <2>4, <3>1, <3>2, FS_Subset
  <2>14. ArchiveTyped'
    <3>1. command' \in [Operators -> CallType]
      BY <2>5, NoCallFits DEF ArchiveOK, ArchiveTyped
    <3>2. archives' \in [Groups -> ArchiveType]
      BY <2>8, <2>9, <2>10
    <3>3. \A h \in Groups : \A r \in Held(archives'[h].rows) : GroupOf(r) = h
      BY <2>6, <2>8, <2>10 DEF ArchiveOK, ArchiveTyped, CaTypeOK
    <3>4. (online \cup rewritten \cup again)' \subseteq Held(payload)
      BY <2>5, <2>12 DEF ArchiveOK, ArchiveTyped, CaTypeOK
    <3> QED  BY <2>5, <3>1, <3>2, <3>3, <3>4 DEF ArchiveOK, ArchiveTyped, CaTypeOK, ArchiveType, Held
  <2>15. CallsFit'
    <3> SUFFICES ASSUME NEW p \in Operators  PROVE CallFits(command[p])'
      BY DEF CallsFit
    <3>1. PICK e \in CallType : e = command'[p]
      BY <2>11, NoCallFits DEF ArchiveOK, ArchiveTyped
    <3>2. CallFits(e)
      BY <2>11, <3>1, NoCallFits DEF ArchiveOK, CallsFit
    <3>3. e.pc \in {"chosen", "listed"} => e.group \in Groups /\ e.group # g
      <4>1. archives[g].eligible \in Nat /\ day \in Nat
        BY <2>4, <2>10, ArchiveAssumption DEF ArchiveType, ArchiveOK, ArchiveTyped
      <4> QED  BY <2>4, <3>2, <4>1 DEF CallFits, MayArchive
    <3>4. MayArchive(command[p])'
      BY <2>5, <2>10, <3>1, <3>2, <3>3 DEF CallFits, MayArchive
    <3>5. MayClear(command[p])'
      <4>1. \A h \in Groups : /\ archives'[h].rows = archives[h].rows
                              /\ archives[h].status = "cleaned" => archives'[h].status = "cleaned"
                              /\ archives'[h].eligible = archives[h].eligible
                              /\ archives'[h].status \in {archives[h].status, "cleaned"}
        BY <2>6, <2>7, <2>8, <2>10 DEF ArchiveType
      <4> QED  BY <2>5, <3>1, <3>2, <4>1 DEF CallFits, MayClear, Held
    <3>6. ListStands(command[p])'
      BY <2>5, <2>12, <3>1, <3>2, <3>3 DEF CallFits, ListStands, LatestOrRewritten, Held, OnlineIn
    <3> QED  BY <3>4, <3>5, <3>6 DEF CallFits
  <2>16. ArchivesStand'
    <3> SUFFICES ASSUME NEW h \in Groups
                 PROVE  /\ archives'[h].status = "archived" => Held(archives'[h].rows) \subseteq OnlineIn(h)'
                        /\ LatestOrRewritten(archives'[h].rows)
      BY <2>5 DEF ArchivesStand, LatestOrRewritten, Held
    <3>1. LatestOrRewritten(archives'[h].rows)
      BY <2>6, <2>8, <2>10 DEF ArchiveOK, ArchivesStand
    <3>2. ASSUME h # g  PROVE OnlineIn(h)' = OnlineIn(h)
      BY <2>5, <2>12, <3>2 DEF OnlineIn
    <3> QED  BY <2>8, <2>10, <3>1, <3>2 DEF ArchiveOK, ArchivesStand
  <2>17. Kept'
    <3> SUFFICES ASSUME NEW r \in Held(payload)
                 PROVE  /\ archives'[GroupOf(r)].status # "cleaned" => r \in online'
                        /\ r \notin online' \cup again' => archives'[GroupOf(r)].rows[r] > 0
      BY <2>5 DEF Kept, Held
    <3>1. GroupOf(r) \in Groups
      BY ArchiveAssumption DEF Held
    <3>2. CASE GroupOf(r) = g
      <4>1. CASE r \in X /\ archives[g].status = "archived"
        <5>1. archives[g].rows[r] > 0
          BY <2>13, <4>1 DEF Held
        <5> QED  BY <2>6, <2>8, <2>10, <3>1, <3>2, <5>1
      <4>2. CASE r \in X /\ archives[g].status = "cleaned"
        BY <2>5, <2>6, <2>8, <2>10, <3>1, <3>2, <4>2
      <4>3. CASE r \notin X
        <5>1. r \notin online
          BY <2>12, <3>2, <4>3
        <5>2. again \subseteq again'
          BY <2>5
        <5> QED  BY <2>6, <2>8, <2>10, <3>1, <3>2, <5>1, <5>2 DEF ArchiveOK, Kept
      <4> QED  BY <2>4, <4>1, <4>2, <4>3
    <3>3. CASE GroupOf(r) # g
      <4>1. (r \in online' <=> r \in online) /\ (r \in again => r \in again')
        BY <2>5, <2>12, <3>3
      <4> QED  BY <2>10, <3>1, <3>3, <4>1 DEF ArchiveOK, Kept
    <3> QED  BY <3>2, <3>3
  <2> QED  BY <2>14, <2>15, <2>16, <2>17 DEF ArchiveOK
<1> QED  BY <1>1, <1>2

\* A row that was archived or listed before it is written is written again
LEMMA SyncRowKeeps ==
    ASSUME ArchiveOK, NEW r \in ChipRows, SyncRow(r)
    PROVE  ArchiveOK'
<1>1. /\ payload' = [payload EXCEPT ![r] = @ + 1] /\ online' = online \cup {r}
      /\ UNCHANGED <<day, archives, vault, command, again>>
  BY DEF SyncRow
<1>2. rewritten \subseteq rewritten'
  BY DEF SyncRow
<1>3. /\ payload \in [ChipRows -> 0..MaxPayload] /\ payload[r] < MaxPayload
      /\ \A s \in ChipRows : payload'[s] = IF s = r THEN payload[r] + 1 ELSE payload[s]
  BY <1>1 DEF SyncRow, ArchiveOK, ArchiveTyped
<1>4. payload[r] \in Nat /\ payload[r] + 1 \in 0..MaxPayload
  BY <1>3, ArchiveAssumption
<1>5. Held(payload)' = Held(payload) \cup {r}
  BY <1>3, <1>4 DEF Held
<1>6. ASSUME archives[GroupOf(r)].rows[r] > 0
             \/ \E o \in Operators : command[o].pc = "listed" /\ command[o].rows[r] > 0
      PROVE  r \in rewritten'
  BY <1>6 DEF SyncRow
<1>7. rewritten' \subseteq rewritten \cup {r}
  BY DEF SyncRow
<1>8. ArchiveTyped'
  <2>1. payload' \in [ChipRows -> 0..MaxPayload]
    BY <1>1, <1>3, <1>4
  <2>2. (online \cup rewritten \cup again)' \subseteq Held(payload)'
    BY <1>1, <1>5, <1>7 DEF ArchiveOK, ArchiveTyped, CaTypeOK
  <2>3. \A g \in Groups : \A s \in Held(archives'[g].rows) : GroupOf(s) = g
    BY <1>1 DEF ArchiveOK, ArchiveTyped, CaTypeOK
  <2> QED  BY <1>1, <2>1, <2>2, <2>3 DEF ArchiveOK, ArchiveTyped, CaTypeOK, Held
<1>9. ASSUME NEW rows, LatestOrRewritten(rows), rows[r] > 0 => r \in rewritten'
      PROVE  \A s \in Held(rows) : rows[s] = payload'[s] \/ s \in rewritten'
  BY <1>2, <1>3, <1>9 DEF LatestOrRewritten, Held
<1>10. CallsFit'
  <2> SUFFICES ASSUME NEW p \in Operators  PROVE CallFits(command[p])'
    BY DEF CallsFit
  <2>1. PICK e : e = command[p]
    OBVIOUS
  <2>2. CallFits(e) /\ command'[p] = e
    BY <1>1, <2>1 DEF ArchiveOK, CallsFit
  <2>3. MayArchive(command[p])'
    BY <1>1, <2>2 DEF CallFits, MayArchive
  <2>4. MayClear(command[p])'
    BY <1>1, <2>2 DEF CallFits, MayClear, Held
  <2>5. ListStands(command[p])'
    <3> SUFFICES ASSUME e.pc = "listed"
                 PROVE  /\ Held(e.rows) \subseteq OnlineIn(e.group)' /\ e.since = day
                        /\ \A s \in Held(e.rows) : e.rows[s] = payload'[s] \/ s \in rewritten'
      BY <1>1, <2>2 DEF ListStands, LatestOrRewritten, Held, OnlineIn
    <3>1. Held(e.rows) \subseteq OnlineIn(e.group) /\ e.since = day /\ LatestOrRewritten(e.rows)
      BY <2>2 DEF CallFits, ListStands
    <3>2. OnlineIn(e.group) \subseteq OnlineIn(e.group)'
      BY <1>1 DEF OnlineIn
    <3>3. e.rows[r] > 0 => r \in rewritten'
      BY <1>6, <2>1
    <3> QED  BY <1>9, <3>1, <3>2, <3>3
  <2> QED  BY <2>3, <2>4, <2>5 DEF CallFits
<1>11. ArchivesStand'
  <2> SUFFICES ASSUME NEW g \in Groups
               PROVE  /\ archives[g].status = "archived" => Held(archives[g].rows) \subseteq OnlineIn(g)'
                      /\ \A s \in Held(archives[g].rows) : archives[g].rows[s] = payload'[s] \/ s \in rewritten'
    BY <1>1 DEF ArchivesStand, LatestOrRewritten, Held, OnlineIn
  <2>1. OnlineIn(g) \subseteq OnlineIn(g)'
    BY <1>1 DEF OnlineIn
  <2>2. archives[g].rows[r] > 0 => r \in rewritten'
    <3> SUFFICES ASSUME archives[g].rows[r] > 0  PROVE r \in rewritten'
      OBVIOUS
    <3>1. GroupOf(r) = g
      BY DEF Held, ArchiveOK, ArchiveTyped, CaTypeOK
    <3> QED  BY <1>6, <3>1
  <2>3. LatestOrRewritten(archives[g].rows)
    BY DEF ArchiveOK, ArchivesStand
  <2> QED  BY <1>9, <2>1, <2>2, <2>3 DEF ArchiveOK, ArchivesStand
<1>12. Kept'
  <2> SUFFICES ASSUME NEW s \in Held(payload) \cup {r}
               PROVE  /\ archives[GroupOf(s)].status # "cleaned" => s \in online'
                      /\ s \notin online' \cup again => archives[GroupOf(s)].rows[s] > 0
    BY <1>1, <1>5 DEF Kept
  <2> QED  BY <1>1 DEF ArchiveOK, Kept
<1> QED  BY <1>8, <1>10, <1>11, <1>12 DEF ArchiveOK

\* No call is under way when a day ends, so an archive that ripens is no one's
LEMMA NextDayKeeps ==
    ASSUME ArchiveOK, NextDay
    PROVE  ArchiveOK'
<1>1. /\ day' = day + 1 /\ day < MaxDay
      /\ UNCHANGED <<online, payload, archives, vault, command, rewritten, again>>
      /\ \A o \in Operators : command[o].pc = "idle"
  BY DEF NextDay
<1>2. day' \in 1..MaxDay
  BY <1>1, ArchiveAssumption DEF ArchiveOK, ArchiveTyped
<1>3. ArchiveTyped'
  BY <1>1, <1>2 DEF ArchiveOK, ArchiveTyped, CaTypeOK, Held
<1>4. CallsFit'
  BY <1>1 DEF CallsFit, CallFits, MayArchive, MayClear, ListStands
<1>5. ArchivesStand'
  BY <1>1 DEF ArchiveOK, ArchivesStand, LatestOrRewritten, Held, OnlineIn
<1>6. Kept'
  BY <1>1 DEF ArchiveOK, Kept, Held
<1> QED  BY <1>3, <1>4, <1>5, <1>6 DEF ArchiveOK

\* The backups and the dry runs say what a call may do, and nothing of the payloads
LEMMA OthersKeep ==
    ASSUME ArchiveOK, vault' \subseteq 1..MaxDay,
           UNCHANGED <<day, online, payload, archives, command, rewritten, again>>
    PROVE  ArchiveOK'
<1>1. ArchiveTyped'
  BY DEF ArchiveOK, ArchiveTyped, CaTypeOK, Held
<1>2. CallsFit'
  <2> SUFFICES ASSUME NEW p \in Operators  PROVE CallFits(command[p])'
    BY DEF CallsFit
  <2>1. CallFits(command[p]) /\ command'[p] = command[p]
    BY DEF ArchiveOK, CallsFit
  <2>2. MayArchive(command[p])'
    BY <2>1 DEF CallFits, MayArchive
  <2>3. MayClear(command[p])'
    BY <2>1 DEF CallFits, MayClear, Held
  <2>4. ListStands(command[p])'
    BY <2>1 DEF CallFits, ListStands, LatestOrRewritten, Held, OnlineIn
  <2> QED  BY <2>2, <2>3, <2>4 DEF CallFits
<1>3. ArchivesStand'
  BY DEF ArchiveOK, ArchivesStand, LatestOrRewritten, Held, OnlineIn
<1>4. Kept'
  BY DEF ArchiveOK, Kept, Held
<1> QED  BY <1>1, <1>2, <1>3, <1>4 DEF ArchiveOK

LEMMA ArchiveStep == ArchiveOK /\ [CaNext]_caVars => ArchiveOK'
<1> SUFFICES ASSUME ArchiveOK, [CaNext]_caVars  PROVE ArchiveOK'
  OBVIOUS
<1>1. vault \subseteq 1..MaxDay /\ day \in 1..MaxDay
  BY DEF ArchiveOK, ArchiveTyped
<1>2. ASSUME NEW c \in Cutoffs, RehearseArchive(c)  PROVE ArchiveOK'
  BY <1>1, <1>2, OthersKeep DEF RehearseArchive
<1>3. ASSUME NEW c \in Cutoffs, NEW o \in Operators, StartArchive(o, c)  PROVE ArchiveOK'
  BY <1>3, StartArchiveKeeps
<1>4. ASSUME NEW o \in Operators, ChooseGroup(o)  PROVE ArchiveOK'
  BY <1>4, ChooseGroupKeeps
<1>5. ASSUME NEW o \in Operators, ListRows(o)  PROVE ArchiveOK'
  BY <1>5, ListRowsKeeps
<1>6. ASSUME NEW o \in Operators, StoreArchive(o)  PROVE ArchiveOK'
  BY <1>6, StoreArchiveKeeps
<1>7. ASSUME NEW o \in Operators, StartCleanup(o)  PROVE ArchiveOK'
  BY <1>7, StartCleanupKeeps
<1>8. ASSUME NEW o \in Operators, CheckCleanup(o)  PROVE ArchiveOK'
  BY <1>8, CheckCleanupKeeps
<1>9. ASSUME NEW o \in Operators, ClearOnline(o)  PROVE ArchiveOK'
  BY <1>9, ClearOnlineKeeps
<1>10. ASSUME NEW o \in Operators, CallEnds(o)  PROVE ArchiveOK'
  BY <1>10, CallLeaves DEF CallEnds
<1>11. ASSUME NEW r \in ChipRows, SyncRow(r)  PROVE ArchiveOK'
  BY <1>11, SyncRowKeeps
<1>12. CASE RehearseCleanup
  BY <1>1, <1>12, OthersKeep DEF RehearseCleanup
<1>13. CASE BackupMade
  <2>1. vault' \subseteq 1..MaxDay
    BY <1>1, <1>13 DEF BackupMade
  <2> QED  BY <1>13, <2>1, OthersKeep DEF BackupMade
<1>14. ASSUME NEW d \in vault, BackupGone(d)  PROVE ArchiveOK'
  <2>1. vault' \subseteq 1..MaxDay
    BY <1>1, <1>14 DEF BackupGone
  <2> QED  BY <1>14, <2>1, OthersKeep DEF BackupGone
<1>15. CASE NextDay
  BY <1>15, NextDayKeeps
<1>16. CASE UNCHANGED caVars
  BY <1>1, <1>16, OthersKeep DEF caVars
<1> QED  BY <1>2, <1>3, <1>4, <1>5, <1>6, <1>7, <1>8, <1>9, <1>10, <1>11, <1>12, <1>13, <1>14, <1>15, <1>16
         DEF CaNext

\* However archiving, clean-ups, syncs, lost backups and dying calls interleave, a payload that was
\* ever written can be read, unless two clean-ups of its group took it
\* (backend/storage_maintenance.py, archive_chip_branches and cleanup_chip_branches)
THEOREM ArchiveCorrect == CaSpec => []ArchiveKeeps
<1>1. CaSpec => []ArchiveOK
  BY ArchiveInit, ArchiveStep, PTL DEF CaSpec
<1> QED  BY <1>1, ArchiveOKSuffices, PTL

-----------------------------------------------------------------------------
(* The alerts                                                              *)

AlertRow == [exists : BOOLEAN, active : BOOLEAN, triggered : BOOLEAN, rule : Rules \cup {"gt"},
             level : Values \cup {0}, last : Values \cup {0}, options : {0, 1}]
EvaluatorType ==
    [pc : {"list", "seen", "read", "log", "notify"}, todo : SUBSET [id : AlertIds, row : AlertRow],
     id : AlertIds \cup {"none"}, copy : AlertRow, seen : Values \cup {0}, read : AlertRow]
PatchType ==
    [pc : {"idle", "read"}, id : AlertIds \cup {"none"}, change : {"none", "resume", "pause", "options", "level"},
     level : Values \cup {0}, read : AlertRow]
WishType == [active : BOOLEAN, level : Values \cup {0}, options : {0, 1}]

AlertTyped ==
    /\ row \in [AlertIds -> AlertRow] /\ value \in Values
    /\ evaluator \in EvaluatorType /\ (evaluator.pc # "list" => evaluator.id \in AlertIds)
    /\ patch \in PatchType /\ (patch.pc = "read" => patch.id \in AlertIds /\ patch.change # "none")
    /\ notes \in [AlertIds -> Nat] /\ logs \in [AlertIds -> Nat] /\ armed \in [AlertIds -> Nat]
    /\ wanted \in [AlertIds -> WishType]
    /\ told \in [AlertIds -> BOOLEAN] /\ observed \in [AlertIds -> Values \cup {0}]

\* A round evaluates an alert once
ListedOnce ==
    /\ \A c, d \in evaluator.todo : c.id = d.id => c = d
    /\ evaluator.pc # "list" => \A c \in evaluator.todo : c.id # evaluator.id

\* A copy of the alert waits to be evaluated, or is about to be written back
InHand(i) ==
    \/ \E c \in evaluator.todo : c.id = i
    \/ evaluator.pc \in {"seen", "read"} /\ evaluator.id = i
PendingOne(i) == IF evaluator.id = i /\ evaluator.pc \in {"log", "notify"} THEN 1 ELSE 0
MayTrigger(i) == IF row[i].active \/ InHand(i) THEN 1 ELSE 0
LoggedOnly(i) == IF evaluator.id = i /\ evaluator.pc = "notify" THEN 1 ELSE 0

\* Each time an alert was made active pays for one notification, given, pending or possible
AlertCounted(i) ==
    /\ notes[i] + LoggedOnly(i) <= logs[i]
    /\ armed[i] = 0 => ~row[i].exists /\ observed[i] = 0 /\ ~InHand(i)
    /\ row[i].active => row[i].exists
    /\ i \notin clobbered => notes[i] + PendingOne(i) + MayTrigger(i) <= armed[i]

\* What was gone when it was read stays gone, and a request changes what it found
ReadsFit ==
    /\ evaluator.pc = "read" /\ ~evaluator.read.exists => ~row[evaluator.id].exists
    /\ patch.pc = "read" => patch.read.exists

AlertsOK ==
    /\ AlertTyped /\ ListedOnce /\ ReadsFit /\ \A i \in AlertIds : AlertCounted(i)
    /\ TriggerIsTold /\ ChangesKept /\ BaselineKept

\* Rows that are absent and parts at rest are well typed
LEMMA RestingTyped == NoRow \in AlertRow /\ Resting \in EvaluatorType /\ NoPatch \in PatchType /\ NoWish \in WishType
<1>1. NoRow \in AlertRow /\ NoWish \in WishType
  BY DEF NoRow, AlertRow, NoWish, WishType
<1> QED  BY <1>1 DEF Resting, NoPatch, EvaluatorType, PatchType

\* What the invariant is for
LEMMA AlertsOKSuffices == AlertsOK => AlertsHonest
<1> SUFFICES ASSUME AlertsOK PROVE AlertsHonest
  OBVIOUS
<1>1. AlertTyped /\ \A i \in AlertIds : AlertCounted(i)
  BY DEF AlertsOK
<1>2. AlertTypeOK
  <2>1. \A i \in AlertIds : notes[i] <= logs[i]
    <3> SUFFICES ASSUME NEW i \in AlertIds PROVE notes[i] <= logs[i]
      OBVIOUS
    <3>1. notes[i] \in Nat /\ logs[i] \in Nat /\ LoggedOnly(i) \in {0, 1} /\ notes[i] + LoggedOnly(i) <= logs[i]
      BY <1>1 DEF AlertTyped, AlertCounted, LoggedOnly
    <3> QED  BY <3>1
  <2> QED  BY <1>1, <2>1 DEF AlertTypeOK, AlertTyped, AlertRow, EvaluatorType
<1>3. OncePerArming
  <2> SUFFICES ASSUME NEW i \in AlertIds \ clobbered PROVE notes[i] + Cardinality(Pending \cap {i}) <= armed[i]
    BY DEF OncePerArming
  <2>1. Cardinality(Pending \cap {i}) = PendingOne(i)
    <3>1. CASE i \in Pending
      <4>1. Pending \cap {i} = {i} /\ PendingOne(i) = 1
        BY <3>1 DEF Pending, PendingOne
      <4> QED  BY <4>1, FS_Singleton
    <3>2. CASE i \notin Pending
      <4>1. Pending \cap {i} = {} /\ PendingOne(i) = 0
        BY <3>2 DEF Pending, PendingOne
      <4> QED  BY <4>1, FS_EmptySet
    <3> QED  BY <3>1, <3>2
  <2>2. /\ notes[i] \in Nat /\ armed[i] \in Nat /\ PendingOne(i) \in {0, 1} /\ MayTrigger(i) \in {0, 1}
        /\ notes[i] + PendingOne(i) + MayTrigger(i) <= armed[i]
    BY <1>1 DEF AlertTyped, AlertCounted, PendingOne, MayTrigger
  <2> QED  BY <2>1, <2>2
<1> QED  BY <1>2, <1>3 DEF AlertsOK, AlertsHonest

\* Without alerts it holds
LEMMA AlertsStart == AlertInit => AlertsOK
<1> SUFFICES ASSUME AlertInit PROVE AlertsOK
  OBVIOUS
<1>1. /\ row \in [AlertIds -> {NoRow}] /\ value \in Values /\ evaluator = Resting /\ patch = NoPatch
      /\ notes \in [AlertIds -> {0}] /\ logs \in [AlertIds -> {0}] /\ armed \in [AlertIds -> {0}]
      /\ wanted \in [AlertIds -> {NoWish}] /\ told \in [AlertIds -> BOOLEAN] /\ observed \in [AlertIds -> {0}]
  BY DEF AlertInit, None
<1>2. /\ evaluator.pc = "list" /\ evaluator.todo = {} /\ patch.pc = "idle"
  BY <1>1 DEF Resting, NoPatch
<1>3. \A i \in AlertIds : ~row[i].exists /\ ~row[i].active /\ ~row[i].triggered
  BY <1>1 DEF NoRow
<1>4. AlertTyped
  BY <1>1, <1>2, RestingTyped DEF AlertTyped
<1>5. ListedOnce /\ ReadsFit
  BY <1>2 DEF ListedOnce, ReadsFit
<1>6. \A i \in AlertIds : AlertCounted(i)
  BY <1>1, <1>2, <1>3 DEF AlertCounted, LoggedOnly, PendingOne, MayTrigger, InHand
<1>7. TriggerIsTold /\ ChangesKept /\ BaselineKept
  BY <1>3 DEF TriggerIsTold, ChangesKept, BaselineKept
<1> QED  BY <1>4, <1>5, <1>6, <1>7 DEF AlertsOK

-----------------------------------------------------------------------------
(* The evaluator                                                           *)

\* A step of the evaluator that writes nothing: whoever is no longer pending was cut short, and
\* what may trigger is active or was in hand
LEMMA EvaluatorMoves ==
    ASSUME AlertsOK, evaluator' \in EvaluatorType, evaluator'.pc # "list" => evaluator'.id \in AlertIds,
           ListedOnce', patch' \in {patch, NoPatch}, cutShort \subseteq cutShort',
           UNCHANGED <<row, value, notes, logs, wanted, armed, told, observed, clobbered, overlooked>>,
           evaluator'.pc \notin {"log", "notify"},
           \A i \in AlertIds : InHand(i)' => InHand(i) \/ row[i].active,
           Pending \subseteq cutShort', evaluator'.pc = "read" => evaluator'.read = row[evaluator'.id]
    PROVE  AlertsOK'
<1>1. AlertTyped /\ ReadsFit /\ (\A i \in AlertIds : AlertCounted(i)) /\ TriggerIsTold /\ ChangesKept /\ BaselineKept
  BY DEF AlertsOK
<1>2. AlertTyped'
  BY <1>1, RestingTyped DEF AlertTyped, NoPatch
<1>3. ASSUME NEW i \in AlertIds PROVE AlertCounted(i)'
  <2>1. /\ notes[i] \in Nat /\ logs[i] \in Nat /\ armed[i] \in Nat
        /\ PendingOne(i) \in {0, 1} /\ LoggedOnly(i) \in {0, 1} /\ MayTrigger(i) \in {0, 1}
    BY <1>1 DEF AlertTyped, PendingOne, LoggedOnly, MayTrigger
  <2>2. PendingOne(i)' = 0 /\ LoggedOnly(i)' = 0
    BY DEF PendingOne, LoggedOnly
  <2>3. MayTrigger(i)' \in {0, 1} /\ MayTrigger(i)' <= MayTrigger(i)
    BY DEF MayTrigger
  <2>4. AlertCounted(i)
    BY <1>1
  <2>5. notes[i] + LoggedOnly(i)' <= logs[i]
    BY <2>1, <2>2, <2>4 DEF AlertCounted
  <2>6. i \notin clobbered => notes[i] + PendingOne(i)' + MayTrigger(i)' <= armed[i]
    BY <2>1, <2>2, <2>3, <2>4 DEF AlertCounted
  <2>7. armed[i] = 0 => ~InHand(i)'
    BY <2>4 DEF AlertCounted
  <2> QED  BY <2>4, <2>5, <2>6, <2>7 DEF AlertCounted
<1>4. TriggerIsTold'
  BY <1>1 DEF TriggerIsTold
<1>5. ChangesKept' /\ BaselineKept'
  BY <1>1 DEF ChangesKept, BaselineKept
<1>6. ReadsFit'
  BY <1>1 DEF ReadsFit, NoPatch
<1> QED  BY <1>2, <1>3, <1>4, <1>5, <1>6 DEF AlertsOK

\* A round lists the active alerts
LEMMA ListKeeps == AlertsOK /\ ListActive => AlertsOK'
<1> SUFFICES ASSUME AlertsOK, ListActive PROVE AlertsOK'
  OBVIOUS
<1>1. AlertTyped
  BY DEF AlertsOK
<1>2. PICK t : t = {[id |-> i, row |-> row[i]] : i \in {j \in AlertIds : row[j].active}}
  OBVIOUS
<1>3. /\ t \in SUBSET [id : AlertIds, row : AlertRow]
      /\ \A c \in t : c.id \in AlertIds /\ row[c.id].active /\ c.row = row[c.id]
      /\ \A c, d \in t : c.id = d.id => c = d
  BY <1>1, <1>2 DEF AlertTyped
<1>4. PICK z : z = [Resting EXCEPT !.todo = t]
  OBVIOUS
<1>5. z \in EvaluatorType /\ z.pc = "list" /\ z.todo = t
  BY <1>3, <1>4, RestingTyped DEF Resting, EvaluatorType
<1>6. evaluator' = z /\ evaluator.pc = "list"
  BY <1>2, <1>4 DEF ListActive, Resting
<1>7. ListedOnce' /\ (\A i \in AlertIds : InHand(i)' => row[i].active) /\ Pending = {}
  BY <1>3, <1>5, <1>6 DEF ListedOnce, InHand, Pending
<1> QED  BY <1>5, <1>6, <1>7, EvaluatorMoves DEF ListActive, history

\* The value of the next alert arrives or is missing
LEMMA FetchKeeps == ASSUME AlertsOK, NEW c \in evaluator.todo, FetchValue(c) \/ FetchFails(c) PROVE AlertsOK'
<1>1. AlertTyped /\ ListedOnce
  BY DEF AlertsOK
<1>2. PICK e \in EvaluatorType : e = evaluator
  BY <1>1 DEF AlertTyped
<1>3. /\ e.pc = "list" /\ e.todo \in SUBSET [id : AlertIds, row : AlertRow] /\ c \in e.todo
      /\ c.id \in AlertIds /\ c.row \in AlertRow
  BY <1>2 DEF EvaluatorType, FetchValue, FetchFails
<1>4. PICK z \in EvaluatorType :
        /\ evaluator' = z /\ z.todo = e.todo \ {c}
        /\ z.pc \in {"list", "seen"} /\ (z.pc = "seen" => z.id = c.id)
  <2>1. CASE FetchFails(c)
    <3>1. PICK z : z = [e EXCEPT !.todo = @ \ {c}]
      OBVIOUS
    <3>2. z \in EvaluatorType /\ z.todo = e.todo \ {c} /\ z.pc = "list" /\ evaluator' = z
      BY <1>2, <1>3, <2>1, <3>1 DEF EvaluatorType, FetchFails
    <3> QED  BY <3>2
  <2>2. CASE FetchValue(c)
    <3>1. PICK v \in {0, value} : evaluator' = [evaluator EXCEPT !.pc = "seen", !.todo = @ \ {c}, !.id = c.id,
                                                              !.copy = c.row, !.seen = v]
      BY <2>2 DEF FetchValue
    <3>2. v \in Values \cup {0}
      BY <1>1, <3>1 DEF AlertTyped
    <3>3. PICK z : z = [e EXCEPT !.pc = "seen", !.todo = @ \ {c}, !.id = c.id, !.copy = c.row, !.seen = v]
      OBVIOUS
    <3>4. z \in EvaluatorType /\ z.todo = e.todo \ {c} /\ z.pc = "seen" /\ z.id = c.id /\ evaluator' = z
      BY <1>2, <1>3, <3>1, <3>2, <3>3 DEF EvaluatorType
    <3> QED  BY <3>4
  <2> QED  BY <2>1, <2>2
<1>5. ListedOnce' /\ (\A i \in AlertIds : InHand(i)' => InHand(i)) /\ Pending = {}
  BY <1>1, <1>2, <1>3, <1>4 DEF ListedOnce, InHand, Pending
<1>6. /\ patch' = patch /\ cutShort' = cutShort
      /\ UNCHANGED <<row, value, notes, logs, wanted, armed, told, observed, clobbered, overlooked>>
  BY DEF FetchValue, FetchFails, history
<1> QED  BY <1>3, <1>4, <1>5, <1>6, EvaluatorMoves

\* The evaluator reads the row it is about to write
LEMMA ReadKeeps == AlertsOK /\ ReadRow => AlertsOK'
<1> SUFFICES ASSUME AlertsOK, ReadRow PROVE AlertsOK'
  OBVIOUS
<1>1. AlertTyped /\ ListedOnce
  BY DEF AlertsOK
<1>2. PICK e \in EvaluatorType : e = evaluator
  BY <1>1 DEF AlertTyped
<1>3. e.pc = "seen" /\ e.id \in AlertIds /\ row[e.id] \in AlertRow
  BY <1>1, <1>2 DEF AlertTyped, ReadRow
<1>4. PICK z : z = [e EXCEPT !.pc = "read", !.read = row[e.id]]
  OBVIOUS
<1>5. /\ z \in EvaluatorType /\ z.pc = "read" /\ z.id = e.id /\ z.todo = e.todo /\ z.read = row[e.id]
      /\ evaluator' = z
  BY <1>2, <1>3, <1>4 DEF EvaluatorType, ReadRow
<1>6. ListedOnce' /\ (\A i \in AlertIds : InHand(i)' => InHand(i)) /\ Pending = {}
  BY <1>1, <1>2, <1>3, <1>5 DEF ListedOnce, InHand, Pending
<1>7. /\ patch' = patch /\ cutShort' = cutShort
      /\ UNCHANGED <<row, value, notes, logs, wanted, armed, told, observed, clobbered, overlooked>>
  BY DEF ReadRow, history
<1> QED  BY <1>3, <1>5, <1>6, <1>7, EvaluatorMoves

\* After a step the evaluator goes on with the alert, or with the rest of its list
LEMMA NextStepDoes ==
    ASSUME AlertTyped, ListedOnce, evaluator.pc # "list", NEW q \in {"list", "log", "notify"}, NextStep(q)
    PROVE  /\ evaluator' \in EvaluatorType /\ evaluator'.pc = q /\ evaluator'.todo = evaluator.todo
           /\ q # "list" => evaluator'.id = evaluator.id
           /\ ListedOnce'
<1>1. PICK e \in EvaluatorType : e = evaluator
  BY DEF AlertTyped
<1>2. CASE q = "list"
  <2>1. PICK z : z = [Resting EXCEPT !.todo = e.todo]
    OBVIOUS
  <2>2. z \in EvaluatorType /\ z.pc = "list" /\ z.todo = e.todo
    BY <2>1, RestingTyped DEF EvaluatorType, Resting
  <2>3. evaluator' = z
    BY <1>1, <1>2, <2>1 DEF NextStep
  <2> QED  BY <1>1, <1>2, <2>2, <2>3 DEF ListedOnce
<1>3. CASE q # "list"
  <2>1. PICK z : z = [e EXCEPT !.pc = q]
    OBVIOUS
  <2>2. z \in EvaluatorType /\ z.pc = q /\ z.todo = e.todo /\ z.id = e.id
    BY <2>1 DEF EvaluatorType
  <2>3. evaluator' = z
    BY <1>1, <1>3, <2>1 DEF NextStep
  <2> QED  BY <1>1, <1>3, <2>2, <2>3 DEF ListedOnce
<1> QED  BY <1>2, <1>3

\* A step of the round fails, or the process restarts
LEMMA MishapKeeps == AlertsOK /\ (StepFails \/ Restart) => AlertsOK'
<1> SUFFICES ASSUME AlertsOK, StepFails \/ Restart PROVE AlertsOK'
  OBVIOUS
<1>1. AlertTyped /\ ListedOnce
  BY DEF AlertsOK
<1>2. /\ UNCHANGED <<row, value, notes, logs, wanted, armed, told, observed, clobbered, overlooked>>
      /\ patch' \in {patch, NoPatch} /\ cutShort' = cutShort \cup Pending
  BY DEF StepFails, Restart, Mishap
<1>3. CASE StepFails
  <2>1. evaluator.pc # "list" /\ NextStep("list")
    BY <1>3 DEF StepFails
  <2>2. evaluator' \in EvaluatorType /\ evaluator'.pc = "list" /\ evaluator'.todo = evaluator.todo /\ ListedOnce'
    BY <1>1, <2>1, NextStepDoes
  <2>3. \A i \in AlertIds : InHand(i)' => InHand(i)
    BY <2>2 DEF InHand
  <2> QED  BY <1>2, <2>2, <2>3, EvaluatorMoves
<1>4. CASE Restart
  <2>1. evaluator' = Resting
    BY <1>4 DEF Restart
  <2>2. evaluator' \in EvaluatorType /\ evaluator'.pc = "list" /\ evaluator'.todo = {}
    BY <2>1, RestingTyped DEF Resting
  <2>3. ListedOnce' /\ \A i \in AlertIds : ~InHand(i)'
    BY <2>2 DEF InHand, ListedOnce
  <2> QED  BY <1>2, <2>2, <2>3, EvaluatorMoves
<1> QED  BY <1>3, <1>4

\* What the evaluator writes: the row it read, with the options and the last value of its copy
LEMMA EvaluatedDoes ==
    ASSUME NEW e \in EvaluatorType
    PROVE  /\ Evaluated(e) \in AlertRow
           /\ Evaluated(e).exists = e.read.exists /\ Evaluated(e).level = e.read.level
           /\ Evaluated(e).options = e.copy.options
           /\ Evaluated(e).active => e.read.active /\ ~RuleHolds(e.copy, e.seen)
           /\ Evaluated(e).triggered => e.read.triggered \/ RuleHolds(e.copy, e.seen)
<1>1. e.read \in AlertRow /\ e.copy \in AlertRow /\ e.seen \in Values \cup {0}
  BY DEF EvaluatorType
<1>2. e.copy.options \in {0, 1} /\ e.copy.last \in Values \cup {0}
  BY <1>1 DEF AlertRow
<1>3. PICK last \in Values \cup {0} : last = IF e.seen = 0 THEN e.copy.last ELSE e.seen
  BY <1>1, <1>2
<1>4. PICK base : base = [e.read EXCEPT !.options = e.copy.options, !.last = last]
  OBVIOUS
<1>5. /\ base \in AlertRow /\ base.exists = e.read.exists /\ base.level = e.read.level
      /\ base.options = e.copy.options /\ base.active = e.read.active /\ base.triggered = e.read.triggered
  BY <1>1, <1>2, <1>4 DEF AlertRow
<1>6. PICK fired : fired = [base EXCEPT !.active = FALSE, !.triggered = TRUE]
  OBVIOUS
<1>7. /\ fired \in AlertRow /\ fired.exists = base.exists /\ fired.level = base.level
      /\ fired.options = base.options /\ ~fired.active /\ fired.triggered
  BY <1>5, <1>6 DEF AlertRow
<1>8. Evaluated(e) = IF RuleHolds(e.copy, e.seen) THEN fired ELSE base
  BY <1>3, <1>4, <1>6 DEF Evaluated, Existing
<1>9. CASE RuleHolds(e.copy, e.seen)
  BY <1>5, <1>7, <1>8, <1>9
<1>10. CASE ~RuleHolds(e.copy, e.seen)
  BY <1>5, <1>8, <1>10
<1> QED  BY <1>9, <1>10

\* The evaluated row is written over whatever is there
LEMMA WriteKeeps == AlertsOK /\ WriteRow => AlertsOK'
<1> SUFFICES ASSUME AlertsOK, WriteRow PROVE AlertsOK'
  OBVIOUS
<1>1. /\ AlertTyped /\ ListedOnce /\ ReadsFit /\ \A j \in AlertIds : AlertCounted(j)
      /\ TriggerIsTold /\ ChangesKept /\ BaselineKept
  BY DEF AlertsOK
<1>2. PICK e \in EvaluatorType : e = evaluator
  BY <1>1 DEF AlertTyped
<1>3. PICK i \in AlertIds : i = e.id
  BY <1>1, <1>2 DEF AlertTyped, WriteRow
<1>4. e.pc = "read" /\ InHand(i)
  BY <1>2, <1>3 DEF WriteRow, InHand
<1>5. PICK new \in AlertRow :
        /\ new = Evaluated(e) /\ new.exists = e.read.exists /\ new.level = e.read.level
        /\ new.options = e.copy.options
        /\ new.active => e.read.active /\ ~RuleHolds(e.copy, e.seen)
        /\ new.triggered => e.read.triggered \/ RuleHolds(e.copy, e.seen)
  BY EvaluatedDoes
<1>6. /\ value' = value /\ patch' = patch /\ notes' = notes /\ logs' = logs /\ wanted' = wanted
      /\ armed' = armed /\ told' = told /\ cutShort' = cutShort
  BY DEF WriteRow
<1>7. PICK q \in {"list", "log"} : q = IF RuleHolds(e.copy, e.seen) THEN "log" ELSE "list"
  OBVIOUS
<1>8. NextStep(q)
  BY <1>2, <1>7 DEF WriteRow
<1>9. /\ evaluator' \in EvaluatorType /\ evaluator'.pc = q /\ evaluator'.todo = e.todo
      /\ q # "list" => evaluator'.id = i
      /\ ListedOnce'
  BY <1>1, <1>2, <1>3, <1>4, <1>8, NextStepDoes
\* Either the row is written, or it is gone
<1>10. \/ /\ row[i].exists /\ e.read.exists
          /\ row' = [row EXCEPT ![i] = new] /\ observed' = [observed EXCEPT ![i] = new.last]
          /\ clobbered \subseteq clobbered' /\ overlooked \subseteq overlooked'
          /\ i \notin clobbered' => row[i] = e.read
          /\ e.read.options = e.copy.options \/ i \in overlooked'
       \/ /\ ~row[i].exists /\ row' = row /\ observed' = observed
          /\ clobbered' = clobbered /\ overlooked' = overlooked
  <2>1. CASE e.read.exists /\ row[i].exists
    <3>1. /\ row' = [row EXCEPT ![i] = new] /\ observed' = [observed EXCEPT ![i] = new.last]
          /\ clobbered' = IF row[i] = e.read THEN clobbered ELSE clobbered \cup {i}
          /\ overlooked' = IF e.read.options = e.copy.options THEN overlooked ELSE overlooked \cup {i}
      BY <1>2, <1>3, <1>5, <2>1 DEF WriteRow
    <3> QED  BY <2>1, <3>1
  <2>2. CASE ~(e.read.exists /\ row[i].exists)
    <3>1. ~row[i].exists
      BY <1>1, <1>2, <1>3, <1>4, <2>2 DEF ReadsFit
    <3> QED  BY <1>2, <1>3, <2>2, <3>1 DEF WriteRow
  <2> QED  BY <2>1, <2>2
<1>11. /\ row' \in [AlertIds -> AlertRow] /\ observed' \in [AlertIds -> Values \cup {0}]
       /\ clobbered \subseteq clobbered' /\ overlooked \subseteq overlooked'
       /\ \A j \in AlertIds \ {i} : row'[j] = row[j] /\ observed'[j] = observed[j]
  <2>1. new.last \in Values \cup {0}
    BY DEF AlertRow
  <2> QED  BY <1>1, <1>10, <2>1 DEF AlertTyped
<1>12. AlertTyped'
  BY <1>1, <1>6, <1>9, <1>11 DEF AlertTyped
<1>13. ReadsFit'
  BY <1>1, <1>6, <1>9 DEF ReadsFit
<1>14. \A j \in AlertIds : InHand(j)' => InHand(j) /\ j # i
  BY <1>1, <1>2, <1>3, <1>4, <1>9 DEF InHand, ListedOnce
<1>15. ASSUME NEW j \in AlertIds PROVE AlertCounted(j)'
  <2>1. /\ notes[j] \in Nat /\ logs[j] \in Nat /\ armed[j] \in Nat
        /\ PendingOne(j) \in {0, 1} /\ LoggedOnly(j) \in {0, 1} /\ MayTrigger(j) \in {0, 1}
        /\ PendingOne(j)' \in {0, 1} /\ MayTrigger(j)' \in {0, 1}
    BY <1>1 DEF AlertTyped, PendingOne, LoggedOnly, MayTrigger
  <2>2. AlertCounted(j)
    BY <1>1
  <2>3. PendingOne(j) = 0 /\ LoggedOnly(j)' = 0
    BY <1>2, <1>4, <1>9 DEF PendingOne, LoggedOnly
  <2>4. notes[j] + LoggedOnly(j)' <= logs[j]
    BY <2>1, <2>2, <2>3 DEF AlertCounted
  <2>5. CASE j # i
    <3>1. PendingOne(j)' = 0
      BY <1>9, <2>5 DEF PendingOne
    <3>2. row'[j] = row[j] /\ observed'[j] = observed[j] /\ (InHand(j)' => InHand(j))
      BY <1>11, <1>14, <2>5
    <3>3. MayTrigger(j)' <= MayTrigger(j)
      BY <3>2 DEF MayTrigger
    <3>4. j \notin clobbered' => notes[j] + PendingOne(j)' + MayTrigger(j)' <= armed[j]
      BY <1>11, <2>1, <2>2, <2>3, <3>1, <3>3 DEF AlertCounted
    <3> QED  BY <1>6, <2>2, <2>4, <3>2, <3>4 DEF AlertCounted
  <2>6. CASE j = i
    <3>1. MayTrigger(i) = 1 /\ armed[i] # 0
      BY <1>4, <2>2, <2>6 DEF MayTrigger, AlertCounted
    <3>2. row'[i].active => row'[i].exists /\ q = "list"
      <4>1. row[i].active => row[i].exists
        BY <2>2, <2>6 DEF AlertCounted
      <4>2. CASE row'[i] = new /\ e.read.exists
        BY <1>5, <1>7, <4>2
      <4>3. CASE row'[i] = row[i] /\ ~row[i].exists
        BY <4>1, <4>3
      <4> QED  BY <1>1, <1>10, <4>2, <4>3 DEF AlertTyped
    <3>3. PendingOne(i)' + MayTrigger(i)' <= 1
      <4>1. CASE q = "log"
        BY <1>14, <2>1, <2>6, <3>2, <4>1 DEF MayTrigger
      <4>2. CASE q = "list"
        BY <1>9, <2>1, <2>6, <4>2 DEF PendingOne
      <4> QED  BY <4>1, <4>2
    <3>4. i \notin clobbered' => notes[i] + PendingOne(i)' + MayTrigger(i)' <= armed[i]
      BY <1>11, <2>1, <2>2, <2>3, <2>6, <3>1, <3>3 DEF AlertCounted
    <3> QED  BY <1>6, <2>4, <2>6, <3>1, <3>2, <3>4 DEF AlertCounted
  <2> QED  BY <2>5, <2>6
<1>16. TriggerIsTold'
  <2> SUFFICES ASSUME NEW j \in AlertIds \ (clobbered' \cup cutShort), row'[j].triggered
               PROVE  told[j] \/ j \in Pending'
    BY <1>6 DEF TriggerIsTold
  <2>1. row[j].triggered => told[j]
    BY <1>1, <1>2, <1>4, <1>11 DEF TriggerIsTold, Pending
  <2>2. CASE j # i
    BY <1>11, <2>1, <2>2
  <2>3. CASE j = i
    <3>1. q = "log" \/ row[i].triggered
      BY <1>1, <1>5, <1>7, <1>10, <2>3 DEF AlertTyped
    <3> QED  BY <1>9, <2>1, <2>3, <3>1 DEF Pending
  <2> QED  BY <2>2, <2>3
<1>17. ChangesKept'
  <2> SUFFICES ASSUME NEW j \in AlertIds \ clobbered', row'[j].exists
               PROVE  /\ row'[j].level = wanted[j].level
                      /\ row'[j].active => wanted[j].active
                      /\ row'[j].options = wanted[j].options \/ j \in overlooked'
    BY <1>6 DEF ChangesKept
  <2>1. CASE j # i
    BY <1>1, <1>11, <2>1 DEF ChangesKept
  <2>2. CASE j = i
    <3>1. row'[i] = new /\ row[i] = e.read /\ row[i].exists /\ (e.read.options = e.copy.options \/ i \in overlooked')
      BY <1>1, <1>10, <2>2 DEF AlertTyped
    <3> QED  BY <1>1, <1>5, <1>11, <2>2, <3>1 DEF ChangesKept
  <2> QED  BY <2>1, <2>2
<1>18. BaselineKept'
  <2>1. row'[i].exists /\ i \notin clobbered' => row'[i].last = observed'[i]
    BY <1>1, <1>10 DEF AlertTyped
  <2> QED  BY <1>1, <1>11, <2>1 DEF BaselineKept
<1> QED  BY <1>9, <1>12, <1>13, <1>15, <1>16, <1>17, <1>18 DEF AlertsOK

\* The trigger log is stored
LEMMA LogKeeps == AlertsOK /\ CreateTriggerLog => AlertsOK'
<1> SUFFICES ASSUME AlertsOK, CreateTriggerLog PROVE AlertsOK'
  OBVIOUS
<1>1. /\ AlertTyped /\ ListedOnce /\ ReadsFit /\ \A j \in AlertIds : AlertCounted(j)
      /\ TriggerIsTold /\ ChangesKept /\ BaselineKept
  BY DEF AlertsOK
<1>2. PICK i \in AlertIds : i = evaluator.id
  BY <1>1 DEF AlertTyped, CreateTriggerLog
<1>3. /\ evaluator.pc = "log" /\ NextStep("notify") /\ logs' = [logs EXCEPT ![i] = @ + 1]
      /\ UNCHANGED <<row, value, patch, notes, wanted, armed, told, observed, clobbered, overlooked, cutShort>>
  BY <1>2 DEF CreateTriggerLog, history
<1>4. /\ evaluator' \in EvaluatorType /\ evaluator'.pc = "notify" /\ evaluator'.todo = evaluator.todo
      /\ evaluator'.id = i /\ ListedOnce'
  BY <1>1, <1>2, <1>3, NextStepDoes
<1>5. logs' \in [AlertIds -> Nat] /\ logs'[i] = logs[i] + 1 /\ \A j \in AlertIds \ {i} : logs'[j] = logs[j]
  BY <1>1, <1>3 DEF AlertTyped
<1>6. AlertTyped' /\ ReadsFit'
  BY <1>1, <1>3, <1>4, <1>5 DEF AlertTyped, ReadsFit
<1>7. Pending' = Pending /\ \A j \in AlertIds : (InHand(j)' <=> InHand(j)) /\ PendingOne(j)' = PendingOne(j)
  BY <1>2, <1>3, <1>4 DEF Pending, InHand, PendingOne
<1>8. ASSUME NEW j \in AlertIds PROVE AlertCounted(j)'
  <2>1. notes[j] \in Nat /\ logs[j] \in Nat /\ LoggedOnly(j) = 0 /\ AlertCounted(j)
    BY <1>1, <1>3 DEF AlertTyped, LoggedOnly
  <2>2. notes[j] + LoggedOnly(j)' <= logs'[j]
    BY <1>2, <1>4, <1>5, <2>1 DEF AlertCounted, LoggedOnly
  <2>3. MayTrigger(j)' = MayTrigger(j)
    BY <1>3, <1>7 DEF MayTrigger
  <2> QED  BY <1>3, <1>7, <2>1, <2>2, <2>3 DEF AlertCounted
<1>9. TriggerIsTold' /\ ChangesKept' /\ BaselineKept'
  BY <1>1, <1>3, <1>7 DEF TriggerIsTold, ChangesKept, BaselineKept
<1> QED  BY <1>4, <1>6, <1>8, <1>9 DEF AlertsOK

\* The notification is stored
LEMMA NotifyKeeps == AlertsOK /\ CreateNotification => AlertsOK'
<1> SUFFICES ASSUME AlertsOK, CreateNotification PROVE AlertsOK'
  OBVIOUS
<1>1. /\ AlertTyped /\ ListedOnce /\ ReadsFit /\ \A j \in AlertIds : AlertCounted(j)
      /\ TriggerIsTold /\ ChangesKept /\ BaselineKept
  BY DEF AlertsOK
<1>2. PICK i \in AlertIds : i = evaluator.id
  BY <1>1 DEF AlertTyped, CreateNotification
<1>3. /\ evaluator.pc = "notify" /\ NextStep("list") /\ notes' = [notes EXCEPT ![i] = @ + 1]
      /\ told' = [told EXCEPT ![i] = TRUE]
      /\ UNCHANGED <<row, value, patch, logs, wanted, armed, observed, clobbered, overlooked, cutShort>>
  BY <1>2 DEF CreateNotification
<1>4. evaluator' \in EvaluatorType /\ evaluator'.pc = "list" /\ evaluator'.todo = evaluator.todo /\ ListedOnce'
  BY <1>1, <1>3, NextStepDoes
<1>5. /\ notes' \in [AlertIds -> Nat] /\ notes'[i] = notes[i] + 1 /\ \A j \in AlertIds \ {i} : notes'[j] = notes[j]
      /\ told' \in [AlertIds -> BOOLEAN] /\ told'[i] /\ \A j \in AlertIds \ {i} : told'[j] = told[j]
  BY <1>1, <1>3 DEF AlertTyped
<1>6. AlertTyped' /\ ReadsFit'
  BY <1>1, <1>3, <1>4, <1>5 DEF AlertTyped, ReadsFit
<1>7. \A j \in AlertIds : /\ InHand(j)' <=> InHand(j)
                          /\ notes'[j] = notes[j] + PendingOne(j) /\ PendingOne(j)' = 0
                          /\ LoggedOnly(j) = PendingOne(j) /\ LoggedOnly(j)' = 0
  <2>1. \A j \in AlertIds : notes[j] \in Nat
    BY <1>1 DEF AlertTyped
  <2> QED  BY <1>2, <1>3, <1>4, <1>5, <2>1 DEF InHand, PendingOne, LoggedOnly
<1>8. ASSUME NEW j \in AlertIds PROVE AlertCounted(j)'
  <2>1. /\ notes[j] \in Nat /\ logs[j] \in Nat /\ armed[j] \in Nat /\ PendingOne(j) \in {0, 1}
        /\ MayTrigger(j) \in {0, 1} /\ AlertCounted(j)
    BY <1>1 DEF AlertTyped, PendingOne, MayTrigger
  <2>2. notes'[j] + LoggedOnly(j)' <= logs[j]
    BY <1>7, <2>1 DEF AlertCounted
  <2>3. MayTrigger(j)' = MayTrigger(j)
    BY <1>3, <1>7 DEF MayTrigger
  <2>4. j \notin clobbered => notes'[j] + PendingOne(j)' + MayTrigger(j)' <= armed[j]
    BY <1>7, <2>1, <2>3 DEF AlertCounted
  <2> QED  BY <1>3, <1>7, <2>1, <2>2, <2>4 DEF AlertCounted
<1>9. TriggerIsTold'
  BY <1>1, <1>2, <1>3, <1>5 DEF TriggerIsTold, Pending
<1>10. ChangesKept' /\ BaselineKept'
  BY <1>1, <1>3 DEF ChangesKept, BaselineKept
<1> QED  BY <1>4, <1>6, <1>8, <1>9, <1>10 DEF AlertsOK

-----------------------------------------------------------------------------
(* The requests                                                            *)

\* An alert no request is about stays as it is
LEMMA OtherAlert ==
    ASSUME NEW j \in AlertIds, AlertCounted(j), evaluator' = evaluator, clobbered \subseteq clobbered',
           notes' = notes, logs' = logs, row'[j] = row[j], armed'[j] = armed[j], observed'[j] = observed[j]
    PROVE  AlertCounted(j)'
<1>1. /\ LoggedOnly(j)' = LoggedOnly(j) /\ PendingOne(j)' = PendingOne(j)
      /\ (InHand(j)' <=> InHand(j)) /\ MayTrigger(j)' = MayTrigger(j)
  BY DEF LoggedOnly, PendingOne, MayTrigger, InHand
<1> QED  BY <1>1 DEF AlertCounted

\* The user creates an alert
LEMMA CreateKeeps ==
    ASSUME AlertsOK, NEW i \in AlertIds, NEW rule \in Rules, NEW level \in Values, CreateAlert(i, rule, level)
    PROVE  AlertsOK'
<1>1. /\ AlertTyped /\ ListedOnce /\ ReadsFit /\ \A j \in AlertIds : AlertCounted(j)
      /\ TriggerIsTold /\ ChangesKept /\ BaselineKept
  BY DEF AlertsOK
<1>2. PICK new : new = [NoRow EXCEPT !.exists = TRUE, !.active = TRUE, !.rule = rule, !.level = level]
  OBVIOUS
<1>3. /\ new \in AlertRow /\ new.exists /\ new.active /\ ~new.triggered /\ new.level = level /\ new.last = 0
      /\ new.options = 0
  BY <1>2 DEF NoRow, AlertRow
<1>4. PICK wish : wish = [active |-> TRUE, level |-> level, options |-> 0]
  OBVIOUS
<1>5. wish \in WishType /\ wish.active /\ wish.level = level /\ wish.options = 0
  BY <1>4 DEF WishType
<1>6. /\ armed[i] = 0 /\ row' = [row EXCEPT ![i] = new] /\ wanted' = [wanted EXCEPT ![i] = wish]
      /\ armed' = [armed EXCEPT ![i] = 1]
      /\ UNCHANGED <<value, evaluator, patch, notes, logs, told, observed, clobbered, overlooked, cutShort>>
  BY <1>2, <1>4 DEF CreateAlert
<1>7. /\ row' \in [AlertIds -> AlertRow] /\ row'[i] = new /\ wanted' \in [AlertIds -> WishType] /\ wanted'[i] = wish
      /\ armed' \in [AlertIds -> Nat] /\ armed'[i] = 1
      /\ \A j \in AlertIds \ {i} : row'[j] = row[j] /\ wanted'[j] = wanted[j] /\ armed'[j] = armed[j]
  BY <1>1, <1>3, <1>5, <1>6 DEF AlertTyped
<1>8. AlertTyped' /\ ListedOnce'
  BY <1>1, <1>6, <1>7 DEF AlertTyped, ListedOnce
<1>9. ~InHand(i) /\ observed[i] = 0 /\ ~row[i].exists
  BY <1>1, <1>6 DEF AlertCounted
<1>10. ReadsFit'
  BY <1>1, <1>6, <1>7, <1>9 DEF ReadsFit, InHand
<1>11. AlertCounted(i)'
  <2>1. /\ notes[i] \in Nat /\ PendingOne(i) \in {0, 1} /\ MayTrigger(i) \in {0, 1} /\ AlertCounted(i)
        /\ PendingOne(i)' = PendingOne(i) /\ LoggedOnly(i)' = LoggedOnly(i)
        /\ MayTrigger(i)' \in {0, 1}
    BY <1>1, <1>6 DEF AlertTyped, PendingOne, MayTrigger, LoggedOnly
  <2>2. i \notin clobbered => notes[i] = 0 /\ PendingOne(i) = 0
    BY <1>6, <2>1 DEF AlertCounted
  <2> QED  BY <1>3, <1>6, <1>7, <2>1, <2>2 DEF AlertCounted
<1>12. \A j \in AlertIds : AlertCounted(j)'
  BY <1>1, <1>6, <1>7, <1>11, OtherAlert
<1>13. TriggerIsTold' /\ ChangesKept' /\ BaselineKept'
  BY <1>1, <1>3, <1>5, <1>6, <1>7, <1>9 DEF TriggerIsTold, ChangesKept, BaselineKept, Pending
<1> QED  BY <1>8, <1>10, <1>12, <1>13 DEF AlertsOK

\* The user deletes an alert
LEMMA DeleteKeeps == ASSUME AlertsOK, NEW i \in AlertIds, DeleteAlert(i) PROVE AlertsOK'
<1>1. /\ AlertTyped /\ ListedOnce /\ ReadsFit /\ \A j \in AlertIds : AlertCounted(j)
      /\ TriggerIsTold /\ ChangesKept /\ BaselineKept
  BY DEF AlertsOK
<1>2. /\ row[i].exists /\ row' = [row EXCEPT ![i] = NoRow] /\ wanted' = [wanted EXCEPT ![i] = NoWish]
      /\ UNCHANGED <<value, evaluator, patch, notes, logs, armed, told, observed, clobbered, overlooked, cutShort>>
  BY DEF DeleteAlert
<1>3. /\ row' \in [AlertIds -> AlertRow] /\ row'[i] = NoRow /\ wanted' \in [AlertIds -> WishType]
      /\ \A j \in AlertIds \ {i} : row'[j] = row[j] /\ wanted'[j] = wanted[j]
  BY <1>1, <1>2, RestingTyped DEF AlertTyped
<1>4. ~NoRow.exists /\ ~NoRow.active /\ ~NoRow.triggered
  BY DEF NoRow
<1>5. AlertTyped' /\ ListedOnce' /\ ReadsFit'
  BY <1>1, <1>2, <1>3, <1>4 DEF AlertTyped, ListedOnce, ReadsFit
<1>6. AlertCounted(i)'
  <2>1. /\ notes[i] \in Nat /\ armed[i] \in Nat /\ PendingOne(i) \in {0, 1} /\ MayTrigger(i) \in {0, 1} /\ AlertCounted(i)
        /\ PendingOne(i)' = PendingOne(i) /\ LoggedOnly(i)' = LoggedOnly(i) /\ (InHand(i)' <=> InHand(i))
        /\ MayTrigger(i)' \in {0, 1}
    BY <1>1, <1>2 DEF AlertTyped, PendingOne, MayTrigger, LoggedOnly, InHand
  <2>2. MayTrigger(i)' <= MayTrigger(i)
    BY <1>3, <1>4, <2>1 DEF MayTrigger
  <2>3. i \notin clobbered => notes[i] + PendingOne(i)' + MayTrigger(i)' <= armed[i]
    BY <2>1, <2>2 DEF AlertCounted
  <2> QED  BY <1>2, <1>3, <1>4, <2>1, <2>3 DEF AlertCounted
<1>7. \A j \in AlertIds : AlertCounted(j)'
  BY <1>1, <1>2, <1>3, <1>6, OtherAlert
<1>8. TriggerIsTold' /\ ChangesKept' /\ BaselineKept'
  BY <1>1, <1>2, <1>3, <1>4 DEF TriggerIsTold, ChangesKept, BaselineKept, Pending
<1> QED  BY <1>5, <1>7, <1>8 DEF AlertsOK

\* An update of the user reads the row
LEMMA PatchReadsKeeps ==
    ASSUME AlertsOK, NEW i \in AlertIds, NEW change \in {"resume", "pause", "options", "level"},
           NEW level \in Values \cup {0}, PatchReads(i, change, level)
    PROVE  AlertsOK'
<1>1. /\ AlertTyped /\ ListedOnce /\ ReadsFit /\ \A j \in AlertIds : AlertCounted(j)
      /\ TriggerIsTold /\ ChangesKept /\ BaselineKept
  BY DEF AlertsOK
<1>2. /\ row[i].exists /\ patch' = [pc |-> "read", id |-> i, change |-> change, level |-> level, read |-> row[i]]
      /\ UNCHANGED <<row, value, evaluator, notes, logs, wanted, armed, told, observed, clobbered, overlooked, cutShort>>
  BY DEF PatchReads, history
<1>3. /\ patch' \in PatchType /\ patch'.id = i /\ patch'.change # "none" /\ patch'.read = row[i]
  BY <1>1, <1>2 DEF AlertTyped, PatchType
<1>4. AlertTyped' /\ ListedOnce' /\ ReadsFit'
  BY <1>1, <1>2, <1>3 DEF AlertTyped, ListedOnce, ReadsFit
<1>5. \A j \in AlertIds : AlertCounted(j)'
  BY <1>1, <1>2, OtherAlert
<1>6. TriggerIsTold' /\ ChangesKept' /\ BaselineKept'
  BY <1>1, <1>2 DEF TriggerIsTold, ChangesKept, BaselineKept, Pending
<1> QED  BY <1>4, <1>5, <1>6 DEF AlertsOK

\* What an update makes of the row it read
LEMMA PatchedDoes ==
    ASSUME NEW p \in PatchType, p.change # "none"
    PROVE  /\ Patched(p) \in AlertRow /\ Patched(p).exists = p.read.exists
           /\ Patched(p).triggered => p.read.triggered /\ p.change # "resume"
           /\ Patched(p).last = IF p.change = "options" THEN 0 ELSE p.read.last
<1>1. p.read \in AlertRow /\ p.level \in Values \cup {0}
  BY DEF PatchType
<1>2. CASE p.change = "resume"
  BY <1>1, <1>2 DEF Patched, AlertRow
<1>3. CASE p.change = "pause"
  BY <1>1, <1>3 DEF Patched, AlertRow
<1>4. CASE p.change = "level"
  BY <1>1, <1>4 DEF Patched, AlertRow
<1>5. CASE p.change = "options"
  BY <1>1, <1>5 DEF Patched, AlertRow
<1> QED  BY <1>2, <1>3, <1>4, <1>5 DEF PatchType

\* An update writes the row it made, if the row is still there
LEMMA PatchWritesKeeps == AlertsOK /\ PatchWrites => AlertsOK'
<1> SUFFICES ASSUME AlertsOK, PatchWrites PROVE AlertsOK'
  OBVIOUS
<1>1. /\ AlertTyped /\ ListedOnce /\ ReadsFit /\ \A j \in AlertIds : AlertCounted(j)
      /\ TriggerIsTold /\ ChangesKept /\ BaselineKept
  BY DEF AlertsOK
<1>2. PICK p \in PatchType : p = patch
  BY <1>1 DEF AlertTyped
<1>3. p.pc = "read" /\ p.change # "none" /\ p.read.exists
  BY <1>1, <1>2 DEF AlertTyped, ReadsFit, PatchWrites
<1>4. PICK i \in AlertIds : i = p.id
  BY <1>1, <1>2 DEF AlertTyped, PatchWrites
<1>5. /\ patch' = NoPatch /\ NoPatch.pc = "idle" /\ value' = value /\ evaluator' = evaluator /\ notes' = notes
      /\ logs' = logs /\ overlooked' = overlooked /\ cutShort' = cutShort
  BY DEF PatchWrites, NoPatch
<1>6. PICK new \in AlertRow :
        /\ new = Patched(p) /\ new.exists
        /\ new.triggered => p.read.triggered /\ p.change # "resume"
        /\ new.last = IF p.change = "options" THEN 0 ELSE p.read.last
  BY <1>3, PatchedDoes
<1>7. PICK wish : wish = [active |-> new.active, level |-> new.level, options |-> new.options]
  OBVIOUS
<1>8. wish \in WishType /\ wish.active = new.active /\ wish.level = new.level /\ wish.options = new.options
  BY <1>7 DEF AlertRow, WishType
<1>9. CASE row[i].exists
  <2>1. /\ row' = [row EXCEPT ![i] = new] /\ wanted' = [wanted EXCEPT ![i] = wish]
        /\ armed' = [armed EXCEPT ![i] = IF new.active /\ ~row[i].active THEN @ + 1 ELSE @]
        /\ told' = [told EXCEPT ![i] = @ /\ p.change # "resume"]
        /\ observed' = [observed EXCEPT ![i] = IF p.change = "options" THEN 0 ELSE @]
        /\ clobbered' = IF row[i] = p.read THEN clobbered ELSE clobbered \cup {i}
    BY <1>2, <1>4, <1>6, <1>7, <1>9 DEF PatchWrites
  <2>2. clobbered \subseteq clobbered' /\ (i \notin clobbered' => i \notin clobbered /\ row[i] = p.read)
    BY <2>1
  <2>3. /\ row' \in [AlertIds -> AlertRow] /\ row'[i] = new /\ wanted' \in [AlertIds -> WishType] /\ wanted'[i] = wish
        /\ \A j \in AlertIds \ {i} : row'[j] = row[j] /\ wanted'[j] = wanted[j]
    BY <1>1, <1>8, <2>1 DEF AlertTyped
  <2>4. /\ armed' \in [AlertIds -> Nat] /\ armed'[i] = IF new.active /\ ~row[i].active THEN armed[i] + 1 ELSE armed[i]
        /\ \A j \in AlertIds \ {i} : armed'[j] = armed[j]
    <3>1. armed \in [AlertIds -> Nat] /\ armed[i] + 1 \in Nat
      BY <1>1 DEF AlertTyped
    <3> QED  BY <2>1, <3>1
  <2>5. /\ told' \in [AlertIds -> BOOLEAN] /\ (told'[i] <=> told[i] /\ p.change # "resume")
        /\ \A j \in AlertIds \ {i} : told'[j] = told[j]
    <3>1. PICK b \in BOOLEAN : b = (told[i] /\ p.change # "resume")
      OBVIOUS
    <3>2. told' = [told EXCEPT ![i] = b]
      BY <2>1, <3>1
    <3> QED  BY <1>1, <3>1, <3>2 DEF AlertTyped
  <2>6. /\ observed' \in [AlertIds -> Values \cup {0}]
        /\ observed'[i] = IF p.change = "options" THEN 0 ELSE observed[i]
        /\ \A j \in AlertIds \ {i} : observed'[j] = observed[j]
    BY <1>1, <2>1 DEF AlertTyped
  <2>7. AlertTyped' /\ ListedOnce'
    BY <1>1, <1>5, <2>3, <2>4, <2>5, <2>6, RestingTyped DEF AlertTyped, ListedOnce
  <2>8. ReadsFit'
    <3>1. evaluator.pc = "read" => evaluator.id \in AlertIds
      BY <1>1 DEF AlertTyped
    <3> QED  BY <1>1, <1>5, <1>9, <2>2, <2>3, <3>1 DEF ReadsFit, AlertTyped
  <2>9. AlertCounted(i)'
    <3>1. /\ notes[i] \in Nat /\ armed[i] \in Nat /\ PendingOne(i) \in {0, 1} /\ MayTrigger(i) \in {0, 1} /\ AlertCounted(i)
          /\ PendingOne(i)' = PendingOne(i) /\ LoggedOnly(i)' = LoggedOnly(i) /\ (InHand(i)' <=> InHand(i))
          /\ MayTrigger(i)' \in {0, 1}
      BY <1>1, <1>5 DEF AlertTyped, PendingOne, MayTrigger, LoggedOnly, InHand
    <3>2. armed[i] # 0 /\ armed'[i] # 0
      BY <1>9, <2>4, <3>1 DEF AlertCounted
    <3>3. armed'[i] = armed[i] => MayTrigger(i)' <= MayTrigger(i)
      BY <2>3, <2>4, <3>1 DEF MayTrigger
    <3>4. armed'[i] \in {armed[i], armed[i] + 1}
      BY <2>4
    <3>5. i \notin clobbered => notes[i] + PendingOne(i)' + MayTrigger(i)' <= armed'[i]
      <4>1. CASE armed'[i] = armed[i]
        BY <3>1, <3>3, <4>1 DEF AlertCounted
      <4>2. CASE armed'[i] = armed[i] + 1
        BY <3>1, <4>2 DEF AlertCounted
      <4> QED  BY <3>4, <4>1, <4>2
    <3> QED  BY <1>5, <1>6, <2>2, <2>3, <3>1, <3>2, <3>5 DEF AlertCounted
  <2>10. \A j \in AlertIds : AlertCounted(j)'
    BY <1>1, <1>5, <2>2, <2>3, <2>4, <2>6, <2>9, OtherAlert
  <2>11. TriggerIsTold'
    <3>1. i \notin clobbered' \cup cutShort /\ new.triggered => told'[i] \/ i \in Pending
      BY <1>1, <1>6, <2>2, <2>5 DEF TriggerIsTold
    <3> QED  BY <1>1, <1>5, <2>2, <2>3, <2>5, <3>1 DEF TriggerIsTold, Pending
  <2>12. ChangesKept'
    BY <1>1, <1>5, <1>8, <2>2, <2>3 DEF ChangesKept
  <2>13. BaselineKept'
    <3>1. i \notin clobbered' => new.last = observed'[i]
      BY <1>1, <1>6, <1>9, <2>2, <2>6 DEF BaselineKept
    <3> QED  BY <1>1, <2>2, <2>3, <2>6, <3>1 DEF BaselineKept
  <2> QED  BY <2>7, <2>8, <2>10, <2>11, <2>12, <2>13 DEF AlertsOK
<1>10. CASE ~row[i].exists
  <2>1. UNCHANGED <<row, wanted, armed, told, observed, clobbered>>
    BY <1>2, <1>4, <1>10 DEF PatchWrites
  <2>2. AlertTyped' /\ ListedOnce' /\ ReadsFit'
    BY <1>1, <1>5, <2>1, RestingTyped DEF AlertTyped, ListedOnce, ReadsFit
  <2>3. \A j \in AlertIds : AlertCounted(j)'
    BY <1>1, <1>5, <2>1, OtherAlert
  <2>4. TriggerIsTold' /\ ChangesKept' /\ BaselineKept'
    BY <1>1, <1>5, <2>1 DEF TriggerIsTold, ChangesKept, BaselineKept, Pending
  <2> QED  BY <2>2, <2>3, <2>4 DEF AlertsOK
<1> QED  BY <1>9, <1>10

\* Every step preserves the invariant
LEMMA AlertsStay == AlertsOK /\ [AlertNext]_alertVars => AlertsOK'
<1> SUFFICES ASSUME AlertsOK, [AlertNext]_alertVars PROVE AlertsOK'
  OBVIOUS
<1>1. ASSUME NEW i \in AlertIds, NEW change \in {"resume", "pause", "options"}, PatchReads(i, change, 0)
      PROVE  AlertsOK'
  BY <1>1, PatchReadsKeeps
<1>2. ASSUME NEW i \in AlertIds, NEW level \in Values, PatchReads(i, "level", level) PROVE AlertsOK'
  BY <1>2, PatchReadsKeeps
<1>3. CASE MarketMoves \/ UNCHANGED alertVars
  <2>1. /\ AlertTyped /\ ListedOnce /\ ReadsFit /\ \A j \in AlertIds : AlertCounted(j)
        /\ TriggerIsTold /\ ChangesKept /\ BaselineKept
    BY DEF AlertsOK
  <2>2. /\ value' \in Values
        /\ UNCHANGED <<row, evaluator, patch, notes, logs, wanted, armed, told, observed, clobbered, overlooked, cutShort>>
    BY <1>3, <2>1 DEF MarketMoves, alertVars, history, AlertTyped
  <2>3. AlertTyped' /\ ListedOnce' /\ ReadsFit'
    BY <2>1, <2>2 DEF AlertTyped, ListedOnce, ReadsFit
  <2>4. \A j \in AlertIds : AlertCounted(j)'
    BY <2>1, <2>2, OtherAlert
  <2>5. TriggerIsTold' /\ ChangesKept' /\ BaselineKept'
    BY <2>1, <2>2 DEF TriggerIsTold, ChangesKept, BaselineKept, Pending
  <2> QED  BY <2>3, <2>4, <2>5 DEF AlertsOK
<1>4. ASSUME NEW i \in AlertIds, DeleteAlert(i) PROVE AlertsOK'
  BY <1>4, DeleteKeeps
<1>5. ASSUME NEW i \in AlertIds, NEW rule \in Rules, NEW level \in Values, CreateAlert(i, rule, level) PROVE AlertsOK'
  BY <1>5, CreateKeeps
<1>6. ASSUME NEW c \in evaluator.todo, FetchValue(c) \/ FetchFails(c) PROVE AlertsOK'
  BY <1>6, FetchKeeps
<1> QED  BY <1>1, <1>2, <1>3, <1>4, <1>5, <1>6, ListKeeps, ReadKeeps, WriteKeeps, LogKeeps, NotifyKeeps, MishapKeeps,
            PatchWritesKeeps DEF AlertNext

\* In every reachable state an alert has not notified more often than it was made active, a
\* triggered alert was notified or is about to be unless its trigger was cut short, and the row
\* shows what the user last asked for and the value of its last evaluation, unless an update
\* overlapped another's read and write (backend/alert_engine.py, repositories/alert.py).
THEOREM AlertsCorrect == AlertSpec => []AlertsHonest
<1>1. AlertSpec => []AlertsOK
  BY AlertsStart, AlertsStay, PTL DEF AlertSpec
<1> QED  BY <1>1, AlertsOKSuffices, PTL

-----------------------------------------------------------------------------
(* The refresh of quotes                                                   *)

QuoteRec == [attempt : Nat, next : Int, backoff : Int, failures : Nat,
             status : {"pending", "throttled", "backoff", "refreshing", "refreshed", "cancelled"}]
FlightRec == [pc : {"none", "done"} \cup RunningPcs, ticker : Overseas, cancel : BOOLEAN]
CallRec == [pc : {"idle", "called", "awaiting", "done"}, flight : 0..MaxFlights]

QrTyped ==
    /\ now \in Nat /\ now >= 1
    /\ quote \in [Overseas -> QuoteRec]
    /\ provider \in [until : Int, failures : Nat]
    /\ flight \in [Flights -> FlightRec]
    /\ flights \in [Overseas -> 0..MaxFlights]
    /\ call \in [Calls -> CallRec]
    /\ scan.pc \in {"sleeping", "gathering"}

FlightRuns(f) == flight[f].pc \in RunningPcs
FlightsOver == {f \in Flights : flight[f].pc = "done"}

\* Flights are numbered in the order they start
Numbered == \E n \in 0..MaxFlights : \A f \in Flights : flight[f].pc # "none" <=> f <= n

\* A flight under way is the one on the list of its ticker; a flight on the list exists,
\* is of that ticker and is awaited; what is awaited exists
OnTheList == \A f \in Flights : FlightRuns(f) => flights[flight[f].ticker] = f
ListedAwaited ==
    \A t \in Overseas : flights[t] # 0 =>
        /\ flight[flights[t]].pc # "none" /\ flight[flights[t]].ticker = t
        /\ \E c \in Calls : call[c].pc = "awaiting" /\ call[c].flight = flights[t]
AwaitsFlight ==
    \A c \in Calls : call[c].pc = "awaiting" =>
        call[c].flight \in Flights /\ flight[call[c].flight].pc # "none"
Flying == Numbered /\ OnTheList /\ ListedAwaited /\ AwaitsFlight

\* A scan that sleeps has no children
ScanAsleep == scan.pc = "sleeping" => \A t \in Overseas : call[t].pc = "idle"

\* From its start on, not only while it asks the provider, a flight is one that may ask
Permitted ==
    \A f \in Flights : FlightRuns(f) =>
        /\ quote[flight[f].ticker].backoff <= now
        /\ now < provider.until => flight[f].ticker \in warned

\* Every failure is one of a flight that is over
FailuresCounted ==
    /\ provider.failures <= Cardinality(FlightsOver)
    /\ \A t \in Overseas : quote[t].failures <= Cardinality(FlightsOver)

Reported ==
    \A t \in Overseas : quote[t].status = "refreshing" =>
        \E f \in Flights : flight[f].pc \in {"waiting", "fetching"} /\ flight[f].ticker = t

QrInv == /\ QrTyped /\ Flying /\ ScanAsleep /\ SlotsKept
         /\ Permitted /\ FailuresCounted /\ Reported

LEMMA FlightsFinite ==
    /\ IsFiniteSet(Flights) /\ Cardinality(Flights) = MaxFlights /\ Flights \subseteq Nat
    /\ \A S \in SUBSET Flights : /\ IsFiniteSet(S) /\ Cardinality(S) \in Nat
                                 /\ Cardinality(S) <= MaxFlights
<1>1. MaxFlights \in Nat /\ Flights = 1..MaxFlights
  BY RefreshAssumption DEF RefreshAssumption, Flights
<1>2. IsFiniteSet(Flights) /\ Cardinality(Flights) = MaxFlights
  BY <1>1, FS_Interval
<1>3. ASSUME NEW S \in SUBSET Flights
      PROVE  IsFiniteSet(S) /\ Cardinality(S) \in Nat /\ Cardinality(S) <= MaxFlights
  BY <1>2, FS_Subset, FS_CardinalityType
<1> QED
  BY <1>1, <1>2, <1>3

\* A set of flights with one element more
LEMMA OneMoreFlight ==
    ASSUME NEW S \in SUBSET Flights, NEW f \in Flights
    PROVE  /\ f \notin S => Cardinality(S \cup {f}) = Cardinality(S) + 1
           /\ Cardinality(S \cup {f}) <= Cardinality(S) + 1
<1>1. IsFiniteSet(S) /\ Cardinality(S) \in Nat
  BY FlightsFinite
<1>2. Cardinality(S \cup {f}) = IF f \in S THEN Cardinality(S) ELSE Cardinality(S) + 1
  BY <1>1, FS_AddElement
<1> QED
  BY <1>1, <1>2

LEMMA FewerFlights ==
    ASSUME NEW S \in SUBSET Flights, NEW T \in SUBSET S
    PROVE  Cardinality(T) <= Cardinality(S)
  BY FlightsFinite, FS_Subset

\* The number the next flight gets
LEMMA NextFlightIs ==
    ASSUME NEW n \in 0..MaxFlights, \A f \in Flights : flight[f].pc # "none" <=> f <= n
    PROVE  NextFlight = n + 1
<1>1. MaxFlights \in Nat /\ n \in Nat /\ n <= MaxFlights
  BY RefreshAssumption DEF RefreshAssumption
<1>2. {f \in Flights : flight[f].pc # "none"} = 1..n
  BY <1>1 DEF Flights
<1>3. Cardinality(1..n) = n
  BY <1>1, FS_Interval
<1> QED
  BY <1>2, <1>3 DEF NextFlight

LEMMA LeastOfTwo ==
    ASSUME NEW x \in Int, NEW y \in Int
    PROVE  /\ Least({x, y}) \in {x, y} /\ Least({x, y}) <= x /\ Least({x, y}) <= y
           /\ Greatest({x, y}) \in {x, y} /\ Greatest({x, y}) >= x /\ Greatest({x, y}) >= y
<1>1. \E z \in {x, y} : \A w \in {x, y} : z <= w
  OBVIOUS
<1>2. \E z \in {x, y} : \A w \in {x, y} : z >= w
  OBVIOUS
<1>3. Least({x, y}) \in {x, y} /\ \A w \in {x, y} : Least({x, y}) <= w
  BY <1>1 DEF Least
<1>4. Greatest({x, y}) \in {x, y} /\ \A w \in {x, y} : Greatest({x, y}) >= w
  BY <1>2 DEF Greatest
<1> QED
  BY <1>3, <1>4

LEMMA DoubledType ==
    ASSUME NEW base \in Nat, NEW n \in Nat, n >= 1
    PROVE  Doubled(base, n) \in Int
<1> DEFINE k == Least({n - 1, 5})
           x == base * 2 ^ k
<1>1. k \in Nat
  BY LeastOfTwo
<1>2. Doubled(base, n) = Least({x, LongestWait})
  BY DEF Doubled
<1> HIDE DEF k
<1>3. x \in Int
  BY <1>1
<1> HIDE DEF x
<1>4. LongestWait \in Int
  BY RefreshAssumption DEF RefreshAssumption
<1> QED
  BY <1>2, <1>3, <1>4, LeastOfTwo

\* What a step of one flight leaves of the others, and of the count of those that are over
FlightMoved(f, pc) ==
    /\ flight' \in [Flights -> FlightRec]
    /\ \A g \in Flights : /\ g # f => flight'[g] = flight[g]
                          /\ flight'[g].ticker = flight[g].ticker
    /\ flight'[f].pc = pc
    /\ \A g \in Flights : FlightRuns(g)' => FlightRuns(g)
    /\ Flying' /\ SlotsKept'
    /\ Cardinality(FlightsOver) \in Nat
    /\ Cardinality(FlightsOver') = Cardinality(FlightsOver) + (IF pc = "done" THEN 1 ELSE 0)

\* A flight that is under way goes on, or ends
LEMMA FlightGoesOn ==
    ASSUME QrTyped, Flying, SlotsKept, NEW f \in Flights, FlightRuns(f),
           NEW pc \in RunningPcs \cup {"done"}, flight' = [flight EXCEPT ![f].pc = pc],
           UNCHANGED <<flights, call>>,
           pc = "fetching" => SlotFree
    PROVE  FlightMoved(f, pc)
<1> DEFINE z == [flight[f] EXCEPT !.pc = pc]
<1>1. z \in FlightRec /\ z.pc = pc /\ z.ticker = flight[f].ticker /\ flight' = [flight EXCEPT ![f] = z]
  BY DEF QrTyped, FlightRec, RunningPcs
<1> HIDE DEF z
<1>2. /\ flight' \in [Flights -> FlightRec]
      /\ \A g \in Flights : g # f => flight'[g] = flight[g]
      /\ flight'[f] = z
  BY <1>1 DEF QrTyped
<1>3. \A g \in Flights : flight'[g].ticker = flight[g].ticker
  BY <1>1, <1>2
<1>4. \A g \in Flights : FlightRuns(g)' => FlightRuns(g)
  BY <1>2 DEF FlightRuns
<1>5. \A g \in Flights : flight'[g].pc # "none" <=> flight[g].pc # "none"
  BY <1>1, <1>2 DEF FlightRuns, RunningPcs
<1>6. Flying'
  <2>1. Numbered'
    BY <1>5 DEF Flying, Numbered
  <2>2. OnTheList'
    BY <1>3, <1>4 DEF Flying, OnTheList
  <2>3. ListedAwaited'
    <3>1. \A t \in Overseas : flights[t] # 0 => flights[t] \in Flights
      BY RefreshAssumption DEF QrTyped, Flights, RefreshAssumption
    <3> QED
      BY <1>3, <1>5, <3>1 DEF Flying, ListedAwaited
  <2>4. AwaitsFlight'
    BY <1>5 DEF Flying, AwaitsFlight
  <2> QED
    BY <2>1, <2>2, <2>3, <2>4 DEF Flying
<1>7. SlotsKept'
  <2>1. MaxConcurrency \in Nat
    BY RefreshAssumption DEF RefreshAssumption
  <2>2. Fetching \in SUBSET Flights /\ Cardinality(Fetching) \in Nat
    BY FlightsFinite DEF Fetching
  <2>3. CASE pc = "fetching"
    <3>1. Fetching' = Fetching \cup {f}
      BY <1>1, <1>2, <2>3 DEF Fetching
    <3>2. Cardinality(Fetching \cup {f}) <= Cardinality(Fetching) + 1
      BY <2>2, OneMoreFlight
    <3>3. Cardinality(Fetching') \in Nat
      BY <2>2, <3>1, FlightsFinite
    <3> QED
      BY <2>1, <2>2, <2>3, <3>1, <3>2, <3>3 DEF SlotFree, SlotsKept
  <2>4. CASE pc # "fetching"
    <3>1. Fetching' \subseteq Fetching
      BY <1>1, <1>2, <2>4 DEF Fetching
    <3>2. Cardinality(Fetching') <= Cardinality(Fetching) /\ Cardinality(Fetching') \in Nat
      BY <2>2, <3>1, FewerFlights, FlightsFinite
    <3> QED
      BY <2>1, <2>2, <3>2 DEF SlotsKept
  <2> QED
    BY <2>3, <2>4
<1>8. Cardinality(FlightsOver') = Cardinality(FlightsOver) + (IF pc = "done" THEN 1 ELSE 0)
  <2>1. FlightsOver \in SUBSET Flights /\ f \notin FlightsOver /\ Cardinality(FlightsOver) \in Nat
    BY FlightsFinite DEF FlightsOver, FlightRuns, RunningPcs
  <2>2. CASE pc = "done"
    <3>1. FlightsOver' = FlightsOver \cup {f}
      BY <1>1, <1>2, <2>2 DEF FlightsOver
    <3> QED
      BY <2>1, <2>2, <3>1, OneMoreFlight
  <2>3. CASE pc # "done"
    <3>1. FlightsOver' = FlightsOver
      BY <1>1, <1>2, <2>1, <2>3 DEF FlightsOver
    <3> QED
      BY <2>1, <2>3, <3>1
  <2> QED
    BY <2>2, <2>3
<1>9. Cardinality(FlightsOver) \in Nat
  BY FlightsFinite DEF FlightsOver
<1> QED
  BY <1>1, <1>2, <1>3, <1>4, <1>6, <1>7, <1>8, <1>9 DEF FlightMoved

\* A ticker has one flight under way
LEMMA OnlyFlight ==
    ASSUME OnTheList, NEW f \in Flights, NEW g \in Flights, FlightRuns(f), FlightRuns(g),
           flight[f].ticker = flight[g].ticker
    PROVE  f = g
  BY DEF OnTheList

\* A flight that goes on keeps its permission while the backoffs stay as they are
LEMMA PermittedStays ==
    ASSUME Permitted, QrTyped,
           \A g \in Flights : /\ FlightRuns(g)' => FlightRuns(g)
                              /\ flight'[g].ticker = flight[g].ticker,
           \A t \in Overseas : quote'[t].backoff = quote[t].backoff,
           UNCHANGED <<now, provider, warned>>
    PROVE  Permitted'
<1>1. \A g \in Flights : flight[g].ticker \in Overseas
  BY DEF QrTyped, FlightRec
<1> QED
  BY <1>1 DEF Permitted

\* The counts of failures, as long as nothing else fails
LEMMA FailuresStay ==
    ASSUME FailuresCounted, QrTyped,
           Cardinality(FlightsOver') >= Cardinality(FlightsOver),
           Cardinality(FlightsOver') \in Nat, Cardinality(FlightsOver) \in Nat,
           provider'.failures = provider.failures,
           \A t \in Overseas : quote'[t].failures = quote[t].failures
    PROVE  FailuresCounted'
<1>1. provider.failures \in Nat /\ \A t \in Overseas : quote[t].failures \in Nat
  BY DEF QrTyped, QuoteRec
<1> QED
  BY <1>1 DEF FailuresCounted

\* The task of a flight begins to run
LEMMA BeginsInv ==
    ASSUME QrInv, NEW f \in Flights, FlightBegins(f)
    PROVE  QrInv'
<1> DEFINE pc == IF SlotFree THEN "fetching" ELSE "waiting"
           t == flight[f].ticker
           q == [quote[t] EXCEPT !.attempt = now, !.status = "refreshing"]
<1>1. /\ FlightRuns(f) /\ pc \in RunningPcs \cup {"done"} /\ pc # "done"
      /\ flight' = [flight EXCEPT ![f].pc = pc]
      /\ pc = "fetching" => SlotFree
      /\ UNCHANGED <<now, provider, flights, call, scan, cancels, warned>>
  BY DEF FlightBegins, FlightRuns, RunningPcs
<1>2. t \in Overseas /\ now \in Nat /\ quote[t] \in QuoteRec
  BY DEF QrInv, QrTyped, FlightRec
<1>3. /\ q \in QuoteRec /\ q.failures = quote[t].failures /\ q.backoff = quote[t].backoff
      /\ q.status = "refreshing"
  BY <1>2 DEF QuoteRec
<1>4. quote' = [quote EXCEPT ![t] = q]
  BY DEF FlightBegins
<1> HIDE DEF pc, q
<1>5. /\ quote' \in [Overseas -> QuoteRec]
      /\ \A x \in Overseas : quote'[x] = IF x = t THEN q ELSE quote[x]
  BY <1>2, <1>3, <1>4 DEF QrInv, QrTyped
<1>6. FlightMoved(f, pc)
  BY <1>1, FlightGoesOn DEF QrInv
<1>7. QrTyped' /\ ScanAsleep'
  BY <1>1, <1>5, <1>6 DEF QrInv, QrTyped, ScanAsleep, FlightMoved
<1>8. Permitted'
  BY <1>1, <1>3, <1>5, <1>6, PermittedStays DEF QrInv, FlightMoved
<1>9. FailuresCounted'
  BY <1>1, <1>3, <1>5, <1>6, FailuresStay DEF QrInv, FlightMoved
<1>10. Reported'
  <2>1. pc \in {"waiting", "fetching"}
    BY DEF pc
  <2>2. ASSUME NEW x \in Overseas, quote'[x].status = "refreshing"
        PROVE  \E g \in Flights : flight'[g].pc \in {"waiting", "fetching"} /\ flight'[g].ticker = x
    <3>1. CASE x = t
      BY <1>6, <2>1, <3>1 DEF FlightMoved
    <3>2. CASE x # t
      <4>1. PICK g \in Flights : flight[g].pc \in {"waiting", "fetching"} /\ flight[g].ticker = x
        BY <1>5, <2>2, <3>2 DEF QrInv, Reported
      <4> QED
        BY <1>6, <3>2, <4>1 DEF FlightMoved
    <3> QED
      BY <3>1, <3>2
  <2> QED
    BY <2>2 DEF Reported
<1> QED
  BY <1>6, <1>7, <1>8, <1>9, <1>10 DEF QrInv, FlightMoved

\* A task that gets its slot, and one that has broadcast what it fetched
LEMMA SlotInv ==
    ASSUME QrInv, NEW f \in Flights, GetsSlot(f) \/ Broadcasts(f)
    PROVE  QrInv'
<1>1. PICK pc \in {"fetching", "done"} :
        /\ flight' = [flight EXCEPT ![f].pc = pc]
        /\ pc = "fetching" => flight[f].pc = "waiting" /\ SlotFree
        /\ pc = "done" => flight[f].pc = "broadcasting"
  BY DEF GetsSlot, Broadcasts
<1>2. FlightRuns(f) /\ pc \in RunningPcs \cup {"done"}
  BY <1>1 DEF FlightRuns, RunningPcs
<1>3. UNCHANGED <<now, quote, provider, flights, call, scan, cancels, warned>>
  BY DEF GetsSlot, Broadcasts
<1>4. FlightMoved(f, pc)
  BY <1>1, <1>2, <1>3, FlightGoesOn DEF QrInv
<1>5. QrTyped' /\ ScanAsleep'
  BY <1>3, <1>4 DEF QrInv, QrTyped, ScanAsleep, FlightMoved
<1>6. Permitted'
  BY <1>3, <1>4, PermittedStays DEF QrInv, FlightMoved
<1>7. FailuresCounted'
  BY <1>3, <1>4, FailuresStay DEF QrInv, FlightMoved
<1>8. Reported'
  <2>1. ASSUME NEW x \in Overseas, quote[x].status = "refreshing"
        PROVE  \E g \in Flights : flight'[g].pc \in {"waiting", "fetching"} /\ flight'[g].ticker = x
    <3>1. PICK g \in Flights : flight[g].pc \in {"waiting", "fetching"} /\ flight[g].ticker = x
      BY <2>1 DEF QrInv, Reported
    <3>2. g = f => pc = "fetching"
      BY <1>1, <3>1
    <3> QED
      BY <1>4, <3>1, <3>2 DEF FlightMoved
  <2> QED
    BY <1>3, <2>1 DEF Reported
<1> QED
  BY <1>4, <1>5, <1>6, <1>7, <1>8 DEF QrInv, FlightMoved

\* While a flight of a ticker that asks the provider ends its step, no other flight of it
\* is there to be refreshing
LEMMA ReportedStays ==
    ASSUME Reported, OnTheList, QrTyped, NEW f \in Flights, FlightRuns(f),
           NEW pc, FlightMoved(f, pc),
           \A x \in Overseas : x # flight[f].ticker => quote'[x].status = quote[x].status,
           quote'[flight[f].ticker].status # "refreshing"
    PROVE  Reported'
<1>1. ASSUME NEW x \in Overseas, quote'[x].status = "refreshing"
      PROVE  \E g \in Flights : flight'[g].pc \in {"waiting", "fetching"} /\ flight'[g].ticker = x
  <2>1. x # flight[f].ticker /\ quote[x].status = "refreshing"
    BY <1>1
  <2>2. PICK g \in Flights : flight[g].pc \in {"waiting", "fetching"} /\ flight[g].ticker = x
    BY <2>1 DEF Reported
  <2> QED
    BY <2>1, <2>2 DEF FlightMoved
<1> QED
  BY <1>1 DEF Reported

\* The provider answered with a quote
LEMMA SucceedsInv ==
    ASSUME QrInv, NEW f \in Flights, Succeeds(f)
    PROVE  QrInv'
<1> DEFINE t == flight[f].ticker
           due == now + Interval
           q == [quote[t] EXCEPT !.next = due, !.backoff = 0, !.failures = 0,
                                 !.status = "refreshed"]
<1>1. /\ FlightRuns(f) /\ "broadcasting" \in RunningPcs \cup {"done"}
      /\ flight' = [flight EXCEPT ![f].pc = "broadcasting"]
      /\ provider' = [until |-> 0, failures |-> 0]
      /\ UNCHANGED <<now, flights, call, scan, cancels>>
  BY DEF Succeeds, FlightRuns, RunningPcs
<1>2. t \in Overseas /\ now \in Nat /\ now >= 1 /\ quote[t] \in QuoteRec /\ Interval \in Nat
  BY RefreshAssumption DEF QrInv, QrTyped, FlightRec, RefreshAssumption
<1>3. due \in Int
  BY <1>2
<1>4. quote' = [quote EXCEPT ![t] = q]
  BY DEF Succeeds
<1> HIDE DEF due
<1>5. q \in QuoteRec /\ q.failures = 0 /\ q.backoff = 0 /\ q.status = "refreshed"
  <2>1. PICK r \in QuoteRec, zero \in Int, none \in Nat :
          r = quote[t] /\ zero = 0 /\ none = 0
    BY <1>2
  <2> DEFINE y == [r EXCEPT !.next = due, !.backoff = zero, !.failures = none,
                            !.status = "refreshed"]
  <2>2. y \in QuoteRec /\ y.failures = none /\ y.backoff = zero /\ y.status = "refreshed"
    BY <1>3 DEF QuoteRec
  <2>3. q = y
    BY <2>1
  <2> QED
    BY <2>1, <2>2, <2>3
<1> HIDE DEF q
<1>6. /\ quote' \in [Overseas -> QuoteRec]
      /\ \A x \in Overseas : quote'[x] = IF x = t THEN q ELSE quote[x]
  BY <1>2, <1>4, <1>5 DEF QrInv, QrTyped
<1>7. FlightMoved(f, "broadcasting")
  BY <1>1, FlightGoesOn DEF QrInv
<1>8. QrTyped' /\ ScanAsleep'
  BY <1>1, <1>6, <1>7 DEF QrInv, QrTyped, ScanAsleep, FlightMoved
<1>9. Permitted'
  <2>1. \A g \in Flights : flight[g].ticker \in Overseas
    BY DEF QrInv, QrTyped, FlightRec
  <2>2. ~(now' < provider'.until)
    BY <1>1, <1>2
  <2>3. ASSUME NEW g \in Flights, FlightRuns(g)'
        PROVE  quote'[flight'[g].ticker].backoff <= now'
    BY <1>1, <1>2, <1>5, <1>6, <1>7, <2>1, <2>3 DEF QrInv, Permitted, FlightMoved
  <2> QED
    BY <2>2, <2>3 DEF Permitted
<1>10. FailuresCounted'
  BY <1>1, <1>2, <1>5, <1>6, <1>7 DEF QrInv, FailuresCounted, FlightMoved
<1>11. Reported'
  BY <1>1, <1>2, <1>5, <1>6, <1>7, ReportedStays DEF QrInv, Flying
<1> QED
  BY <1>7, <1>8, <1>9, <1>10, <1>11 DEF QrInv, FlightMoved

\* The provider had no quote, answered with an error, or not in time
LEMMA FailsInv ==
    ASSUME QrInv, NEW f \in Flights, NEW rated \in BOOLEAN, Fails(f, rated)
    PROVE  QrInv'
<1> DEFINE t == flight[f].ticker
           n == quote[t].failures + 1
           base == IF rated THEN RateWait ELSE ErrorWait
           until == now + Doubled(base, n)
           q == [quote[t] EXCEPT !.failures = n, !.backoff = until, !.next = until,
                                 !.status = "backoff"]
           m == provider.failures + 1
           later == IF rated THEN now + Doubled(RateWait, m) ELSE provider.until
<1>1. /\ FlightRuns(f) /\ "done" \in RunningPcs \cup {"done"}
      /\ flight' = [flight EXCEPT ![f].pc = "done"]
      /\ provider' = [until |-> later, failures |-> m]
      /\ warned' = IF rated THEN {x \in Overseas : UnderWay(x) # {}} ELSE warned
      /\ UNCHANGED <<now, flights, call, scan, cancels>>
  BY DEF Fails, FlightRuns, RunningPcs
<1>2. /\ t \in Overseas /\ now \in Nat /\ quote[t] \in QuoteRec
      /\ base \in Nat /\ RateWait \in Nat
      /\ provider.until \in Int /\ provider.failures \in Nat
  BY RefreshAssumption DEF QrInv, QrTyped, FlightRec, RefreshAssumption
<1>3. n \in Nat /\ n >= 1 /\ m \in Nat /\ m >= 1
  BY <1>2 DEF QuoteRec
<1>4. quote' = [quote EXCEPT ![t] = q]
  BY DEF Fails
<1> HIDE DEF n, m, base
<1>5. until \in Int /\ later \in Int
  BY <1>2, <1>3, DoubledType
<1> HIDE DEF until, later
<1>6. q \in QuoteRec /\ q.failures = n /\ q.status = "backoff"
  BY <1>2, <1>3, <1>5 DEF QuoteRec
<1> HIDE DEF q
<1>7. /\ quote' \in [Overseas -> QuoteRec]
      /\ \A x \in Overseas : quote'[x] = IF x = t THEN q ELSE quote[x]
  BY <1>2, <1>4, <1>6 DEF QrInv, QrTyped
<1>8. FlightMoved(f, "done")
  BY <1>1, FlightGoesOn DEF QrInv
<1>9. provider' \in [until : Int, failures : Nat]
  BY <1>1, <1>3, <1>5
<1>10. QrTyped' /\ ScanAsleep'
  BY <1>1, <1>7, <1>8, <1>9 DEF QrInv, QrTyped, ScanAsleep, FlightMoved
<1>11. Permitted'
  <2>1. \A g \in Flights : flight[g].ticker \in Overseas
    BY DEF QrInv, QrTyped, FlightRec
  <2>2. ASSUME NEW g \in Flights, FlightRuns(g)'
        PROVE  /\ FlightRuns(g) /\ flight'[g].ticker = flight[g].ticker
               /\ flight[g].ticker # t
    <3>1. FlightRuns(g) /\ flight'[g].ticker = flight[g].ticker /\ g # f
      BY <1>8, <2>2 DEF FlightMoved, FlightRuns, RunningPcs
    <3> QED
      BY <1>1, <3>1, OnlyFlight DEF QrInv, Flying
  <2>3. ASSUME NEW g \in Flights, FlightRuns(g)'
        PROVE  quote'[flight'[g].ticker].backoff <= now'
    BY <1>1, <1>7, <2>1, <2>2, <2>3 DEF QrInv, Permitted
  <2>4. ASSUME NEW g \in Flights, FlightRuns(g)', now' < provider'.until
        PROVE  flight'[g].ticker \in warned'
    <3>1. CASE rated
      <4>1. g \in UnderWay(flight[g].ticker)
        BY <2>2, <2>4 DEF UnderWay, FlightRuns
      <4> QED
        BY <1>1, <2>1, <2>2, <2>4, <3>1, <4>1
    <3>2. CASE ~rated
      BY <1>1, <2>2, <2>4, <3>2 DEF QrInv, Permitted, later
    <3> QED
      BY <3>1, <3>2
  <2> QED
    BY <2>3, <2>4 DEF Permitted
<1>12. FailuresCounted'
  <2>1. /\ Cardinality(FlightsOver) \in Nat
        /\ Cardinality(FlightsOver') = Cardinality(FlightsOver) + 1
    BY <1>8 DEF FlightMoved
  <2>2. provider'.failures = provider.failures + 1
    BY <1>1 DEF m
  <2>3. \A x \in Overseas : quote[x].failures \in Nat /\ quote'[x].failures \in Nat
                            /\ quote'[x].failures <= quote[x].failures + 1
    BY <1>2, <1>6, <1>7 DEF n, QrInv, QrTyped, QuoteRec
  <2> QED
    BY <1>2, <2>1, <2>2, <2>3 DEF QrInv, FailuresCounted
<1>13. Reported'
  BY <1>1, <1>2, <1>6, <1>7, <1>8, ReportedStays DEF QrInv, Flying
<1> QED
  BY <1>8, <1>10, <1>11, <1>12, <1>13 DEF QrInv, FlightMoved

\* A task that is cancelled
LEMMA CancelledInv ==
    ASSUME QrInv, NEW f \in Flights, EndsCancelled(f)
    PROVE  QrInv'
<1> DEFINE t == flight[f].ticker
           q == [quote[t] EXCEPT !.status = "cancelled"]
<1>1. /\ FlightRuns(f) /\ "done" \in RunningPcs \cup {"done"}
      /\ flight' = [flight EXCEPT ![f].pc = "done"]
      /\ UNCHANGED <<now, provider, flights, call, scan, cancels, warned>>
  BY DEF EndsCancelled, FlightRuns
<1>2. t \in Overseas /\ quote[t] \in QuoteRec
  BY DEF QrInv, QrTyped, FlightRec
<1>3. /\ q \in QuoteRec /\ q.failures = quote[t].failures /\ q.backoff = quote[t].backoff
      /\ q.status = "cancelled"
  BY <1>2 DEF QuoteRec
<1>4. quote' = IF flight[f].pc = "created" THEN quote ELSE [quote EXCEPT ![t] = q]
  BY DEF EndsCancelled, SaysCancelled
<1> HIDE DEF q
<1>5. /\ quote' \in [Overseas -> QuoteRec]
      /\ \A x \in Overseas : quote'[x] = IF x = t /\ flight[f].pc # "created" THEN q ELSE quote[x]
  BY <1>2, <1>3, <1>4 DEF QrInv, QrTyped
<1>6. FlightMoved(f, "done")
  BY <1>1, FlightGoesOn DEF QrInv
<1>7. QrTyped' /\ ScanAsleep'
  BY <1>1, <1>5, <1>6 DEF QrInv, QrTyped, ScanAsleep, FlightMoved
<1>8. Permitted'
  BY <1>1, <1>3, <1>5, <1>6, PermittedStays DEF QrInv, FlightMoved
<1>9. FailuresCounted'
  BY <1>1, <1>3, <1>5, <1>6, FailuresStay DEF QrInv, FlightMoved
<1>10. Reported'
  <2>1. quote'[t].status # "refreshing"
    <3>1. CASE flight[f].pc = "created"
      <4>1. ASSUME quote[t].status = "refreshing" PROVE FALSE
        <5>1. PICK g \in Flights : flight[g].pc \in {"waiting", "fetching"} /\ flight[g].ticker = t
          BY <1>2, <4>1 DEF QrInv, Reported
        <5>2. g = f
          BY <1>1, <5>1, OnlyFlight DEF QrInv, Flying, FlightRuns, RunningPcs
        <5> QED
          BY <3>1, <5>1, <5>2
      <4> QED
        BY <1>2, <1>5, <3>1, <4>1
    <3>2. CASE flight[f].pc # "created"
      BY <1>2, <1>3, <1>5, <3>2
    <3> QED
      BY <3>1, <3>2
  <2> QED
    BY <1>1, <1>5, <1>6, <2>1, ReportedStays DEF QrInv, Flying
<1> QED
  BY <1>6, <1>7, <1>8, <1>9, <1>10 DEF QrInv, FlightMoved

\* What a call does up to its await: from the database, with the flight there is, or with
\* a new one
LEMMA RefreshInv ==
    ASSUME QrInv, NEW c \in Calls, NEW t \in Overseas, NEW manual \in BOOLEAN,
           call[c].pc # "awaiting", c \in Overseas => scan.pc # "sleeping",
           Refresh(c, t, manual), UNCHANGED <<now, provider, scan, cancels, warned>>
    PROVE  QrInv'
<1>1. /\ quote[t] \in QuoteRec /\ call[c] \in CallRec /\ now \in Nat
      /\ provider.until \in Int /\ quote[t].attempt \in Nat /\ quote[t].backoff \in Int
      /\ ManualInterval \in Nat
  BY RefreshAssumption DEF QrInv, QrTyped, QuoteRec, RefreshAssumption
<1>2. /\ BackoffUntil(t) \in Int
      /\ BackoffUntil(t) >= quote[t].backoff /\ BackoffUntil(t) >= provider.until
  BY <1>1, LeastOfTwo DEF BackoffUntil
<1>3. ASSUME NEW result \in {"throttled", "backoff"}, NEW next \in Int,
             AnswersCached(t, result, next),
             call' = [call EXCEPT ![c].pc = "done"], UNCHANGED <<flight, flights>>
      PROVE  QrInv'
  <2> DEFINE q == [quote[t] EXCEPT !.status = result, !.next = next]
             r == [call[c] EXCEPT !.pc = "done"]
  <2>1. /\ q \in QuoteRec /\ q.status = result /\ q.failures = quote[t].failures
        /\ q.backoff = quote[t].backoff
        /\ r \in CallRec /\ r.pc = "done"
        /\ quote' = [quote EXCEPT ![t] = q] /\ call' = [call EXCEPT ![c] = r]
    BY <1>1, <1>3 DEF QuoteRec, CallRec, AnswersCached
  <2> HIDE DEF q, r
  <2>2. /\ quote' \in [Overseas -> QuoteRec]
        /\ \A x \in Overseas : quote'[x] = IF x = t THEN q ELSE quote[x]
    BY <2>1 DEF QrInv, QrTyped
  <2>3. /\ call' \in [Calls -> CallRec]
        /\ \A d \in Calls : d # c => call'[d] = call[d]
        /\ call'[c].pc = "done"
    BY <2>1 DEF QrInv, QrTyped
  <2>4. QrTyped'
    BY <1>3, <2>2, <2>3 DEF QrInv, QrTyped
  <2>5. Flying'
    <3>1. Numbered' /\ OnTheList'
      BY <1>3 DEF QrInv, Flying, Numbered, OnTheList, FlightRuns
    <3>2. ListedAwaited'
      BY <1>3, <2>3 DEF QrInv, Flying, ListedAwaited
    <3>3. AwaitsFlight'
      BY <1>3, <2>3 DEF QrInv, Flying, AwaitsFlight
    <3> QED
      BY <3>1, <3>2, <3>3 DEF Flying
  <2>6. ScanAsleep'
    BY <2>3 DEF QrInv, ScanAsleep, Calls
  <2>7. SlotsKept'
    BY <1>3 DEF QrInv, SlotsKept, Fetching
  <2>8. Permitted'
    <3>1. \A g \in Flights : FlightRuns(g)' => FlightRuns(g)
      BY <1>3 DEF FlightRuns
    <3> QED
      BY <1>3, <2>1, <2>2, <3>1, PermittedStays DEF QrInv
  <2>9. FailuresCounted'
    BY <1>3, <2>1, <2>2 DEF QrInv, FailuresCounted, FlightsOver
  <2>10. Reported'
    BY <1>3, <2>1, <2>2 DEF QrInv, Reported
  <2> QED
    BY <2>4, <2>5, <2>6, <2>7, <2>8, <2>9, <2>10 DEF QrInv
<1>4. ASSUME flights[t] # 0, call' = [call EXCEPT ![c] = [pc |-> "awaiting", flight |-> flights[t]]],
             UNCHANGED <<flight, flights, quote>>
      PROVE  QrInv'
  <2> DEFINE r == [pc |-> "awaiting", flight |-> flights[t]]
  <2>1. /\ r \in CallRec /\ r.pc = "awaiting" /\ r.flight = flights[t]
        /\ flights[t] \in Flights
    BY <1>4, RefreshAssumption DEF QrInv, QrTyped, CallRec, Flights, RefreshAssumption
  <2> HIDE DEF r
  <2>2. /\ call' \in [Calls -> CallRec] /\ call'[c] = r
        /\ \A d \in Calls : d # c => call'[d] = call[d]
    BY <1>4, <2>1 DEF QrInv, QrTyped, r
  <2>3. QrTyped'
    BY <1>4, <2>2 DEF QrInv, QrTyped
  <2>4. Flying'
    <3>1. Numbered' /\ OnTheList'
      BY <1>4 DEF QrInv, Flying, Numbered, OnTheList, FlightRuns
    <3>2. ListedAwaited'
      BY <1>4, <2>2 DEF QrInv, Flying, ListedAwaited
    <3>3. AwaitsFlight'
      BY <1>4, <2>1, <2>2 DEF QrInv, Flying, AwaitsFlight, ListedAwaited
    <3> QED
      BY <3>1, <3>2, <3>3 DEF Flying
  <2>5. ScanAsleep'
    BY <2>2 DEF QrInv, ScanAsleep, Calls
  <2>6. SlotsKept' /\ Permitted' /\ FailuresCounted' /\ Reported'
    BY <1>4 DEF QrInv, SlotsKept, Fetching, Permitted, FailuresCounted, FlightsOver, Reported, FlightRuns
  <2> QED
    BY <2>3, <2>4, <2>5, <2>6 DEF QrInv
<1>5. ASSUME ~BacksOff(t), flights[t] = 0, NextFlight <= MaxFlights,
             flight' = [flight EXCEPT ![NextFlight] = [pc |-> "created", ticker |-> t, cancel |-> FALSE]],
             flights' = [flights EXCEPT ![t] = NextFlight],
             call' = [call EXCEPT ![c] = [pc |-> "awaiting", flight |-> NextFlight]],
             UNCHANGED quote
      PROVE  QrInv'
  <2>1. PICK n \in 0..MaxFlights : \A f \in Flights : flight[f].pc # "none" <=> f <= n
    BY DEF QrInv, Flying, Numbered
  <2>2. NextFlight = n + 1
    BY <2>1, NextFlightIs
  <2>3. MaxFlights \in Nat
    BY RefreshAssumption DEF RefreshAssumption
  <2>4. PICK k \in Flights : k = NextFlight
    BY <1>5, <2>1, <2>2, <2>3 DEF Flights
  <2> DEFINE z == [pc |-> "created", ticker |-> t, cancel |-> FALSE]
             r == [pc |-> "awaiting", flight |-> k]
  <2>5. /\ z \in FlightRec /\ z.pc = "created" /\ z.ticker = t
        /\ r \in CallRec /\ r.pc = "awaiting" /\ r.flight = k
        /\ k \in 0..MaxFlights /\ k # 0 /\ flight[k].pc = "none"
    BY <2>1, <2>2, <2>3, <2>4 DEF FlightRec, RunningPcs, CallRec, Flights
  <2>6. /\ flight' = [flight EXCEPT ![k] = z] /\ flights' = [flights EXCEPT ![t] = k]
        /\ call' = [call EXCEPT ![c] = r]
    BY <1>5, <2>4
  <2> HIDE DEF z, r
  <2>7. /\ flight' \in [Flights -> FlightRec] /\ flight'[k] = z
        /\ \A g \in Flights : g # k => flight'[g] = flight[g]
    BY <2>5, <2>6 DEF QrInv, QrTyped
  <2>8. /\ flights' \in [Overseas -> 0..MaxFlights] /\ flights'[t] = k
        /\ \A x \in Overseas : x # t => flights'[x] = flights[x]
    BY <2>5, <2>6 DEF QrInv, QrTyped
  <2>9. /\ call' \in [Calls -> CallRec] /\ call'[c] = r
        /\ \A d \in Calls : d # c => call'[d] = call[d]
    BY <2>5, <2>6 DEF QrInv, QrTyped
  <2>10. QrTyped'
    BY <1>5, <2>7, <2>8, <2>9 DEF QrInv, QrTyped
  <2>11. Flying'
    <3>1. Numbered'
      <4>1. n + 1 \in 0..MaxFlights /\ k = n + 1
        BY <2>2, <2>4, <2>5
      <4>2. ASSUME NEW g \in Flights PROVE flight'[g].pc # "none" <=> g <= n + 1
        <5>1. CASE g = k
          BY <2>5, <2>7, <4>1, <5>1
        <5>2. CASE g # k
          BY <2>1, <2>3, <2>7, <4>1, <5>2 DEF Flights
        <5> QED
          BY <5>1, <5>2
      <4> QED
        BY <4>1, <4>2 DEF Numbered
    <3>2. OnTheList'
      <4>1. ASSUME NEW g \in Flights, FlightRuns(g)' PROVE flights'[flight'[g].ticker] = g
        <5>1. CASE g = k
          BY <2>5, <2>7, <2>8, <5>1
        <5>2. CASE g # k
          <6>1. FlightRuns(g) /\ flight[g].ticker \in Overseas /\ flights[flight[g].ticker] = g
            BY <2>7, <4>1, <5>2 DEF FlightRuns, QrInv, QrTyped, FlightRec, Flying, OnTheList
          <6>2. g # 0
            BY <2>3 DEF Flights
          <6> QED
            BY <1>5, <2>7, <2>8, <5>2, <6>1, <6>2
        <5> QED
          BY <5>1, <5>2
      <4> QED
        BY <4>1 DEF OnTheList
    <3>3. ListedAwaited'
      <4>1. ASSUME NEW x \in Overseas, flights'[x] # 0
            PROVE  /\ flight'[flights'[x]].pc # "none" /\ flight'[flights'[x]].ticker = x
                   /\ \E d \in Calls : call'[d].pc = "awaiting" /\ call'[d].flight = flights'[x]
        <5>1. CASE x = t
          BY <2>5, <2>7, <2>8, <2>9, <5>1
        <5>2. CASE x # t
          <6>1. /\ flights'[x] = flights[x] /\ flights[x] \in Flights
                /\ flight[flights[x]].pc # "none" /\ flight[flights[x]].ticker = x
            BY <2>3, <2>8, <4>1, <5>2 DEF QrInv, QrTyped, Flying, ListedAwaited, Flights
          <6>2. flight'[flights[x]] = flight[flights[x]]
            BY <2>5, <2>7, <6>1
          <6>3. PICK d \in Calls : call[d].pc = "awaiting" /\ call[d].flight = flights[x]
            BY <4>1, <6>1 DEF QrInv, Flying, ListedAwaited
          <6> QED
            BY <2>9, <6>1, <6>2, <6>3
        <5> QED
          BY <5>1, <5>2
      <4> QED
        BY <4>1 DEF ListedAwaited
    <3>4. AwaitsFlight'
      BY <2>5, <2>7, <2>9 DEF QrInv, Flying, AwaitsFlight
    <3> QED
      BY <3>1, <3>2, <3>3, <3>4 DEF Flying
  <2>12. ScanAsleep'
    BY <2>9 DEF QrInv, ScanAsleep, Calls
  <2>13. SlotsKept' /\ FailuresCounted'
    <3>1. Fetching' = Fetching /\ FlightsOver' = FlightsOver
      BY <2>5, <2>7 DEF Fetching, FlightsOver
    <3> QED
      BY <1>5, <3>1 DEF QrInv, SlotsKept, FailuresCounted
  <2>14. Permitted'
    <3>1. quote[t].backoff <= now /\ ~(now < provider.until)
      BY <1>1, <1>2, <1>5 DEF BacksOff
    <3> QED
      BY <1>5, <2>5, <2>7, <3>1 DEF QrInv, Permitted, FlightRuns
  <2>15. Reported'
    BY <1>5, <2>5, <2>7 DEF QrInv, Reported
  <2> QED
    BY <2>10, <2>11, <2>12, <2>13, <2>14, <2>15 DEF QrInv
<1>6. quote[t].attempt + ManualInterval \in Int
  BY <1>1
<1> QED
  BY <1>2, <1>3, <1>4, <1>5, <1>6 DEF Refresh, JoinedFlight

\* The requests and the scan
LEMMA CallsInv ==
    ASSUME QrInv,
           \/ \E r \in Requests, t \in Overseas, manual \in BOOLEAN : Request(r, t, manual)
           \/ \E t \in Overseas : ScanChild(t)
           \/ Scan \/ ScanEnds
    PROVE  QrInv'
<1>1. ASSUME NEW r \in Requests, NEW t \in Overseas, NEW manual \in BOOLEAN, Request(r, t, manual)
      PROVE  QrInv'
  <2>1. r \in Calls /\ r \notin Overseas
    BY RefreshAssumption DEF RefreshAssumption, Calls
  <2> QED
    BY <1>1, <2>1, RefreshInv DEF Request
<1>2. ASSUME NEW t \in Overseas, ScanChild(t)
      PROVE  QrInv'
  <2>1. t \in Calls /\ scan.pc # "sleeping" /\ FALSE \in BOOLEAN
    BY <1>2 DEF Calls, ScanChild, QrInv, ScanAsleep
  <2> QED
    BY <1>2, <2>1, RefreshInv DEF ScanChild
<1>3. ASSUME UNCHANGED <<now, quote, provider, flight, flights, cancels, warned>>,
             call' \in [Calls -> CallRec],
             \A c \in Calls : call'[c] = call[c] \/ (call[c].pc # "awaiting" /\ call'[c].pc # "awaiting"),
             scan'.pc \in {"sleeping", "gathering"}, ScanAsleep'
      PROVE  QrInv'
  <2>1. QrTyped'
    BY <1>3 DEF QrInv, QrTyped
  <2>2. Flying'
    <3>1. Numbered' /\ OnTheList'
      BY <1>3 DEF QrInv, Flying, Numbered, OnTheList, FlightRuns
    <3>2. ListedAwaited'
      BY <1>3 DEF QrInv, Flying, ListedAwaited
    <3>3. AwaitsFlight'
      BY <1>3 DEF QrInv, Flying, AwaitsFlight
    <3> QED
      BY <3>1, <3>2, <3>3 DEF Flying
  <2>3. SlotsKept' /\ Permitted' /\ FailuresCounted' /\ Reported'
    BY <1>3 DEF QrInv, SlotsKept, Fetching, Permitted, FailuresCounted, FlightsOver, Reported, FlightRuns
  <2> QED
    BY <1>3, <2>1, <2>2, <2>3 DEF QrInv
<1>4. /\ [pc |-> "called", flight |-> 0] \in CallRec /\ [pc |-> "idle", flight |-> 0] \in CallRec
      /\ Overseas \subseteq Calls
  BY RefreshAssumption DEF CallRec, RefreshAssumption, Calls
<1>5. CASE Scan
  <2> DEFINE due == {t \in Overseas : quote[t].next <= now}
  <2>1. /\ call' = [c \in Calls |-> IF c \in due THEN [pc |-> "called", flight |-> 0] ELSE call[c]]
        /\ scan'.pc = "gathering" /\ scan.pc = "sleeping"
        /\ UNCHANGED <<now, quote, provider, flight, flights, cancels, warned>>
    BY <1>5 DEF Scan
  <2>2. \A c \in due : call[c].pc = "idle"
    BY <2>1 DEF QrInv, ScanAsleep
  <2> HIDE DEF due
  <2>3. call' \in [Calls -> CallRec]
    BY <1>4, <2>1 DEF QrInv, QrTyped
  <2>4. \A c \in Calls : call'[c] = call[c] \/ (call[c].pc # "awaiting" /\ call'[c].pc # "awaiting")
    BY <2>1, <2>2
  <2> QED
    BY <1>3, <2>1, <2>3, <2>4 DEF ScanAsleep
<1>6. CASE ScanEnds
  <2>1. /\ call' = [c \in Calls |-> IF c \in Overseas THEN [pc |-> "idle", flight |-> 0] ELSE call[c]]
        /\ scan' = [scan EXCEPT !.pc = "sleeping"]
        /\ \A t \in Overseas : call[t].pc \in {"idle", "done"}
        /\ UNCHANGED <<now, quote, provider, flight, flights, cancels, warned>>
    BY <1>6 DEF ScanEnds
  <2>2. scan'.pc \in {"sleeping", "gathering"}
    BY <2>1 DEF QrInv, QrTyped
  <2>3. call' \in [Calls -> CallRec]
    BY <1>4, <2>1 DEF QrInv, QrTyped
  <2>4. \A c \in Calls : call'[c] = call[c] \/ (call[c].pc # "awaiting" /\ call'[c].pc # "awaiting")
    BY <2>1
  <2>5. ScanAsleep'
    BY <1>4, <2>1 DEF ScanAsleep
  <2> QED
    BY <1>3, <2>1, <2>2, <2>3, <2>4, <2>5
<1> QED
  BY <1>1, <1>2, <1>5, <1>6

\* A caller goes on after its flight, or is cancelled with it; and time passes
LEMMA AwaitsInv ==
    ASSUME QrInv,
           \/ \E c \in Calls : Returns(c) \/ Cancel(c)
           \/ QrTick
    PROVE  QrInv'
<1>1. ASSUME NEW c \in Calls, Returns(c)
      PROVE  QrInv'
  <2> DEFINE f == call[c].flight
             t == flight[f].ticker
             r == [pc |-> "done", flight |-> 0]
  <2>1. /\ call[c].pc = "awaiting" /\ flight[f].pc = "done"
        /\ flights' = IF flights[t] = f THEN [flights EXCEPT ![t] = 0] ELSE flights
        /\ call' = [call EXCEPT ![c] = r]
        /\ UNCHANGED <<now, quote, provider, flight, scan, cancels, warned>>
    BY <1>1 DEF Returns, Landed
  <2>2. f \in Flights /\ t \in Overseas /\ 0 \in 0..MaxFlights /\ r \in CallRec /\ r.pc = "done"
    BY <2>1, RefreshAssumption
       DEF QrInv, QrTyped, FlightRec, Flying, AwaitsFlight, RefreshAssumption, CallRec
  <2> HIDE DEF f, t, r
  <2>3. /\ flights' \in [Overseas -> 0..MaxFlights]
        /\ \A x \in Overseas : flights'[x] = IF x = t /\ flights[t] = f THEN 0 ELSE flights[x]
    BY <2>1, <2>2 DEF QrInv, QrTyped
  <2>4. /\ call' \in [Calls -> CallRec]
        /\ \A d \in Calls : d # c => call'[d] = call[d]
        /\ call'[c].pc = "done"
    BY <2>1, <2>2 DEF QrInv, QrTyped
  <2>5. QrTyped'
    BY <2>1, <2>3, <2>4 DEF QrInv, QrTyped
  <2>6. Flying'
    <3>1. Numbered'
      BY <2>1 DEF QrInv, Flying, Numbered
    <3>2. OnTheList'
      <4>1. ASSUME NEW g \in Flights, FlightRuns(g) PROVE flights'[flight[g].ticker] = g
        <5>1. g # f /\ flight[g].ticker \in Overseas /\ flights[flight[g].ticker] = g
          BY <2>1, <4>1 DEF FlightRuns, RunningPcs, QrInv, QrTyped, FlightRec, Flying, OnTheList
        <5> QED
          BY <2>3, <5>1
      <4> QED
        BY <2>1, <4>1 DEF OnTheList, FlightRuns
    <3>3. ListedAwaited'
      <4>1. ASSUME NEW x \in Overseas, flights'[x] # 0
            PROVE  /\ flight[flights'[x]].pc # "none" /\ flight[flights'[x]].ticker = x
                   /\ \E d \in Calls : call'[d].pc = "awaiting" /\ call'[d].flight = flights'[x]
        <5>1. flights'[x] = flights[x] /\ ~(x = t /\ flights[t] = f)
          BY <2>3, <4>1
        <5>2. /\ flight[flights[x]].pc # "none" /\ flight[flights[x]].ticker = x
              /\ flights[x] # f
          BY <4>1, <5>1 DEF QrInv, Flying, ListedAwaited, t
        <5>3. PICK d \in Calls : call[d].pc = "awaiting" /\ call[d].flight = flights[x]
          BY <4>1, <5>1 DEF QrInv, Flying, ListedAwaited
        <5>4. d # c
          BY <5>2, <5>3 DEF f
        <5> QED
          BY <2>4, <5>1, <5>2, <5>3, <5>4
      <4> QED
        BY <2>1, <4>1 DEF ListedAwaited
    <3>4. AwaitsFlight'
      BY <2>1, <2>4 DEF QrInv, Flying, AwaitsFlight
    <3> QED
      BY <3>1, <3>2, <3>3, <3>4 DEF Flying
  <2>7. ScanAsleep'
    <3>1. \A x \in Overseas : x \in Calls
      BY DEF Calls
    <3>2. scan.pc = "sleeping" => c \notin Overseas
      BY <2>1 DEF QrInv, ScanAsleep
    <3> QED
      BY <2>1, <2>4, <3>1, <3>2 DEF QrInv, ScanAsleep
  <2>8. SlotsKept' /\ Permitted' /\ FailuresCounted' /\ Reported'
    BY <2>1 DEF QrInv, SlotsKept, Fetching, Permitted, FailuresCounted, FlightsOver, Reported, FlightRuns
  <2> QED
    BY <2>5, <2>6, <2>7, <2>8 DEF QrInv
<1>2. ASSUME NEW c \in Calls, Cancel(c)
      PROVE  QrInv'
  <2> DEFINE f == call[c].flight
             z == [flight[f] EXCEPT !.cancel = TRUE]
  <2>1. /\ call[c].pc = "awaiting" /\ flight' = [flight EXCEPT ![f] = z]
        /\ UNCHANGED <<now, quote, provider, flights, call, scan, warned>>
    BY <1>2 DEF Cancel
  <2>2. /\ f \in Flights /\ z \in FlightRec
        /\ z.pc = flight[f].pc /\ z.ticker = flight[f].ticker
    BY <2>1 DEF QrInv, QrTyped, FlightRec, Flying, AwaitsFlight
  <2> HIDE DEF f, z
  <2>3. /\ flight' \in [Flights -> FlightRec]
        /\ \A g \in Flights : flight'[g].pc = flight[g].pc /\ flight'[g].ticker = flight[g].ticker
    BY <2>1, <2>2 DEF QrInv, QrTyped
  <2>4. \A x \in Overseas : flights[x] # 0 => flights[x] \in Flights
    BY RefreshAssumption DEF QrInv, QrTyped, Flights, RefreshAssumption
  <2>5. Flying'
    BY <2>1, <2>3, <2>4 DEF QrInv, Flying, Numbered, OnTheList, FlightRuns, ListedAwaited, AwaitsFlight
  <2>6. QrTyped' /\ ScanAsleep'
    BY <2>1, <2>3 DEF QrInv, QrTyped, ScanAsleep
  <2>7. Fetching' = Fetching /\ FlightsOver' = FlightsOver
    BY <2>3 DEF Fetching, FlightsOver
  <2>8. SlotsKept' /\ FailuresCounted'
    BY <2>1, <2>7 DEF QrInv, SlotsKept, FailuresCounted
  <2>9. Permitted' /\ Reported'
    BY <2>1, <2>3 DEF QrInv, Permitted, Reported, FlightRuns
  <2> QED
    BY <2>5, <2>6, <2>8, <2>9 DEF QrInv
<1>3. CASE QrTick
  <2>1. now' = now + 1 /\ UNCHANGED <<quote, provider, flight, flights, call, scan, cancels, warned>>
    BY <1>3 DEF QrTick
  <2>2. QrTyped'
    BY <2>1 DEF QrInv, QrTyped
  <2>3. Flying' /\ ScanAsleep'
    BY <2>1 DEF QrInv, Flying, Numbered, OnTheList, FlightRuns, ListedAwaited, AwaitsFlight, ScanAsleep
  <2>4. SlotsKept' /\ FailuresCounted' /\ Reported'
    BY <2>1 DEF QrInv, SlotsKept, Fetching, FailuresCounted, FlightsOver, Reported
  <2>5. Permitted'
    <3>1. /\ \A g \in Flights : flight[g].ticker \in Overseas
          /\ \A t \in Overseas : quote[t].backoff \in Int
          /\ now \in Int /\ provider.until \in Int
      BY DEF QrInv, QrTyped, FlightRec, QuoteRec
    <3> QED
      BY <2>1, <3>1 DEF QrInv, Permitted, FlightRuns
  <2> QED
    BY <2>2, <2>3, <2>4, <2>5 DEF QrInv
<1> QED
  BY <1>1, <1>2, <1>3

LEMMA QuotesInit == QrInit => QrInv
<1> SUFFICES ASSUME QrInit PROVE QrInv
  OBVIOUS
<1>1. /\ MaxFlights \in Nat /\ MaxConcurrency \in Nat
      /\ (CHOOSE t \in Overseas : TRUE) \in Overseas
  BY RefreshAssumption DEF RefreshAssumption
<1>2. /\ [attempt |-> 0, next |-> 0, backoff |-> 0, failures |-> 0, status |-> "pending"] \in QuoteRec
      /\ [pc |-> "none", ticker |-> CHOOSE t \in Overseas : TRUE, cancel |-> FALSE] \in FlightRec
      /\ [pc |-> "idle", flight |-> 0] \in CallRec
  BY <1>1 DEF QuoteRec, FlightRec, CallRec
<1>3. QrTyped
  <2>1. quote \in [Overseas -> QuoteRec]
    BY <1>2 DEF QrInit
  <2>2. flight \in [Flights -> FlightRec]
    BY <1>2 DEF QrInit
  <2>3. call \in [Calls -> CallRec]
    BY <1>2 DEF QrInit
  <2>4. /\ now \in Nat /\ now >= 1 /\ provider \in [until : Int, failures : Nat]
        /\ flights \in [Overseas -> 0..MaxFlights] /\ scan.pc \in {"sleeping", "gathering"}
    BY <1>1 DEF QrInit
  <2> QED
    BY <2>1, <2>2, <2>3, <2>4 DEF QrTyped
<1>4. /\ \A f \in Flights : flight[f].pc = "none"
      /\ \A t \in Overseas : flights[t] = 0
      /\ \A c \in Calls : call[c].pc = "idle"
      /\ \A t \in Overseas : quote[t].failures = 0 /\ quote[t].status = "pending"
      /\ provider.failures = 0 /\ Overseas \subseteq Calls
  BY DEF QrInit, Calls
<1>5. Flying
  <2>1. 0 \in 0..MaxFlights /\ \A f \in Flights : ~(f <= 0)
    BY <1>1 DEF Flights
  <2>2. Numbered
    BY <1>4, <2>1 DEF Numbered
  <2> QED
    BY <1>4, <2>2 DEF Flying, OnTheList, FlightRuns, RunningPcs, ListedAwaited, AwaitsFlight
<1>6. SlotsKept /\ FailuresCounted
  <2>1. Fetching = {} /\ FlightsOver = {}
    BY <1>4 DEF Fetching, FlightsOver
  <2> QED
    BY <1>1, <1>4, <2>1, FS_EmptySet DEF SlotsKept, FailuresCounted
<1>7. ScanAsleep /\ Permitted /\ Reported
  BY <1>4 DEF ScanAsleep, Permitted, Reported, FlightRuns, RunningPcs
<1> QED
  BY <1>3, <1>5, <1>6, <1>7 DEF QrInv

LEMMA QuotesStep == QrInv /\ [QrNext]_qrVars => QrInv'
<1> SUFFICES ASSUME QrInv, [QrNext]_qrVars PROVE QrInv'
  OBVIOUS
<1>1. CASE UNCHANGED qrVars
  <2>1. UNCHANGED <<now, quote, provider, flight, flights, call, scan, warned>>
    BY <1>1 DEF qrVars
  <2>2. QrTyped' /\ Flying'
    BY <2>1 DEF QrInv, QrTyped, Flying, Numbered, OnTheList, FlightRuns, ListedAwaited, AwaitsFlight
  <2>3. ScanAsleep' /\ SlotsKept' /\ FailuresCounted' /\ Reported' /\ Permitted'
    BY <2>1 DEF QrInv, ScanAsleep, SlotsKept, Fetching, FailuresCounted, FlightsOver, Reported,
                Permitted, FlightRuns
  <2> QED
    BY <2>2, <2>3 DEF QrInv
<1>2. ASSUME NEW f \in Flights, FlightStep(f) PROVE QrInv'
  BY <1>2, BeginsInv, SlotInv, SucceedsInv, FailsInv, CancelledInv DEF FlightStep
<1> QED
  BY <1>1, <1>2, CallsInv, AwaitsInv DEF QrNext

\* What the invariant means for the promises
LEMMA QuotesKept == QrInv => QuotesOrderly
<1> SUFFICES ASSUME QrInv PROVE QuotesOrderly
  OBVIOUS
<1>1. \A f \in Fetching : f \in Flights /\ FlightRuns(f)
  BY DEF Fetching, FlightRuns, RunningPcs
<1>2. QrTypeOK
  <2>1. MaxFlights \in Nat /\ Cardinality(FlightsOver) \in Nat /\ Cardinality(FlightsOver) <= MaxFlights
    BY FlightsFinite, RefreshAssumption DEF FlightsOver, RefreshAssumption
  <2>2. \A t \in Overseas : quote[t].failures <= MaxFlights /\ provider.failures <= MaxFlights
    BY <2>1 DEF QrInv, QrTyped, QuoteRec, FailuresCounted
  <2>3. \A t \in Overseas : quote[t].status = "refreshing" => UnderWay(t) # {}
    BY DEF QrInv, Reported, UnderWay, RunningPcs
  <2> QED
    BY <2>2, <2>3 DEF QrInv, QrTyped, QrTypeOK
<1>3. OneFlight
  <2> SUFFICES ASSUME NEW t \in Overseas PROVE Cardinality(UnderWay(t)) <= 1
    BY DEF OneFlight
  <2>1. \A f, g \in UnderWay(t) : f = g
    BY OnlyFlight DEF UnderWay, QrInv, Flying, FlightRuns
  <2>2. UnderWay(t) = {} \/ \E f : UnderWay(t) = {f}
    BY <2>1
  <2> QED
    BY <2>2, FS_EmptySet, FS_Singleton
<1>4. FlightsLand
  BY DEF QrInv, Flying, ListedAwaited, FlightsLand
<1>5. TickerRests /\ ProviderRests
  BY <1>1 DEF QrInv, Permitted, TickerRests, ProviderRests
<1> QED
  BY <1>2, <1>3, <1>4, <1>5 DEF QuotesOrderly, QrInv

\* However requests and scans join flights, fail and are cancelled, a ticker has one flight
\* under way and the provider no more requests than slots; no call is answered for ever by a
\* flight that is over; and neither a ticker that failed nor a provider that is rate limited
\* is asked again before its backoff ends, but by the flights already under way.
THEOREM QuotesCorrect == QrSpec => []QuotesOrderly
  BY QuotesInit, QuotesStep, QuotesKept, PTL DEF QrSpec

-----------------------------------------------------------------------------
(* The refresh of futures history                                          *)

WorkRec == [pc : {"none", "created", "working", "done"}, key : Histories, cancel : BOOLEAN,
            result : {"none"} \cup Results]

FhTyped ==
    /\ work \in [TaskIds -> WorkRec]
    /\ listed \in [Histories -> 0..MaxTasks]
    /\ outcome \in [Histories -> Results \cup {"idle", "running"}]
    /\ reports \in Seq(TaskIds)
    /\ stage \in {"open", "closing", "closed"}

AtPc(pc) == {n \in TaskIds : work[n].pc = pc}
SemaphoreKept == Cardinality(AtPc("working")) <= MaxRefreshes

\* Tasks are numbered in the order they are created, a task on the list is of its key, and
\* only the newest task of a key is not yet done
TasksNumbered == \E c \in 0..MaxTasks : \A n \in TaskIds : work[n].pc # "none" <=> n <= c
ListedExists == \A k \in Histories : listed[k] # 0 => listed[k] \in OfKey(k)
OlderDone ==
    \A m, n \in TaskIds : /\ m < n /\ work[n].pc # "none" /\ work[m].key = work[n].key
                          => work[m].pc = "done"
Tasked == TasksNumbered /\ ListedExists /\ OlderDone /\ WorkListed

\* Done tasks have a result and report in the order of their numbers; the outcome of a key is
\* that of its newest task, unless that one is under way or has yet to report
DoneHasResult == \A n \in TaskIds : work[n].pc = "done" => work[n].result \in Results
ReportsInOrder ==
    /\ \A i \in DOMAIN reports : work[reports[i]].pc = "done"
    /\ \A i, j \in DOMAIN reports : /\ i < j /\ work[reports[i]].key = work[reports[j]].key
                                    => reports[i] < reports[j]
LastOfKey(n) == work[n].pc # "none" /\ \A o \in OfKey(work[n].key) : o <= n
NewestReported ==
    \A n \in TaskIds : LastOfKey(n) /\ work[n].pc = "done" =>
        \/ \E i \in DOMAIN reports : reports[i] = n
        \/ /\ outcome[work[n].key] = work[n].result
           /\ \A i \in DOMAIN reports : work[reports[i]].key # work[n].key
Reporting == DoneHasResult /\ ReportsInOrder /\ NewestReported

FhInv == /\ FhTyped /\ SemaphoreKept /\ Tasked /\ Reporting
         /\ ReadsCancelNothing /\ ClosedIsQuiet

LEMMA TasksFinite ==
    /\ MaxTasks \in Nat /\ TaskIds = 1..MaxTasks /\ IsFiniteSet(TaskIds)
    /\ \A S \in SUBSET TaskIds : IsFiniteSet(S) /\ Cardinality(S) \in Nat
<1>1. MaxTasks \in Nat /\ TaskIds = 1..MaxTasks
  BY CoordinatorAssumption DEF CoordinatorAssumption, TaskIds
<1>2. IsFiniteSet(TaskIds)
  BY <1>1, FS_Interval
<1> QED
  BY <1>1, <1>2, FS_Subset, FS_CardinalityType

\* The number of the next task
LEMMA CreatedIs ==
    ASSUME NEW c \in 0..MaxTasks, \A n \in TaskIds : work[n].pc # "none" <=> n <= c
    PROVE  Created = c
<1>1. {n \in TaskIds : work[n].pc # "none"} = 1..c
  BY TasksFinite
<1>2. 1 \in Int /\ c \in Int /\ c >= 0
  BY TasksFinite
<1>3. Cardinality(1..c) = IF 1 > c THEN 0 ELSE c - 1 + 1
  BY <1>2, FS_Interval
<1>4. Cardinality(1..c) = c
  BY <1>2, <1>3
<1> QED
  BY <1>1, <1>4 DEF Created

\* Tasks go on: they keep their keys, none is new, and those that are done stay as they are
TasksMove ==
    /\ work' \in [TaskIds -> WorkRec]
    /\ \A m \in TaskIds : /\ work'[m].key = work[m].key
                          /\ work'[m].pc = "none" <=> work[m].pc = "none"
                          /\ work[m].pc = "done" => work'[m] = work[m]
TaskMoved(n) == TasksMove /\ \A m \in TaskIds : m # n => work'[m] = work[m]

\* The list and the numbers stay as they are when tasks go on
LEMMA TaskedStays ==
    ASSUME FhTyped, Tasked, TasksMove, UNCHANGED listed
    PROVE  Tasked'
<1>1. TasksNumbered'
  BY DEF TasksMove, Tasked, TasksNumbered
<1>2. ListedExists'
  BY DEF TasksMove, Tasked, ListedExists, OfKey
<1>3. OlderDone'
  BY DEF TasksMove, Tasked, OlderDone
<1>4. WorkListed'
  <2>1. Working' \subseteq Working
    BY DEF TasksMove, Working, FhTyped, WorkRec
  <2>2. \A m \in Working : m \in TaskIds
    BY DEF Working
  <2> QED
    BY <2>1, <2>2 DEF TasksMove, Tasked, WorkListed
<1> QED
  BY <1>1, <1>2, <1>3, <1>4 DEF Tasked

\* Nobody reports when tasks go on and none is done
LEMMA ReportingStays ==
    ASSUME FhTyped, Reporting, TasksMove,
           \A m \in TaskIds : work'[m].pc = "done" => work[m].pc = "done",
           UNCHANGED <<reports, outcome>>
    PROVE  Reporting'
<1>1. \A m \in TaskIds : work'[m].pc = "done" <=> work[m].pc = "done"
  BY DEF TasksMove
<1>2. \A i \in DOMAIN reports : reports[i] \in TaskIds
  BY DEF FhTyped
<1>3. DoneHasResult'
  BY <1>1 DEF TasksMove, Reporting, DoneHasResult
<1>4. ReportsInOrder'
  BY <1>1, <1>2 DEF TasksMove, Reporting, ReportsInOrder
<1>5. NewestReported'
  <2>1. \A m \in TaskIds : LastOfKey(m)' <=> LastOfKey(m)
    BY DEF TasksMove, LastOfKey, OfKey
  <2> QED
    BY <1>1, <1>2, <2>1 DEF TasksMove, Reporting, NewestReported
<1> QED
  BY <1>3, <1>4, <1>5 DEF Reporting

\* A task gets its slot
LEMMA GetsGoingInv ==
    ASSUME FhInv, NEW n \in TaskIds, GetsGoing(n)
    PROVE  FhInv'
<1> DEFINE z == [work[n] EXCEPT !.pc = "working"]
<1>1. /\ z \in WorkRec /\ z.pc = "working" /\ z.key = work[n].key /\ z.cancel = work[n].cancel
      /\ work' = [work EXCEPT ![n] = z] /\ work[n].pc = "created"
  BY DEF GetsGoing, FhInv, FhTyped, WorkRec
<1> HIDE DEF z
<1>2. work'[n] = z /\ TaskMoved(n)
  BY <1>1 DEF TaskMoved, TasksMove, FhInv, FhTyped
<1>3. UNCHANGED <<listed, outcome, reports, reader, stage>> /\ SlotOpen
  BY DEF GetsGoing
<1>4. FhTyped'
  BY <1>2, <1>3 DEF FhInv, FhTyped, TaskMoved, TasksMove
<1>5. SemaphoreKept'
  <2>1. PICK W \in SUBSET TaskIds : W = AtPc("working")
    BY DEF AtPc
  <2>2. AtPc("working")' = W \cup {n}
    BY <1>1, <1>2, <2>1 DEF AtPc, TaskMoved
  <2>3. IsFiniteSet(W) /\ Cardinality(W) \in Nat
    BY TasksFinite
  <2>4. Cardinality(W \cup {n}) = IF n \in W THEN Cardinality(W) ELSE Cardinality(W) + 1
    BY <2>3, FS_AddElement
  <2>5. Cardinality(W) < MaxRefreshes /\ MaxRefreshes \in Nat
    BY <1>3, <2>1, CoordinatorAssumption DEF CoordinatorAssumption, SlotOpen, AtPc
  <2>6. Cardinality(W \cup {n}) <= MaxRefreshes
    BY <2>3, <2>4, <2>5
  <2> QED
    BY <2>2, <2>6 DEF SemaphoreKept
<1>6. Tasked' /\ Reporting'
  <2>1. \A m \in TaskIds : work'[m].pc = "done" => work[m].pc = "done"
    BY <1>1, <1>2 DEF TaskMoved
  <2> QED
    BY <1>2, <1>3, <2>1, TaskedStays, ReportingStays DEF FhInv, TaskMoved
<1>7. ReadsCancelNothing'
  BY <1>1, <1>2, <1>3 DEF FhInv, ReadsCancelNothing, TaskMoved
<1>8. ClosedIsQuiet'
  BY <1>1, <1>3 DEF FhInv, ClosedIsQuiet, Working
<1> QED
  BY <1>4, <1>5, <1>6, <1>7, <1>8 DEF FhInv

\* Fewer tasks work than before
LEMMA SemaphoreStays ==
    ASSUME SemaphoreKept, AtPc("working")' \subseteq AtPc("working")
    PROVE  SemaphoreKept'
<1>1. AtPc("working") \in SUBSET TaskIds /\ AtPc("working")' \in SUBSET TaskIds
  BY DEF AtPc
<1>2. /\ Cardinality(AtPc("working")') <= Cardinality(AtPc("working"))
      /\ Cardinality(AtPc("working")') \in Nat /\ Cardinality(AtPc("working")) \in Nat
  BY <1>1, TasksFinite, FS_Subset
<1> QED
  BY <1>2, CoordinatorAssumption DEF SemaphoreKept, CoordinatorAssumption

\* A task that is not done is the newest of its key, and no report is of it
LEMMA UnderWayIsNewest ==
    ASSUME FhTyped, Tasked, NEW n \in TaskIds, work[n].pc \in {"created", "working"},
           NEW m \in TaskIds, work[m].pc # "none", work[m].key = work[n].key
    PROVE  m <= n
BY TasksFinite DEF Tasked, OlderDone

\* A task ends, refreshed, failed or cancelled, and will report last
LEMMA EndsInv ==
    ASSUME FhInv, NEW n \in TaskIds, NEW result \in Results, Ends(n, result)
    PROVE  FhInv'
<1> DEFINE z == [work[n] EXCEPT !.pc = "done", !.result = result]
<1>1. /\ z \in WorkRec /\ z.pc = "done" /\ z.key = work[n].key /\ z.cancel = work[n].cancel
      /\ z.result = result
      /\ work' = [work EXCEPT ![n] = z] /\ work[n].pc \in {"created", "working"}
  BY DEF Ends, FhInv, FhTyped, WorkRec
<1> HIDE DEF z
<1>2. work'[n] = z /\ TaskMoved(n)
  BY <1>1 DEF TaskMoved, TasksMove, FhInv, FhTyped
<1>3. UNCHANGED <<listed, outcome, reader, stage>> /\ reports' = Append(reports, n)
  BY DEF Ends
<1>4. /\ reports \in Seq(TaskIds) /\ reports' \in Seq(TaskIds)
      /\ Len(reports) \in Nat /\ DOMAIN reports = 1..Len(reports)
      /\ DOMAIN reports' = 1..(Len(reports) + 1)
      /\ \A i \in DOMAIN reports : reports'[i] = reports[i] /\ reports[i] \in TaskIds
      /\ reports'[Len(reports) + 1] = n
  BY <1>3 DEF FhInv, FhTyped
<1>5. FhTyped'
  BY <1>2, <1>3, <1>4 DEF FhInv, FhTyped, TaskMoved, TasksMove
<1>6. SemaphoreKept'
  <2>1. AtPc("working")' \subseteq AtPc("working")
    BY <1>1, <1>2 DEF AtPc, TaskMoved
  <2> QED
    BY <2>1, SemaphoreStays DEF FhInv
<1>7. Tasked'
  BY <1>2, <1>3, TaskedStays DEF FhInv, TaskMoved
<1>8. DoneHasResult'
  BY <1>1, <1>2 DEF TaskMoved, FhInv, Reporting, DoneHasResult
<1>9. ReportsInOrder'
  <2>1. \A i \in DOMAIN reports : work[reports[i]].pc = "done" /\ reports[i] # n
    BY <1>1 DEF FhInv, Reporting, ReportsInOrder
  <2>2. \A i \in DOMAIN reports : work'[reports[i]] = work[reports[i]]
    BY <1>2, <1>4, <2>1 DEF TaskMoved
  <2>3. \A i \in DOMAIN reports : work[reports[i]].key = work[n].key => reports[i] < n
    <3> SUFFICES ASSUME NEW i \in DOMAIN reports, work[reports[i]].key = work[n].key
                 PROVE  reports[i] < n
      OBVIOUS
    <3>1. reports[i] <= n
      BY <1>1, <1>4, <2>1, UnderWayIsNewest DEF FhInv
    <3> QED
      BY <1>4, <2>1, <3>1, TasksFinite
  <2>4. \A i \in DOMAIN reports' : i \in DOMAIN reports \/ i = Len(reports) + 1
    BY <1>4
  <2>5. \A i \in DOMAIN reports' : work'[reports'[i]].pc = "done"
    BY <1>1, <1>2, <1>4, <2>1, <2>2, <2>4
  <2>6. ASSUME NEW i \in DOMAIN reports', NEW j \in DOMAIN reports', i < j,
               work'[reports'[i]].key = work'[reports'[j]].key
        PROVE  reports'[i] < reports'[j]
    <3>1. i \in DOMAIN reports
      BY <1>4, <2>6
    <3>2. CASE j \in DOMAIN reports
      BY <1>4, <2>2, <2>6, <3>1, <3>2 DEF FhInv, Reporting, ReportsInOrder
    <3>3. CASE j = Len(reports) + 1
      BY <1>1, <1>2, <1>4, <2>2, <2>3, <2>6, <3>1, <3>3
    <3> QED
      BY <2>4, <3>2, <3>3
  <2> QED
    BY <2>5, <2>6 DEF ReportsInOrder
<1>10. NewestReported'
  <2> SUFFICES ASSUME NEW m \in TaskIds, LastOfKey(m)', work'[m].pc = "done"
               PROVE  \/ \E i \in DOMAIN reports' : reports'[i] = m
                      \/ /\ outcome'[work'[m].key] = work'[m].result
                         /\ \A i \in DOMAIN reports' : work'[reports'[i]].key # work'[m].key
    BY DEF NewestReported
  <2>1. CASE m = n
    BY <1>4, <2>1
  <2>2. CASE m # n
    <3>1. work'[m] = work[m] /\ LastOfKey(m)
      BY <1>2, <2>2 DEF TaskMoved, TasksMove, LastOfKey, OfKey
    <3>2. CASE \E i \in DOMAIN reports : reports[i] = m
      BY <1>4, <3>2
    <3>3. CASE /\ outcome[work[m].key] = work[m].result
               /\ \A i \in DOMAIN reports : work[reports[i]].key # work[m].key
      <4>1. work[n].key # work[m].key
        <5> SUFFICES ASSUME work[n].key = work[m].key PROVE FALSE
          OBVIOUS
        <5>1. n <= m
          BY <1>1, <3>1 DEF LastOfKey, OfKey
        <5>2. m <= n
          BY <1>1, <3>1, UnderWayIsNewest DEF FhInv
        <5> QED
          BY <2>2, <5>1, <5>2, TasksFinite
      <4>2. \A i \in DOMAIN reports' : work'[reports'[i]].key # work'[m].key
        BY <1>1, <1>2, <1>4, <3>1, <3>3, <4>1 DEF TaskMoved, TasksMove
      <4> QED
        BY <1>3, <3>1, <3>3, <4>2
    <3> QED
      BY <3>1, <3>2, <3>3 DEF FhInv, Reporting, NewestReported
  <2> QED
    BY <2>1, <2>2
<1>11. ReadsCancelNothing'
  BY <1>1, <1>2, <1>3 DEF FhInv, ReadsCancelNothing, TaskMoved
<1>12. ClosedIsQuiet'
  BY <1>1, <1>3 DEF FhInv, ClosedIsQuiet, Working
<1> QED
  BY <1>5, <1>6, <1>7, <1>8, <1>9, <1>10, <1>11, <1>12 DEF FhInv, Reporting

\* _finish takes the report of the oldest end: a newer one of the same key is still to come
LEMMA FinishInv ==
    ASSUME FhInv, Finish
    PROVE  FhInv'
<1>1. PICK n \in TaskIds : n = Head(reports)
  BY DEF FhInv, FhTyped, Finish
<1>2. PICK k \in Histories : k = work[n].key
  BY DEF FhInv, FhTyped, WorkRec
<1>3. /\ listed' = OwnEntry(k, n) /\ outcome' = [outcome EXCEPT ![k] = work[n].result]
      /\ reports' = Tail(reports) /\ UNCHANGED <<work, reader, stage>>
  BY <1>1, <1>2 DEF Finish
<1>4. /\ Len(reports) \in Nat \ {0} /\ DOMAIN reports = 1..Len(reports)
      /\ DOMAIN reports' = 1..(Len(reports) - 1)
      /\ reports' \in Seq(TaskIds) /\ reports[1] = n
      /\ \A i \in DOMAIN reports : reports[i] \in TaskIds
      /\ \A i \in DOMAIN reports' : i + 1 \in DOMAIN reports /\ reports'[i] = reports[i + 1]
  BY <1>1, <1>3 DEF FhInv, FhTyped, Finish
<1>5. work[n].pc = "done" /\ work[n].result \in Results
  BY <1>4 DEF FhInv, Reporting, ReportsInOrder, DoneHasResult
<1>6. /\ listed' \in [Histories -> 0..MaxTasks]
      /\ \A h \in Histories : listed'[h] = listed[h] \/ (listed'[h] = 0 /\ listed[h] = n)
  BY <1>3, TasksFinite DEF OwnEntry, FhInv, FhTyped
<1>7. FhTyped'
  BY <1>3, <1>4, <1>5, <1>6 DEF FhInv, FhTyped
<1>8. SemaphoreKept'
  BY <1>3 DEF FhInv, SemaphoreKept, AtPc
<1>9. Tasked'
  <2>1. TasksNumbered' /\ OlderDone'
    BY <1>3 DEF FhInv, Tasked, TasksNumbered, OlderDone
  <2>2. ListedExists'
    BY <1>3, <1>6 DEF FhInv, Tasked, ListedExists, OfKey
  <2>3. WorkListed'
    <3> SUFFICES ASSUME NEW m \in Working PROVE listed'[work[m].key] = m
      BY <1>3 DEF WorkListed, Working
    <3>1. listed[work[m].key] = m /\ work[m].key \in Histories /\ m # n
      BY <1>5 DEF FhInv, Tasked, WorkListed, Working, FhTyped, WorkRec
    <3> QED
      BY <1>6, <3>1
  <2> QED
    BY <2>1, <2>2, <2>3 DEF Tasked
<1>10. DoneHasResult'
  BY <1>3 DEF FhInv, Reporting, DoneHasResult
<1>11. ReportsInOrder'
  <2>1. \A i \in DOMAIN reports' : work'[reports'[i]] = work[reports[i + 1]]
    BY <1>3, <1>4
  <2>2. \A i \in DOMAIN reports' : work'[reports'[i]].pc = "done"
    BY <1>4, <2>1 DEF FhInv, Reporting, ReportsInOrder
  <2>3. ASSUME NEW i \in DOMAIN reports', NEW j \in DOMAIN reports', i < j,
               work'[reports'[i]].key = work'[reports'[j]].key
        PROVE  reports'[i] < reports'[j]
    <3>1. i + 1 \in DOMAIN reports /\ j + 1 \in DOMAIN reports /\ i + 1 < j + 1
      BY <1>4, <2>3
    <3>2. reports[i + 1] < reports[j + 1]
      BY <2>1, <2>3, <3>1 DEF FhInv, Reporting, ReportsInOrder
    <3> QED
      BY <1>4, <3>2
  <2> QED
    BY <2>2, <2>3 DEF ReportsInOrder
<1>12. NewestReported'
  <2> SUFFICES ASSUME NEW m \in TaskIds, LastOfKey(m), work[m].pc = "done"
               PROVE  \/ \E i \in DOMAIN reports' : reports'[i] = m
                      \/ /\ outcome'[work[m].key] = work[m].result
                         /\ \A i \in DOMAIN reports' : work[reports'[i]].key # work[m].key
    BY <1>3 DEF NewestReported, LastOfKey, OfKey
  <2>0. work[m].key \in Histories
    BY DEF FhInv, FhTyped, WorkRec
  <2>1. CASE m = n
    <3>1. \A i \in DOMAIN reports : i # 1 => work[reports[i]].key # k
      <4> SUFFICES ASSUME NEW i \in DOMAIN reports, i # 1, work[reports[i]].key = k
                   PROVE  FALSE
        OBVIOUS
      <4>1. n < reports[i]
        BY <1>2, <1>4 DEF FhInv, Reporting, ReportsInOrder
      <4>2. work[reports[i]].pc = "done"
        BY DEF FhInv, Reporting, ReportsInOrder
      <4>3. reports[i] <= n
        BY <1>2, <1>4, <2>1, <4>2 DEF LastOfKey, OfKey
      <4> QED
        BY <1>4, <4>1, <4>3, TasksFinite
    <3>2. \A i \in DOMAIN reports' : work[reports'[i]].key # work[m].key
      BY <1>2, <1>4, <2>1, <3>1
    <3>3. outcome'[work[m].key] = work[m].result
      BY <1>2, <1>3, <2>1 DEF FhInv, FhTyped
    <3> QED
      BY <3>2, <3>3
  <2>2. CASE m # n /\ \E i \in DOMAIN reports : reports[i] = m
    <3>1. PICK i \in DOMAIN reports : reports[i] = m
      BY <2>2
    <3>2. i - 1 \in DOMAIN reports' /\ (i - 1) + 1 = i
      BY <1>4, <2>2, <3>1
    <3> QED
      BY <1>4, <3>1, <3>2
  <2>3. CASE /\ outcome[work[m].key] = work[m].result
             /\ \A i \in DOMAIN reports : work[reports[i]].key # work[m].key
    <3>1. k # work[m].key
      BY <1>2, <1>4, <2>3
    <3>2. outcome'[work[m].key] = work[m].result
      BY <1>3, <2>0, <2>3, <3>1 DEF FhInv, FhTyped
    <3> QED
      BY <1>4, <2>3, <3>2
  <2> QED
    BY <2>1, <2>2, <2>3 DEF FhInv, Reporting, NewestReported
<1> QED
  BY <1>3, <1>7, <1>8, <1>9, <1>10, <1>11, <1>12
     DEF FhInv, Reporting, ReadsCancelNothing, ClosedIsQuiet, Working

\* A read that joins a refresh, answers or gives up changes no task
LEMMA ReadersInv ==
    ASSUME FhInv, UNCHANGED <<work, listed, outcome, reports, stage>>
    PROVE  FhInv'
<1>1. FhTyped' /\ SemaphoreKept' /\ ReadsCancelNothing' /\ ClosedIsQuiet'
  BY DEF FhInv, FhTyped, SemaphoreKept, AtPc, ReadsCancelNothing, ClosedIsQuiet, Working
<1>2. Tasked'
  BY DEF FhInv, Tasked, TasksNumbered, ListedExists, OlderDone, WorkListed, Working, OfKey
<1>3. Reporting'
  BY DEF FhInv, Reporting, DoneHasResult, ReportsInOrder, NewestReported, LastOfKey, OfKey
<1> QED
  BY <1>1, <1>2, <1>3 DEF FhInv

\* A read whose key has no refresh under way creates its next task
LEMMA NewTaskInv ==
    ASSUME FhInv, stage = "open", UNCHANGED <<reports, stage>>,
           NEW k \in Histories, NEW n \in TaskIds, ~UnderWayFor(k), BeginRefresh(k, n)
    PROVE  FhInv'
<1> DEFINE z == [pc |-> "created", key |-> k, cancel |-> FALSE, result |-> "none"]
<1>1. /\ z \in WorkRec /\ z.pc = "created" /\ z.key = k /\ z.cancel = FALSE
      /\ n = Created + 1
      /\ work' = [work EXCEPT ![n] = z] /\ listed' = [listed EXCEPT ![k] = n]
      /\ outcome' = [outcome EXCEPT ![k] = "running"]
  BY DEF BeginRefresh, WorkRec
<1> HIDE DEF z
<1>2. PICK c \in 0..MaxTasks : \A m \in TaskIds : work[m].pc # "none" <=> m <= c
  BY DEF FhInv, Tasked, TasksNumbered
<1>3. n = c + 1 /\ n \in 1..MaxTasks /\ c \in Nat
  <2>1. Created = c
    BY <1>2, CreatedIs
  <2>2. n \in 1..MaxTasks /\ c \in Nat
    BY TasksFinite
  <2> QED
    BY <1>1, <2>1, <2>2
<1>4. work[n].pc = "none" /\ \A m \in TaskIds : work[m].pc # "none" => m < n
  BY <1>2, <1>3, TasksFinite
<1>5. /\ work' \in [TaskIds -> WorkRec] /\ work'[n] = z
      /\ \A m \in TaskIds : m # n => work'[m] = work[m]
  BY <1>1 DEF FhInv, FhTyped
<1>6. FhTyped'
  <2>1. outcome' \in [Histories -> Results \cup {"idle", "running"}]
    BY <1>1 DEF FhInv, FhTyped
  <2>2. listed' \in [Histories -> 0..MaxTasks]
    BY <1>1, <1>3, TasksFinite DEF FhInv, FhTyped
  <2> QED
    BY <1>5, <2>1, <2>2 DEF FhInv, FhTyped
<1>7. SemaphoreKept'
  <2>1. AtPc("working")' \subseteq AtPc("working")
    BY <1>1, <1>5 DEF AtPc
  <2> QED
    BY <2>1, SemaphoreStays DEF FhInv
<1>8. \A m \in TaskIds : work[m].pc # "none" /\ work[m].key = k => work[m].pc = "done"
  <2> SUFFICES ASSUME NEW m \in TaskIds, work[m].pc # "none", work[m].key = k, work[m].pc # "done"
               PROVE  FALSE
    OBVIOUS
  <2>1. m \in Working
    BY DEF Working, FhInv, FhTyped, WorkRec
  <2>2. listed[k] = m
    BY <2>1 DEF FhInv, Tasked, WorkListed
  <2> QED
    BY <2>2, TasksFinite DEF UnderWayFor
<1>9. Tasked'
  <2>1. TasksNumbered'
    <3>1. c + 1 \in 0..MaxTasks
      BY <1>3, TasksFinite
    <3>2. \A m \in TaskIds : work'[m].pc # "none" <=> m <= c + 1
      BY <1>1, <1>2, <1>3, <1>5, TasksFinite
    <3> QED
      BY <3>1, <3>2 DEF TasksNumbered
  <2>2. ListedExists'
    <3>1. \A h \in Histories : OfKey(h) \subseteq OfKey(h)'
      BY <1>4, <1>5 DEF OfKey
    <3>2. n \in OfKey(k)'
      BY <1>1, <1>5 DEF OfKey
    <3> QED
      BY <1>1, <3>1, <3>2 DEF ListedExists, FhInv, FhTyped, Tasked
  <2>3. OlderDone'
    <3> SUFFICES ASSUME NEW m \in TaskIds, NEW o \in TaskIds, m < o, work'[o].pc # "none",
                        work'[m].key = work'[o].key
                 PROVE  work'[m].pc = "done"
      BY DEF OlderDone
    <3>1. m # n
      BY <1>4, <1>5, TasksFinite
    <3>2. CASE o = n
      <4>1. m <= c /\ work[m].pc # "none"
        BY <1>2, <1>3, <3>2, TasksFinite
      <4> QED
        BY <1>1, <1>5, <1>8, <3>1, <3>2, <4>1
    <3>3. CASE o # n
      BY <1>5, <3>1, <3>3 DEF FhInv, Tasked, OlderDone
    <3> QED
      BY <3>2, <3>3
  <2>4. WorkListed'
    <3> SUFFICES ASSUME NEW m \in TaskIds, work'[m].pc \in {"created", "working"}
                 PROVE  listed'[work'[m].key] = m
      BY DEF WorkListed, Working
    <3>1. CASE m = n
      BY <1>1, <1>5, <3>1 DEF FhInv, FhTyped
    <3>2. CASE m # n
      <4>1. work'[m] = work[m] /\ listed[work[m].key] = m /\ work[m].key \in Histories
        BY <1>5, <3>2 DEF FhInv, Tasked, WorkListed, Working, FhTyped, WorkRec
      <4>2. work[m].key # k
        BY <1>8, <4>1
      <4> QED
        BY <1>1, <4>1, <4>2 DEF FhInv, FhTyped
    <3> QED
      BY <3>1, <3>2
  <2> QED
    BY <2>1, <2>2, <2>3, <2>4 DEF Tasked
<1>10. Reporting'
  <2>1. /\ \A i \in DOMAIN reports : reports[i] \in TaskIds /\ work[reports[i]].pc = "done"
        /\ \A i \in DOMAIN reports : work'[reports[i]] = work[reports[i]]
    BY <1>4, <1>5 DEF FhInv, FhTyped, Reporting, ReportsInOrder
  <2>2. DoneHasResult'
    BY <1>1, <1>5 DEF FhInv, Reporting, DoneHasResult
  <2>3. ReportsInOrder'
    BY <2>1 DEF FhInv, Reporting, ReportsInOrder
  <2>4. NewestReported'
    <3> SUFFICES ASSUME NEW m \in TaskIds, LastOfKey(m)', work'[m].pc = "done"
                 PROVE  \/ \E i \in DOMAIN reports : reports[i] = m
                        \/ /\ outcome'[work'[m].key] = work'[m].result
                           /\ \A i \in DOMAIN reports : work'[reports[i]].key # work'[m].key
      BY DEF NewestReported
    <3>1. m # n /\ work'[m] = work[m] /\ work[m].key \in Histories
      BY <1>1, <1>5 DEF FhInv, FhTyped, WorkRec
    <3>2. work[m].key # k
      <4> SUFFICES ASSUME work[m].key = k PROVE FALSE
        OBVIOUS
      <4>1. n <= m
        BY <1>1, <1>5, <3>1 DEF LastOfKey, OfKey
      <4>2. m < n
        BY <1>4, <3>1
      <4> QED
        BY <4>1, <4>2, TasksFinite
    <3>3. LastOfKey(m)
      BY <1>4, <1>5, <3>1 DEF LastOfKey, OfKey
    <3>4. outcome'[work[m].key] = outcome[work[m].key]
      BY <1>1, <3>1, <3>2 DEF FhInv, FhTyped
    <3> QED
      BY <2>1, <3>1, <3>3, <3>4 DEF FhInv, Reporting, NewestReported
  <2> QED
    BY <2>2, <2>3, <2>4 DEF Reporting
<1>11. ReadsCancelNothing'
  BY <1>1, <1>5 DEF FhInv, ReadsCancelNothing
<1>12. ClosedIsQuiet'
  BY DEF ClosedIsQuiet
<1> QED
  BY <1>6, <1>7, <1>9, <1>10, <1>11, <1>12 DEF FhInv

\* Nothing new is begun after a shutdown begins, and what is listed is cancelled
LEMMA ShutdownBeginsInv ==
    ASSUME FhInv, ShutdownBegins
    PROVE  FhInv'
<1>1. work' = CancelsAll /\ stage' = "closing" /\ UNCHANGED <<listed, outcome, reports, reader>>
  BY DEF ShutdownBegins
<1>2. ASSUME NEW m \in TaskIds
      PROVE  /\ work'[m] \in WorkRec /\ work'[m].key = work[m].key /\ work'[m].pc = work[m].pc
             /\ work[m].pc = "done" => work'[m] = work[m]
  <2>1. PICK w \in WorkRec : w = work[m]
    BY DEF FhInv, FhTyped
  <2> DEFINE z == [w EXCEPT !.cancel = TRUE]
  <2>2. z \in WorkRec /\ z.key = w.key /\ z.pc = w.pc
    BY DEF WorkRec
  <2> HIDE DEF z
  <2>3. work'[m] = w \/ (work'[m] = z /\ m \in Working)
    BY <1>1, <2>1 DEF CancelsAll, z
  <2> QED
    BY <2>1, <2>2, <2>3 DEF Working
<1>3. TasksMove
  <2>1. DOMAIN work' = TaskIds /\ work' = [m \in TaskIds |-> work'[m]]
    BY <1>1 DEF CancelsAll
  <2>2. work' \in [TaskIds -> WorkRec]
    BY <1>2, <2>1
  <2> QED
    BY <1>2, <2>2 DEF TasksMove
<1>4. FhTyped'
  BY <1>1, <1>3 DEF FhInv, FhTyped, TasksMove
<1>5. SemaphoreKept'
  <2>1. AtPc("working")' \subseteq AtPc("working")
    BY <1>2 DEF AtPc
  <2> QED
    BY <2>1, SemaphoreStays DEF FhInv
<1>6. Tasked' /\ Reporting'
  BY <1>1, <1>2, <1>3, TaskedStays, ReportingStays DEF FhInv
<1> QED
  BY <1>1, <1>4, <1>5, <1>6 DEF FhInv, ReadsCancelNothing, ClosedIsQuiet

\* A shutdown ends when the listed refreshes are done, and every one under way is listed
LEMMA ShutdownEndsInv ==
    ASSUME FhInv, ShutdownEnds
    PROVE  FhInv'
<1>1. /\ Gathered /\ stage' = "closed" /\ listed' = [k \in Histories |-> 0]
      /\ UNCHANGED <<work, outcome, reports, reader>>
  BY DEF ShutdownEnds
<1>2. Working = {}
  <2> SUFFICES ASSUME NEW m \in Working PROVE FALSE
    OBVIOUS
  <2>1. /\ m \in TaskIds /\ work[m].key \in Histories /\ listed[work[m].key] = m
        /\ work[m].pc # "done"
    BY DEF FhInv, FhTyped, WorkRec, Tasked, WorkListed, Working
  <2> QED
    BY <1>1, <2>1, TasksFinite DEF Gathered
<1>3. FhTyped' /\ SemaphoreKept' /\ ClosedIsQuiet' /\ ReadsCancelNothing'
  BY <1>1, <1>2, TasksFinite
     DEF FhInv, FhTyped, SemaphoreKept, AtPc, ClosedIsQuiet, ReadsCancelNothing, Working
<1>4. Tasked'
  BY <1>1, <1>2 DEF FhInv, Tasked, TasksNumbered, ListedExists, OlderDone, WorkListed, Working
<1>5. Reporting'
  BY <1>1 DEF FhInv, Reporting, DoneHasResult, ReportsInOrder, NewestReported, LastOfKey, OfKey
<1> QED
  BY <1>3, <1>4, <1>5 DEF FhInv

LEMMA HistoryInit == FhInit => FhInv
<1> SUFFICES ASSUME FhInit PROVE FhInv
  OBVIOUS
<1> DEFINE h == CHOOSE k \in Histories : TRUE
<1>1. h \in Histories
  BY CoordinatorAssumption DEF CoordinatorAssumption
<1> HIDE DEF h
<1>2. work = [n \in TaskIds |-> [pc |-> "none", key |-> h, cancel |-> FALSE, result |-> "none"]]
  BY DEF FhInit, h
<1>3. \A n \in TaskIds : work[n].pc = "none" /\ work[n].cancel = FALSE
  BY <1>2
<1>4. work \in [TaskIds -> WorkRec]
  BY <1>1, <1>2 DEF WorkRec
<1>5. FhTyped
  <2>1. listed = [k \in Histories |-> 0] /\ 0 \in 0..MaxTasks
    BY TasksFinite DEF FhInit
  <2>2. listed \in [Histories -> 0..MaxTasks]
    BY <2>1
  <2>3. outcome \in [Histories -> Results \cup {"idle", "running"}]
    BY DEF FhInit
  <2>4. reports \in Seq(TaskIds) /\ stage \in {"open", "closing", "closed"}
    BY DEF FhInit
  <2> QED
    BY <1>4, <2>2, <2>3, <2>4 DEF FhTyped
<1>6. SemaphoreKept
  <2>1. AtPc("working") = {}
    BY <1>3 DEF AtPc
  <2> QED
    BY <2>1, FS_EmptySet, CoordinatorAssumption DEF CoordinatorAssumption, SemaphoreKept
<1>7. Tasked
  <2>1. TasksNumbered
    BY <1>3, TasksFinite DEF TasksNumbered
  <2> QED
    BY <1>3, <2>1 DEF Tasked, ListedExists, OlderDone, WorkListed, Working, FhInit
<1>8. Reporting
  BY <1>3 DEF Reporting, DoneHasResult, ReportsInOrder, NewestReported, FhInit
<1> QED
  BY <1>3, <1>5, <1>6, <1>7, <1>8 DEF FhInv, ReadsCancelNothing, ClosedIsQuiet, FhInit

LEMMA HistoryStep == FhInv /\ [FhNext]_fhVars => FhInv'
<1> SUFFICES ASSUME FhInv, [FhNext]_fhVars PROVE FhInv'
  OBVIOUS
<1>1. ASSUME NEW r \in Readers, Answers(r) PROVE FhInv'
  BY <1>1, ReadersInv DEF Answers
<1>2. ASSUME NEW r \in Readers, Waits(r) PROVE FhInv'
  BY <1>2, ReadersInv DEF Waits, Shielded
<1>3. ASSUME NEW r \in Readers, NEW k \in Histories, NEW empty \in BOOLEAN, Reads(r, k, empty)
      PROVE  FhInv'
  <2>1. PICK n \in TaskIds : BeginRefresh(k, n)
    BY <1>3 DEF Reads
  <2>2. CASE UnderWayFor(k)
    BY <1>3, <2>1, <2>2, ReadersInv DEF Reads, BeginRefresh
  <2>3. CASE ~UnderWayFor(k)
    BY <1>3, <2>1, <2>3, NewTaskInv DEF Reads
  <2> QED
    BY <2>2, <2>3
<1>4. ASSUME NEW n \in TaskIds, TaskEnds(n) PROVE FhInv'
  BY <1>4, GetsGoingInv, EndsInv DEF TaskEnds
<1>5. CASE Finish
  BY <1>5, FinishInv
<1>6. CASE ShutdownBegins
  BY <1>6, ShutdownBeginsInv
<1>7. CASE ShutdownEnds
  BY <1>7, ShutdownEndsInv
<1>8. CASE UNCHANGED fhVars
  BY <1>8, ReadersInv DEF fhVars
<1> QED
  BY <1>1, <1>2, <1>3, <1>4, <1>5, <1>6, <1>7, <1>8 DEF FhNext

\* What the coordinator promises follows from its invariant
LEMMA HistoryKept == FhInv => HistoryOrderly
<1> SUFFICES ASSUME FhInv PROVE HistoryOrderly
  OBVIOUS
<1>1. FhTypeOK
  BY DEF FhInv, FhTyped, FhTypeOK, SemaphoreKept, AtPc
<1>2. OneRefresh
  <2> SUFFICES ASSUME NEW k \in Histories PROVE Cardinality(OfKey(k) \cap Working) <= 1
    BY DEF OneRefresh
  <2>1. PICK m : m = listed[k]
    OBVIOUS
  <2>2. OfKey(k) \cap Working \subseteq {m}
    BY <2>1 DEF OfKey, FhInv, Tasked, WorkListed
  <2>3. IsFiniteSet({m}) /\ Cardinality({m}) = 1
    BY FS_Singleton
  <2> QED
    BY <2>2, <2>3, FS_Subset
<1>3. OutcomeIsNewest
  <2> SUFFICES ASSUME reports = <<>>, NEW k \in Histories, OfKey(k) # {}
               PROVE  LET n == CHOOSE n \in OfKey(k) : \A o \in OfKey(k) : o <= n IN
                      Status(k) = IF work[n].pc = "done" THEN work[n].result ELSE "running"
    BY DEF OutcomeIsNewest
  <2> DEFINE n == CHOOSE n \in OfKey(k) : \A o \in OfKey(k) : o <= n
  <2>1. n \in OfKey(k) /\ \A o \in OfKey(k) : o <= n
    <3>1. \A o \in OfKey(k) : o \in 0..MaxTasks
      BY TasksFinite DEF OfKey
    <3>2. Greatest(OfKey(k)) \in OfKey(k) /\ \A o \in OfKey(k) : o <= Greatest(OfKey(k))
      BY <3>1, GreatestExists, TasksFinite
    <3> QED
      BY <3>2
  <2>2. ASSUME NEW m \in OfKey(k), \A o \in OfKey(k) : o <= m
        PROVE  Status(k) = IF work[m].pc = "done" THEN work[m].result ELSE "running"
    <3>1. m \in TaskIds /\ LastOfKey(m) /\ work[m].key = k
      BY <2>2 DEF LastOfKey, OfKey
    <3>2. CASE work[m].pc = "done"
      <4>1. outcome[k] = work[m].result
        BY <3>1, <3>2 DEF FhInv, Reporting, NewestReported
      <4>2. ~UnderWayFor(k)
        <5> SUFFICES ASSUME listed[k] # 0 PROVE work[listed[k]].pc = "done"
          BY DEF UnderWayFor
        <5>1. listed[k] \in OfKey(k)
          BY DEF FhInv, Tasked, ListedExists
        <5>2. PICK o \in TaskIds : o = listed[k] /\ o <= m /\ work[o].key = work[m].key
          BY <2>2, <3>1, <5>1 DEF OfKey
        <5>3. o = m \/ o < m
          BY <3>1, <5>2, TasksFinite
        <5> QED
          BY <3>1, <3>2, <5>2, <5>3 DEF FhInv, Tasked, OlderDone
      <4> QED
        BY <3>2, <4>1, <4>2 DEF Status
    <3>3. CASE work[m].pc # "done"
      <4>1. m \in Working
        BY <2>2, <3>1, <3>3 DEF Working, OfKey, FhInv, FhTyped, WorkRec
      <4>2. listed[k] = m /\ m # 0
        <5>1. listed[work[m].key] = m
          BY <4>1 DEF FhInv, Tasked, WorkListed
        <5>2. m \in 1..MaxTasks /\ work[m].key = k
          BY <3>1, TasksFinite DEF LastOfKey
        <5> QED
          BY <5>1, <5>2, TasksFinite
      <4> QED
        BY <3>3, <4>2 DEF Status, UnderWayFor
    <3> QED
      BY <3>2, <3>3
  <2> QED
    BY <2>1, <2>2
<1> QED
  BY <1>1, <1>2, <1>3 DEF HistoryOrderly, FhInv, Tasked

\* A key never has two refreshes under way, whatever is under way is on the list and ends
\* before a shutdown does, a read that gives up cancels nothing, and once all have reported
\* the status of a key is what its newest refresh came to
THEOREM HistoryCorrect == FhSpec => []HistoryOrderly
<1>1. FhSpec => []FhInv
  BY HistoryInit, HistoryStep, PTL DEF FhSpec
<1> QED
  BY <1>1, HistoryKept, PTL

-----------------------------------------------------------------------------
(* The backups                                                             *)

DumpKinds == {"none", "whole", "short", "altered"}
FileRec == [scope : Scopes, made : 0..MaxDays, part : BOOLEAN, manifest : BOOLEAN,
            dump : DumpKinds, counted : 0..MaxWrites, held : 0..MaxWrites]
Making == {"counted", "dumped", "moved"}
MakerRec == [pc : Making \cup {"idle", "written", "pruning"}, id : 0..MaxBackups, todo : SUBSET Ids]
DrillRec == [pc : {"idle", "verified", "loaded", "passed"}, id : 0..MaxBackups, version : 0..MaxWrites,
             sound : BOOLEAN, target : BOOLEAN, failed : BOOLEAN]

BkTyped ==
    /\ live \in 1..MaxWrites /\ today \in 1..MaxDays
    /\ files \in [Ids -> FileRec]
    /\ maker \in [Makers -> MakerRec]
    /\ drill \in DrillRec
    /\ bound \in Bounds /\ harm \subseteq {"failed", "died", "damaged"}
    /\ best \in [Scopes -> 0..MaxBackups]

\* The ids that were given out, one per maker at work
Made(i) == i \in Ids /\ files[i].made # 0
IdsInTurn == \A i \in Ids : Made(i) <=> i <= Started
Untouched == \A i \in Ids : ~Made(i) => files[i].dump = "none" /\ ~files[i].part /\ ~files[i].manifest
OwnIds ==
    /\ \A m \in Makers : maker[m].pc # "idle" => Made(maker[m].id)
    /\ \A m, n \in Makers : m # n /\ maker[m].pc # "idle" /\ maker[n].pc # "idle" => maker[m].id # maker[n].id

\* A backup under way has no manifest, and no dump before it is moved; one that is written
\* has its manifest as long as it has its dump
WorkFits(r, f) ==
    /\ r.pc \in Making => ~f.manifest
    /\ r.pc \in {"counted", "dumped"} => f.dump = "none"
    /\ r.pc = "written" /\ f.dump # "none" => f.manifest
    /\ r.pc # "pruning" => r.todo = {}
UnderWork == \A m \in Makers : WorkFits(maker[m], files[maker[m].id])
TodoMade ==
    \A m \in Makers : \A i \in maker[m].todo :
       Made(i) /\ \A n \in Makers : maker[n].pc \in Making => maker[n].id # i

PartOwned == harm = {} => \A i \in Ids : files[i].part => \E m \in Makers : maker[m].pc = "dumped" /\ maker[m].id = i
DumpOwned ==
    "died" \notin harm => \A i \in Ids : files[i].dump # "none" =>
        files[i].manifest \/ \E m \in Makers : maker[m].pc = "moved" /\ maker[m].id = i
Undamaged == "damaged" \notin harm => \A i \in Ids : files[i].dump \in {"none", "whole"}
\* What is to be pruned is not protected, whatever comes in or goes meanwhile
Expendable == "damaged" \notin harm => \A m \in Makers : maker[m].todo \cap Protected = {}

\* What stays once everyone has pruned: it is within the limit or protected, or somebody has
\* just brought in one of it and will prune yet
Rest == {i \in Healthy : \A m \in Makers : i \notin maker[m].todo}
Bounded(S) == Cardinality(S) <= SizeLimit \/ S \subseteq Protected
LimitComes == harm = {} => Bounded(Rest) \/ \E m \in Makers : maker[m].pc = "written" /\ maker[m].id \in Rest

DrillOK ==
    /\ drill.pc # "idle" => Made(drill.id) /\ \A m \in Makers : maker[m].pc = "counted" => maker[m].id # drill.id
    /\ drill.pc \in {"loaded", "passed"} => drill.version = files[drill.id].held
    /\ drill.pc = "passed" => drill.sound /\ drill.version = files[drill.id].counted
    /\ drill.pc = "idle" /\ drill.target => drill.failed

BkInv ==
    /\ BkTyped /\ IdsInTurn /\ Untouched /\ OwnIds /\ UnderWork /\ TodoMade /\ PartOwned /\ DumpOwned
    /\ Undamaged /\ Expendable /\ NewestSurvives /\ LimitComes /\ DrillOK

LEMMA IdsAreNumbers == Ids \subseteq Nat /\ NoBackup \notin Ids
BY BackupAssumption DEF Ids, NoBackup

\* Sets of backups are finite, and count
LEMMA BackupSets ==
    ASSUME NEW S \in SUBSET Ids
    PROVE  IsFiniteSet(S) /\ Cardinality(S) \in Nat
<1>1. IsFiniteSet(Ids)
  BY FS_Interval, BackupAssumption DEF Ids
<1>2. IsFiniteSet(S)
  BY <1>1, FS_Subset
<1> QED
  BY <1>2, FS_CardinalityType

LEMMA FewerBackups ==
    ASSUME NEW S \in SUBSET Ids, NEW T \in SUBSET S
    PROVE  Cardinality(T) <= Cardinality(S)
BY BackupSets, FS_Subset

\* What is outside the newest is older than some backup, and has n newer than it
LEMMA NewerExists ==
    ASSUME NEW S \in SUBSET Ids, NEW n \in Nat, n >= 1, NEW x \in S, x \notin Newest(S, n)
    PROVE  \E j \in S : j > x
<1> DEFINE Newer == {j \in S : j > x}
<1>1. ~(Cardinality(Newer) < n)
  BY DEF Newest
<1>2. Newer # {}
  BY <1>1, FS_EmptySet
<1> QED
  BY <1>2

\* Newcomers displace from the newest and bring nobody back
LEMMA NewestShrinks ==
    ASSUME NEW S \in SUBSET Ids, NEW T \in SUBSET S, NEW n \in Nat
    PROVE  Newest(S, n) \cap T \subseteq Newest(T, n)
<1> SUFFICES ASSUME NEW i \in T, i \in Newest(S, n)
             PROVE  Cardinality({j \in T : j > i}) < n
  BY DEF Newest
<1> DEFINE A == {j \in S : j > i}
           B == {j \in T : j > i}
<1>1. B \in SUBSET A /\ A \in SUBSET Ids /\ B \in SUBSET Ids
  OBVIOUS
<1>2. Cardinality(A) < n
  BY DEF Newest
<1> HIDE DEF A, B
<1>3. Cardinality(B) <= Cardinality(A)
  BY <1>1, FewerBackups
<1>4. Cardinality(A) \in Nat /\ Cardinality(B) \in Nat
  BY <1>1, BackupSets
<1>5. Cardinality(B) < n
  BY <1>2, <1>3, <1>4
<1> QED
  BY <1>5 DEF B

\* Without a backup that is not among the newest the newest are the same
LEMMA NewestStand ==
    ASSUME NEW S \in SUBSET Ids, NEW n \in Nat, NEW x, x \notin Newest(S, n)
    PROVE  Newest(S \ {x}, n) \subseteq Newest(S, n)
<1> SUFFICES ASSUME NEW i \in S, i # x, i \in Newest(S \ {x}, n)
             PROVE  Cardinality({j \in S : j > i}) < n
  BY DEF Newest
<1> DEFINE A == {j \in S : j > i}
           B == {j \in S \ {x} : j > i}
           C == {j \in S : j > x}
<1>1. Cardinality(B) < n
  BY DEF Newest
<1>2. CASE x \notin S \/ ~(x > i)
  <2>1. A = B
    BY <1>2
  <2> QED
    BY <1>1, <2>1
<1>3. CASE x \in S /\ x > i
  <2>1. ~(Cardinality(C) < n)
    BY <1>3 DEF Newest
  <2>a. \A j \in S : j > x => j > i /\ j # x
    BY <1>3, IdsAreNumbers
  <2>2. C \in SUBSET B /\ B \in SUBSET Ids /\ C \in SUBSET Ids
    BY <2>a
  <2> HIDE DEF A, B, C
  <2>3. Cardinality(C) <= Cardinality(B) /\ Cardinality(B) \in Nat /\ Cardinality(C) \in Nat
    BY <2>2, FewerBackups, BackupSets
  <2> QED
    BY <1>1, <2>1, <2>3
<1> QED
  BY <1>2, <1>3

\* Who is protected
LEMMA ProtectedIs ==
    /\ Healthy \in SUBSET Ids
    /\ \A s : OfScope(Healthy, s) \in SUBSET Ids
    /\ Protected \subseteq Healthy
    /\ \A i : i \in Protected <=> \/ i \in Newest(Healthy, KeepMinimum)
                                  \/ \E s \in Scopes : i \in Newest(OfScope(Healthy, s), KeepPerScope)
BY DEF Protected, Healthy, OfScope, Newest

\* What the scopes of the healthy backups are does not change
ScopesStand == \A i \in Ids : Fits(files[i]) => files'[i].scope = files[i].scope

\* A newcomer takes protection from others and gives it to none of them
LEMMA ProtectedGrow ==
    ASSUME ScopesStand, Healthy \subseteq Healthy'
    PROVE  Protected' \cap Healthy \subseteq Protected
<1> SUFFICES ASSUME NEW i \in Healthy, i \in Protected'
             PROVE  i \in Protected
  OBVIOUS
<1>1. Healthy' \in SUBSET Ids
  BY DEF Healthy
<1>2. ASSUME i \in Newest(Healthy', KeepMinimum)
      PROVE  i \in Newest(Healthy, KeepMinimum)
  BY <1>1, <1>2, NewestShrinks, BackupAssumption
<1>3. ASSUME NEW s \in Scopes, i \in Newest(OfScope(Healthy, s)', KeepPerScope)
      PROVE  i \in Newest(OfScope(Healthy, s), KeepPerScope)
  <2>1. OfScope(Healthy, s)' \in SUBSET Ids /\ OfScope(Healthy, s) \in SUBSET (OfScope(Healthy, s)')
    BY <1>1 DEF OfScope, ScopesStand, Healthy
  <2>2. i \in OfScope(Healthy, s)'
    BY <1>3 DEF Newest
  <2>3. i \in OfScope(Healthy, s)
    BY <2>2 DEF OfScope, ScopesStand, Healthy
  <2> QED
    BY <1>3, <2>1, <2>3, NewestShrinks, BackupAssumption
<1>4. \/ i \in Newest(Healthy', KeepMinimum)
      \/ \E s \in Scopes : i \in Newest(OfScope(Healthy, s)', KeepPerScope)
  BY DEF Protected, Newest
<1> QED
  BY <1>2, <1>3, <1>4, ProtectedIs

\* Whoever is protected stays so while others go
LEMMA ProtectedShrink ==
    ASSUME ScopesStand, Healthy' \subseteq Healthy
    PROVE  Protected \cap Healthy' \subseteq Protected'
<1> SUFFICES ASSUME NEW i \in Healthy', i \in Protected
             PROVE  i \in Protected'
  OBVIOUS
<1>2. ASSUME i \in Newest(Healthy, KeepMinimum)
      PROVE  i \in Newest(Healthy', KeepMinimum)
  BY <1>2, NewestShrinks, BackupAssumption, ProtectedIs
<1>3. ASSUME NEW s \in Scopes, i \in Newest(OfScope(Healthy, s), KeepPerScope)
      PROVE  i \in Newest(OfScope(Healthy, s)', KeepPerScope)
  <2>1. OfScope(Healthy, s)' \in SUBSET OfScope(Healthy, s)
    BY DEF OfScope, ScopesStand, Healthy
  <2>2. i \in OfScope(Healthy, s)
    BY <1>3 DEF Newest
  <2>3. i \in OfScope(Healthy, s)'
    BY <2>2 DEF OfScope, ScopesStand, Healthy
  <2> QED
    BY <1>3, <2>1, <2>3, NewestShrinks, BackupAssumption, ProtectedIs
<1>4. \/ i \in Newest(Healthy', KeepMinimum)
      \/ \E s \in Scopes : i \in Newest(OfScope(Healthy, s)', KeepPerScope)
  BY <1>2, <1>3, ProtectedIs
<1> QED
  BY <1>4 DEF Protected, Newest

LEMMA ProtectedSame ==
    ASSUME ScopesStand, Healthy' = Healthy
    PROVE  Protected' = Protected
<1>1. Protected' \subseteq Healthy'
  BY DEF Protected, Newest, OfScope
<1> QED
  BY <1>1, ProtectedGrow, ProtectedShrink, ProtectedIs

\* When an unprotected backup goes nobody becomes protected by that
LEMMA ProtectedDrop ==
    ASSUME ScopesStand, NEW x, x \notin Protected, Healthy' = Healthy \ {x}
    PROVE  Protected' \subseteq Protected
<1> SUFFICES ASSUME NEW i, i \in Protected'
             PROVE  i \in Protected
  OBVIOUS
<1>1. ASSUME i \in Newest(Healthy', KeepMinimum)
      PROVE  i \in Newest(Healthy, KeepMinimum)
  BY <1>1, NewestStand, BackupAssumption, ProtectedIs
<1>2. ASSUME NEW s \in Scopes, i \in Newest(OfScope(Healthy, s)', KeepPerScope)
      PROVE  i \in Newest(OfScope(Healthy, s), KeepPerScope)
  <2>1. OfScope(Healthy, s)' = OfScope(Healthy, s) \ {x}
    BY DEF OfScope, ScopesStand, Healthy
  <2> QED
    BY <1>2, <2>1, NewestStand, BackupAssumption, ProtectedIs
<1>3. \/ i \in Newest(Healthy', KeepMinimum)
      \/ \E s \in Scopes : i \in Newest(OfScope(Healthy, s)', KeepPerScope)
  BY DEF Protected, Newest
<1> QED
  BY <1>1, <1>2, <1>3, ProtectedIs

\* The oldest of some backups, as many as asked for: all of them, or at least that many
LEMMA OldestCount ==
    ASSUME NEW G \in SUBSET Ids, NEW e \in Nat
    PROVE  LET cut == {i \in G : Cardinality({j \in G : j < i}) < e}
           IN  cut = G \/ Cardinality(cut) >= e
<1> DEFINE Older(i) == {j \in G : j < i}
           cut == {i \in G : Cardinality(Older(i)) < e}
<1> SUFFICES ASSUME cut # G
             PROVE  Cardinality(cut) >= e
  OBVIOUS
<1>1. G \ cut \in SUBSET Nat /\ G \ cut # {}
  <2>1. cut \subseteq G
    OBVIOUS
  <2>2. G \subseteq Nat
    BY IdsAreNumbers
  <2> HIDE DEF cut
  <2> QED
    BY <2>1, <2>2
<1>2. PICK g \in G \ cut : \A y \in G \ cut : g <= y
  <2> DEFINE R == G \ cut
  <2>1. R \in SUBSET Nat /\ R # {}
    BY <1>1
  <2> HIDE DEF R
  <2>2. Least(R) \in R /\ \A y \in R : Least(R) <= y
    BY <2>1, LeastExists
  <2> QED
    BY <2>2 DEF R
<1>3. ~(Cardinality(Older(g)) < e)
  BY <1>2
<1>4. Older(g) \in SUBSET cut
  <2> SUFFICES ASSUME NEW j \in G, j < g, j \notin cut
               PROVE  FALSE
    OBVIOUS
  <2>1. g <= j
    <3> HIDE DEF cut
    <3> QED
      BY <1>2
  <2> QED
    BY <2>1, <1>2, IdsAreNumbers
<1>5. cut \in SUBSET Ids /\ Older(g) \in SUBSET Ids
  OBVIOUS
<1> HIDE DEF cut, Older
<1>6. Cardinality(Older(g)) <= Cardinality(cut)
  BY <1>4, <1>5, FewerBackups
<1>7. Cardinality(Older(g)) \in Nat /\ Cardinality(cut) \in Nat
  BY <1>5, BackupSets
<1> QED
  BY <1>3, <1>6, <1>7

\* What is to be pruned is healthy and not protected, and without it what is left fits
LEMMA ToPruneFits ==
    ASSUME NEW made
    PROVE  /\ ToPrune(made) \subseteq Healthy \ Protected
           /\ Bounded(Healthy \ ToPrune(made))
<1> DEFINE free == Healthy \ Protected
           old == {i \in free : files[i].made + RetentionDays < made}
           G == free \ old
           e == Floor0(Cardinality(Healthy \ old) - SizeLimit)
           cut == {i \in G : Cardinality({j \in G : j < i}) < e}
<1>1. ToPrune(made) = old \cup cut
  BY DEF ToPrune
<1>2. old \subseteq free /\ cut \subseteq G /\ G \subseteq Healthy \ old
  OBVIOUS
<1>3. Healthy \in SUBSET Ids /\ G \in SUBSET Ids /\ cut \in SUBSET Ids /\ Healthy \ old \in SUBSET Ids
  BY DEF Healthy
<1>4. Cardinality(Healthy \ old) \in Nat
  BY <1>3, BackupSets
<1>5. e \in Nat /\ e >= Cardinality(Healthy \ old) - SizeLimit
  BY <1>4, BackupAssumption DEF Floor0
<1>6. cut = G \/ Cardinality(cut) >= e
  <2> HIDE DEF G, e
  <2> QED
    BY <1>3, <1>5, OldestCount
<1>7. Healthy \ ToPrune(made) = (Healthy \ old) \ cut
  BY <1>1
<1>8. CASE cut = G
  <2>1. Healthy \ ToPrune(made) \subseteq Protected
    BY <1>7, <1>8
  <2> QED
    BY <1>1, <1>2, <2>1 DEF Bounded
<1>9. CASE Cardinality(cut) >= e
  <2> DEFINE H == Healthy \ old
  <2>1. cut \in SUBSET H /\ IsFiniteSet(H)
    BY <1>2, <1>3, BackupSets
  <2>2. H \cap cut = cut
    BY <2>1
  <2> HIDE DEF H, cut, e
  <2>3. Cardinality(H \ cut) = Cardinality(H) - Cardinality(H \cap cut)
    BY <2>1, FS_Difference
  <2>4. Cardinality(cut) \in Nat
    BY <1>3, BackupSets
  <2>5. PICK c \in Nat, h \in Nat, d \in Nat : c = Cardinality(cut) /\ h = Cardinality(H) /\ d = e
    BY <1>4, <1>5, <2>4 DEF H
  <2>6. h - c <= SizeLimit
    BY <1>5, <1>9, <2>5, BackupAssumption DEF H
  <2>7. Cardinality(Healthy \ ToPrune(made)) <= SizeLimit
    BY <1>7, <2>2, <2>3, <2>5, <2>6 DEF H
  <2> QED
    BY <1>1, <1>2, <2>7 DEF Bounded
<1> QED
  BY <1>6, <1>8, <1>9

\* What is part of a bounded set is bounded
LEMMA BoundedPart ==
    ASSUME NEW S \in SUBSET Ids, NEW T \in SUBSET S, Bounded(S)
    PROVE  Bounded(T)
<1>1. Cardinality(T) <= Cardinality(S) /\ Cardinality(T) \in Nat /\ Cardinality(S) \in Nat
  BY FewerBackups, BackupSets
<1> QED
  BY <1>1, BackupAssumption DEF Bounded

-----------------------------------------------------------------------------
(* What keeps the invariant                                                *)

\* The invariant holds what the run checks
LEMMA BackupsKept == BkInv => BackupsHonest
<1> SUFFICES ASSUME BkInv PROVE BackupsHonest
  OBVIOUS
<1>1. BkTypeOK
  <2>1. ASSUME NEW i \in Ids, files[i].part, harm = {}
        PROVE  \E m \in Makers : maker[m].id = i
    BY <2>1 DEF BkInv, PartOwned
  <2> QED
    BY <2>1 DEF BkInv, BkTyped, BkTypeOK, FileRec, DumpKinds
<1>2. NoStrayDump
  <2> SUFFICES ASSUME "died" \notin harm, NEW i \in Ids, files[i].dump # "none", ~files[i].manifest
               PROVE  \E m \in Makers : maker[m].pc # "idle" /\ i \in {maker[m].id} \cup maker[m].todo
    BY DEF NoStrayDump
  <2> QED
    BY DEF BkInv, DumpOwned
<1>3. DrillHonest /\ CopyMeansFailure
  BY DEF BkInv, DrillOK, DrillHonest, CopyMeansFailure
<1>4. LimitKept
  <2> SUFFICES ASSUME harm = {}, \A m \in Makers : maker[m].pc = "idle"
               PROVE  Bounded(Healthy)
    BY DEF LimitKept, Bounded
  <2>1. \A m \in Makers : maker[m].todo = {}
    BY DEF BkInv, UnderWork, WorkFits
  <2>2. Rest = Healthy
    BY <2>1 DEF Rest
  <2> QED
    BY <2>2 DEF BkInv, LimitComes
<1>5. NewestSurvives
  BY DEF BkInv
<1> QED
  BY <1>1, <1>2, <1>3, <1>4, <1>5 DEF BackupsHonest

\* Undamaged, whatever is healthy can be restored
LEMMA SurvivesBy ==
    ASSUME Undamaged', files' \in [Ids -> FileRec],
           "damaged" \notin harm' =>
              \A s \in Scopes : best'[s] # NoBackup => \E i \in Healthy' : files'[i].scope = s /\ i >= best'[s]
    PROVE  NewestSurvives'
<1> SUFFICES ASSUME "damaged" \notin harm', NEW s \in Scopes, best'[s] # NoBackup
             PROVE  \E i \in OfScope(Restorable, s)' : i >= best'[s]
  BY DEF NewestSurvives
<1>1. PICK i \in Healthy' : files'[i].scope = s /\ i >= best'[s]
  OBVIOUS
<1>2. i \in Ids /\ files'[i].manifest /\ files'[i].dump \in {"whole", "altered"}
  BY DEF Healthy, Fits
<1>3. files'[i].dump = "whole"
  BY <1>2 DEF Undamaged
<1> QED
  BY <1>1, <1>2, <1>3 DEF OfScope, Restorable

\* The newest that was brought in is healthy, as long as nothing was damaged
LEMMA NewestHealthy ==
    ASSUME BkInv, "damaged" \notin harm, NEW s \in Scopes, best[s] # NoBackup
    PROVE  \E i \in OfScope(Healthy, s) : i >= best[s]
<1>1. PICK i \in OfScope(Restorable, s) : i >= best[s]
  BY DEF BkInv, NewestSurvives
<1>2. i \in OfScope(Healthy, s)
  BY DEF OfScope, Restorable, Healthy, Fits
<1> QED
  BY <1>1, <1>2

\* A step that leaves the healthy backups alone keeps what is promised of them
LEMMA QuietKeeps ==
    ASSUME BkInv, ScopesStand, Healthy' = Healthy, best' = best, harm \subseteq harm', Undamaged',
           files' \in [Ids -> FileRec],
           \A n \in Makers : maker'[n].todo \subseteq maker[n].todo
    PROVE  Expendable' /\ NewestSurvives'
<1>1. Protected' = Protected
  BY ProtectedSame
<1>2. Expendable'
  BY <1>1 DEF BkInv, Expendable
<1>3. ASSUME "damaged" \notin harm', NEW s \in Scopes, best'[s] # NoBackup
      PROVE  \E i \in Healthy' : files'[i].scope = s /\ i >= best'[s]
  <2>1. PICK i \in OfScope(Healthy, s) : i >= best[s]
    BY <1>3, NewestHealthy
  <2>2. i \in Ids /\ i \in Healthy /\ Fits(files[i]) /\ files[i].scope = s
    BY DEF OfScope, Healthy
  <2> QED
    BY <2>1, <2>2 DEF ScopesStand
<1> QED
  BY <1>2, <1>3, SurvivesBy

LEMMA QuietLimit ==
    ASSUME BkInv, ScopesStand, Healthy' = Healthy, harm \subseteq harm',
           \A n \in Makers : /\ maker'[n].todo = maker[n].todo
                             /\ maker[n].pc = "written" => maker'[n].pc = "written" /\ maker'[n].id = maker[n].id
    PROVE  LimitComes'
<1>1. Protected' = Protected
  BY ProtectedSame
<1>2. Rest' = Rest
  BY DEF Rest
<1>3. harm' = {} => harm = {}
  OBVIOUS
<1>4. LimitComes
  BY DEF BkInv
<1> QED
  BY <1>1, <1>2, <1>3, <1>4 DEF LimitComes, Bounded

\* The number of backups begun follows from the days they were made
LEMMA StartedStands ==
    ASSUME BkInv, files' \in [Ids -> FileRec], \A i \in Ids : files'[i].made = files[i].made
    PROVE  Started' = Started /\ IdsInTurn' /\ \A i : Made(i)' <=> Made(i)
<1>1. {i \in Ids : files'[i].made # 0} = {i \in Ids : files[i].made # 0}
  OBVIOUS
<1>2. Started' = Started
  BY <1>1 DEF Started
<1>3. \A i : Made(i)' <=> Made(i)
  BY DEF Made
<1> QED
  BY <1>2, <1>3 DEF IdsInTurn, BkInv

LEMMA NothingTyped ==
    Nothing \in FileRec /\ Nothing.made = 0 /\ ~Nothing.part /\ ~Nothing.manifest /\ Nothing.dump = "none"
BY BackupAssumption DEF Nothing, FileRec, DumpKinds

LEMMA NoDrillTyped == NoDrill \in DrillRec /\ NoDrill.pc = "idle" /\ ~NoDrill.target
BY BackupAssumption DEF NoDrill, DrillRec, NoBackup

LEMMA BackupsInit == BkInit => BkInv
<1> SUFFICES ASSUME BkInit PROVE BkInv
  OBVIOUS
<1>1. Nothing \in FileRec /\ Nothing.made = 0 /\ ~Nothing.part /\ ~Nothing.manifest /\ Nothing.dump = "none"
  BY NothingTyped
<1>2. AtRest \in MakerRec /\ AtRest.pc = "idle" /\ AtRest.todo = {}
  BY BackupAssumption DEF AtRest, MakerRec, Making, NoBackup
<1>3. NoDrill \in DrillRec /\ NoDrill.pc = "idle" /\ ~NoDrill.target
  BY NoDrillTyped
<1>4. \A i \in Ids : files[i] = Nothing
  BY DEF BkInit
<1>5. \A m \in Makers : maker[m] = AtRest
  BY DEF BkInit
<1>6. BkTyped
  BY <1>1, <1>2, <1>3, BackupAssumption DEF BkTyped, BkInit, NoBackup
<1>7. IdsInTurn
  <2>1. {i \in Ids : files[i].made # 0} = {}
    BY <1>1, <1>4
  <2>2. Started = 0
    BY <2>1, FS_EmptySet DEF Started
  <2> QED
    BY <1>1, <1>4, <2>2 DEF IdsInTurn, Made, Ids
<1>8. Untouched /\ DumpOwned /\ PartOwned /\ Undamaged
  BY <1>1, <1>4 DEF Untouched, DumpOwned, PartOwned, Undamaged
<1>9. OwnIds /\ UnderWork /\ TodoMade /\ Expendable
  BY <1>2, <1>5 DEF OwnIds, UnderWork, WorkFits, TodoMade, Expendable, Making
<1>10. NewestSurvives
  BY DEF NewestSurvives, BkInit
<1>11. LimitComes
  <2>1. Rest = {}
    BY <1>1, <1>4 DEF Rest, Healthy, Fits
  <2> QED
    BY <2>1 DEF LimitComes, Bounded
<1>12. DrillOK
  BY <1>3 DEF DrillOK, BkInit
<1> QED
  BY <1>6, <1>7, <1>8, <1>9, <1>10, <1>11, <1>12 DEF BkInv

\* A backup begins under the next id, which nobody knows yet
LEMMA BeginKeeps == ASSUME BkInv, NEW m \in Makers, NEW s \in Scopes, Begin(m, s) PROVE BkInv'
<1> DEFINE k == Started + 1
<1>1. Started \in Nat /\ k \in Ids /\ ~Made(k)
  <2>1. Started \in Nat
    BY BackupSets DEF Started
  <2>2. bound.backups \in 0..MaxBackups /\ Started < bound.backups
    BY BackupAssumption DEF BkInv, BkTyped, Begin
  <2>3. k \in Ids
    BY <2>1, <2>2, BackupAssumption DEF Ids
  <2> HIDE DEF k
  <2>4. Made(k) <=> k <= Started
    BY <2>3 DEF BkInv, IdsInTurn
  <2> QED
    BY <2>1, <2>3, <2>4 DEF k
<1>a. live \in 0..MaxWrites /\ today \in 0..MaxDays /\ today # 0 /\ 0 \in 0..MaxWrites
  BY BackupAssumption DEF BkInv, BkTyped
<1>b. k \in 0..MaxBackups
  BY <1>1, BackupAssumption DEF Ids
<1>2. PICK f \in FileRec : /\ f = [Nothing EXCEPT !.scope = s, !.made = today, !.counted = live]
                           /\ f.made # 0 /\ f.dump = "none" /\ ~f.part /\ ~f.manifest
  <2>1. PICK z \in FileRec : z = Nothing /\ z.dump = "none" /\ ~z.part /\ ~z.manifest
    BY <1>a, NothingTyped
  <2>2. PICK f : f = [z EXCEPT !.scope = s, !.made = today, !.counted = live]
    OBVIOUS
  <2>3. f \in FileRec /\ f.made # 0 /\ f.dump = "none" /\ ~f.part /\ ~f.manifest
    BY <1>a, <2>1, <2>2 DEF FileRec
  <2> QED
    BY <2>1, <2>2, <2>3
<1>3. PICK r \in MakerRec : /\ r = [pc |-> "counted", id |-> k, todo |-> {}]
                            /\ r.pc = "counted" /\ r.id = k /\ r.todo = {}
  <2> DEFINE R == [pc |-> "counted", id |-> k, todo |-> {}]
  <2> HIDE DEF k
  <2>1. R \in MakerRec
    BY <1>b DEF MakerRec, Making
  <2>2. R.pc = "counted" /\ R.id = k /\ R.todo = {}
    OBVIOUS
  <2> HIDE DEF R
  <2>3. \E r \in MakerRec : r = R /\ r.pc = "counted" /\ r.id = k /\ r.todo = {}
    BY <2>1, <2>2
  <2> QED
    BY <2>3 DEF R
<1>4. files' = [files EXCEPT ![k] = f] /\ maker' = [maker EXCEPT ![m] = r]
  BY <1>2, <1>3 DEF Begin, OnDisk
<1>5. maker[m].pc = "idle" /\ UNCHANGED <<live, today, drill, bound, harm, best>>
  BY DEF Begin
<1> HIDE DEF k
<1>6. \A j \in Ids : files'[j] = IF j = k THEN f ELSE files[j]
  BY <1>4 DEF BkInv, BkTyped
<1>7. \A n \in Makers : maker'[n] = IF n = m THEN r ELSE maker[n]
  BY <1>4 DEF BkInv, BkTyped
<1>8. files' \in [Ids -> FileRec] /\ maker' \in [Makers -> MakerRec]
  BY <1>4 DEF BkInv, BkTyped
<1>9. BkTyped'
  BY <1>5, <1>8 DEF BkInv, BkTyped
<1>10. /\ files[k].dump = "none" /\ ~files[k].part /\ ~files[k].manifest
       /\ \A j \in Ids : Made(j)' <=> Made(j) \/ j = k
  BY <1>1, <1>2, <1>6 DEF BkInv, Untouched, Made
<1>11. IdsInTurn'
  <2> DEFINE S == {i \in Ids : files[i].made # 0}
             T == {i \in Ids : files'[i].made # 0}
  <2>1. T = S \cup {k} /\ k \notin S
    BY <1>1, <1>2, <1>6 DEF Made
  <2>2. S \in SUBSET Ids
    OBVIOUS
  <2> HIDE DEF S, T
  <2>3. Cardinality(T) = Cardinality(S) + 1
    BY <2>1, <2>2, BackupSets, FS_AddElement
  <2>4. Started' = Started + 1
    BY <2>3 DEF S, T, Started
  <2>5. \A i \in Ids : Made(i) <=> i <= Started
    BY DEF BkInv, IdsInTurn
  <2> SUFFICES ASSUME NEW i \in Ids PROVE Made(i)' <=> i <= Started'
    BY DEF IdsInTurn
  <2>6. i \in Nat
    BY IdsAreNumbers
  <2>7. i <= Started + 1 <=> i <= Started \/ i = k
    BY <1>1, <2>6 DEF k
  <2> QED
    BY <1>10, <2>4, <2>5, <2>7
<1>12. Untouched'
  BY <1>1, <1>6, <1>10 DEF BkInv, Untouched
<1>13. OwnIds'
  BY <1>1, <1>3, <1>7, <1>10 DEF BkInv, OwnIds, Made
<1>14. UnderWork'
  <2> SUFFICES ASSUME NEW n \in Makers
               PROVE  WorkFits(maker'[n], files'[maker'[n].id])
    BY DEF UnderWork
  <2>1. CASE n = m
    BY <1>1, <1>2, <1>3, <1>6, <1>7, <2>1 DEF Making, WorkFits
  <2>2. CASE n # m
    BY <1>1, <1>6, <1>7, <1>10, <2>2 DEF BkInv, OwnIds, UnderWork, WorkFits, Made, Making
  <2> QED
    BY <2>1, <2>2
<1>15. TodoMade'
  BY <1>1, <1>3, <1>7, <1>10 DEF BkInv, TodoMade, Made
<1>16. PartOwned' /\ DumpOwned' /\ Undamaged'
  <2>a. \A n \in Makers : maker[n].pc # "idle" => maker'[n] = maker[n]
    BY <1>5, <1>7
  <2>1. PartOwned'
    <3> SUFFICES ASSUME harm = {}, NEW i \in Ids, files[i].part
                 PROVE  \E n \in Makers : maker'[n].pc = "dumped" /\ maker'[n].id = i
      BY <1>2, <1>5, <1>6 DEF PartOwned
    <3> QED
      BY <2>a DEF BkInv, PartOwned
  <2>2. DumpOwned'
    <3> SUFFICES ASSUME "died" \notin harm, NEW i \in Ids, files'[i].dump # "none", ~files'[i].manifest
                 PROVE  \E n \in Makers : maker'[n].pc = "moved" /\ maker'[n].id = i
      BY <1>5 DEF DumpOwned
    <3>1. files'[i] = files[i]
      BY <1>2, <1>6
    <3> QED
      BY <2>a, <3>1 DEF BkInv, DumpOwned
  <2>3. Undamaged'
    BY <1>2, <1>5, <1>6 DEF BkInv, Undamaged
  <2> QED
    BY <2>1, <2>2, <2>3
<1>17. Healthy' = Healthy /\ ScopesStand
  BY <1>2, <1>6, <1>10 DEF Healthy, Fits, ScopesStand
<1>18. \A n \in Makers : /\ maker'[n].todo = maker[n].todo
                         /\ maker[n].pc = "written" => maker'[n].pc = "written" /\ maker'[n].id = maker[n].id
  <2>1. maker[m].todo = {}
    BY <1>5 DEF BkInv, UnderWork, WorkFits
  <2> QED
    BY <1>3, <1>5, <1>7, <2>1
<1>19. Expendable' /\ NewestSurvives'
  BY <1>5, <1>8, <1>16, <1>17, <1>18, QuietKeeps
<1>20. LimitComes'
  BY <1>5, <1>17, <1>18, QuietLimit
<1>21. DrillOK'
  <2>1. drill.pc # "idle" => Made(drill.id) /\ drill.id # k /\ files'[drill.id] = files[drill.id]
    BY <1>1, <1>6 DEF BkInv, DrillOK, Made
  <2> QED
    BY <1>3, <1>5, <1>7, <1>10, <2>1 DEF BkInv, DrillOK, Made
<1> QED
  BY <1>9, <1>11, <1>12, <1>13, <1>14, <1>15, <1>16, <1>19, <1>20, <1>21 DEF BkInv

\* What a maker's step on the file of its own backup leaves as it was
OwnStep(m, i, f, r) ==
    /\ maker[m].pc \in Making /\ i = maker[m].id
    /\ f \in FileRec /\ f.scope = files[i].scope /\ f.made = files[i].made /\ f.counted = files[i].counted
    /\ r \in MakerRec /\ r.todo = {} /\ (r.pc # "idle" => r.id = i) /\ r.pc \notin {"counted", "pruning"}
    /\ files' = [files EXCEPT ![i] = f] /\ maker' = [maker EXCEPT ![m] = r]
    /\ harm \subseteq harm' /\ harm' \subseteq {"failed", "died", "damaged"}
    /\ UNCHANGED <<live, today, drill, bound, best>>

LEMMA OwnStepKeeps ==
    ASSUME BkInv, NEW m \in Makers, NEW i, NEW f, NEW r, OwnStep(m, i, f, r)
    PROVE  /\ i \in Ids /\ Made(i)
           /\ \A j \in Ids : files'[j] = IF j = i THEN f ELSE files[j]
           /\ \A n \in Makers : maker'[n] = IF n = m THEN r ELSE maker[n]
           /\ \A n \in Makers : n # m /\ maker[n].pc # "idle" => maker[n].id # i
           /\ \A n \in Makers : maker'[n].todo = maker[n].todo /\ i \notin maker[n].todo
           /\ \A j : Made(j)' <=> Made(j)
           /\ BkTyped' /\ IdsInTurn' /\ Untouched' /\ OwnIds' /\ TodoMade' /\ ScopesStand
<1>1. maker[m].pc # "idle" /\ i = maker[m].id /\ i \in Ids /\ Made(i)
  BY DEF OwnStep, Making, BkInv, OwnIds, Made
<1>2. files \in [Ids -> FileRec] /\ maker \in [Makers -> MakerRec]
  BY DEF BkInv, BkTyped
<1>3. \A j \in Ids : files'[j] = IF j = i THEN f ELSE files[j]
  BY <1>1, <1>2 DEF OwnStep
<1>4. \A n \in Makers : maker'[n] = IF n = m THEN r ELSE maker[n]
  BY <1>2 DEF OwnStep
<1>5. \A n \in Makers : n # m /\ maker[n].pc # "idle" => maker[n].id # i
  BY <1>1 DEF BkInv, OwnIds
<1>6. \A n \in Makers : i \notin maker[n].todo
  BY <1>1 DEF BkInv, TodoMade, OwnStep
<1>7. maker[m].todo = {}
  BY DEF BkInv, UnderWork, WorkFits, OwnStep, Making
<1>8. \A n \in Makers : maker'[n].todo = maker[n].todo
  BY <1>4, <1>7 DEF OwnStep
<1>9. files' \in [Ids -> FileRec] /\ maker' \in [Makers -> MakerRec]
  BY <1>1, <1>2 DEF OwnStep
<1>10. BkTyped'
  BY <1>9 DEF BkInv, BkTyped, OwnStep
<1>11. \A j \in Ids : files'[j].made = files[j].made
  BY <1>3 DEF OwnStep
<1>12. IdsInTurn' /\ \A j : Made(j)' <=> Made(j)
  BY <1>9, <1>11, StartedStands
<1>13. Untouched'
  BY <1>1, <1>3, <1>12 DEF BkInv, Untouched
<1>14. OwnIds'
  <2>1. \A n \in Makers : maker'[n].pc # "idle" => maker[n].pc # "idle" /\ maker'[n].id = maker[n].id
    BY <1>1, <1>4 DEF OwnStep
  <2> QED
    BY <1>12, <2>1 DEF BkInv, OwnIds
<1>15. TodoMade'
  <2>1. \A n \in Makers : maker'[n].pc \in Making => maker[n].pc \in Making /\ maker'[n].id = maker[n].id
    BY <1>4 DEF OwnStep, Making
  <2> QED
    BY <1>8, <1>12, <2>1 DEF BkInv, TodoMade
<1>16. ScopesStand
  BY <1>3 DEF ScopesStand, OwnStep
<1> QED
  BY <1>1, <1>3, <1>4, <1>5, <1>6, <1>8, <1>10, <1>12, <1>13, <1>14, <1>15, <1>16

\* The step of a maker on its own file, one field after the other
LEMMA OwnFields ==
    ASSUME BkInv, NEW m \in Makers, maker[m].pc \in Making
    PROVE  /\ maker[m] \in MakerRec /\ maker[m].id \in Ids /\ files[maker[m].id] \in FileRec
           /\ maker[m].todo = {} /\ maker \in [Makers -> MakerRec] /\ files \in [Ids -> FileRec]
BY DEF BkInv, BkTyped, UnderWork, WorkFits, OwnIds, Made, Making

LEMMA MakerGoes ==
    ASSUME BkInv, NEW m \in Makers, maker[m].pc \in Making, NEW pc \in {"dumped", "moved", "written"}, Goes(m, pc)
    PROVE  \E r \in MakerRec : /\ r.pc = pc /\ r.id = maker[m].id /\ r.todo = {}
                               /\ maker' = [maker EXCEPT ![m] = r]
<1>1. PICK q \in MakerRec : q = maker[m] /\ q.todo = {}
  BY OwnFields
<1>2. PICK r : r = [q EXCEPT !.pc = pc]
  OBVIOUS
<1>3. r \in MakerRec /\ r.pc = pc /\ r.id = maker[m].id /\ r.todo = {}
  BY <1>1, <1>2 DEF MakerRec, Making
<1>4. maker' = [maker EXCEPT ![m] = r]
  BY <1>1, <1>2 DEF Goes
<1> QED
  BY <1>3, <1>4

LEMMA MakerRests == AtRest \in MakerRec /\ AtRest.pc = "idle" /\ AtRest.todo = {}
BY BackupAssumption DEF AtRest, MakerRec, Making, NoBackup

LEMMA DumpKeeps == ASSUME BkInv, NEW m \in Makers, Dump(m) PROVE BkInv'
<1>1. maker[m].pc = "counted" /\ maker[m].pc \in Making /\ UNCHANGED <<live, today, drill, bound, harm, best>>
  BY DEF Dump, Making
<1>2. PICK i \in Ids : i = maker[m].id
  BY <1>1, OwnFields
<1>3. PICK g \in FileRec : g = files[i]
  BY <1>1, <1>2, OwnFields
<1>4. PICK f : f = [g EXCEPT !.part = TRUE, !.held = live]
  OBVIOUS
<1>5. live \in 0..MaxWrites
  BY DEF BkInv, BkTyped
<1>6. /\ f \in FileRec /\ f.scope = g.scope /\ f.made = g.made /\ f.counted = g.counted
      /\ f.dump = g.dump /\ f.manifest = g.manifest /\ f.part
  BY <1>3, <1>4, <1>5 DEF FileRec
<1>7. PICK r \in MakerRec : r.pc = "dumped" /\ r.id = i /\ r.todo = {} /\ maker' = [maker EXCEPT ![m] = r]
  <2>1. Goes(m, "dumped")
    BY DEF Dump
  <2> QED
    BY <1>1, <1>2, <2>1, MakerGoes
<1>8. files' = [files EXCEPT ![i] = f]
  BY <1>2, <1>3, <1>4 DEF Dump, OnDisk
<1>9. OwnStep(m, i, f, r)
  BY <1>1, <1>2, <1>3, <1>6, <1>7, <1>8 DEF OwnStep, BkInv, BkTyped
<1>10. /\ Made(i)
       /\ \A j \in Ids : files'[j] = IF j = i THEN f ELSE files[j]
       /\ \A n \in Makers : maker'[n] = IF n = m THEN r ELSE maker[n]
       /\ \A n \in Makers : n # m /\ maker[n].pc # "idle" => maker[n].id # i
       /\ \A n \in Makers : maker'[n].todo = maker[n].todo
       /\ \A j : Made(j)' <=> Made(j)
       /\ BkTyped' /\ IdsInTurn' /\ Untouched' /\ OwnIds' /\ TodoMade' /\ ScopesStand
  BY <1>9, OwnStepKeeps
<1>11. files[i].dump = "none" /\ ~files[i].manifest
  BY <1>1, <1>2 DEF BkInv, UnderWork, WorkFits, Making
<1>12. UnderWork'
  <2> SUFFICES ASSUME NEW n \in Makers
               PROVE  WorkFits(maker'[n], files'[maker'[n].id])
    BY DEF UnderWork
  <2>1. CASE n = m
    BY <1>3, <1>6, <1>7, <1>10, <1>11, <2>1 DEF WorkFits, Making
  <2>2. CASE n # m
    BY <1>10, <2>2 DEF BkInv, OwnIds, UnderWork, WorkFits, Made, Making
  <2> QED
    BY <2>1, <2>2
<1>13. PartOwned'
  <2> SUFFICES ASSUME harm = {}, NEW j \in Ids, files'[j].part
               PROVE  \E n \in Makers : maker'[n].pc = "dumped" /\ maker'[n].id = j
    BY <1>1 DEF PartOwned
  <2>1. CASE j = i
    BY <1>7, <1>10, <2>1
  <2>2. CASE j # i
    BY <1>1, <1>10, <2>2 DEF BkInv, PartOwned
  <2> QED
    BY <2>1, <2>2
<1>14. DumpOwned'
  <2> SUFFICES ASSUME "died" \notin harm, NEW j \in Ids, files'[j].dump # "none", ~files'[j].manifest
               PROVE  \E n \in Makers : maker'[n].pc = "moved" /\ maker'[n].id = j
    BY <1>1 DEF DumpOwned
  <2>1. j # i /\ files'[j] = files[j]
    BY <1>3, <1>6, <1>10, <1>11
  <2> QED
    BY <1>1, <1>10, <2>1 DEF BkInv, DumpOwned
<1>15. Undamaged'
  BY <1>1, <1>3, <1>6, <1>10 DEF BkInv, Undamaged
<1>16. Healthy' = Healthy
  BY <1>3, <1>6, <1>10 DEF Healthy, Fits
<1>17. Expendable' /\ NewestSurvives'
  BY <1>1, <1>10, <1>15, <1>16, QuietKeeps DEF BkTyped
<1>18. LimitComes'
  BY <1>1, <1>10, <1>16, QuietLimit
<1>19. DrillOK'
  <2>1. drill.pc # "idle" => Made(drill.id) /\ drill.id # i /\ files'[drill.id] = files[drill.id]
    BY <1>1, <1>2, <1>10 DEF BkInv, DrillOK, Made
  <2> QED
    BY <1>1, <1>7, <1>10, <2>1 DEF BkInv, DrillOK, Made
<1> QED
  BY <1>10, <1>12, <1>13, <1>14, <1>15, <1>17, <1>18, <1>19 DEF BkInv

LEMMA DumpFailsKeeps == ASSUME BkInv, NEW m \in Makers, DumpFails(m) PROVE BkInv'
<1>1. /\ maker[m].pc = "counted" /\ maker[m].pc \in Making /\ harm' = harm \cup {"failed"}
      /\ UNCHANGED <<live, today, drill, bound, best>>
  BY DEF DumpFails, Harmed, Making
<1>2. PICK i \in Ids : i = maker[m].id
  BY <1>1, OwnFields
<1>3. PICK g \in FileRec : g = files[i]
  BY <1>1, <1>2, OwnFields
<1>4. PICK f : f = [g EXCEPT !.part = FALSE]
  OBVIOUS
<1>6. /\ f \in FileRec /\ f.scope = g.scope /\ f.made = g.made /\ f.counted = g.counted /\ f.held = g.held
      /\ f.dump = g.dump /\ f.manifest = g.manifest
  BY <1>3, <1>4 DEF FileRec
<1>7. PICK r \in MakerRec : r = AtRest /\ r.pc = "idle" /\ r.todo = {} /\ maker' = [maker EXCEPT ![m] = r]
  BY MakerRests DEF DumpFails
<1>8. files' = [files EXCEPT ![i] = f]
  BY <1>2, <1>3, <1>4 DEF DumpFails, OnDisk
<1>9. OwnStep(m, i, f, r)
  BY <1>1, <1>2, <1>3, <1>6, <1>7, <1>8 DEF OwnStep, BkInv, BkTyped
<1>10. /\ \A j \in Ids : files'[j] = IF j = i THEN f ELSE files[j]
       /\ \A n \in Makers : maker'[n] = IF n = m THEN r ELSE maker[n]
       /\ \A n \in Makers : n # m /\ maker[n].pc # "idle" => maker[n].id # i
       /\ \A n \in Makers : maker'[n].todo = maker[n].todo
       /\ \A j : Made(j)' <=> Made(j)
       /\ BkTyped' /\ IdsInTurn' /\ Untouched' /\ OwnIds' /\ TodoMade' /\ ScopesStand
  BY <1>9, OwnStepKeeps
<1>11. files[i].dump = "none"
  BY <1>1, <1>2 DEF BkInv, UnderWork, WorkFits
<1>12. UnderWork'
  <2> SUFFICES ASSUME NEW n \in Makers
               PROVE  WorkFits(maker'[n], files'[maker'[n].id])
    BY DEF UnderWork
  <2>1. CASE n = m
    BY <1>7, <1>10, <2>1 DEF WorkFits, Making
  <2>2. CASE n # m
    BY <1>10, <2>2 DEF BkInv, OwnIds, UnderWork, WorkFits, Made, Making
  <2> QED
    BY <2>1, <2>2
<1>13. PartOwned'
  BY <1>1 DEF PartOwned
<1>14. DumpOwned'
  <2> SUFFICES ASSUME "died" \notin harm, NEW j \in Ids, files'[j].dump # "none", ~files'[j].manifest
               PROVE  \E n \in Makers : maker'[n].pc = "moved" /\ maker'[n].id = j
    BY <1>1 DEF DumpOwned
  <2>1. j # i /\ files'[j] = files[j]
    BY <1>3, <1>6, <1>10, <1>11
  <2> QED
    BY <1>1, <1>10, <2>1 DEF BkInv, DumpOwned
<1>15. Undamaged'
  BY <1>1, <1>3, <1>6, <1>10 DEF BkInv, Undamaged
<1>16. Healthy' = Healthy
  BY <1>3, <1>6, <1>10 DEF Healthy, Fits
<1>17. Expendable' /\ NewestSurvives'
  BY <1>1, <1>10, <1>15, <1>16, QuietKeeps DEF BkTyped
<1>18. LimitComes'
  BY <1>1 DEF LimitComes
<1>19. DrillOK'
  <2>1. /\ drill.pc # "idle" => Made(drill.id) /\ files'[drill.id].held = files[drill.id].held
        /\ drill.pc # "idle" => files'[drill.id].counted = files[drill.id].counted
    BY <1>3, <1>6, <1>10 DEF BkInv, DrillOK, Made
  <2> QED
    BY <1>1, <1>7, <1>10, <2>1 DEF BkInv, DrillOK, Made
<1> QED
  BY <1>10, <1>12, <1>13, <1>14, <1>15, <1>17, <1>18, <1>19 DEF BkInv

LEMMA MoveKeeps == ASSUME BkInv, NEW m \in Makers, Move(m) PROVE BkInv'
<1>1. maker[m].pc = "dumped" /\ maker[m].pc \in Making /\ UNCHANGED <<live, today, drill, bound, harm, best>>
  BY DEF Move, Making
<1>2. PICK i \in Ids : i = maker[m].id
  BY <1>1, OwnFields
<1>3. PICK g \in FileRec : g = files[i]
  BY <1>1, <1>2, OwnFields
<1>4. PICK f : f = [g EXCEPT !.part = FALSE, !.dump = "whole"]
  OBVIOUS
<1>6. /\ f \in FileRec /\ f.scope = g.scope /\ f.made = g.made /\ f.counted = g.counted /\ f.held = g.held
      /\ f.dump = "whole" /\ f.manifest = g.manifest /\ ~f.part
  BY <1>3, <1>4 DEF FileRec, DumpKinds
<1>7. PICK r \in MakerRec : r.pc = "moved" /\ r.id = i /\ r.todo = {} /\ maker' = [maker EXCEPT ![m] = r]
  <2>1. Goes(m, "moved")
    BY DEF Move
  <2> QED
    BY <1>1, <1>2, <2>1, MakerGoes
<1>8. files' = [files EXCEPT ![i] = f]
  BY <1>2, <1>3, <1>4 DEF Move, OnDisk
<1>9. OwnStep(m, i, f, r)
  BY <1>1, <1>2, <1>3, <1>6, <1>7, <1>8 DEF OwnStep, BkInv, BkTyped
<1>10. /\ \A j \in Ids : files'[j] = IF j = i THEN f ELSE files[j]
       /\ \A n \in Makers : maker'[n] = IF n = m THEN r ELSE maker[n]
       /\ \A n \in Makers : n # m /\ maker[n].pc # "idle" => maker[n].id # i
       /\ \A n \in Makers : maker'[n].todo = maker[n].todo
       /\ \A j : Made(j)' <=> Made(j)
       /\ BkTyped' /\ IdsInTurn' /\ Untouched' /\ OwnIds' /\ TodoMade' /\ ScopesStand
  BY <1>9, OwnStepKeeps
<1>11. files[i].dump = "none" /\ ~files[i].manifest
  BY <1>1, <1>2 DEF BkInv, UnderWork, WorkFits, Making
<1>12. UnderWork'
  <2> SUFFICES ASSUME NEW n \in Makers
               PROVE  WorkFits(maker'[n], files'[maker'[n].id])
    BY DEF UnderWork
  <2>1. CASE n = m
    BY <1>3, <1>6, <1>7, <1>10, <1>11, <2>1 DEF WorkFits, Making
  <2>2. CASE n # m
    BY <1>10, <2>2 DEF BkInv, OwnIds, UnderWork, WorkFits, Made, Making
  <2> QED
    BY <2>1, <2>2
<1>13. PartOwned'
  <2> SUFFICES ASSUME harm = {}, NEW j \in Ids, files'[j].part
               PROVE  \E n \in Makers : maker'[n].pc = "dumped" /\ maker'[n].id = j
    BY <1>1 DEF PartOwned
  <2>1. j # i /\ files'[j] = files[j]
    BY <1>6, <1>10
  <2>2. PICK n \in Makers : maker[n].pc = "dumped" /\ maker[n].id = j
    BY <2>1 DEF BkInv, PartOwned
  <2>3. maker'[n] = maker[n]
    BY <1>2, <1>10, <2>1, <2>2
  <2> QED
    BY <2>2, <2>3
<1>14. DumpOwned'
  <2> SUFFICES ASSUME "died" \notin harm, NEW j \in Ids, files'[j].dump # "none", ~files'[j].manifest
               PROVE  \E n \in Makers : maker'[n].pc = "moved" /\ maker'[n].id = j
    BY <1>1 DEF DumpOwned
  <2>1. CASE j = i
    BY <1>7, <1>10, <2>1
  <2>2. CASE j # i
    BY <1>1, <1>10, <2>2 DEF BkInv, DumpOwned
  <2> QED
    BY <2>1, <2>2
<1>15. Undamaged'
  BY <1>1, <1>6, <1>10 DEF BkInv, Undamaged
<1>16. Healthy' = Healthy
  BY <1>3, <1>6, <1>10, <1>11 DEF Healthy, Fits
<1>17. Expendable' /\ NewestSurvives'
  BY <1>1, <1>10, <1>15, <1>16, QuietKeeps DEF BkTyped
<1>18. LimitComes'
  BY <1>1, <1>10, <1>16, QuietLimit
<1>19. DrillOK'
  <2>1. /\ drill.pc # "idle" => Made(drill.id) /\ files'[drill.id].held = files[drill.id].held
        /\ drill.pc # "idle" => files'[drill.id].counted = files[drill.id].counted
    BY <1>3, <1>6, <1>10 DEF BkInv, DrillOK, Made
  <2> QED
    BY <1>1, <1>7, <1>10, <2>1 DEF BkInv, DrillOK, Made
<1> QED
  BY <1>10, <1>12, <1>13, <1>14, <1>15, <1>17, <1>18, <1>19 DEF BkInv

\* With its manifest a backup counts as healthy, and its maker will prune
LEMMA WriteManifestKeeps == ASSUME BkInv, NEW m \in Makers, WriteManifest(m) PROVE BkInv'
<1>1. maker[m].pc = "moved" /\ maker[m].pc \in Making /\ UNCHANGED <<live, today, drill, bound, harm, best>>
  BY DEF WriteManifest, Making
<1>2. PICK i \in Ids : i = maker[m].id
  BY <1>1, OwnFields
<1>3. PICK g \in FileRec : g = files[i]
  BY <1>1, <1>2, OwnFields
<1>4. PICK f : f = [g EXCEPT !.manifest = TRUE]
  OBVIOUS
<1>6. /\ f \in FileRec /\ f.scope = g.scope /\ f.made = g.made /\ f.counted = g.counted /\ f.held = g.held
      /\ f.dump = g.dump /\ f.manifest /\ f.part = g.part
  BY <1>3, <1>4 DEF FileRec
<1>7. PICK r \in MakerRec : r.pc = "written" /\ r.id = i /\ r.todo = {} /\ maker' = [maker EXCEPT ![m] = r]
  <2>1. Goes(m, "written")
    BY DEF WriteManifest
  <2> QED
    BY <1>1, <1>2, <2>1, MakerGoes
<1>8. files' = [files EXCEPT ![i] = f]
  BY <1>2, <1>3, <1>4 DEF WriteManifest, OnDisk
<1>9. OwnStep(m, i, f, r)
  BY <1>1, <1>2, <1>3, <1>6, <1>7, <1>8 DEF OwnStep, BkInv, BkTyped
<1>10. /\ \A j \in Ids : files'[j] = IF j = i THEN f ELSE files[j]
       /\ \A n \in Makers : maker'[n] = IF n = m THEN r ELSE maker[n]
       /\ \A n \in Makers : n # m /\ maker[n].pc # "idle" => maker[n].id # i
       /\ \A n \in Makers : maker'[n].todo = maker[n].todo /\ i \notin maker[n].todo
       /\ \A j : Made(j)' <=> Made(j)
       /\ BkTyped' /\ IdsInTurn' /\ Untouched' /\ OwnIds' /\ TodoMade' /\ ScopesStand
  BY <1>9, OwnStepKeeps
<1>11. ~files[i].manifest
  BY <1>1, <1>2 DEF BkInv, UnderWork, WorkFits, Making
<1>12. UnderWork'
  <2> SUFFICES ASSUME NEW n \in Makers
               PROVE  WorkFits(maker'[n], files'[maker'[n].id])
    BY DEF UnderWork
  <2>1. CASE n = m
    BY <1>3, <1>6, <1>7, <1>10, <1>11, <2>1 DEF WorkFits, Making
  <2>2. CASE n # m
    BY <1>10, <2>2 DEF BkInv, OwnIds, UnderWork, WorkFits, Made, Making
  <2> QED
    BY <2>1, <2>2
<1>13. PartOwned'
  <2> SUFFICES ASSUME harm = {}, NEW j \in Ids, files'[j].part
               PROVE  \E n \in Makers : maker'[n].pc = "dumped" /\ maker'[n].id = j
    BY <1>1 DEF PartOwned
  <2>1. files[j].part
    BY <1>3, <1>6, <1>10
  <2>2. PICK n \in Makers : maker[n].pc = "dumped" /\ maker[n].id = j
    BY <2>1 DEF BkInv, PartOwned
  <2>3. maker'[n] = maker[n]
    BY <1>1, <1>10, <2>2
  <2> QED
    BY <2>2, <2>3
<1>14. DumpOwned'
  <2> SUFFICES ASSUME "died" \notin harm, NEW j \in Ids, files'[j].dump # "none", ~files'[j].manifest
               PROVE  \E n \in Makers : maker'[n].pc = "moved" /\ maker'[n].id = j
    BY <1>1 DEF DumpOwned
  <2>1. j # i /\ files'[j] = files[j]
    BY <1>6, <1>10
  <2>2. PICK n \in Makers : maker[n].pc = "moved" /\ maker[n].id = j
    BY <2>1 DEF BkInv, DumpOwned
  <2>3. maker'[n] = maker[n]
    BY <1>2, <1>10, <2>1, <2>2
  <2> QED
    BY <2>2, <2>3
<1>15. Undamaged'
  BY <1>1, <1>3, <1>6, <1>10 DEF BkInv, Undamaged
<1>16. Healthy \subseteq Healthy' /\ Healthy' \subseteq Healthy \cup {i}
  BY <1>3, <1>6, <1>10 DEF Healthy, Fits
<1>17. Protected' \cap Healthy \subseteq Protected
  BY <1>10, <1>16, ProtectedGrow
<1>18. Protected' \subseteq Healthy'
  BY DEF Protected, Newest, OfScope
<1>19. Expendable'
  <2> SUFFICES ASSUME "damaged" \notin harm, NEW n \in Makers, NEW j \in maker[n].todo, j \in Protected'
               PROVE  FALSE
    BY <1>1, <1>10 DEF Expendable
  <2>1. j # i /\ j \in Healthy
    BY <1>10, <1>16, <1>18
  <2> QED
    BY <1>17, <2>1 DEF BkInv, Expendable
<1>20. NewestSurvives'
  <2>1. ASSUME "damaged" \notin harm', NEW s \in Scopes, best'[s] # NoBackup
        PROVE  \E j \in Healthy' : files'[j].scope = s /\ j >= best'[s]
    <3>1. PICK j \in OfScope(Healthy, s) : j >= best[s]
      BY <1>1, <2>1, NewestHealthy
    <3>2. j \in Ids /\ j \in Healthy /\ Fits(files[j]) /\ files[j].scope = s
      BY DEF OfScope, Healthy
    <3> QED
      BY <1>1, <1>10, <1>16, <3>1, <3>2 DEF ScopesStand
  <2> QED
    BY <1>10, <1>15, <2>1, SurvivesBy DEF BkTyped
<1>21. LimitComes'
  <2> SUFFICES ASSUME harm = {}
               PROVE  Bounded(Rest)' \/ \E n \in Makers : maker'[n].pc = "written" /\ maker'[n].id \in Rest'
    BY <1>1 DEF LimitComes
  <2>1. CASE i \in Healthy'
    <3>1. i \in Rest'
      BY <1>10, <2>1 DEF Rest
    <3> QED
      BY <1>7, <1>10, <3>1
  <2>2. CASE i \notin Healthy'
    <3>1. Healthy' = Healthy
      BY <1>16, <2>2
    <3>2. LimitComes'
      BY <1>1, <1>10, <3>1, QuietLimit
    <3> QED
      BY <1>1, <3>2 DEF LimitComes
  <2> QED
    BY <2>1, <2>2
<1>22. DrillOK'
  <2>1. /\ drill.pc # "idle" => Made(drill.id) /\ files'[drill.id].held = files[drill.id].held
        /\ drill.pc # "idle" => files'[drill.id].counted = files[drill.id].counted
    BY <1>3, <1>6, <1>10 DEF BkInv, DrillOK, Made
  <2> QED
    BY <1>1, <1>7, <1>10, <2>1 DEF BkInv, DrillOK, Made
<1> QED
  BY <1>10, <1>12, <1>13, <1>14, <1>15, <1>19, <1>20, <1>21, <1>22 DEF BkInv

\* A step that leaves the files alone
LEMMA FilesStand ==
    ASSUME BkInv, UNCHANGED files
    PROVE  /\ ScopesStand /\ Healthy' = Healthy /\ IdsInTurn' /\ Untouched'
           /\ \A j : Made(j)' <=> Made(j)
           /\ files' \in [Ids -> FileRec]
<1>1. files' \in [Ids -> FileRec]
  BY DEF BkInv, BkTyped
<1>2. IdsInTurn' /\ \A j : Made(j)' <=> Made(j)
  BY <1>1, StartedStands
<1>3. Untouched'
  BY <1>2 DEF BkInv, Untouched
<1> QED
  BY <1>1, <1>2, <1>3 DEF ScopesStand, Healthy

\* A backup that is found whole is the newest of its scope, and what the others can do without goes
LEMMA VerifiedKeeps ==
    ASSUME BkInv, NEW m \in Makers, Verify(m), files[maker[m].id].dump = "whole" PROVE BkInv'
<1>1. maker[m].pc = "written" /\ UNCHANGED <<live, today, files, drill, bound, harm>>
  BY DEF Verify
<1>2. PICK i \in Ids : i = maker[m].id /\ Made(i)
  BY <1>1 DEF BkInv, OwnIds, Made
<1>3. files[i].dump = "whole" /\ files[i].manifest /\ files[i].scope \in Scopes /\ i \in Healthy
  <2>1. files[i].dump = "whole" /\ files[i].manifest
    BY <1>1, <1>2 DEF BkInv, UnderWork, WorkFits
  <2>2. files[i] \in FileRec
    BY DEF BkInv, BkTyped
  <2> QED
    BY <2>1, <2>2 DEF FileRec, Healthy, Fits
<1>4. PICK t : t = ToPrune(files[i].made)
  OBVIOUS
<1>5. t \subseteq Healthy \ Protected /\ Bounded(Healthy \ t) /\ t \in SUBSET Ids
  BY <1>4, ToPruneFits DEF Healthy
<1>6. PICK q \in MakerRec : q = maker[m]
  BY DEF BkInv, BkTyped
<1>7. PICK r : r = [q EXCEPT !.pc = "pruning", !.todo = t]
  OBVIOUS
<1>8. r \in MakerRec /\ r.pc = "pruning" /\ r.id = i /\ r.todo = t
  BY <1>2, <1>5, <1>6, <1>7 DEF MakerRec
<1>9. maker' = [maker EXCEPT ![m] = r] /\ best' = [best EXCEPT ![files[i].scope] = Greatest({@, i})]
  <2>1. /\ maker' = [maker EXCEPT ![m].pc = "pruning", ![m].todo = ToPrune(files[i].made)]
        /\ best' = [best EXCEPT ![files[i].scope] = Greatest({@, i})]
    BY <1>2, <1>3 DEF Verify
  <2>2. maker' = [maker EXCEPT ![m] = [maker[m] EXCEPT !.pc = "pruning", !.todo = ToPrune(files[i].made)]]
    BY <2>1 DEF BkInv, BkTyped
  <2> QED
    BY <1>4, <1>6, <1>7, <2>1, <2>2
<1>10. \A n \in Makers : maker'[n] = IF n = m THEN r ELSE maker[n]
  BY <1>9 DEF BkInv, BkTyped
<1>11. \A s \in Scopes : /\ best'[s] \in 0..MaxBackups
                         /\ best'[s] = best[s] \/ (s = files[i].scope /\ best'[s] = i)
  <2> SUFFICES ASSUME NEW s \in Scopes
               PROVE  best'[s] \in 0..MaxBackups /\ (best'[s] = best[s] \/ (s = files[i].scope /\ best'[s] = i))
    OBVIOUS
  <2>1. best \in [Scopes -> 0..MaxBackups] /\ MaxBackups \in Nat /\ i \in 0..MaxBackups
    BY BackupAssumption DEF BkInv, BkTyped, Ids
  <2>2. CASE s # files[i].scope
    BY <1>9, <2>1, <2>2
  <2>3. CASE s = files[i].scope
    <3>1. PICK b \in 0..MaxBackups : b = best[s]
      BY <2>1
    <3>2. Greatest({b, i}) \in {b, i}
      <4>1. {b, i} \in SUBSET (0..MaxBackups) /\ {b, i} # {}
        BY <2>1
      <4> QED
        BY <2>1, <4>1, GreatestExists
    <3>3. best'[s] = Greatest({b, i})
      BY <1>9, <2>1, <2>3, <3>1
    <3> QED
      BY <2>1, <2>3, <3>1, <3>2, <3>3
  <2> QED
    BY <2>2, <2>3
<1>12. /\ ScopesStand /\ Healthy' = Healthy /\ IdsInTurn' /\ Untouched'
       /\ \A j : Made(j)' <=> Made(j)
       /\ files' \in [Ids -> FileRec]
  BY <1>1, FilesStand
<1>13. Protected' = Protected
  BY <1>12, ProtectedSame
<1>14. BkTyped'
  <2>1. best' \in [Scopes -> 0..MaxBackups]
    <3>1. best' = [s \in Scopes |-> best'[s]]
      BY <1>9 DEF BkInv, BkTyped
    <3> QED
      BY <1>11, <3>1
  <2>2. maker' \in [Makers -> MakerRec]
    BY <1>8, <1>9 DEF BkInv, BkTyped
  <2> QED
    BY <1>1, <1>12, <2>1, <2>2 DEF BkInv, BkTyped
<1>15. OwnIds'
  BY <1>1, <1>2, <1>8, <1>10, <1>12 DEF BkInv, OwnIds
<1>16. UnderWork'
  <2> SUFFICES ASSUME NEW n \in Makers
               PROVE  WorkFits(maker'[n], files'[maker'[n].id])
    BY DEF UnderWork
  <2>1. CASE n = m
    BY <1>8, <1>10, <2>1 DEF WorkFits, Making
  <2>2. CASE n # m
    BY <1>1, <1>10, <2>2 DEF BkInv, UnderWork
  <2> QED
    BY <2>1, <2>2
<1>17. TodoMade'
  <2> SUFFICES ASSUME NEW n \in Makers, NEW j \in maker'[n].todo
               PROVE  Made(j) /\ \A k \in Makers : maker'[k].pc \in Making => maker'[k].id # j
    BY <1>12 DEF TodoMade
  <2>1. \A k \in Makers : maker'[k].pc \in Making => maker'[k] = maker[k]
    BY <1>8, <1>10 DEF Making
  <2>2. CASE n # m
    BY <1>10, <2>1, <2>2 DEF BkInv, TodoMade
  <2>3. CASE n = m
    <3>1. j \in Ids /\ files[j].manifest
      BY <1>5, <1>8, <1>10, <2>3 DEF Healthy, Fits
    <3>2. Made(j)
      BY <3>1 DEF BkInv, Untouched
    <3>3. \A k \in Makers : maker[k].pc \in Making => maker[k].id # j
      BY <3>1 DEF BkInv, UnderWork, WorkFits
    <3> QED
      BY <2>1, <3>2, <3>3
  <2> QED
    BY <2>2, <2>3
<1>18. \A n \in Makers : maker[n].pc \in Making => maker'[n] = maker[n]
  BY <1>1, <1>10 DEF Making
<1>19. PartOwned' /\ DumpOwned' /\ Undamaged'
  <2>1. PartOwned'
    <3> SUFFICES ASSUME harm = {}, NEW j \in Ids, files[j].part
                 PROVE  \E n \in Makers : maker'[n].pc = "dumped" /\ maker'[n].id = j
      BY <1>1 DEF PartOwned
    <3> QED
      BY <1>18 DEF BkInv, PartOwned, Making
  <2>2. DumpOwned'
    <3> SUFFICES ASSUME "died" \notin harm, NEW j \in Ids, files[j].dump # "none", ~files[j].manifest
                 PROVE  \E n \in Makers : maker'[n].pc = "moved" /\ maker'[n].id = j
      BY <1>1 DEF DumpOwned
    <3> QED
      BY <1>18 DEF BkInv, DumpOwned, Making
  <2>3. Undamaged'
    BY <1>1 DEF BkInv, Undamaged
  <2> QED
    BY <2>1, <2>2, <2>3
<1>20. Expendable'
  <2> SUFFICES ASSUME "damaged" \notin harm, NEW n \in Makers
               PROVE  maker'[n].todo \cap Protected = {}
    BY <1>1, <1>13 DEF Expendable
  <2>1. CASE n = m
    BY <1>5, <1>8, <1>10, <2>1
  <2>2. CASE n # m
    BY <1>10, <2>2 DEF BkInv, Expendable
  <2> QED
    BY <2>1, <2>2
<1>21. NewestSurvives'
  <2>1. ASSUME "damaged" \notin harm', NEW s \in Scopes, best'[s] # NoBackup
        PROVE  \E j \in Healthy' : files'[j].scope = s /\ j >= best'[s]
    <3>1. CASE best'[s] = best[s]
      <4>1. PICK j \in OfScope(Healthy, s) : j >= best[s]
        BY <1>1, <2>1, <3>1, NewestHealthy
      <4>2. j \in Healthy /\ files[j].scope = s
        BY DEF OfScope
      <4> QED
        BY <1>1, <1>12, <3>1, <4>1, <4>2
    <3>2. CASE s = files[i].scope /\ best'[s] = i
      <4>1. i >= i
        BY IdsAreNumbers
      <4> QED
        BY <1>1, <1>3, <1>12, <3>2, <4>1
    <3> QED
      BY <1>11, <3>1, <3>2
  <2> QED
    BY <1>12, <1>19, <2>1, SurvivesBy
<1>22. LimitComes'
  <2>1. Rest' \subseteq Healthy \ t
    BY <1>8, <1>10, <1>12 DEF Rest
  <2>2. Healthy \ t \in SUBSET Ids
    BY DEF Healthy
  <2>3. Bounded(Rest')
    BY <1>5, <2>1, <2>2, BoundedPart
  <2>4. Bounded(Rest)'
    BY <1>13, <2>3 DEF Bounded
  <2> QED
    BY <2>4 DEF LimitComes
<1>23. DrillOK'
  BY <1>1, <1>8, <1>10, <1>12 DEF BkInv, DrillOK
<1> QED
  BY <1>12, <1>14, <1>15, <1>16, <1>17, <1>19, <1>20, <1>21, <1>22, <1>23 DEF BkInv

\* A backup that is found damaged, or gone, is given up
LEMMA DiscardedKeeps ==
    ASSUME BkInv, NEW m \in Makers, Verify(m), files[maker[m].id].dump # "whole" PROVE BkInv'
<1>1. maker[m].pc = "written" /\ UNCHANGED <<live, today, drill, bound, harm, best>>
  BY DEF Verify
<1>2. PICK i \in Ids : i = maker[m].id /\ Made(i)
  BY <1>1 DEF BkInv, OwnIds, Made
<1>3. PICK g \in FileRec : g = files[i] /\ g.dump # "whole"
  BY <1>2 DEF BkInv, BkTyped
<1>4. PICK f : f = [g EXCEPT !.dump = "none", !.manifest = FALSE]
  OBVIOUS
<1>5. /\ f \in FileRec /\ f.scope = g.scope /\ f.made = g.made /\ f.counted = g.counted /\ f.held = g.held
      /\ f.part = g.part /\ f.dump = "none" /\ ~f.manifest
  BY <1>4 DEF FileRec, DumpKinds
<1>6. files' = [files EXCEPT ![i] = f] /\ maker' = [maker EXCEPT ![m] = AtRest]
  BY <1>2, <1>3, <1>4 DEF Verify, OnDisk, Discarded
<1>7. \A j \in Ids : files'[j] = IF j = i THEN f ELSE files[j]
  BY <1>6 DEF BkInv, BkTyped
<1>8. \A n \in Makers : maker'[n] = IF n = m THEN AtRest ELSE maker[n]
  BY <1>6 DEF BkInv, BkTyped
<1>9. files' \in [Ids -> FileRec] /\ maker' \in [Makers -> MakerRec]
  BY <1>5, <1>6, MakerRests DEF BkInv, BkTyped
<1>10. BkTyped'
  BY <1>1, <1>9 DEF BkInv, BkTyped
<1>11. IdsInTurn' /\ \A j : Made(j)' <=> Made(j)
  <2>1. \A j \in Ids : files'[j].made = files[j].made
    BY <1>3, <1>5, <1>7
  <2> QED
    BY <1>9, <2>1, StartedStands
<1>12. Untouched' /\ ScopesStand
  BY <1>2, <1>3, <1>5, <1>7, <1>11 DEF BkInv, Untouched, ScopesStand
<1>13. \A n \in Makers : maker'[n].pc # "idle" => n # m /\ maker'[n] = maker[n] /\ maker'[n].id # i
  <2>1. \A n \in Makers : n # m /\ maker[n].pc # "idle" => maker[n].id # i
    BY <1>1, <1>2 DEF BkInv, OwnIds
  <2> QED
    BY <1>8, <2>1, MakerRests
<1>14. OwnIds'
  BY <1>11, <1>13 DEF BkInv, OwnIds
<1>15. UnderWork'
  <2> SUFFICES ASSUME NEW n \in Makers
               PROVE  WorkFits(maker'[n], files'[maker'[n].id])
    BY DEF UnderWork
  <2>1. CASE maker'[n].pc = "idle"
    <3>1. maker'[n].todo = {}
      BY <1>8, <2>1, MakerRests DEF BkInv, UnderWork, WorkFits
    <3> QED
      BY <2>1, <3>1 DEF WorkFits, Making
  <2>2. CASE maker'[n].pc # "idle"
    BY <1>7, <1>13, <2>2 DEF BkInv, UnderWork, OwnIds, Made
  <2> QED
    BY <2>1, <2>2
<1>16. \A n \in Makers : maker'[n].todo = maker[n].todo
  <2>1. maker[m].todo = {}
    BY <1>1 DEF BkInv, UnderWork, WorkFits
  <2> QED
    BY <1>8, <2>1, MakerRests
<1>17. TodoMade'
  BY <1>11, <1>13, <1>16 DEF BkInv, TodoMade, Making
<1>18. \A n \in Makers : maker[n].pc \in Making => maker'[n] = maker[n] /\ maker[n].id # i
  <2>1. \A n \in Makers : maker[n].pc \in Making => n # m /\ maker[n].pc # "idle"
    BY <1>1 DEF Making
  <2> QED
    BY <1>8, <1>13, <2>1
<1>19. PartOwned' /\ DumpOwned' /\ Undamaged'
  <2>1. PartOwned'
    <3> SUFFICES ASSUME harm = {}, NEW j \in Ids, files'[j].part
                 PROVE  \E n \in Makers : maker'[n].pc = "dumped" /\ maker'[n].id = j
      BY <1>1 DEF PartOwned
    <3>1. files[j].part
      BY <1>3, <1>5, <1>7
    <3> QED
      BY <1>18, <3>1 DEF BkInv, PartOwned, Making
  <2>2. DumpOwned'
    <3> SUFFICES ASSUME "died" \notin harm, NEW j \in Ids, files'[j].dump # "none", ~files'[j].manifest
                 PROVE  \E n \in Makers : maker'[n].pc = "moved" /\ maker'[n].id = j
      BY <1>1 DEF DumpOwned
    <3>1. files'[j] = files[j]
      BY <1>5, <1>7
    <3> QED
      BY <1>18, <3>1 DEF BkInv, DumpOwned, Making
  <2>3. Undamaged'
    BY <1>1, <1>5, <1>7 DEF BkInv, Undamaged
  <2> QED
    BY <2>1, <2>2, <2>3
<1>20. "damaged" \notin harm => i \notin Healthy
  BY <1>3 DEF BkInv, Undamaged, Healthy, Fits
<1>21. "damaged" \notin harm => Healthy' = Healthy
  BY <1>5, <1>7, <1>20 DEF Healthy, Fits
<1>22. Expendable' /\ NewestSurvives'
  <2>1. CASE "damaged" \in harm
    BY <1>1, <2>1 DEF Expendable, NewestSurvives
  <2>2. CASE "damaged" \notin harm
    BY <1>1, <1>9, <1>12, <1>16, <1>19, <1>21, <2>2, QuietKeeps
  <2> QED
    BY <2>1, <2>2
<1>23. LimitComes'
  <2> SUFFICES ASSUME harm = {}
               PROVE  Bounded(Rest)' \/ \E n \in Makers : maker'[n].pc = "written" /\ maker'[n].id \in Rest'
    BY <1>1 DEF LimitComes
  <2>1. Healthy' = Healthy /\ i \notin Healthy
    BY <1>20, <1>21
  <2>2. Protected' = Protected
    BY <1>12, <2>1, ProtectedSame
  <2>3. Rest' = Rest
    BY <1>16, <2>1 DEF Rest
  <2>4. CASE Bounded(Rest)
    BY <2>2, <2>3, <2>4 DEF Bounded
  <2>5. CASE \E n \in Makers : maker[n].pc = "written" /\ maker[n].id \in Rest
    <3>1. PICK n \in Makers : maker[n].pc = "written" /\ maker[n].id \in Rest
      BY <2>5
    <3>2. n # m
      BY <1>2, <2>1, <3>1 DEF Rest
    <3> QED
      BY <1>8, <2>3, <3>1, <3>2
  <2> QED
    BY <2>4, <2>5 DEF BkInv, LimitComes
<1>24. DrillOK'
  <2>1. /\ drill.pc # "idle" => Made(drill.id) /\ files'[drill.id].held = files[drill.id].held
        /\ drill.pc # "idle" => files'[drill.id].counted = files[drill.id].counted
    BY <1>3, <1>5, <1>7 DEF BkInv, DrillOK, Made
  <2>2. \A n \in Makers : maker'[n].pc = "counted" => maker[n].pc = "counted" /\ maker'[n].id = maker[n].id
    BY <1>13
  <2> QED
    BY <1>1, <1>11, <2>1, <2>2 DEF BkInv, DrillOK, Made
<1> QED
  BY <1>10, <1>11, <1>12, <1>14, <1>15, <1>17, <1>19, <1>22, <1>23, <1>24 DEF BkInv

\* A step of pruning takes one backup out of the healthy ones, and no protected one
LEMMA PruneKeeps == ASSUME BkInv, NEW m \in Makers, PruneStep(m) PROVE BkInv'
<1>1. maker[m].pc = "pruning" /\ maker[m].todo # {} /\ UNCHANGED <<live, today, drill, bound, harm, best>>
  BY DEF PruneStep
<1>2. PICK q \in MakerRec : q = maker[m]
  BY DEF BkInv, BkTyped
<1>3. PICK x \in Ids : x = Least(maker[m].todo) /\ x \in maker[m].todo
  <2>1. q.todo \in SUBSET Ids /\ q.todo \in SUBSET Nat /\ q.todo # {}
    BY <1>1, <1>2, IdsAreNumbers DEF MakerRec
  <2>2. Least(q.todo) \in q.todo
    BY <2>1, LeastExists
  <2> QED
    BY <1>2, <2>1, <2>2
<1>4. PICK g \in FileRec : g = files[x]
  BY DEF BkInv, BkTyped
<1>5. PICK f : f = DumpFirst(g)
  OBVIOUS
<1>6. /\ f \in FileRec /\ f.scope = g.scope /\ f.made = g.made /\ f.counted = g.counted /\ f.held = g.held
      /\ f.part = g.part /\ f.dump = "none"
  BY <1>5 DEF DumpFirst, FileRec, DumpKinds
<1>7. PICK T : T = IF Removed(f) THEN q.todo \ {x} ELSE q.todo
  OBVIOUS
<1>8. PICK r : r = [q EXCEPT !.todo = T]
  OBVIOUS
<1>9. r \in MakerRec /\ r.pc = "pruning" /\ r.id = q.id /\ r.todo = T
  BY <1>1, <1>2, <1>7, <1>8 DEF MakerRec
<1>10. files' = [files EXCEPT ![x] = f] /\ maker' = [maker EXCEPT ![m] = r]
  <2>1. files' = [files EXCEPT ![x] = f]
    BY <1>3, <1>4, <1>5 DEF PruneStep, OnDisk
  <2>2. maker' = [maker EXCEPT ![m].todo = IF Removed(f) THEN @ \ {x} ELSE @]
    BY <1>3, <1>4, <1>5 DEF PruneStep
  <2> QED
    BY <1>2, <1>7, <1>8, <2>1, <2>2
<1>11. \A j \in Ids : files'[j] = IF j = x THEN f ELSE files[j]
  BY <1>10 DEF BkInv, BkTyped
<1>12. \A n \in Makers : maker'[n] = IF n = m THEN r ELSE maker[n]
  BY <1>10 DEF BkInv, BkTyped
<1>13. files' \in [Ids -> FileRec] /\ maker' \in [Makers -> MakerRec]
  BY <1>6, <1>9, <1>10 DEF BkInv, BkTyped
<1>14. BkTyped'
  BY <1>1, <1>13 DEF BkInv, BkTyped
<1>15. IdsInTurn' /\ \A j : Made(j)' <=> Made(j)
  <2>1. \A j \in Ids : files'[j].made = files[j].made
    BY <1>4, <1>6, <1>11
  <2> QED
    BY <1>13, <2>1, StartedStands
<1>16. Made(x) /\ \A n \in Makers : maker[n].pc \in Making => maker[n].id # x
  BY <1>3 DEF BkInv, TodoMade
<1>17. Untouched' /\ ScopesStand
  BY <1>4, <1>6, <1>11, <1>15, <1>16 DEF BkInv, Untouched, ScopesStand
<1>18. \A n \in Makers : /\ maker'[n].pc = maker[n].pc /\ maker'[n].id = maker[n].id
                         /\ maker'[n].todo \subseteq maker[n].todo
                         /\ \A j : j # x => (j \in maker'[n].todo <=> j \in maker[n].todo)
                         /\ maker'[n].pc # "pruning" => maker'[n] = maker[n]
  BY <1>1, <1>2, <1>7, <1>9, <1>12
<1>19. OwnIds' /\ TodoMade'
  BY <1>15, <1>18 DEF BkInv, OwnIds, TodoMade
<1>20. UnderWork'
  <2> SUFFICES ASSUME NEW n \in Makers
               PROVE  WorkFits(maker'[n], files'[maker'[n].id])
    BY DEF UnderWork
  <2>1. WorkFits(maker[n], files[maker[n].id])
    BY DEF BkInv, UnderWork
  <2>2. CASE maker[n].pc = "pruning"
    BY <1>18, <2>2 DEF WorkFits, Making
  <2>3. CASE maker[n].pc = "idle"
    BY <1>18, <2>1, <2>3 DEF WorkFits, Making
  <2>4. CASE maker[n].pc # "pruning" /\ maker[n].pc # "idle"
    <3>1. maker'[n] = maker[n] /\ maker[n].id \in Ids
      BY <1>18, <2>4 DEF BkInv, OwnIds, Made
    <3>2. CASE maker[n].id = x
      BY <1>6, <1>11, <1>16, <2>1, <3>1, <3>2 DEF WorkFits, Making
    <3>3. CASE maker[n].id # x
      BY <1>11, <2>1, <3>1, <3>3
    <3> QED
      BY <3>2, <3>3
  <2> QED
    BY <2>2, <2>3, <2>4
<1>21. PartOwned' /\ DumpOwned' /\ Undamaged'
  <2>1. PartOwned'
    BY <1>1, <1>4, <1>6, <1>11, <1>18 DEF BkInv, PartOwned
  <2>2. DumpOwned'
    BY <1>1, <1>6, <1>11, <1>18 DEF BkInv, DumpOwned
  <2>3. Undamaged'
    BY <1>1, <1>6, <1>11 DEF BkInv, Undamaged
  <2> QED
    BY <2>1, <2>2, <2>3
<1>22. Healthy' = Healthy \ {x}
  BY <1>6, <1>11 DEF Healthy, Fits
<1>23. "damaged" \notin harm => x \notin Protected
  BY <1>3 DEF BkInv, Expendable
<1>24. Expendable'
  <2> SUFFICES ASSUME "damaged" \notin harm, NEW n \in Makers
               PROVE  maker'[n].todo \cap Protected' = {}
    BY <1>1 DEF Expendable
  <2>1. Protected' \subseteq Protected
    BY <1>17, <1>22, <1>23, ProtectedDrop
  <2>2. maker[n].todo \cap Protected = {}
    BY DEF BkInv, Expendable
  <2> QED
    BY <1>18, <2>1, <2>2
<1>25. NewestSurvives'
  <2>1. ASSUME "damaged" \notin harm', NEW s \in Scopes, best'[s] # NoBackup
        PROVE  \E j \in Healthy' : files'[j].scope = s /\ j >= best'[s]
    <3>1. PICK i \in OfScope(Healthy, s) : i >= best[s]
      BY <1>1, <2>1, NewestHealthy
    <3>2. \E j \in OfScope(Healthy, s) : j # x /\ j >= best[s]
      <4>1. CASE i # x
        BY <3>1, <4>1
      <4>2. CASE i = x
        <5>1. OfScope(Healthy, s) \in SUBSET Ids /\ x \notin Newest(OfScope(Healthy, s), KeepPerScope)
          BY <1>1, <1>23, <2>1, ProtectedIs
        <5>2. PICK j \in OfScope(Healthy, s) : j > x
          BY <3>1, <4>2, <5>1, NewerExists, BackupAssumption
        <5>3. j \in Ids /\ x \in Ids
          BY <5>1, <5>2
        <5>4. best[s] \in 0..MaxBackups /\ MaxBackups \in Nat
          BY BackupAssumption DEF BkInv, BkTyped
        <5>5. j \in Nat /\ x \in Nat
          BY <5>3, IdsAreNumbers
        <5>6. best[s] \in Nat
          BY <5>4
        <5>7. j # x /\ j >= best[s]
          BY <3>1, <4>2, <5>2, <5>5, <5>6
        <5> QED
          BY <5>2, <5>7
      <4> QED
        BY <4>1, <4>2
    <3>3. PICK j \in OfScope(Healthy, s) : j # x /\ j >= best[s]
      BY <3>2
    <3>4. j \in Healthy /\ j \in Ids /\ files[j].scope = s
      BY DEF OfScope, Healthy
    <3> QED
      BY <1>1, <1>11, <1>22, <3>3, <3>4
  <2> QED
    BY <1>13, <1>21, <2>1, SurvivesBy
<1>26. LimitComes'
  <2> SUFFICES ASSUME harm = {}
               PROVE  Bounded(Rest)' \/ \E n \in Makers : maker'[n].pc = "written" /\ maker'[n].id \in Rest'
    BY <1>1 DEF LimitComes
  <2>1. x \notin Rest
    BY <1>3 DEF Rest
  <2>2. Rest' = Rest
    BY <1>18, <1>22, <2>1 DEF Rest
  <2>3. Protected \cap Healthy' \subseteq Protected'
    BY <1>17, <1>22, ProtectedShrink
  <2>4. CASE Bounded(Rest)
    <3>1. Rest' \subseteq Healthy'
      BY DEF Rest
    <3> QED
      BY <2>2, <2>3, <2>4, <3>1 DEF Bounded
  <2>5. CASE \E n \in Makers : maker[n].pc = "written" /\ maker[n].id \in Rest
    BY <1>18, <2>2, <2>5
  <2> QED
    BY <2>4, <2>5 DEF BkInv, LimitComes
<1>27. DrillOK'
  <2>1. /\ drill.pc # "idle" => Made(drill.id) /\ files'[drill.id].held = files[drill.id].held
        /\ drill.pc # "idle" => files'[drill.id].counted = files[drill.id].counted
    BY <1>4, <1>6, <1>11 DEF BkInv, DrillOK, Made
  <2> QED
    BY <1>1, <1>15, <1>18, <2>1 DEF BkInv, DrillOK, Made
<1> QED
  BY <1>14, <1>15, <1>17, <1>19, <1>20, <1>21, <1>24, <1>25, <1>26, <1>27 DEF BkInv

\* A maker that has nothing left to prune rests, and so does one that dies
LEMMA RestsKeeps == ASSUME BkInv, NEW m \in Makers, Finished(m) \/ MakerDies(m) PROVE BkInv'
<1>1. /\ UNCHANGED <<live, today, files, drill, bound, best>> /\ maker' = [maker EXCEPT ![m] = AtRest]
      /\ harm \subseteq harm' /\ harm' \subseteq harm \cup {"died"}
      /\ harm' = harm => (maker[m].pc = "pruning" /\ maker[m].todo = {}) \/ "died" \in harm
      /\ harm' # harm => "died" \in harm'
  BY DEF Finished, MakerDies, Harmed
<1>2. \A n \in Makers : maker'[n] = IF n = m THEN AtRest ELSE maker[n]
  BY <1>1 DEF BkInv, BkTyped
<1>3. /\ ScopesStand /\ Healthy' = Healthy /\ IdsInTurn' /\ Untouched'
      /\ \A j : Made(j)' <=> Made(j)
      /\ files' \in [Ids -> FileRec]
  BY <1>1, FilesStand
<1>4. BkTyped'
  <2>1. maker' \in [Makers -> MakerRec]
    BY <1>1, MakerRests DEF BkInv, BkTyped
  <2> QED
    BY <1>1, <1>3, <2>1 DEF BkInv, BkTyped
<1>5. \A n \in Makers : maker'[n].pc # "idle" => maker'[n] = maker[n]
  BY <1>2, MakerRests
<1>6. \A n \in Makers : maker'[n].todo \subseteq maker[n].todo
  BY <1>2, MakerRests
<1>7. OwnIds' /\ TodoMade'
  <2>1. OwnIds'
    BY <1>3, <1>5 DEF BkInv, OwnIds
  <2>2. TodoMade'
    BY <1>3, <1>5, <1>6 DEF BkInv, TodoMade, Making
  <2> QED
    BY <2>1, <2>2
<1>8. UnderWork'
  <2> SUFFICES ASSUME NEW n \in Makers
               PROVE  WorkFits(maker'[n], files[maker'[n].id])
    BY <1>1 DEF UnderWork
  <2>1. CASE n = m
    BY <1>2, <2>1, MakerRests DEF WorkFits, Making
  <2>2. CASE n # m
    BY <1>2, <2>2 DEF BkInv, UnderWork
  <2> QED
    BY <2>1, <2>2
<1>9. "died" \notin harm' => maker[m].pc = "pruning" /\ maker[m].todo = {} /\ harm' = harm
  BY <1>1
<1>10. PartOwned' /\ DumpOwned' /\ Undamaged'
  <2>a. "died" \notin harm' => \A n \in Makers : maker[n].pc \in Making => maker'[n] = maker[n]
    BY <1>2, <1>9 DEF Making
  <2>1. PartOwned'
    <3> SUFFICES ASSUME harm' = {}, NEW j \in Ids, files[j].part
                 PROVE  \E n \in Makers : maker'[n].pc = "dumped" /\ maker'[n].id = j
      BY <1>1 DEF PartOwned
    <3> QED
      BY <1>9, <2>a DEF BkInv, PartOwned, Making
  <2>2. DumpOwned'
    <3> SUFFICES ASSUME "died" \notin harm', NEW j \in Ids, files[j].dump # "none", ~files[j].manifest
                 PROVE  \E n \in Makers : maker'[n].pc = "moved" /\ maker'[n].id = j
      BY <1>1 DEF DumpOwned
    <3> QED
      BY <1>9, <2>a DEF BkInv, DumpOwned, Making
  <2>3. Undamaged'
    BY <1>1 DEF BkInv, Undamaged
  <2> QED
    BY <2>1, <2>2, <2>3
<1>11. Expendable' /\ NewestSurvives'
  BY <1>1, <1>3, <1>6, <1>10, QuietKeeps
<1>12. LimitComes'
  <2>1. CASE harm' = {}
    <3>1. maker[m].pc = "pruning" /\ maker[m].todo = {}
      BY <1>9, <2>1
    <3>2. \A n \in Makers : /\ maker'[n].todo = maker[n].todo
                            /\ maker[n].pc = "written" => maker'[n].pc = "written" /\ maker'[n].id = maker[n].id
      BY <1>2, <3>1, MakerRests
    <3> QED
      BY <1>1, <1>3, <3>2, QuietLimit
  <2>2. CASE harm' # {}
    BY <2>2 DEF LimitComes
  <2> QED
    BY <2>1, <2>2
<1>13. DrillOK'
  BY <1>1, <1>3, <1>5 DEF BkInv, DrillOK
<1> QED
  BY <1>3, <1>4, <1>7, <1>8, <1>10, <1>11, <1>12, <1>13 DEF BkInv

LEMMA DamageKeeps == ASSUME BkInv, NEW i \in Ids, Damage(i) PROVE BkInv'
<1>1. /\ UNCHANGED <<live, today, maker, drill, bound, best>> /\ harm' = harm \cup {"damaged"}
      /\ files[i].dump = "whole"
  BY DEF Damage, Harmed
<1>2. PICK g \in FileRec : g = files[i]
  BY DEF BkInv, BkTyped
<1>3. PICK d \in {"short", "altered"} : files' = [files EXCEPT ![i] = [g EXCEPT !.dump = d]]
  BY <1>2 DEF Damage, OnDisk
<1>4. PICK f : f = [g EXCEPT !.dump = d]
  OBVIOUS
<1>5. /\ f \in FileRec /\ f.scope = g.scope /\ f.made = g.made /\ f.counted = g.counted /\ f.held = g.held
      /\ f.part = g.part /\ f.dump = d /\ f.manifest = g.manifest
  BY <1>4 DEF FileRec, DumpKinds
<1>6. \A j \in Ids : files'[j] = IF j = i THEN f ELSE files[j]
  BY <1>3, <1>4 DEF BkInv, BkTyped
<1>7. files' \in [Ids -> FileRec]
  BY <1>3, <1>4, <1>5 DEF BkInv, BkTyped
<1>8. BkTyped'
  BY <1>1, <1>7 DEF BkInv, BkTyped
<1>9. IdsInTurn' /\ \A j : Made(j)' <=> Made(j)
  <2>1. \A j \in Ids : files'[j].made = files[j].made
    BY <1>2, <1>5, <1>6
  <2> QED
    BY <1>7, <2>1, StartedStands
<1>10. Made(i)
  BY <1>1 DEF BkInv, Untouched
<1>11. Untouched'
  BY <1>6, <1>9, <1>10 DEF BkInv, Untouched
<1>12. OwnIds' /\ TodoMade'
  BY <1>1, <1>9 DEF BkInv, OwnIds, TodoMade
<1>13. UnderWork'
  <2> SUFFICES ASSUME NEW n \in Makers
               PROVE  WorkFits(maker[n], files'[maker[n].id])
    BY <1>1 DEF UnderWork
  <2>1. WorkFits(maker[n], files[maker[n].id])
    BY DEF BkInv, UnderWork
  <2>2. CASE maker[n].pc = "idle"
    BY <2>1, <2>2 DEF WorkFits, Making
  <2>3. CASE maker[n].pc # "idle"
    <3>1. maker[n].id \in Ids
      BY <2>3 DEF BkInv, OwnIds, Made
    <3>2. CASE maker[n].id = i
      BY <1>1, <1>2, <1>5, <1>6, <2>1, <3>1, <3>2 DEF WorkFits
    <3>3. CASE maker[n].id # i
      BY <1>6, <2>1, <3>1, <3>3
    <3> QED
      BY <3>2, <3>3
  <2> QED
    BY <2>2, <2>3
<1>14. PartOwned' /\ Undamaged' /\ Expendable' /\ NewestSurvives' /\ LimitComes'
  BY <1>1 DEF PartOwned, Undamaged, Expendable, NewestSurvives, LimitComes
<1>15. DumpOwned'
  <2>1. \A j \in Ids : /\ files'[j].manifest = files[j].manifest
                       /\ files'[j].dump # "none" => files[j].dump # "none"
    BY <1>1, <1>2, <1>5, <1>6
  <2> QED
    BY <1>1, <2>1 DEF BkInv, DumpOwned
<1>16. DrillOK'
  <2>1. /\ drill.pc # "idle" => Made(drill.id) /\ files'[drill.id].held = files[drill.id].held
        /\ drill.pc # "idle" => files'[drill.id].counted = files[drill.id].counted
    BY <1>2, <1>5, <1>6 DEF BkInv, DrillOK, Made
  <2> QED
    BY <1>1, <1>9, <2>1 DEF BkInv, DrillOK, Made
<1> QED
  BY <1>8, <1>9, <1>11, <1>12, <1>13, <1>14, <1>15, <1>16 DEF BkInv

\* A step that touches neither files nor makers keeps everything but the drill
LEMMA AsideKeeps ==
    ASSUME BkInv, UNCHANGED <<files, maker, bound, harm, best>>, BkTyped', DrillOK'
    PROVE  BkInv'
<1>1. /\ ScopesStand /\ Healthy' = Healthy /\ IdsInTurn' /\ Untouched'
      /\ \A j : Made(j)' <=> Made(j)
      /\ files' \in [Ids -> FileRec]
  BY FilesStand
<1>2. OwnIds' /\ UnderWork' /\ TodoMade'
  BY <1>1 DEF BkInv, OwnIds, UnderWork, TodoMade
<1>3. PartOwned' /\ DumpOwned' /\ Undamaged'
  BY DEF BkInv, PartOwned, DumpOwned, Undamaged
<1>4. Expendable' /\ NewestSurvives'
  BY <1>1, <1>3, QuietKeeps
<1>5. LimitComes'
  BY <1>1, QuietLimit
<1> QED
  BY <1>1, <1>2, <1>3, <1>4, <1>5 DEF BkInv

\* What a drill says of a failure
LEMMA DrillFailsTyped ==
    ASSUME NEW target \in BOOLEAN, DrillFails(target)
    PROVE  drill' \in DrillRec /\ drill'.pc = "idle" /\ drill'.failed
<1>1. PICK z \in DrillRec : z = NoDrill /\ z.pc = "idle"
  BY NoDrillTyped
<1>2. drill' = [z EXCEPT !.target = target, !.failed = TRUE]
  BY <1>1 DEF DrillFails, Drill
<1> QED
  BY <1>1, <1>2 DEF DrillRec

LEMMA DrillsKeep ==
    ASSUME BkInv, (\E i \in Ids : DrillBegins(i)) \/ DrillStep \/ DropTarget \/ Books \/ Night \/ UNCHANGED bkVars
    PROVE  BkInv'
<1>1. PICK d \in DrillRec : d = drill
  BY DEF BkInv, BkTyped
<1>2. PICK z \in DrillRec : z = NoDrill /\ z.pc = "idle" /\ ~z.target
  BY NoDrillTyped
<1>3. \A j \in Ids : files[j] \in FileRec
  BY DEF BkInv, BkTyped
<1>4. UNCHANGED <<files, maker, bound, harm, best>>
  BY DEF DrillBegins, DrillStep, DrillLoads, DrillVerifies, DrillCleans, DropTarget, Books, Night, bkVars
<1>5. \A j : Made(j)' <=> Made(j)
  BY <1>4, FilesStand
<1>6. ASSUME UNCHANGED <<live, today>>, drill' \in DrillRec, DrillOK'
      PROVE  BkInv'
  <2>1. BkTyped'
    BY <1>4, <1>6 DEF BkInv, BkTyped
  <2> QED
    BY <1>4, <1>6, <2>1, AsideKeeps
<1>7. ASSUME UNCHANGED <<live, today>>, drill' \in DrillRec, drill'.pc = "idle", drill'.target => drill'.failed
      PROVE  BkInv'
  <2>1. DrillOK'
    BY <1>7 DEF DrillOK
  <2> QED
    BY <1>6, <1>7, <2>1
<1>8. ASSUME NEW target \in BOOLEAN, DrillFails(target), UNCHANGED <<live, today>>
      PROVE  BkInv'
  BY <1>7, <1>8, DrillFailsTyped
<1>9. ASSUME NEW i \in Ids, DrillBegins(i)
      PROVE  BkInv'
  <2>1. UNCHANGED <<live, today>> /\ files[i].manifest
    BY <1>9 DEF DrillBegins
  <2>2. CASE files[i].dump = "whole"
    <3>1. drill' = [z EXCEPT !.pc = "verified", !.id = i]
      BY <1>2, <1>9, <2>2 DEF DrillBegins, Drill
    <3>2. i \in 0..MaxBackups
      BY BackupAssumption DEF Ids
    <3>3. drill' \in DrillRec /\ drill'.pc = "verified" /\ drill'.id = i
      BY <3>1, <3>2 DEF DrillRec
    <3>4. Made(i) /\ \A m \in Makers : maker[m].pc = "counted" => maker[m].id # i
      BY <2>1 DEF BkInv, Untouched, UnderWork, WorkFits, Making
    <3>5. DrillOK'
      BY <1>4, <1>5, <3>3, <3>4 DEF DrillOK
    <3> QED
      BY <1>6, <2>1, <3>3, <3>5
  <2>3. CASE files[i].dump # "whole"
    <3>1. DrillFails(FALSE)
      BY <1>9, <2>3 DEF DrillBegins
    <3> QED
      BY <1>8, <2>1, <3>1
  <2> QED
    BY <2>2, <2>3
<1>10. ASSUME DrillLoads
       PROVE  BkInv'
  <2>1. UNCHANGED <<live, today>> /\ drill.pc = "verified"
    BY <1>10 DEF DrillLoads
  <2>2. drill.id \in Ids /\ Made(drill.id)
    BY <2>1 DEF BkInv, DrillOK, Made
  <2>3. CASE files[drill.id].dump \in {"none", "short"}
    <3>1. DrillFails(TRUE)
      BY <1>10, <2>3 DEF DrillLoads
    <3> QED
      BY <1>8, <2>1, <3>1
  <2>4. CASE files[drill.id].dump \notin {"none", "short"}
    <3>1. PICK g \in FileRec : g = files[d.id]
      BY <1>1, <1>3, <2>2
    <3>2. drill' = [d EXCEPT !.pc = "loaded", !.target = TRUE, !.version = g.held, !.sound = g.dump = "whole"]
      BY <1>1, <1>10, <2>4, <3>1 DEF DrillLoads, Drill
    <3>3. drill' \in DrillRec /\ drill'.pc = "loaded" /\ drill'.id = d.id /\ drill'.version = g.held
      BY <3>2 DEF DrillRec, FileRec
    <3>4. DrillOK'
      BY <1>1, <1>4, <1>5, <2>1, <2>2, <3>1, <3>3 DEF BkInv, DrillOK
    <3> QED
      BY <1>6, <2>1, <3>3, <3>4
  <2> QED
    BY <2>3, <2>4
<1>11. ASSUME DrillVerifies
       PROVE  BkInv'
  <2>1. UNCHANGED <<live, today>> /\ drill.pc = "loaded"
    BY <1>11 DEF DrillVerifies
  <2>2. CASE Matches
    <3>1. drill' = [d EXCEPT !.pc = "passed"]
      BY <1>1, <1>11, <2>2 DEF DrillVerifies, Drill
    <3>2. /\ drill' \in DrillRec /\ drill'.pc = "passed" /\ drill'.id = d.id
          /\ drill'.version = d.version /\ drill'.sound = d.sound
      BY <3>1 DEF DrillRec
    <3>3. DrillOK'
      BY <1>1, <1>4, <1>5, <2>1, <2>2, <3>2 DEF BkInv, DrillOK, Matches
    <3> QED
      BY <1>6, <2>1, <3>2, <3>3
  <2>3. CASE ~Matches
    <3>1. DrillFails(TRUE)
      BY <1>11, <2>3 DEF DrillVerifies
    <3> QED
      BY <1>8, <2>1, <3>1
  <2> QED
    BY <2>2, <2>3
<1>12. ASSUME DrillCleans
       PROVE  BkInv'
  <2>1. UNCHANGED <<live, today>> /\ drill' = [z EXCEPT !.target = FALSE]
    BY <1>2, <1>12 DEF DrillCleans, Drill, DropsCopy
  <2>2. drill' \in DrillRec /\ drill'.pc = "idle" /\ ~drill'.target
    BY <1>2, <2>1 DEF DrillRec
  <2> QED
    BY <1>7, <2>1, <2>2
<1>13. ASSUME DropTarget
       PROVE  BkInv'
  <2>1. UNCHANGED <<live, today>> /\ drill' = z
    BY <1>2, <1>13 DEF DropTarget, Drill
  <2> QED
    BY <1>2, <1>7, <2>1
<1>14. ASSUME Books \/ Night \/ UNCHANGED bkVars
       PROVE  BkInv'
  <2>1. drill' = drill
    BY <1>14 DEF Books, Night, bkVars
  <2>2. BkTyped'
    <3>1. live \in 1..MaxWrites /\ today \in 1..MaxDays /\ bound.writes \in 0..MaxWrites
      BY BackupAssumption DEF BkInv, BkTyped
    <3>2. live' \in 1..MaxWrites /\ today' \in 1..MaxDays
      BY <1>14, <3>1, BackupAssumption DEF Books, Night, bkVars
    <3> QED
      BY <1>4, <2>1, <3>2 DEF BkInv, BkTyped
  <2>3. DrillOK'
    BY <1>4, <1>5, <2>1 DEF BkInv, DrillOK
  <2> QED
    BY <1>4, <2>2, <2>3, AsideKeeps
<1> QED
  BY <1>9, <1>10, <1>11, <1>12, <1>13, <1>14 DEF DrillStep

LEMMA BackupsStep == BkInv /\ [BkNext]_bkVars => BkInv'
<1> SUFFICES ASSUME BkInv, [BkNext]_bkVars
             PROVE  BkInv'
  OBVIOUS
<1>1. ASSUME NEW m \in Makers, (\E s \in Scopes : Begin(m, s)) \/ MakerStep(m) \/ DumpFails(m) \/ MakerDies(m)
      PROVE  BkInv'
  <2>1. ASSUME NEW s \in Scopes, Begin(m, s)
        PROVE  BkInv'
    BY <2>1, BeginKeeps
  <2>2. ASSUME Verify(m)
        PROVE  BkInv'
    BY <2>2, VerifiedKeeps, DiscardedKeeps
  <2>3. ASSUME Dump(m) \/ Move(m) \/ WriteManifest(m) \/ PruneStep(m) \/ DumpFails(m)
        PROVE  BkInv'
    BY <2>3, DumpKeeps, MoveKeeps, WriteManifestKeeps, PruneKeeps, DumpFailsKeeps
  <2>4. ASSUME Finished(m) \/ MakerDies(m)
        PROVE  BkInv'
    BY <2>4, RestsKeeps
  <2> QED
    BY <1>1, <2>1, <2>2, <2>3, <2>4 DEF MakerStep
<1>2. ASSUME NEW i \in Ids, Damage(i)
      PROVE  BkInv'
  BY <1>2, DamageKeeps
<1>3. CASE (\E i \in Ids : DrillBegins(i)) \/ DrillStep \/ DropTarget \/ Books \/ Night \/ UNCHANGED bkVars
  BY <1>3, DrillsKeep
<1> QED
  BY <1>1, <1>2, <1>3 DEF BkNext

\* Backups: the newest complete one of a scope can be restored whatever was pruned and whoever
\* died, no dump is lost from sight, retention keeps to its limit, and a drill that passes has
\* restored what was counted
THEOREM BackupsCorrect == BkSpec => []BackupsHonest
<1>1. BkInit => BkInv
  BY BackupsInit
<1>2. BkInv /\ [BkNext]_bkVars => BkInv'
  BY BackupsStep
<1>3. BkInv => BackupsHonest
  BY BackupsKept
<1> QED
  BY <1>1, <1>2, <1>3, PTL DEF BkSpec

-----------------------------------------------------------------------------
(* The bars of the shares: the invariant                                   *)

FillerPcs == {"idle", "universe", "listing", "shares", "fetching", "replacing", "storing", "recording", "ended"}
FillerRec ==
    [pc : FillerPcs, full : BOOLEAN, markets : Seq(STRING), dates : SUBSET (0..MaxDates), found : BOOLEAN,
     todo : Seq(Shares), target : Nat, whole : BOOLEAN, rows : SUBSET Nat, clean : BOOLEAN]
BarStates == {"none", "running", "success", "empty", "failed"}

HbTyped ==
    /\ tradingDay \in 1..MaxDates
    /\ traded \in [Shares -> SUBSET (1..tradingDay)]
    /\ universe \in [Shares -> [active : BOOLEAN, seen : Nat]]
    /\ bars \in [Shares -> SUBSET Nat] /\ stored \in [Shares -> SUBSET Nat]
    /\ status \in [Shares -> [state : BarStates, success : 0..tradingDay]]
    /\ filler \in [Runners -> FillerRec]

\* Nothing is known of a day a share was not traded on, and some share is traded every day
OfTradedDays ==
    /\ \A s \in Shares : bars[s] \cup stored[s] \subseteq traded[s] /\ universe[s].seen \in traded[s] \cup {0}
    /\ \A s \in Shares \ MayLeave : Listed(s)

\* Rows that were fetched are all the days of their range the share was traded on
OnShare == {"fetching", "replacing", "storing", "recording"}
RowsWhole(x) ==
    /\ x.pc \in OnShare => x.todo # <<>>
    /\ x.pc \in {"replacing", "storing"} =>
          /\ x.rows # {} /\ x.rows \subseteq traded[Head(x.todo)]
          /\ traded[Head(x.todo)] \cap (Least(x.rows)..Greatest(x.rows)) \subseteq x.rows
RowsFit == \A p \in Runners : RowsWhole(filler[p])

\* How far a run has come in which nothing went wrong and nothing else changed
Ahead(markets, s) == \E i \in DOMAIN markets : markets[i] = MarketOf[s]
Taken(x, s) == Listed(s) => universe[s] = [active |-> TRUE, seen |-> tradingDay] /\ x.found
Surveyed(x) ==
    /\ x.dates \subseteq {tradingDay}
    /\ \A s \in Shares : Ahead(x.markets, s) \/ (x.dates = {tradingDay} /\ Taken(x, s))
ActiveAreListed == \A s \in Shares : universe[s].active <=> Listed(s)
ToDo(x) == {x.todo[i] : i \in DOMAIN x.todo}
UpToDate(s) == Listed(s) => tradingDay \in bars[s]
OnlyToDo(x) == \A s \in Shares \ ToDo(x) : UpToDate(s)
RowsOfToday(x) ==
    /\ x.pc \in {"replacing", "storing"} => (Listed(Head(x.todo)) => tradingDay \in x.rows)
    /\ x.pc = "recording" => UpToDate(Head(x.todo))
Progress(x) ==
    CASE x.pc = "universe" -> Surveyed(x)
      [] x.pc = "listing" -> x.target = tradingDay /\ ActiveAreListed
      [] x.pc = "ended" -> ActiveAreListed /\ \A s \in Shares : UpToDate(s)
      [] OTHER -> ActiveAreListed /\ OnlyToDo(x) /\ RowsOfToday(x)
Undisturbed ==
    \A p \in Runners : filler[p].clean =>
       /\ filler[p].pc # "idle" /\ Progress(filler[p])
       /\ \A q \in Runners \ {p} : ~AtWork(q)

HbInv == HbTyped /\ OfTradedDays /\ RowsFit /\ StoredStays /\ Undisturbed

-----------------------------------------------------------------------------
LEMMA HbConstants ==
    /\ Period \in Nat \ {0} /\ MaxDates \in Nat \ {0} /\ IsFiniteSet(Shares) /\ TaiwanMarkets \in Seq(STRING)
    /\ \A s \in Shares : Ahead(TaiwanMarkets, s)
  BY BackfillAssumption DEF Ahead

\* What is left of a sequence once its first element is done
LEMMA TailIs ==
    ASSUME NEW T, NEW q \in Seq(T), q # <<>>
    PROVE  /\ Tail(q) \in Seq(T) /\ Head(q) \in T
           /\ \A i \in DOMAIN q : q[i] = Head(q) \/ \E j \in DOMAIN Tail(q) : Tail(q)[j] = q[i]
           /\ \A j \in DOMAIN Tail(q) : \E i \in DOMAIN q : q[i] = Tail(q)[j]
           /\ \E i \in DOMAIN q : q[i] = Head(q)
  <1>1. Len(q) \in Nat \ {0} /\ Head(q) = q[1] /\ q[1] \in T /\ Tail(q) \in Seq(T) /\ Len(Tail(q)) = Len(q) - 1
        /\ DOMAIN q = 1..Len(q) /\ DOMAIN Tail(q) = 1..Len(Tail(q))
    OBVIOUS
  <1>2. \A i \in DOMAIN Tail(q) : i + 1 \in DOMAIN q /\ Tail(q)[i] = q[i + 1]
    BY <1>1
  <1>3. \A i \in DOMAIN q : i = 1 \/ (i - 1 \in DOMAIN Tail(q) /\ Tail(q)[i - 1] = q[i])
    BY <1>1
  <1>4. 1 \in DOMAIN q
    BY <1>1
  <1> QED
    BY <1>1, <1>2, <1>3, <1>4

\* The latest bar of a share is none, or one it has, and none is later
LEMMA LatestIs ==
    ASSUME HbTyped, OfTradedDays, NEW s \in Shares
    PROVE  /\ Latest(s) \in 0..tradingDay /\ Latest(s) \in bars[s] \cup {0}
           /\ \A d \in bars[s] : d <= Latest(s)
  <1>1. tradingDay \in Nat /\ bars[s] \subseteq 1..tradingDay
    BY HbConstants DEF HbTyped, OfTradedDays
  <1> DEFINE S == bars[s] \cup {0}
  <1>2. S \in SUBSET (0..tradingDay) /\ S # {}
    BY <1>1
  <1> HIDE DEF S
  <1>3. Greatest(S) \in S /\ \A x \in S : x <= Greatest(S)
    BY <1>1, <1>2, GreatestExists
  <1> QED
    BY <1>2, <1>3 DEF Latest, S

\* The range of rows of days up to today
LEMMA RangeIs ==
    ASSUME NEW n \in Nat, NEW R \in SUBSET (1..n), R # {}
    PROVE  /\ Least(R) \in R /\ Greatest(R) \in R /\ R \subseteq Least(R)..Greatest(R)
           /\ Least(R)..Greatest(R) \subseteq 1..n
  <1>1. R \in SUBSET Nat /\ R \in SUBSET (0..n)
    OBVIOUS
  <1>2. Least(R) \in R /\ \A x \in R : Least(R) <= x
    BY <1>1, LeastExists
  <1>3. Greatest(R) \in R /\ \A x \in R : x <= Greatest(R)
    BY <1>1, GreatestExists
  <1> DEFINE l == Least(R)
             g == Greatest(R)
  <1> HIDE DEF l, g
  <1>4. l \in R /\ g \in R /\ \A x \in R : l <= x /\ x <= g
    BY <1>2, <1>3 DEF l, g
  <1>5. R \subseteq l..g /\ l..g \subseteq 1..n
    BY <1>4
  <1> QED
    BY <1>4, <1>5 DEF l, g

\* A run that is not at work has nothing in hand
LEMMA OffTyped ==
    ASSUME NEW pc \in FillerPcs, NEW clean \in BOOLEAN
    PROVE  /\ FillerOff(pc, clean) \in FillerRec /\ FillerOff(pc, clean).pc = pc
           /\ FillerOff(pc, clean).clean = clean /\ FillerOff(pc, clean).todo = <<>>
           /\ FillerOff(pc, clean).dates = {} /\ FillerOff(pc, clean).markets = <<>>
  <1>1. <<>> \in Seq(STRING) /\ <<>> \in Seq(Shares)
    OBVIOUS
  <1> QED
    BY <1>1 DEF FillerOff, FillerRec

\* Only one run's work changes: what is to be shown of it and of the bars
FillerStep(p, x) == x \in FillerRec /\ filler' = [filler EXCEPT ![p] = x]

\* While a run is at work nothing else that is clean is
LEMMA OthersNotClean ==
    ASSUME Undisturbed, NEW p \in Runners, AtWork(p)
    PROVE  \A q \in Runners \ {p} : ~filler[q].clean
  BY DEF Undisturbed

\* A step of a run at work keeps the runs undisturbed if it keeps its own progress
LEMMA UndisturbedBy ==
    ASSUME HbTyped, Undisturbed, NEW p \in Runners, AtWork(p), NEW x, FillerStep(p, x),
           x.clean => filler[p].clean /\ x.pc # "idle" /\ Progress(x)'
    PROVE  Undisturbed'
  <1>1. filler \in [Runners -> FillerRec]
    BY DEF HbTyped
  <1>2. filler'[p] = x /\ \A q \in Runners \ {p} : filler'[q] = filler[q]
    BY <1>1 DEF FillerStep
  <1>3. \A q \in Runners \ {p} : ~filler[q].clean
    BY OthersNotClean
  <1>4. x.clean => \A q \in Runners \ {p} : ~AtWork(q)
    BY DEF Undisturbed
  <1>5. \A q \in Runners \ {p} : (~AtWork(q) => ~AtWork(q)')
    BY <1>2 DEF AtWork
  <1> SUFFICES ASSUME NEW q \in Runners, filler'[q].clean
               PROVE  /\ filler'[q].pc # "idle" /\ Progress(filler[q])'
                      /\ \A r \in Runners \ {q} : ~AtWork(r)'
    BY DEF Undisturbed
  <1>6. q = p
    BY <1>2, <1>3
  <1> HIDE DEF Progress
  <1> QED
    BY <1>2, <1>4, <1>5, <1>6

\* The rows of the other runs stay whole
LEMMA RowsFitBy ==
    ASSUME HbTyped, RowsFit, NEW p \in Runners, NEW x, FillerStep(p, x), UNCHANGED traded, RowsWhole(x)
    PROVE  RowsFit'
  <1>1. filler \in [Runners -> FillerRec]
    BY DEF HbTyped
  <1>2. filler'[p] = x /\ \A q \in Runners \ {p} : filler'[q] = filler[q]
    BY <1>1 DEF FillerStep
  <1> SUFFICES ASSUME NEW q \in Runners PROVE RowsWhole(filler[q])'
    BY DEF RowsFit
  <1>3. CASE q = p
    BY <1>2, <1>3 DEF RowsWhole
  <1>4. CASE q # p
    BY <1>2, <1>4 DEF RowsWhole, RowsFit
  <1> QED
    BY <1>3, <1>4

\* Bars that are neither deleted nor stored stay, for whom nobody leaves off storing
LEMMA StoredStaysBy ==
    ASSUME HbTyped, StoredStays, NEW p \in Runners, ~Doing(p, "storing"), NEW x, FillerStep(p, x),
           UNCHANGED <<bars, stored>>
    PROVE  StoredStays'
  <1>1. filler \in [Runners -> FillerRec]
    BY DEF HbTyped
  <1>2. \A q \in Runners \ {p} : filler'[q] = filler[q]
    BY <1>1 DEF FillerStep
  <1> SUFFICES ASSUME NEW s \in Shares, NEW d \in stored[s] \ bars[s]
               PROVE  \E q \in Runners : (Doing(q, "storing") /\ Share(q) = s /\ d \in Replaced(q))'
    BY DEF StoredStays
  <1>3. PICK q \in Runners : Doing(q, "storing") /\ Share(q) = s /\ d \in Replaced(q)
    BY DEF StoredStays
  <1>4. q # p
    BY <1>3
  <1> QED
    BY <1>2, <1>3, <1>4 DEF Doing, Share, Replaced

UniverseOK ==
    /\ universe \in [Shares -> [active : BOOLEAN, seen : Nat]]
    /\ \A s \in Shares : universe[s].seen \in traded[s] \cup {0}
BarsOK ==
    /\ bars \in [Shares -> SUBSET Nat] /\ stored \in [Shares -> SUBSET Nat]
    /\ \A s \in Shares : bars[s] \cup stored[s] \subseteq traded[s]
StatusOK == status \in [Shares -> [state : BarStates, success : 0..tradingDay]]
GoesOn(p, x) ==
    /\ FillerStep(p, x) /\ RowsWhole(x) /\ UNCHANGED <<tradingDay, traded>>
    /\ x.clean => filler[p].clean /\ x.pc # "idle" /\ Progress(x)'

\* What a step of a run at work has to see to
LEMMA WorkKeeps ==
    ASSUME HbInv, NEW p \in Runners, AtWork(p), NEW x, GoesOn(p, x),
           UniverseOK', BarsOK', StatusOK', StoredStays'
    PROVE  HbInv'
  <1>1. Undisturbed'
    BY UndisturbedBy DEF HbInv, GoesOn
  <1>2. RowsFit'
    BY RowsFitBy DEF HbInv, GoesOn
  <1>3. filler' \in [Runners -> FillerRec]
    BY DEF HbInv, HbTyped, GoesOn, FillerStep
  <1>4. HbTyped'
    BY <1>3 DEF HbInv, HbTyped, GoesOn, UniverseOK, BarsOK, StatusOK
  <1>5. OfTradedDays'
    BY DEF HbInv, OfTradedDays, GoesOn, UniverseOK, BarsOK, Listed
  <1> QED
    BY <1>1, <1>2, <1>4, <1>5 DEF HbInv

\* The tables keep their types
LEMMA TablesOK == HbInv => UniverseOK /\ BarsOK /\ StatusOK
  BY DEF HbInv, HbTyped, OfTradedDays, UniverseOK, BarsOK, StatusOK

\* The fields of a run
LEMMA FillerFields ==
    ASSUME NEW x, x \in FillerRec
    PROVE  /\ x.pc \in FillerPcs /\ x.full \in BOOLEAN /\ x.markets \in Seq(STRING) /\ x.dates \in SUBSET (0..MaxDates)
           /\ x.found \in BOOLEAN /\ x.todo \in Seq(Shares) /\ x.target \in Nat /\ x.whole \in BOOLEAN
           /\ x.rows \in SUBSET Nat /\ x.clean \in BOOLEAN
  BY DEF FillerRec

\* A run's own fields, and its rows are whole
LEMMA FillerOf == ASSUME HbInv, NEW p \in Runners PROVE filler[p] \in FillerRec /\ RowsWhole(filler[p])
  BY DEF HbInv, HbTyped, RowsFit

\* What a clean run has come to
LEMMA ProgressOf ==
    ASSUME HbInv, NEW p \in Runners, filler[p].clean PROVE Progress(filler[p])
  BY DEF HbInv, Undisturbed

\* A run begins: it knows the days to list, and nothing yet of the shares
LEMMA BeginsKeeps == ASSUME HbInv, NEW p \in Runners, BackfillBegins(p) PROVE HbInv'
  <1> DEFINE off == FillerOff("universe", \A o \in Runners : ~AtWork(o))
  <1>1. PICK full \in BOOLEAN :
           filler' = [q \in Runners |->
              IF q = p THEN [off EXCEPT !.full = full, !.markets = TaiwanMarkets]
              ELSE [filler[q] EXCEPT !.clean = FALSE]]
    BY DEF BackfillBegins
  <1>2. UNCHANGED <<tradingDay, traded, universe, bars, status, stored>> /\ ~AtWork(p)
    BY DEF BackfillBegins
  <1>3. /\ off \in FillerRec /\ off.pc = "universe" /\ off.dates = {}
        /\ off.clean = (\A o \in Runners : ~AtWork(o))
    BY OffTyped DEF FillerPcs
  <1> HIDE DEF off
  <1>b. PICK b : b = [off EXCEPT !.full = full, !.markets = TaiwanMarkets]
    OBVIOUS
  <1>4. b \in FillerRec /\ b.pc = "universe" /\ b.dates = {} /\ b.markets = TaiwanMarkets /\ b.clean = off.clean
    BY <1>b, <1>3, HbConstants DEF FillerRec
  <1>5. /\ filler'[p] = b
        /\ \A q \in Runners \ {p} : filler'[q] = [filler[q] EXCEPT !.clean = FALSE]
    BY <1>1, <1>b
  <1>6. \A q \in Runners \ {p} : /\ filler'[q] \in FillerRec /\ filler'[q].pc = filler[q].pc /\ ~filler'[q].clean
                                 /\ filler'[q].todo = filler[q].todo /\ filler'[q].rows = filler[q].rows
    <2> SUFFICES ASSUME NEW q \in Runners \ {p}
                 PROVE  /\ filler'[q] \in FillerRec /\ filler'[q].pc = filler[q].pc /\ ~filler'[q].clean
                        /\ filler'[q].todo = filler[q].todo /\ filler'[q].rows = filler[q].rows
      OBVIOUS
    <2>1. filler'[q] = [filler[q] EXCEPT !.clean = FALSE] /\ filler[q] \in FillerRec
      BY <1>5, FillerOf
    <2> QED
      BY <2>1 DEF FillerRec
  <1>7. filler' \in [Runners -> FillerRec]
    <2>1. \A q \in Runners : filler'[q] \in FillerRec
      BY <1>4, <1>5, <1>6
    <2>2. filler' = [q \in Runners |-> filler'[q]]
      BY <1>1
    <2> QED
      BY <2>1, <2>2
  <1>8. HbTyped'
    BY <1>2, <1>7 DEF HbInv, HbTyped
  <1>9. OfTradedDays'
    BY <1>2 DEF HbInv, OfTradedDays, Listed
  <1>10. RowsFit'
    <2> SUFFICES ASSUME NEW q \in Runners PROVE RowsWhole(filler[q])'
      BY DEF RowsFit
    <2>1. CASE q = p
      BY <2>1, <1>4, <1>5 DEF RowsWhole, OnShare
    <2>2. CASE q # p
      BY <2>2, <1>2, <1>6, FillerOf DEF RowsWhole
    <2> QED
      BY <2>1, <2>2
  <1>11. StoredStays'
    <2> SUFFICES ASSUME NEW s \in Shares, NEW d \in stored[s] \ bars[s]
                 PROVE  \E q \in Runners : (Doing(q, "storing") /\ Share(q) = s /\ d \in Replaced(q))'
      BY <1>2 DEF StoredStays
    <2>1. PICK q \in Runners : Doing(q, "storing") /\ Share(q) = s /\ d \in Replaced(q)
      BY DEF HbInv, StoredStays
    <2>2. q # p
      BY <2>1, <1>2 DEF Doing, AtWork
    <2> QED
      BY <1>6, <2>1, <2>2 DEF Doing, Share, Replaced
  <1>12. Undisturbed'
    <2> SUFFICES ASSUME NEW q \in Runners, filler'[q].clean
                 PROVE  /\ filler'[q].pc # "idle" /\ Progress(filler[q])'
                        /\ \A r \in Runners \ {q} : ~AtWork(r)'
      BY DEF Undisturbed
    <2>1. q = p
      BY <1>6
    <2>2. \A r \in Runners \ {p} : ~AtWork(r)'
      BY <1>3, <1>4, <1>5, <1>6, <2>1 DEF AtWork
    <2>3. Surveyed(b)'
      BY <1>4, HbConstants DEF Surveyed, Ahead
    <2>4. Progress(b)'
      BY <1>4, <2>3 DEF Progress
    <2>5. Progress(filler[p])'
      <3> HIDE DEF Progress
      <3> QED
        BY <1>5, <2>4
    <2> QED
      BY <1>4, <1>5, <2>1, <2>2, <2>5
  <1> QED
    BY <1>8, <1>9, <1>10, <1>11, <1>12 DEF HbInv

\* A day is listed: the shares traded on it are active
LEMMA SnapshotKeeps == ASSUME HbInv, NEW p \in Runners, Snapshot(p) PROVE HbInv'
  <1> DEFINE f == filler[p]
  <1>1. f.pc = "universe" /\ f.markets # <<>> /\ UNCHANGED <<tradingDay, traded, bars, status, stored>>
    BY DEF Snapshot, Doing
  <1>2. PICK d \in {tradingDay, tradingDay - 1} \ {0} :
           /\ universe' = [s \in Shares |-> IF s \in RowsOf(p, d) THEN [active |-> TRUE, seen |-> d] ELSE universe[s]]
           /\ filler' = [filler EXCEPT ![p].markets = Tail(@), ![p].dates = @ \cup {d},
                                       ![p].found = filler[p].found \/ RowsOf(p, d) # {},
                                       ![p].clean = filler[p].clean /\ d = tradingDay]
    BY DEF Snapshot
  <1>x. PICK x : x = [f EXCEPT !.markets = Tail(@), !.dates = @ \cup {d},
                               !.found = f.found \/ RowsOf(p, d) # {}, !.clean = f.clean /\ d = tradingDay]
    OBVIOUS
  <1>3. f \in FillerRec /\ f.markets \in Seq(STRING)
    BY FillerOf, FillerFields
  <1>4. d \in Nat /\ tradingDay \in Nat /\ d \in 0..MaxDates
    BY HbConstants DEF HbInv, HbTyped
  <1>5. /\ x \in FillerRec /\ x.pc = "universe" /\ x.markets = Tail(f.markets) /\ x.dates = f.dates \cup {d}
        /\ x.found = (f.found \/ RowsOf(p, d) # {}) /\ x.clean = (f.clean /\ d = tradingDay)
    <2>1. Tail(f.markets) \in Seq(STRING)
      BY <1>1, <1>3, TailIs
    <2> DEFINE t == Tail(f.markets)
               g == f.found \/ RowsOf(p, d) # {}
               c == f.clean /\ d = tradingDay
    <2>2. g \in BOOLEAN /\ c \in BOOLEAN
      OBVIOUS
    <2>3. x = [f EXCEPT !.markets = t, !.dates = @ \cup {d}, !.found = g, !.clean = c]
      BY <1>x
    <2> HIDE DEF t, g, c, f
    <2>4. x \in FillerRec /\ x.pc = f.pc /\ x.markets = t /\ x.dates = f.dates \cup {d} /\ x.found = g /\ x.clean = c
      BY <1>3, <1>4, <2>1, <2>2, <2>3 DEF FillerRec, t
    <2> QED
      BY <1>1, <2>4 DEF t, g, c
  <1>6. filler' = [filler EXCEPT ![p] = x]
    BY <1>2, <1>x
  <1>7. UniverseOK'
    <2> DEFINE r == [active |-> TRUE, seen |-> d]
    <2>1. r \in [active : BOOLEAN, seen : Nat] /\ r.seen = d
      BY <1>4
    <2>2. universe \in [Shares -> [active : BOOLEAN, seen : Nat]] /\ \A s \in Shares : universe[s].seen \in traded[s] \cup {0}
      BY TablesOK DEF UniverseOK
    <2>3. \A s \in RowsOf(p, d) : d \in traded[s]
      BY DEF RowsOf
    <2> HIDE DEF r
    <2>4. universe' = [s \in Shares |-> IF s \in RowsOf(p, d) THEN r ELSE universe[s]]
      BY <1>2 DEF r
    <2> QED
      BY <1>1, <2>1, <2>2, <2>3, <2>4 DEF UniverseOK
  <1>8. BarsOK' /\ StatusOK'
    BY <1>1, TablesOK DEF BarsOK, StatusOK
  <1>9. StoredStays'
    BY <1>1, <1>5, <1>6, StoredStaysBy DEF HbInv, FillerStep, Doing
  <1>10. ASSUME x.clean PROVE f.clean /\ Surveyed(x)'
    <2>1. f.clean /\ d = tradingDay
      BY <1>5, <1>10
    <2>2. Surveyed(f)
      BY <1>1, <2>1, ProgressOf DEF Progress
    <2>3. x.dates = {tradingDay}
      BY <1>5, <2>1, <2>2 DEF Surveyed
    <2>4. ASSUME NEW s \in Shares, ~Ahead(x.markets, s) PROVE Taken(x, s)'
      <3> SUFFICES ASSUME Listed(s) PROVE universe'[s] = [active |-> TRUE, seen |-> tradingDay] /\ x.found
        <4>1. tradingDay' = tradingDay /\ Listed(s)' = Listed(s)
          BY <1>1 DEF Listed
        <4> QED
          BY <4>1 DEF Taken
      <3>1. CASE MarketOf[s] = Head(f.markets)
        <4>1. s \in RowsOf(p, d)
          BY <2>1, <3>1 DEF RowsOf, Listed
        <4> QED
          BY <1>2, <1>5, <2>1, <4>1
      <3>2. CASE MarketOf[s] # Head(f.markets)
        <4>1. ~Ahead(f.markets, s)
          <5> SUFFICES ASSUME NEW i \in DOMAIN f.markets, f.markets[i] = MarketOf[s] PROVE FALSE
            BY DEF Ahead
          <5>1. f.markets[i] = Head(f.markets) \/ \E j \in DOMAIN Tail(f.markets) : Tail(f.markets)[j] = f.markets[i]
            BY <1>1, <1>3, TailIs
          <5> QED
            BY <1>5, <2>4, <3>2, <5>1 DEF Ahead
        <4>2. universe[s] = [active |-> TRUE, seen |-> tradingDay] /\ f.found
          BY <2>2, <4>1 DEF Surveyed, Taken
        <4>3. s \notin RowsOf(p, d)
          BY <3>2 DEF RowsOf
        <4> QED
          BY <1>2, <1>5, <4>2, <4>3
      <3> QED
        BY <3>1, <3>2
    <2> QED
      BY <1>1, <2>1, <2>3, <2>4 DEF Surveyed, Ahead
  <1>11. x.clean => filler[p].clean /\ x.pc # "idle" /\ Progress(x)'
    <2>1. Surveyed(x)' => Progress(x)'
      BY <1>5 DEF Progress
    <2> HIDE DEF Progress, Surveyed
    <2> QED
      BY <1>5, <1>10, <2>1
  <1>12. GoesOn(p, x)
    BY <1>1, <1>5, <1>6, <1>11 DEF GoesOn, FillerStep, RowsWhole, OnShare
  <1> QED
    BY <1>1, <1>7, <1>8, <1>9, <1>12, WorkKeeps DEF AtWork

\* A day is not listed: the run is no longer clean
LEMMA NoSnapshotKeeps == ASSUME HbInv, NEW p \in Runners, NoSnapshot(p) PROVE HbInv'
  <1> DEFINE f == filler[p]
  <1>x. PICK x : x = [f EXCEPT !.markets = Tail(@), !.clean = FALSE]
    OBVIOUS
  <1>1. /\ f.pc = "universe" /\ f.markets # <<>> /\ UNCHANGED <<tradingDay, traded, universe, bars, status, stored>>
        /\ filler' = [filler EXCEPT ![p] = x]
    BY <1>x DEF NoSnapshot, Doing
  <1>2. f \in FillerRec /\ f.markets \in Seq(STRING) /\ Tail(f.markets) \in Seq(STRING)
    BY <1>1, FillerOf, FillerFields, TailIs
  <1>3. x \in FillerRec /\ x.pc = "universe" /\ ~x.clean
    BY <1>x, <1>1, <1>2 DEF FillerRec
  <1>4. GoesOn(p, x)
    BY <1>1, <1>3 DEF GoesOn, FillerStep, RowsWhole, OnShare
  <1>5. StoredStays'
    BY <1>1, <1>3, StoredStaysBy DEF HbInv, FillerStep, Doing
  <1>6. UniverseOK' /\ BarsOK' /\ StatusOK'
    BY <1>1, TablesOK DEF UniverseOK, BarsOK, StatusOK
  <1> QED
    BY <1>1, <1>4, <1>5, <1>6, WorkKeeps DEF AtWork

\* The greatest of one
LEMMA GreatestOfOne == ASSUME NEW n \in Nat PROVE Greatest({n}) = n
  BY DEF Greatest

\* The shares that left are no longer active
LEMMA DeactivateKeeps == ASSUME HbInv, NEW p \in Runners, Deactivate(p) PROVE HbInv'
  <1> DEFINE f == filler[p]
             target == IF f.dates = {} THEN tradingDay ELSE Greatest(f.dates)
  <1>1. /\ f.pc = "universe" /\ f.markets = <<>> /\ UNCHANGED <<tradingDay, traded, bars, status, stored>>
        /\ universe' = [s \in Shares |->
              IF f.found /\ Cardinality(f.dates) = 1 /\ universe[s].seen \notin f.dates
              THEN [universe[s] EXCEPT !.active = FALSE] ELSE universe[s]]
        /\ filler' = [filler EXCEPT ![p].pc = "listing", ![p].dates = {}, ![p].found = FALSE, ![p].target = target]
    BY DEF Deactivate, Doing
  <1>2. f \in FillerRec /\ f.dates \in SUBSET (0..MaxDates) /\ tradingDay \in Nat /\ MaxDates \in Nat
    BY FillerOf, FillerFields, HbConstants DEF HbInv, HbTyped
  <1>3. target \in Nat
    <2>1. f.dates # {} => Greatest(f.dates) \in f.dates
      BY <1>2, GreatestExists
    <2> QED
      BY <1>2, <2>1
  <1>x. PICK x : x = [f EXCEPT !.pc = "listing", !.dates = {}, !.found = FALSE, !.target = target]
    OBVIOUS
  <1>4. x \in FillerRec /\ x.pc = "listing" /\ x.target = target /\ x.clean = f.clean
    <2> HIDE DEF target
    <2> QED
      BY <1>x, <1>2, <1>3 DEF FillerRec, FillerPcs
  <1>5. FillerStep(p, x)
    BY <1>1, <1>4, <1>x DEF FillerStep
  <1>6. UniverseOK'
    <2>1. universe \in [Shares -> [active : BOOLEAN, seen : Nat]] /\ \A s \in Shares : universe[s].seen \in traded[s] \cup {0}
      BY TablesOK DEF UniverseOK
    <2>2. ASSUME NEW s \in Shares
          PROVE  universe'[s] \in [active : BOOLEAN, seen : Nat] /\ universe'[s].seen = universe[s].seen
      <3>1. universe[s] \in [active : BOOLEAN, seen : Nat]
        BY <2>1
      <3>2. universe'[s] = universe[s] \/ universe'[s] = [universe[s] EXCEPT !.active = FALSE]
        BY <1>1
      <3> QED
        BY <3>1, <3>2
    <2>3. universe' = [s \in Shares |-> universe'[s]]
      BY <1>1
    <2>4. universe' \in [Shares -> [active : BOOLEAN, seen : Nat]]
      BY <2>2, <2>3
    <2> QED
      BY <1>1, <2>1, <2>2, <2>4 DEF UniverseOK
  <1>7. BarsOK' /\ StatusOK'
    BY <1>1, TablesOK DEF BarsOK, StatusOK
  <1>8. StoredStays'
    BY <1>1, <1>5, StoredStaysBy DEF HbInv, Doing
  <1>9. ASSUME f.clean PROVE target = tradingDay /\ ActiveAreListed'
    <2>1. Surveyed(f)
      BY <1>1, <1>9, ProgressOf DEF Progress
    <2>2. \A s \in Shares : ~Ahead(f.markets, s)
      BY <1>1 DEF Ahead
    <2>3. \E s \in Shares : s \notin MayLeave
      BY BackfillAssumption
    <2>4. f.dates = {tradingDay} /\ \A s \in Shares : Taken(f, s)
      BY <2>1, <2>2, <2>3 DEF Surveyed
    <2>5. f.found
      BY <2>3, <2>4 DEF HbInv, OfTradedDays, Taken
    <2>6. Cardinality(f.dates) = 1
      BY <2>4, FS_Singleton
    <2>7. Greatest({tradingDay}) = tradingDay
      BY <1>2, GreatestOfOne
    <2>8. target = tradingDay
      BY <2>4, <2>7
    <2>9. ASSUME NEW s \in Shares PROVE universe'[s].active <=> Listed(s)'
      <3>1. Listed(s)' <=> Listed(s)
        BY <1>1 DEF Listed
      <3>2. universe[s] \in [active : BOOLEAN, seen : Nat] /\ universe[s].seen \in traded[s] \cup {0}
        BY TablesOK DEF UniverseOK
      <3>3. CASE Listed(s)
        <4>1. universe[s].active /\ universe[s].seen = tradingDay
          BY <2>4, <3>3 DEF Taken
        <4>2. universe'[s] = universe[s]
          BY <1>1, <2>4, <4>1
        <4> QED
          BY <3>1, <3>3, <4>1, <4>2
      <3>4. CASE ~Listed(s)
        <4>1. universe[s].seen # tradingDay
          BY <3>2, <3>4, HbConstants DEF Listed, HbInv, HbTyped
        <4>2. universe'[s] = [universe[s] EXCEPT !.active = FALSE]
          BY <1>1, <2>4, <2>5, <2>6, <4>1
        <4> QED
          BY <3>1, <3>2, <3>4, <4>2
      <3> QED
        BY <3>3, <3>4
    <2> QED
      BY <2>8, <2>9 DEF ActiveAreListed
  <1> HIDE DEF target
  <1>10. x.clean => Progress(x)'
    BY <1>1, <1>4, <1>9 DEF Progress
  <1>11. GoesOn(p, x)
    <2> HIDE DEF Progress
    <2> QED
      BY <1>1, <1>4, <1>5, <1>10 DEF GoesOn, RowsWhole, OnShare
  <1> QED
    BY <1>1, <1>6, <1>7, <1>8, <1>11, WorkKeeps DEF AtWork

\* The shares are listed, those with gaps among them
LEMMA ListsKeeps == ASSUME HbInv, NEW p \in Runners, Lists(p) PROVE HbInv'
  <1> DEFINE f == filler[p]
             candidates == {s \in Shares : universe[s].active /\ (p = "loop" => HasGap(s, f.target))}
  <1>1. f.pc = "listing" /\ UNCHANGED <<tradingDay, traded, universe, bars, status, stored>>
    BY DEF Lists, Doing
  <1>2. PICK order \in InTheirOrder(candidates) :
           filler' = [filler EXCEPT ![p].pc = "shares", ![p].target = 0, ![p].todo = order]
    BY DEF Lists
  <1>3. order \in Seq(Shares) /\ \A s \in candidates : \E i \in DOMAIN order : order[i] = s
    <2>1. IsFiniteSet(candidates)
      BY HbConstants, FS_Subset
    <2>2. Cardinality(candidates) \in Nat
      BY <2>1, FS_CardinalityType
    <2>3. order \in [1..Cardinality(candidates) -> candidates]
      BY DEF InTheirOrder
    <2>4. order \in [1..Cardinality(candidates) -> Shares]
      BY <2>3
    <2>5. order \in Seq(Shares)
      <3>1. \A n \in Nat : [1..n -> Shares] \subseteq Seq(Shares)
        OBVIOUS
      <3> QED
        BY <2>2, <2>4, <3>1
    <2> QED
      BY <2>5 DEF InTheirOrder
  <1>x. PICK x : x = [f EXCEPT !.pc = "shares", !.target = 0, !.todo = order]
    OBVIOUS
  <1>4. f \in FillerRec
    BY FillerOf
  <1>5. x \in FillerRec /\ x.pc = "shares" /\ x.todo = order /\ x.clean = f.clean
    BY <1>x, <1>3, <1>4 DEF FillerRec, FillerPcs
  <1>6. FillerStep(p, x)
    BY <1>2, <1>5, <1>x DEF FillerStep
  <1>7. ASSUME f.clean PROVE ActiveAreListed' /\ OnlyToDo(x)'
    <2>1. f.target = tradingDay /\ ActiveAreListed
      BY <1>1, <1>7, ProgressOf DEF Progress
    <2>2. ActiveAreListed'
      BY <1>1, <2>1 DEF ActiveAreListed, Listed
    <2>3. ASSUME NEW s \in Shares, s \notin ToDo(x), Listed(s) PROVE tradingDay \in bars[s]
      <3>1. s \notin candidates
        BY <1>3, <1>5, <2>3 DEF ToDo
      <3>2. universe[s].active
        BY <2>1, <2>3 DEF ActiveAreListed
      <3>3. ~HasGap(s, tradingDay)
        BY <2>1, <3>1, <3>2
      <3>4. Latest(s) \in 0..tradingDay /\ Latest(s) \in bars[s] \cup {0}
        BY LatestIs DEF HbInv
      <3>5. tradingDay \in Nat \ {0}
        BY HbConstants DEF HbInv, HbTyped
      <3> QED
        BY <3>3, <3>4, <3>5 DEF HasGap
    <2>4. OnlyToDo(x)'
      <3> SUFFICES ASSUME NEW s \in Shares, s \notin ToDo(x), Listed(s)' PROVE tradingDay' \in bars'[s]
        BY DEF OnlyToDo, UpToDate, ToDo
      <3>1. Listed(s)
        BY <1>1 DEF Listed
      <3> QED
        BY <1>1, <2>3, <3>1
    <2> QED
      BY <2>2, <2>4
  <1>8. x.clean => Progress(x)'
    <2>1. RowsOfToday(x)'
      BY <1>5 DEF RowsOfToday
    <2> QED
      BY <1>5, <1>7, <2>1 DEF Progress
  <1>9. GoesOn(p, x)
    <2> HIDE DEF Progress
    <2> QED
      BY <1>1, <1>5, <1>6, <1>8 DEF GoesOn, RowsWhole, OnShare
  <1>10. UniverseOK' /\ BarsOK' /\ StatusOK'
    BY <1>1, TablesOK DEF UniverseOK, BarsOK, StatusOK
  <1>11. StoredStays'
    BY <1>1, <1>6, StoredStaysBy DEF HbInv, Doing
  <1> QED
    BY <1>1, <1>9, <1>10, <1>11, WorkKeeps DEF AtWork

\* A run that is over, or dead, has nothing left to see to
LEMMA OffGoesOn ==
    ASSUME HbInv, NEW p \in Runners, NEW pc \in {"idle", "ended"}, NEW clean \in BOOLEAN,
           filler' = [filler EXCEPT ![p] = FillerOff(pc, clean)], UNCHANGED <<tradingDay, traded>>,
           clean => filler[p].clean /\ pc = "ended" /\ ActiveAreListed' /\ (\A s \in Shares : UpToDate(s))'
    PROVE  \E x : /\ GoesOn(p, x) /\ x.pc = pc
  <1>1. PICK x : x = FillerOff(pc, clean)
    OBVIOUS
  <1>2. x \in FillerRec /\ x.pc = pc /\ x.clean = clean
    BY <1>1, OffTyped DEF FillerPcs
  <1>3. FillerStep(p, x) /\ RowsWhole(x)
    BY <1>1, <1>2 DEF FillerStep, RowsWhole, OnShare
  <1>4. clean => Progress(x)'
    BY <1>2 DEF Progress
  <1> HIDE DEF Progress
  <1>5. GoesOn(p, x)
    BY <1>2, <1>3, <1>4 DEF GoesOn
  <1> QED
    BY <1>2, <1>5

\* A run ends
LEMMA EndsKeeps == ASSUME HbInv, NEW p \in Runners, StopsEarly(p) \/ BackfillEnds(p) PROVE HbInv'
  <1> DEFINE f == filler[p]
  <1>1. f.pc = "shares" /\ UNCHANGED <<tradingDay, traded, universe, bars, status, stored>>
    BY DEF StopsEarly, BackfillEnds, Doing
  <1>2. f \in FillerRec /\ f.clean \in BOOLEAN
    BY FillerOf, FillerFields
  <1>3. \E x : GoesOn(p, x)
    <2>1. CASE StopsEarly(p)
      <3>1. filler' = [filler EXCEPT ![p] = FillerOff("ended", FALSE)]
        BY <2>1 DEF StopsEarly
      <3> QED
        BY <1>1, <3>1, OffGoesOn
    <2>2. CASE BackfillEnds(p)
      <3>1. filler' = [filler EXCEPT ![p] = FillerOff("ended", f.clean)] /\ f.todo = <<>>
        BY <2>2 DEF BackfillEnds
      <3>2. ASSUME f.clean PROVE ActiveAreListed' /\ (\A s \in Shares : UpToDate(s))'
        <4>1. ActiveAreListed /\ OnlyToDo(f)
          BY <1>1, <3>2, ProgressOf DEF Progress
        <4>2. ToDo(f) = {}
          BY <3>1 DEF ToDo
        <4> QED
          BY <1>1, <4>1, <4>2 DEF OnlyToDo, ActiveAreListed, UpToDate, Listed
      <3>3. PICK clean \in BOOLEAN : clean = f.clean
        BY <1>2
      <3> QED
        BY <1>1, <3>1, <3>2, <3>3, OffGoesOn
    <2> QED
      BY <2>1, <2>2
  <1>4. PICK x : GoesOn(p, x)
    BY <1>3
  <1>5. StoredStays'
    BY <1>1, <1>4, StoredStaysBy DEF HbInv, Doing, GoesOn
  <1>6. UniverseOK' /\ BarsOK' /\ StatusOK'
    BY <1>1, TablesOK DEF UniverseOK, BarsOK, StatusOK
  <1> QED
    BY <1>1, <1>4, <1>5, <1>6, WorkKeeps DEF AtWork

\* The share a run is at
LEMMA ShareIs ==
    ASSUME HbInv, NEW p \in Runners, filler[p].todo # <<>>
    PROVE  /\ Share(p) \in Shares /\ Share(p) = Head(filler[p].todo)
           /\ Share(p) \in ToDo(filler[p]) /\ Tail(filler[p].todo) \in Seq(Shares)
  <1>1. filler[p].todo \in Seq(Shares)
    BY FillerOf, FillerFields
  <1>2. Head(filler[p].todo) \in Shares /\ Tail(filler[p].todo) \in Seq(Shares)
        /\ \E i \in DOMAIN filler[p].todo : filler[p].todo[i] = Head(filler[p].todo)
    BY <1>1, TailIs
  <1> QED
    BY <1>2 DEF Share, ToDo

\* A share is begun with
LEMMA StartsKeeps == ASSUME HbInv, NEW p \in Runners, StartsShare(p) PROVE HbInv'
  <1> DEFINE f == filler[p]
  <1>1. /\ f.pc = "shares" /\ f.todo # <<>> /\ UNCHANGED <<tradingDay, traded, universe, bars, stored>>
        /\ status' = [status EXCEPT ![Share(p)].state = "running"]
        /\ filler' = [filler EXCEPT ![p].pc = "fetching", ![p].whole = f.full \/ status[Share(p)].success = 0]
    BY DEF StartsShare, Doing
  <1>x. PICK x : x = [f EXCEPT !.pc = "fetching", !.whole = f.full \/ status[Share(p)].success = 0]
    OBVIOUS
  <1>2. f \in FillerRec
    BY FillerOf
  <1>3. x \in FillerRec /\ x.pc = "fetching" /\ x.todo = f.todo /\ x.clean = f.clean
    <2>1. (f.full \/ status[Share(p)].success = 0) \in BOOLEAN
      OBVIOUS
    <2> DEFINE w == f.full \/ status[Share(p)].success = 0
    <2> HIDE DEF w
    <2>2. w \in BOOLEAN /\ x = [f EXCEPT !.pc = "fetching", !.whole = w]
      BY <1>x, <2>1 DEF w
    <2> QED
      BY <1>2, <2>2 DEF FillerRec, FillerPcs
  <1>4. FillerStep(p, x)
    BY <1>1, <1>3, <1>x DEF FillerStep
  <1>5. StatusOK'
    BY <1>1, TablesOK DEF StatusOK, BarStates
  <1>6. x.clean => Progress(x)'
    <2> SUFFICES ASSUME x.clean PROVE Progress(x)'
      OBVIOUS
    <2>1. ActiveAreListed /\ OnlyToDo(f)
      BY <1>1, <1>3, ProgressOf DEF Progress
    <2>2. ActiveAreListed'
      BY <1>1, <2>1 DEF ActiveAreListed, Listed
    <2>3. OnlyToDo(x)'
      BY <1>1, <1>3, <2>1 DEF OnlyToDo, ToDo, UpToDate, Listed
    <2>4. RowsOfToday(x)'
      BY <1>3 DEF RowsOfToday
    <2> QED
      BY <1>3, <2>2, <2>3, <2>4 DEF Progress
  <1>7. GoesOn(p, x)
    <2> HIDE DEF Progress
    <2> QED
      BY <1>1, <1>3, <1>4, <1>6 DEF GoesOn, RowsWhole
  <1>8. UniverseOK' /\ BarsOK'
    BY <1>1, TablesOK DEF UniverseOK, BarsOK
  <1>9. StoredStays'
    BY <1>1, <1>4, StoredStaysBy DEF HbInv, Doing
  <1> QED
    BY <1>1, <1>5, <1>7, <1>8, <1>9, WorkKeeps DEF AtWork

\* A share's rows are fetched
LEMMA FetchesKeeps == ASSUME HbInv, NEW p \in Runners, Fetches(p) PROVE HbInv'
  <1> DEFINE f == filler[p]
             days == traded[Share(p)] \cap Asked(p)
  <1>1. /\ f.pc = "fetching" /\ UNCHANGED <<tradingDay, traded, universe, bars, status, stored>>
        /\ filler' = [filler EXCEPT ![p].rows = days, ![p].pc = IF days = {} THEN "recording" ELSE "replacing"]
    BY DEF Fetches, Doing
  <1>2. f \in FillerRec /\ f.todo # <<>>
    BY <1>1, FillerOf DEF RowsWhole, OnShare
  <1>3. Share(p) \in Shares /\ Share(p) = Head(f.todo)
    BY <1>2, ShareIs
  <1>r. PICK R : R = days
    OBVIOUS
  <1>4. tradingDay \in Nat \ {0} /\ traded[Share(p)] \subseteq 1..tradingDay /\ R \in SUBSET Nat
    BY <1>3, <1>r, HbConstants DEF HbInv, HbTyped
  <1>x. PICK x : x = [f EXCEPT !.rows = R, !.pc = IF R = {} THEN "recording" ELSE "replacing"]
    OBVIOUS
  <1>5. /\ x \in FillerRec /\ x.pc = (IF R = {} THEN "recording" ELSE "replacing") /\ x.todo = f.todo
        /\ x.clean = f.clean /\ x.rows = R
    BY <1>x, <1>2, <1>4 DEF FillerRec, FillerPcs
  <1>6. FillerStep(p, x)
    BY <1>1, <1>5, <1>r, <1>x DEF FillerStep
  <1>7. PICK a \in Int : Asked(p) = a..tradingDay /\ a <= tradingDay
    BY <1>4, HbConstants DEF Asked
  <1>8. RowsWhole(x)
    <2> SUFFICES ASSUME R # {}
                 PROVE  /\ R \subseteq traded[Share(p)]
                        /\ traded[Share(p)] \cap (Least(R)..Greatest(R)) \subseteq R
      BY <1>2, <1>3, <1>5 DEF RowsWhole
    <2>1. R \in SUBSET (1..tradingDay)
      BY <1>4, <1>r
    <2>2. Least(R) \in R /\ Greatest(R) \in R /\ Least(R)..Greatest(R) \subseteq 1..tradingDay
      BY <1>4, <2>1, RangeIs
    <2> DEFINE l == Least(R)
               g == Greatest(R)
    <2> HIDE DEF l, g
    <2>3. l \in R /\ g \in R
      BY <2>2 DEF l, g
    <2>4. l..g \subseteq Asked(p)
      BY <1>4, <1>7, <1>r, <2>3
    <2> QED
      BY <1>r, <2>4 DEF l, g
  <1>9. x.clean => Progress(x)'
    <2> SUFFICES ASSUME x.clean PROVE Progress(x)'
      OBVIOUS
    <2>1. ActiveAreListed /\ OnlyToDo(f)
      BY <1>1, <1>5, ProgressOf DEF Progress
    <2>2. ActiveAreListed'
      BY <1>1, <2>1 DEF ActiveAreListed, Listed
    <2>3. OnlyToDo(x)'
      BY <1>1, <1>5, <2>1 DEF OnlyToDo, ToDo, UpToDate, Listed
    <2>4. Listed(Share(p)) => tradingDay \in R
      BY <1>4, <1>7, <1>r DEF Listed
    <2>5. RowsOfToday(x)'
      BY <1>1, <1>3, <1>5, <2>4 DEF RowsOfToday, UpToDate, Listed
    <2> QED
      BY <1>5, <2>2, <2>3, <2>5 DEF Progress
  <1>10. GoesOn(p, x)
    <2> HIDE DEF Progress, RowsWhole
    <2> QED
      BY <1>1, <1>5, <1>6, <1>8, <1>9 DEF GoesOn
  <1>11. UniverseOK' /\ BarsOK' /\ StatusOK'
    BY <1>1, TablesOK DEF UniverseOK, BarsOK, StatusOK
  <1>12. StoredStays'
    BY <1>1, <1>6, StoredStaysBy DEF HbInv, Doing
  <1> QED
    BY <1>1, <1>10, <1>11, <1>12, WorkKeeps DEF AtWork

\* The range of the rows is deleted
LEMMA DeletesKeeps == ASSUME HbInv, NEW p \in Runners, DeletesRange(p) PROVE HbInv'
  <1> DEFINE f == filler[p]
  <1>1. /\ f.pc = "replacing" /\ UNCHANGED <<tradingDay, traded, universe, status, stored>>
        /\ filler' = [filler EXCEPT ![p].pc = "storing"]
        /\ bars' = [bars EXCEPT ![Share(p)] = @ \ Replaced(p)]
    BY DEF DeletesRange, Doing, GoesTo
  <1>2. f \in FillerRec /\ RowsWhole(f) /\ f.todo # <<>>
    BY <1>1, FillerOf DEF RowsWhole, OnShare
  <1>3. Share(p) \in Shares /\ Share(p) = Head(f.todo) /\ Share(p) \in ToDo(f)
    BY <1>2, ShareIs
  <1>x. PICK x : x = [f EXCEPT !.pc = "storing"]
    OBVIOUS
  <1>4. x \in FillerRec /\ x.pc = "storing" /\ x.todo = f.todo /\ x.clean = f.clean /\ x.rows = f.rows
    BY <1>x, <1>2 DEF FillerRec, FillerPcs
  <1>5. FillerStep(p, x)
    BY <1>1, <1>4, <1>x DEF FillerStep
  <1>6. RowsWhole(x)
    BY <1>1, <1>2, <1>4 DEF RowsWhole, OnShare
  <1>7. BarsOK'
    <2>1. BarsOK
      BY TablesOK
    <2>2. \A s \in Shares : bars'[s] \subseteq bars[s]
      BY <1>1, <1>3, <2>1 DEF BarsOK
    <2>3. bars' \in [Shares -> SUBSET Nat]
      BY <1>1, <2>1 DEF BarsOK
    <2> QED
      BY <1>1, <2>1, <2>2, <2>3 DEF BarsOK
  <1>8. UniverseOK' /\ StatusOK'
    BY <1>1, TablesOK DEF UniverseOK, StatusOK
  <1>9. x.clean => Progress(x)'
    <2> SUFFICES ASSUME x.clean PROVE Progress(x)'
      OBVIOUS
    <2>1. ActiveAreListed /\ OnlyToDo(f) /\ RowsOfToday(f)
      BY <1>1, <1>4, ProgressOf DEF Progress
    <2>2. ActiveAreListed'
      BY <1>1, <2>1 DEF ActiveAreListed, Listed
    <2>3. \A s \in Shares \ ToDo(f) : bars'[s] = bars[s]
      BY <1>1, <1>3, TablesOK DEF BarsOK
    <2>4. OnlyToDo(x)'
      <3> SUFFICES ASSUME NEW s \in Shares, s \notin ToDo(x), Listed(s)' PROVE tradingDay' \in bars'[s]
        BY DEF OnlyToDo, UpToDate, ToDo
      <3>1. Listed(s) /\ s \notin ToDo(f)
        BY <1>1, <1>4 DEF Listed, ToDo
      <3> QED
        BY <1>1, <2>1, <2>3, <3>1 DEF OnlyToDo, UpToDate
    <2>5. RowsOfToday(x)'
      BY <1>1, <1>4, <2>1 DEF RowsOfToday, Listed
    <2> QED
      BY <1>4, <2>2, <2>4, <2>5 DEF Progress
  <1>10. GoesOn(p, x)
    <2> HIDE DEF Progress, RowsWhole
    <2> QED
      BY <1>1, <1>4, <1>5, <1>6, <1>9 DEF GoesOn
  <1>11. StoredStays'
    <2>1. filler' = [filler EXCEPT ![p] = x] /\ filler \in [Runners -> FillerRec]
      BY <1>5 DEF FillerStep, HbInv, HbTyped
    <2>2. \A q \in Runners : /\ Doing(q, "storing")' <=> Doing(q, "storing") \/ q = p
                             /\ Share(q)' = Share(q) /\ Replaced(q)' = Replaced(q)
      BY <1>4, <2>1 DEF Doing, Share, Replaced
    <2> SUFFICES ASSUME NEW s \in Shares, NEW d \in stored[s] \ bars'[s]
                 PROVE  \E q \in Runners : (Doing(q, "storing") /\ Share(q) = s /\ d \in Replaced(q))'
      BY <1>1 DEF StoredStays
    <2>3. CASE d \in bars[s]
      <3>1. s = Share(p) /\ d \in Replaced(p)
        BY <2>3, <1>1, <1>3, TablesOK DEF BarsOK
      <3> QED
        BY <2>2, <3>1
    <2>4. CASE d \notin bars[s]
      <3>1. PICK q \in Runners : Doing(q, "storing") /\ Share(q) = s /\ d \in Replaced(q)
        BY <2>4 DEF HbInv, StoredStays
      <3> QED
        BY <2>2, <3>1
    <2> QED
      BY <2>3, <2>4
  <1> QED
    BY <1>1, <1>7, <1>8, <1>10, <1>11, WorkKeeps DEF AtWork

\* The rows are stored: what was deleted is there again
LEMMA StoresKeeps == ASSUME HbInv, NEW p \in Runners, StoresRows(p) PROVE HbInv'
  <1> DEFINE f == filler[p]
  <1>1. /\ f.pc = "storing" /\ UNCHANGED <<tradingDay, traded, universe, status>>
        /\ filler' = [filler EXCEPT ![p].pc = "recording"]
        /\ bars' = [bars EXCEPT ![Share(p)] = @ \cup f.rows]
        /\ stored' = [stored EXCEPT ![Share(p)] = @ \cup f.rows]
    BY DEF StoresRows, Doing, GoesTo
  <1>2. f \in FillerRec /\ RowsWhole(f) /\ f.todo # <<>>
    BY <1>1, FillerOf DEF RowsWhole, OnShare
  <1>3. Share(p) \in Shares /\ Share(p) = Head(f.todo) /\ f.rows \in SUBSET Nat
    BY <1>2, ShareIs, FillerFields
  <1>4. f.rows \subseteq traded[Share(p)] /\ traded[Share(p)] \cap Replaced(p) \subseteq f.rows
    BY <1>1, <1>2, <1>3 DEF RowsWhole, Replaced
  <1>x. PICK x : x = [f EXCEPT !.pc = "recording"]
    OBVIOUS
  <1>5. x \in FillerRec /\ x.pc = "recording" /\ x.todo = f.todo /\ x.clean = f.clean /\ x.rows = f.rows
    BY <1>x, <1>2 DEF FillerRec, FillerPcs
  <1>6. FillerStep(p, x)
    BY <1>1, <1>5, <1>x DEF FillerStep
  <1>7. RowsWhole(x)
    BY <1>2, <1>5 DEF RowsWhole
  <1>8. BarsOK
    BY TablesOK
  <1>9. /\ \A s \in Shares \ {Share(p)} : bars'[s] = bars[s] /\ stored'[s] = stored[s]
        /\ bars'[Share(p)] = bars[Share(p)] \cup f.rows /\ stored'[Share(p)] = stored[Share(p)] \cup f.rows
    BY <1>1, <1>3, <1>8 DEF BarsOK
  <1>10. BarsOK'
    <2>1. bars' \in [Shares -> SUBSET Nat] /\ stored' \in [Shares -> SUBSET Nat]
      BY <1>1, <1>3, <1>8 DEF BarsOK
    <2>2. \A s \in Shares : bars'[s] \cup stored'[s] \subseteq traded[s]
      BY <1>4, <1>8, <1>9 DEF BarsOK
    <2> QED
      BY <1>1, <2>1, <2>2 DEF BarsOK
  <1>11. UniverseOK' /\ StatusOK'
    BY <1>1, TablesOK DEF UniverseOK, StatusOK
  <1>12. x.clean => Progress(x)'
    <2> SUFFICES ASSUME x.clean PROVE Progress(x)'
      OBVIOUS
    <2>1. ActiveAreListed /\ OnlyToDo(f) /\ RowsOfToday(f)
      BY <1>1, <1>5, ProgressOf DEF Progress
    <2>2. ActiveAreListed'
      BY <1>1, <2>1 DEF ActiveAreListed, Listed
    <2>3. OnlyToDo(x)'
      <3> SUFFICES ASSUME NEW s \in Shares, s \notin ToDo(x), Listed(s)' PROVE tradingDay' \in bars'[s]
        BY DEF OnlyToDo, UpToDate, ToDo
      <3>1. Listed(s) /\ s \notin ToDo(f)
        BY <1>1, <1>5 DEF Listed, ToDo
      <3>2. tradingDay \in bars[s]
        BY <2>1, <3>1 DEF OnlyToDo, UpToDate
      <3> QED
        BY <1>1, <1>9, <3>2
    <2>4. Listed(Share(p)) => tradingDay \in bars'[Share(p)]
      BY <1>1, <1>3, <1>9, <2>1 DEF RowsOfToday
    <2>5. RowsOfToday(x)'
      BY <1>1, <1>3, <1>5, <2>4 DEF RowsOfToday, UpToDate, Listed
    <2> QED
      BY <1>5, <2>2, <2>3, <2>5 DEF Progress
  <1>13. GoesOn(p, x)
    <2> HIDE DEF Progress, RowsWhole
    <2> QED
      BY <1>1, <1>5, <1>6, <1>7, <1>12 DEF GoesOn
  <1>14. StoredStays'
    <2>1. filler' = [filler EXCEPT ![p] = x] /\ filler \in [Runners -> FillerRec]
      BY <1>6 DEF FillerStep, HbInv, HbTyped
    <2>2. \A q \in Runners \ {p} : /\ Doing(q, "storing")' = Doing(q, "storing")
                                   /\ Share(q)' = Share(q) /\ Replaced(q)' = Replaced(q)
      BY <2>1 DEF Doing, Share, Replaced
    <2> SUFFICES ASSUME NEW s \in Shares, NEW d \in stored'[s] \ bars'[s]
                 PROVE  \E q \in Runners : (Doing(q, "storing") /\ Share(q) = s /\ d \in Replaced(q))'
      BY DEF StoredStays
    <2>3. d \in stored[s] \ bars[s]
      BY <1>9
    <2>4. PICK q \in Runners : Doing(q, "storing") /\ Share(q) = s /\ d \in Replaced(q)
      BY <2>3 DEF HbInv, StoredStays
    <2>5. q # p
      <3> SUFFICES ASSUME q = p PROVE FALSE
        OBVIOUS
      <3>1. d \in traded[Share(p)]
        BY <1>8, <2>3, <2>4 DEF BarsOK
      <3> QED
        BY <1>4, <1>9, <2>4, <3>1
    <2> QED
      BY <2>2, <2>4, <2>5
  <1> QED
    BY <1>1, <1>10, <1>11, <1>13, <1>14, WorkKeeps DEF AtWork

\* The next share of a run
LEMMA NextIs ==
    ASSUME HbInv, NEW p \in Runners, filler[p].todo # <<>>, NEW x,
           x = [filler[p] EXCEPT !.pc = "shares", !.todo = Tail(@), !.rows = {}, !.whole = FALSE]
    PROVE  /\ x \in FillerRec /\ x.pc = "shares" /\ x.clean = filler[p].clean /\ RowsWhole(x)
           /\ ToDo(filler[p]) = {Share(p)} \cup ToDo(x)
  <1> DEFINE f == filler[p]
  <1>1. f \in FillerRec /\ f.todo \in Seq(Shares) /\ Tail(f.todo) \in Seq(Shares) /\ Share(p) = Head(f.todo)
    BY FillerOf, FillerFields, ShareIs
  <1>2. x \in FillerRec /\ x.pc = "shares" /\ x.clean = f.clean /\ x.todo = Tail(f.todo)
    BY <1>1 DEF FillerRec, FillerPcs
  <1>3. RowsWhole(x)
    BY <1>2 DEF RowsWhole, OnShare
  <1>4. /\ \A i \in DOMAIN f.todo : f.todo[i] = Head(f.todo) \/ \E j \in DOMAIN x.todo : x.todo[j] = f.todo[i]
        /\ \A j \in DOMAIN x.todo : \E i \in DOMAIN f.todo : f.todo[i] = x.todo[j]
        /\ \E i \in DOMAIN f.todo : f.todo[i] = Head(f.todo)
    BY <1>1, <1>2, TailIs
  <1>5. ToDo(f) = {Head(f.todo)} \cup ToDo(x)
    <2> HIDE DEF f
    <2> QED
      BY <1>4 DEF ToDo
  <1> QED
    BY <1>1, <1>2, <1>3, <1>5

\* The outcome of a share is recorded, and the next one is taken up
LEMMA RecordsKeeps == ASSUME HbInv, NEW p \in Runners, RecordsStatus(p) PROVE HbInv'
  <1> DEFINE f == filler[p]
             s == Share(p)
             found == f.rows # {} \/ (Latest(s) # 0 /\ ~f.full)
             new == [state |-> IF found THEN "success" ELSE "empty",
                     success |-> IF Latest(s) = 0 THEN status[s].success ELSE Latest(s)]
  <1>1. /\ f.pc = "recording" /\ UNCHANGED <<tradingDay, traded, universe, bars, stored>>
        /\ filler' = [filler EXCEPT ![p].pc = "shares", ![p].todo = Tail(@), ![p].rows = {}, ![p].whole = FALSE]
        /\ status' = [status EXCEPT ![s] = new]
    BY DEF RecordsStatus, Doing, NextShare
  <1>2. f \in FillerRec /\ f.todo # <<>>
    BY <1>1, FillerOf DEF RowsWhole, OnShare
  <1>3. s \in Shares /\ s = Head(f.todo)
    BY <1>2, ShareIs
  <1>x. PICK x : x = [f EXCEPT !.pc = "shares", !.todo = Tail(@), !.rows = {}, !.whole = FALSE]
    OBVIOUS
  <1>4. x \in FillerRec /\ x.pc = "shares" /\ x.clean = f.clean /\ RowsWhole(x) /\ ToDo(f) = {s} \cup ToDo(x)
    BY <1>2, <1>x, NextIs
  <1>5. FillerStep(p, x)
    BY <1>1, <1>4, <1>x DEF FillerStep
  <1>6. StatusOK'
    <2>1. StatusOK
      BY TablesOK
    <2>2. Latest(s) \in 0..tradingDay
      BY <1>3, LatestIs DEF HbInv
    <2>3. status[s].success \in 0..tradingDay
      BY <1>3, <2>1 DEF StatusOK
    <2>4. new \in [state : BarStates, success : 0..tradingDay]
      BY <2>2, <2>3 DEF BarStates
    <2> HIDE DEF new
    <2> QED
      BY <1>1, <2>1, <2>4 DEF StatusOK
  <1>7. UniverseOK' /\ BarsOK'
    BY <1>1, TablesOK DEF UniverseOK, BarsOK
  <1>8. x.clean => Progress(x)'
    <2> SUFFICES ASSUME x.clean PROVE Progress(x)'
      OBVIOUS
    <2>1. ActiveAreListed /\ OnlyToDo(f) /\ RowsOfToday(f)
      BY <1>1, <1>4, ProgressOf DEF Progress
    <2>2. ActiveAreListed'
      BY <1>1, <2>1 DEF ActiveAreListed, Listed
    <2>3. OnlyToDo(x)'
      <3> SUFFICES ASSUME NEW z \in Shares, z \notin ToDo(x), Listed(z)' PROVE tradingDay' \in bars'[z]
        BY DEF OnlyToDo, UpToDate, ToDo
      <3>1. Listed(z) /\ (z = s \/ z \notin ToDo(f))
        BY <1>1, <1>4 DEF Listed
      <3>2. UpToDate(z)
        BY <1>1, <1>3, <2>1, <3>1 DEF OnlyToDo, RowsOfToday
      <3> QED
        BY <1>1, <3>1, <3>2 DEF UpToDate
    <2>4. RowsOfToday(x)'
      BY <1>4 DEF RowsOfToday
    <2> QED
      BY <1>4, <2>2, <2>3, <2>4 DEF Progress
  <1>9. GoesOn(p, x)
    <2> HIDE DEF Progress, RowsWhole
    <2> QED
      BY <1>1, <1>4, <1>5, <1>8 DEF GoesOn
  <1>10. StoredStays'
    BY <1>1, <1>5, StoredStaysBy DEF HbInv, Doing
  <1> QED
    BY <1>1, <1>6, <1>7, <1>9, <1>10, WorkKeeps DEF AtWork

\* Whoever leaves off loses at most what it was about to store
LEMMA LosesKeeps ==
    ASSUME HbInv, NEW p \in Runners, Loses(p), UNCHANGED <<traded, bars>>, NEW x, FillerStep(p, x)
    PROVE  BarsOK' /\ StoredStays'
  <1> DEFINE f == filler[p]
             s == Share(p)
             kept == stored[s] \ (Replaced(p) \ bars[s])
  <1>1. BarsOK
    BY TablesOK
  <1>2. \A z \in Shares : stored'[z] \subseteq stored[z]
    BY <1>1 DEF Loses, BarsOK
  <1>3. stored' \in [Shares -> SUBSET Nat]
    BY <1>1 DEF Loses, BarsOK
  <1>4. BarsOK'
    BY <1>1, <1>2, <1>3 DEF BarsOK
  <1>5. filler \in [Runners -> FillerRec] /\ \A q \in Runners \ {p} : filler'[q] = filler[q]
    BY DEF FillerStep, HbInv, HbTyped
  <1>6. \A q \in Runners \ {p} : /\ Doing(q, "storing")' = Doing(q, "storing")
                                 /\ Share(q)' = Share(q) /\ Replaced(q)' = Replaced(q)
    BY <1>5 DEF Doing, Share, Replaced
  <1>7. StoredStays'
    <2> SUFFICES ASSUME NEW z \in Shares, NEW d \in stored'[z] \ bars[z]
                 PROVE  \E q \in Runners : (Doing(q, "storing") /\ Share(q) = z /\ d \in Replaced(q))'
      BY DEF StoredStays
    <2>1. PICK q \in Runners : Doing(q, "storing") /\ Share(q) = z /\ d \in Replaced(q)
      BY <1>2 DEF HbInv, StoredStays
    <2>2. q # p
      <3> SUFFICES ASSUME q = p PROVE FALSE
        OBVIOUS
      <3>1. stored' = [stored EXCEPT ![s] = kept]
        BY <2>1 DEF Loses
      <3>2. stored'[z] = kept
        BY <1>1, <2>1, <3>1 DEF BarsOK
      <3> QED
        BY <2>1, <3>2
    <2> QED
      BY <1>6, <2>1, <2>2
  <1> QED
    BY <1>4, <1>7

\* A share fails
LEMMA FailsKeeps == ASSUME HbInv, NEW p \in Runners, ShareFails(p) PROVE HbInv'
  <1> DEFINE f == filler[p]
  <1>1. /\ f.pc \in OnShare /\ UNCHANGED <<tradingDay, traded, universe, bars>> /\ Loses(p)
        /\ filler' = [filler EXCEPT ![p].pc = "shares", ![p].todo = Tail(@), ![p].rows = {},
                                    ![p].whole = FALSE, ![p].clean = FALSE]
        /\ status' = [status EXCEPT ![Share(p)].state = "failed"]
    BY DEF ShareFails, Fault, OnShare
  <1>2. f \in FillerRec /\ f.todo # <<>>
    BY <1>1, FillerOf DEF RowsWhole
  <1>3. Tail(f.todo) \in Seq(Shares)
    BY <1>2, ShareIs
  <1>x. PICK x : x = [f EXCEPT !.pc = "shares", !.todo = Tail(@), !.rows = {}, !.whole = FALSE, !.clean = FALSE]
    OBVIOUS
  <1>4. x \in FillerRec /\ x.pc = "shares" /\ ~x.clean
    BY <1>2, <1>3, <1>x DEF FillerRec, FillerPcs
  <1>5. FillerStep(p, x)
    BY <1>1, <1>4, <1>x DEF FillerStep
  <1>6. GoesOn(p, x)
    BY <1>1, <1>4, <1>5 DEF GoesOn, RowsWhole, OnShare
  <1>7. StatusOK'
    BY <1>1, TablesOK DEF StatusOK, BarStates
  <1>8. UniverseOK'
    BY <1>1, TablesOK DEF UniverseOK
  <1>9. BarsOK' /\ StoredStays'
    BY <1>1, <1>5, LosesKeeps
  <1> QED
    BY <1>1, <1>6, <1>7, <1>8, <1>9, WorkKeeps DEF AtWork, OnShare

\* A run dies
LEMMA DiesKeeps == ASSUME HbInv, NEW p \in Runners, RunnerDies(p) PROVE HbInv'
  <1>1. /\ AtWork(p) /\ UNCHANGED <<tradingDay, traded, universe, bars, status>> /\ Loses(p)
        /\ filler' = [filler EXCEPT ![p] = FillerOff("idle", FALSE)]
    BY DEF RunnerDies
  <1>2. PICK x : GoesOn(p, x)
    BY <1>1, OffGoesOn
  <1>3. BarsOK' /\ StoredStays'
    BY <1>1, <1>2, LosesKeeps DEF GoesOn
  <1>4. UniverseOK' /\ StatusOK'
    BY <1>1, TablesOK DEF UniverseOK, StatusOK
  <1> QED
    BY <1>1, <1>2, <1>3, <1>4, WorkKeeps

\* The day turns
LEMMA NextTradingDayKeeps == ASSUME HbInv, NextTradingDay PROVE HbInv'
  <1>1. /\ tradingDay < MaxDates /\ tradingDay' = tradingDay + 1
        /\ filler' = [p \in Runners |-> [filler[p] EXCEPT !.clean = FALSE]]
        /\ UNCHANGED <<universe, bars, status, stored>>
    BY DEF NextTradingDay
  <1>2. PICK trades \in SUBSET Shares :
           /\ Shares \ MayLeave \subseteq trades
           /\ traded' = [s \in Shares |-> IF s \in trades THEN traded[s] \cup {tradingDay'} ELSE traded[s]]
    BY DEF NextTradingDay
  <1>3. tradingDay \in Nat /\ tradingDay' \in 1..MaxDates
    BY <1>1, HbConstants DEF HbInv, HbTyped
  <1>4. \A s \in Shares : /\ traded[s] \subseteq 1..tradingDay /\ traded[s] \subseteq traded'[s]
                          /\ traded'[s] \subseteq 1..tradingDay' /\ traded'[s] \cap (1..tradingDay) = traded[s]
    <2> SUFFICES ASSUME NEW s \in Shares
                 PROVE  /\ traded[s] \subseteq 1..tradingDay /\ traded[s] \subseteq traded'[s]
                        /\ traded'[s] \subseteq 1..tradingDay' /\ traded'[s] \cap (1..tradingDay) = traded[s]
      OBVIOUS
    <2>1. traded[s] \subseteq 1..tradingDay
      BY DEF HbInv, HbTyped
    <2>2. traded'[s] = traded[s] \cup {tradingDay'} \/ traded'[s] = traded[s]
      BY <1>2
    <2> QED
      BY <1>1, <1>3, <2>1, <2>2
  <1>5. \A p \in Runners : /\ filler'[p] \in FillerRec /\ filler'[p].pc = filler[p].pc /\ ~filler'[p].clean
                           /\ filler'[p].todo = filler[p].todo /\ filler'[p].rows = filler[p].rows
    <2> SUFFICES ASSUME NEW p \in Runners
                 PROVE  /\ filler'[p] \in FillerRec /\ filler'[p].pc = filler[p].pc /\ ~filler'[p].clean
                        /\ filler'[p].todo = filler[p].todo /\ filler'[p].rows = filler[p].rows
      OBVIOUS
    <2>1. filler'[p] = [filler[p] EXCEPT !.clean = FALSE] /\ filler[p] \in FillerRec
      BY <1>1, FillerOf
    <2> QED
      BY <2>1 DEF FillerRec
  <1>6. filler' \in [Runners -> FillerRec]
    BY <1>1, <1>5
  <1>7. HbTyped'
    <2>1. traded' \in [Shares -> SUBSET (1..tradingDay')]
      BY <1>2, <1>4
    <2>2. status' \in [Shares -> [state : BarStates, success : 0..tradingDay']]
      <3>1. status \in [Shares -> [state : BarStates, success : 0..tradingDay]] /\ 0..tradingDay \subseteq 0..tradingDay'
        BY <1>1, <1>3 DEF HbInv, HbTyped
      <3>2. [state : BarStates, success : 0..tradingDay] \subseteq [state : BarStates, success : 0..tradingDay']
        BY <3>1
      <3> QED
        BY <1>1, <3>1, <3>2
    <2> QED
      BY <1>1, <1>3, <1>6, <2>1, <2>2 DEF HbInv, HbTyped
  <1>8. OfTradedDays'
    <2>1. \A s \in Shares : bars'[s] \cup stored'[s] \subseteq traded'[s] /\ universe'[s].seen \in traded'[s] \cup {0}
      BY <1>1, <1>4 DEF HbInv, OfTradedDays
    <2>2. \A s \in Shares \ MayLeave : tradingDay' \in traded'[s]
      BY <1>2
    <2> QED
      BY <2>1, <2>2 DEF OfTradedDays, Listed
  <1>9. RowsFit'
    <2> SUFFICES ASSUME NEW p \in Runners, NEW x, x = filler'[p] PROVE RowsWhole(x)'
      BY DEF RowsFit, RowsWhole
    <2>1. x.pc = filler[p].pc /\ x.todo = filler[p].todo /\ x.rows = filler[p].rows /\ RowsWhole(filler[p])
      BY <1>5, FillerOf
    <2>2. x.pc \in OnShare => x.todo # <<>>
      BY <2>1 DEF RowsWhole
    <2>3. ASSUME x.pc \in {"replacing", "storing"}
          PROVE  /\ x.rows # {} /\ x.rows \subseteq traded'[Head(x.todo)]
                 /\ traded'[Head(x.todo)] \cap (Least(x.rows)..Greatest(x.rows)) \subseteq x.rows
      <3>1. /\ x.rows # {} /\ x.rows \subseteq traded[Head(x.todo)]
            /\ traded[Head(x.todo)] \cap (Least(x.rows)..Greatest(x.rows)) \subseteq x.rows
        BY <2>1, <2>3 DEF RowsWhole
      <3>2. Head(x.todo) \in Shares
        <4>1. x.todo # <<>>
          BY <2>2, <2>3 DEF OnShare
        <4> QED
          BY <2>1, <4>1, ShareIs
      <3>3. x.rows \in SUBSET (1..tradingDay)
        BY <1>4, <3>1, <3>2
      <3>4. Least(x.rows)..Greatest(x.rows) \subseteq 1..tradingDay
        BY <1>3, <3>1, <3>3, RangeIs
      <3> QED
        BY <1>4, <3>1, <3>2, <3>4
    <2> QED
      BY <2>2, <2>3 DEF RowsWhole
  <1>10. StoredStays'
    <2> SUFFICES ASSUME NEW s \in Shares, NEW d \in stored[s] \ bars[s]
                 PROVE  \E q \in Runners : (Doing(q, "storing") /\ Share(q) = s /\ d \in Replaced(q))'
      BY <1>1 DEF StoredStays
    <2>1. PICK q \in Runners : Doing(q, "storing") /\ Share(q) = s /\ d \in Replaced(q)
      BY DEF HbInv, StoredStays
    <2> QED
      BY <1>5, <2>1 DEF Doing, Share, Replaced
  <1>11. Undisturbed'
    BY <1>5 DEF Undisturbed
  <1> QED
    BY <1>7, <1>8, <1>9, <1>10, <1>11 DEF HbInv

\* Nothing is known at first
LEMMA BackfillInit == HbInit => HbInv
  <1> SUFFICES ASSUME HbInit PROVE HbInv
    OBVIOUS
  <1>1. PICK leaves \in SUBSET MayLeave : traded = [s \in Shares |-> IF s \in leaves THEN {} ELSE {1}]
    BY DEF HbInit
  <1>2. /\ tradingDay = 1 /\ universe = [s \in Shares |-> [active |-> FALSE, seen |-> 0]]
        /\ bars = [s \in Shares |-> {}] /\ stored = bars
        /\ status = [s \in Shares |-> [state |-> "none", success |-> 0]]
        /\ filler = [p \in Runners |-> FillerOff("idle", FALSE)]
    BY DEF HbInit
  <1>3. FillerOff("idle", FALSE) \in FillerRec /\ FillerOff("idle", FALSE).pc = "idle" /\ ~FillerOff("idle", FALSE).clean
    BY OffTyped DEF FillerPcs
  <1>4. HbTyped
    <2>1. traded \in [Shares -> SUBSET (1..1)] /\ tradingDay \in 1..MaxDates
      BY <1>1, <1>2, HbConstants
    <2>2. filler \in [Runners -> FillerRec]
      BY <1>2, <1>3
    <2>3. universe \in [Shares -> [active : BOOLEAN, seen : Nat]] /\ bars \in [Shares -> SUBSET Nat]
          /\ stored \in [Shares -> SUBSET Nat]
      BY <1>2
    <2>4. status \in [Shares -> [state : BarStates, success : 0..1]]
      BY <1>2 DEF BarStates
    <2> QED
      BY <1>2, <2>1, <2>2, <2>3, <2>4 DEF HbTyped
  <1>5. OfTradedDays
    <2>1. \A s \in Shares : bars[s] = {} /\ stored[s] = {} /\ universe[s].seen = 0
      BY <1>2
    <2>2. \A s \in Shares \ MayLeave : traded[s] = {1}
      BY <1>1
    <2> QED
      BY <1>2, <2>1, <2>2 DEF OfTradedDays, Listed
  <1>6. RowsFit /\ Undisturbed
    BY <1>2, <1>3 DEF RowsFit, RowsWhole, OnShare, Undisturbed
  <1>7. StoredStays
    BY <1>2 DEF StoredStays
  <1> QED
    BY <1>4, <1>5, <1>6, <1>7 DEF HbInv

\* Every step keeps the invariant
LEMMA BackfillStep == HbInv /\ [HbNext]_hbVars => HbInv'
  <1> SUFFICES ASSUME HbInv, [HbNext]_hbVars PROVE HbInv'
    OBVIOUS
  <1>1. CASE NextTradingDay
    BY <1>1, NextTradingDayKeeps
  <1>2. ASSUME NEW p \in Runners, HbStep(p) PROVE HbInv'
    <2>1. CASE BackfillBegins(p) \/ Snapshot(p) \/ NoSnapshot(p)
      BY <2>1, BeginsKeeps, SnapshotKeeps, NoSnapshotKeeps
    <2>2. CASE Deactivate(p) \/ Lists(p) \/ StopsEarly(p) \/ BackfillEnds(p)
      BY <2>2, DeactivateKeeps, ListsKeeps, EndsKeeps
    <2>3. CASE StartsShare(p) \/ Fetches(p) \/ DeletesRange(p) \/ StoresRows(p)
      BY <2>3, StartsKeeps, FetchesKeeps, DeletesKeeps, StoresKeeps
    <2>4. CASE RecordsStatus(p) \/ ShareFails(p) \/ RunnerDies(p)
      BY <2>4, RecordsKeeps, FailsKeeps, DiesKeeps
    <2> QED
      BY <1>2, <2>1, <2>2, <2>3, <2>4 DEF HbStep
  <1>3. CASE UNCHANGED hbVars
    BY <1>3 DEF hbVars, HbInv, HbTyped, OfTradedDays, Listed, RowsFit, RowsWhole, StoredStays, Doing, Share, Replaced,
                Undisturbed, AtWork, Progress, Surveyed, Taken, ActiveAreListed, OnlyToDo, ToDo, UpToDate, RowsOfToday
  <1> QED
    BY <1>1, <1>2, <1>3 DEF HbNext

\* The invariant is all that is promised
LEMMA BackfillKept == HbInv => BackfillSound
  <1> SUFFICES ASSUME HbInv PROVE BackfillSound
    OBVIOUS
  <1>1. tradingDay \in 1..MaxDates /\ MaxDates \in Nat
    BY HbConstants DEF HbInv, HbTyped
  <1>2. HbTypeOK
    <2> SUFFICES ASSUME NEW s \in Shares
                 PROVE  /\ bars[s] \subseteq traded[s] /\ universe[s].seen \in 0..tradingDay
                        /\ status[s].state \in {"none", "running", "success", "empty", "failed"}
                        /\ status[s].success \in 0..tradingDay
      BY <1>1 DEF HbTypeOK
    <2>1. traded[s] \subseteq 1..tradingDay /\ status[s] \in [state : BarStates, success : 0..tradingDay]
      BY DEF HbInv, HbTyped
    <2>2. bars[s] \subseteq traded[s] /\ universe[s].seen \in traded[s] \cup {0}
      BY DEF HbInv, OfTradedDays
    <2> QED
      BY <1>1, <2>1, <2>2 DEF BarStates
  <1>3. CleanRunRepairs
    <2> SUFFICES ASSUME NEW p \in Runners, Doing(p, "ended"), filler[p].clean, NEW s \in Shares
                 PROVE  (universe[s].active <=> Listed(s)) /\ (Listed(s) => tradingDay \in bars[s])
      BY DEF CleanRunRepairs
    <2>1. ActiveAreListed /\ UpToDate(s)
      BY ProgressOf DEF Progress, Doing
    <2> QED
      BY <2>1 DEF ActiveAreListed, UpToDate
  <1> QED
    BY <1>2, <1>3 DEF HbInv, BackfillSound

\* The daily bars of the shares, however runs of the loop and the routes meet, stop, fail and die:
\* a bar that was stored stays, except while a run replaces it and if that run fails then, and a run
\* in which nothing goes wrong and nothing else changes leaves exactly the shares of the day active,
\* each with the bar of the day.
THEOREM BackfillCorrect == HbSpec => []BackfillSound
  BY BackfillInit, BackfillStep, BackfillKept, PTL DEF HbSpec

-----------------------------------------------------------------------------
(* The loops that keep to the clock: days and times                        *)

\* The times of day of a job, on any day
IsTime(t) == \E d \in Nat : t = TimeOn(d, job.at)
Length == IF job.end > job.at THEN job.end - job.at ELSE job.end - job.at + DayUnits

\* What the code is configured with
LEMMA ClockOf ==
    /\ DayUnits \in Nat /\ MinSleep \in Nat /\ StartDelay \in Nat /\ OutageGrace \in Nat /\ MaxNow \in Nat
    /\ RetryEvery \in Nat /\ RetryEvery >= 1 /\ CheckEvery \in Nat /\ CheckEvery >= 1
    /\ 1 < MinSleep /\ MinSleep < DayUnits
    /\ \A s \in Starts : s \in Nat /\ DayUnits <= s /\ s <= MaxNow
    /\ \A j \in Jobs : j.at \in Nat /\ j.end \in Nat /\ j.at < DayUnits /\ j.end < DayUnits
  BY ScheduleAssumption DEF ScheduleAssumption

\* Later days are whole days later
LEMMA DaysApart ==
    ASSUME NEW d \in Int, NEW e \in Int, d < e
    PROVE  d * DayUnits \in Int /\ e * DayUnits \in Int /\ d * DayUnits + DayUnits <= e * DayUnits
<1>1. DayUnits \in Nat
  BY ClockOf
<1>2. PICK u \in Nat : u = DayUnits
  BY <1>1
<1>3. PICK k \in Nat : e = d + 1 + k
  <2>1. e - d - 1 \in Nat /\ e = d + 1 + (e - d - 1)
    OBVIOUS
  <2> QED  BY <2>1
<1>4. e * u = d * u + u + k * u /\ k * u \in Nat /\ d * u \in Int
  BY <1>3
<1> QED  BY <1>2, <1>4

\* A day times its length
LEMMA DayTimes ==
    ASSUME NEW d \in Int
    PROVE  d * DayUnits \in Int /\ (d + 1) * DayUnits = d * DayUnits + DayUnits /\ (d \in Nat => d * DayUnits \in Nat)
<1>1. PICK u \in Nat : u = DayUnits
  BY ClockOf
<1>2. d * u \in Int /\ (d + 1) * u = d * u + u /\ (d \in Nat => d * u \in Nat)
  OBVIOUS
<1> QED  BY <1>1, <1>2

\* The day of a time
LEMMA DayBounds ==
    ASSUME NEW t \in Nat
    PROVE  /\ DayOf(t) \in Nat /\ DayOf(t) * DayUnits \in Nat
           /\ DayOf(t) * DayUnits <= t /\ t < DayOf(t) * DayUnits + DayUnits
<1>1. PICK u \in Nat \ {0} : u = DayUnits
  BY ClockOf
<1>2. t \div u \in Nat /\ (t \div u) * u <= t /\ t < (t \div u) * u + u
  OBVIOUS
<1>3. DayOf(t) \in Nat
  BY <1>1, <1>2 DEF DayOf
<1> QED  BY <1>1, <1>2, <1>3, DayTimes DEF DayOf

\* The day of a time is the one it is in
LEMMA DayIs ==
    ASSUME NEW t \in Nat, NEW d \in Nat, d * DayUnits <= t, t < d * DayUnits + DayUnits
    PROVE  DayOf(t) = d
<1>1. /\ DayOf(t) \in Nat /\ d * DayUnits \in Int /\ DayUnits \in Nat
      /\ DayOf(t) * DayUnits \in Nat /\ DayOf(t) * DayUnits <= t /\ t < DayOf(t) * DayUnits + DayUnits
  BY DayBounds, DayTimes, ClockOf
<1>2. PICK c \in Nat : c = DayOf(t)
  BY <1>1
<1>3. CASE d < c
  <2>1. d * DayUnits + DayUnits <= c * DayUnits
    BY <1>3, DaysApart
  <2> QED  BY <1>1, <1>2, <2>1
<1>4. CASE c < d
  <2>1. c * DayUnits + DayUnits <= d * DayUnits
    BY <1>4, DaysApart
  <2> QED  BY <1>1, <1>2, <2>1
<1> QED  BY <1>2, <1>3, <1>4

\* Times of a job are days apart
LEMMA TimesApart ==
    ASSUME job \in Jobs, NEW s, NEW t, IsTime(s), IsTime(t), s < t
    PROVE  s \in Nat /\ t \in Nat /\ s + DayUnits <= t
<1>1. PICK d \in Nat : s = TimeOn(d, job.at)
  BY DEF IsTime
<1>2. PICK e \in Nat : t = TimeOn(e, job.at)
  BY DEF IsTime
<1>3. /\ d * DayUnits \in Nat /\ e * DayUnits \in Nat /\ job.at \in Nat /\ DayUnits \in Nat
      /\ s = d * DayUnits + job.at /\ t = e * DayUnits + job.at
  BY <1>1, <1>2, DayTimes, ClockOf DEF TimeOn
<1>4. CASE d < e
  BY <1>3, <1>4, DaysApart
<1>5. CASE e < d
  BY <1>3, <1>5, DaysApart
<1>6. CASE d = e
  BY <1>3, <1>6
<1> QED  BY <1>4, <1>5, <1>6

\* A time of a job is a natural number
LEMMA TimeNat ==
    ASSUME job \in Jobs, NEW t, IsTime(t)
    PROVE  t \in Nat
<1>1. PICK d \in Nat : t = d * DayUnits + job.at
  BY DEF IsTime, TimeOn
<1>2. d * DayUnits \in Nat /\ job.at \in Nat
  BY DayTimes, ClockOf
<1> QED  BY <1>1, <1>2

\* The day of a time, and the day after
LEMMA DayFacts ==
    ASSUME job \in Jobs, NEW t \in Nat
    PROVE  /\ DayOf(t) \in Nat /\ DayOf(t) * DayUnits \in Nat
           /\ (DayOf(t) + 1) * DayUnits = DayOf(t) * DayUnits + DayUnits
           /\ DayOf(t) * DayUnits <= t /\ t < DayOf(t) * DayUnits + DayUnits
           /\ job.at \in Nat /\ job.at < DayUnits /\ DayUnits \in Nat
<1>1. PICK c \in Nat : c = DayOf(t)
  BY DayBounds
<1>2. (c + 1) * DayUnits = c * DayUnits + DayUnits
  BY DayTimes
<1>3. job.at \in Nat /\ job.at < DayUnits /\ DayUnits \in Nat
  BY ClockOf
<1> QED  BY <1>1, <1>2, <1>3, DayBounds

\* The next time of a job after a time is the first one
LEMMA NextAtIs ==
    ASSUME job \in Jobs, NEW t \in Nat
    PROVE  /\ IsTime(NextAt(t, job.at)) /\ NextAt(t, job.at) \in Nat /\ t < NextAt(t, job.at)
           /\ \A s : IsTime(s) /\ s < NextAt(t, job.at) => s <= t
<1> DEFINE d == DayOf(t)
           n == NextAt(t, job.at)
<1>1. /\ d \in Nat /\ d * DayUnits \in Nat /\ (d + 1) * DayUnits = d * DayUnits + DayUnits
      /\ d * DayUnits <= t /\ t < d * DayUnits + DayUnits
      /\ job.at \in Nat /\ job.at < DayUnits /\ DayUnits \in Nat
  BY DayFacts
<1>2. CASE t >= TimeOn(d, job.at)
  <2>1. n = TimeOn(d + 1, job.at)
    BY <1>2 DEF NextAt
  <2>2. IsTime(n) /\ IsTime(TimeOn(d, job.at))
    BY <1>1, <2>1 DEF IsTime
  <2>3. n \in Nat /\ t < n /\ n = TimeOn(d, job.at) + DayUnits
    BY <1>1, <2>1 DEF TimeOn
  <2>4. ASSUME NEW s, IsTime(s), s < n
        PROVE  s <= t
    <3>1. s \in Nat /\ TimeOn(d, job.at) \in Nat
      BY <2>2, <2>4, TimeNat
    <3>2. CASE TimeOn(d, job.at) < s
      BY <1>1, <2>2, <2>3, <2>4, <3>1, <3>2, TimesApart
    <3> QED  BY <1>2, <3>1, <3>2
  <2> QED  BY <2>2, <2>3, <2>4
<1>3. CASE ~(t >= TimeOn(d, job.at))
  <2>1. n = TimeOn(d, job.at)
    BY <1>3 DEF NextAt
  <2>2. IsTime(n)
    BY <1>1, <2>1 DEF IsTime
  <2>3. n \in Nat /\ t < n /\ n < d * DayUnits + DayUnits
    BY <1>1, <1>3, <2>1 DEF TimeOn
  <2>4. ASSUME NEW s, IsTime(s), s < n
        PROVE  s <= t
    BY <1>1, <2>2, <2>3, <2>4, TimesApart
  <2> QED  BY <2>2, <2>3, <2>4
<1> QED  BY <1>2, <1>3

\* When a loop wakes that sleeps until a time
LEMMA WakesWhen ==
    ASSUME NEW t \in Nat, NEW until \in Nat, t < until, NEW w \in Wakes(t, until)
    PROVE  w \in Nat /\ t < w /\ until - 1 <= w /\ w < until + MinSleep
<1>1. PICK early \in {0, 1} : w = t + Greatest({MinSleep, until - t - early})
  BY DEF Wakes
<1> DEFINE x == until - t - early
           g == Greatest({MinSleep, x})
<1>2. MinSleep \in Nat /\ 1 < MinSleep /\ x \in Int
  BY ClockOf
<1>3. PICK y \in {MinSleep, x} : \A z \in {MinSleep, x} : y >= z
  BY <1>2
<1> HIDE DEF x
<1>4. g \in {MinSleep, x} /\ \A z \in {MinSleep, x} : g >= z
  BY <1>3 DEF Greatest
<1>5. g \in Int /\ g >= MinSleep /\ g >= x /\ (g = MinSleep \/ g = x)
  BY <1>2, <1>4
<1> HIDE DEF g
<1>6. w = t + g
  BY <1>1 DEF g, x
<1> QED  BY <1>2, <1>5, <1>6 DEF x

-----------------------------------------------------------------------------
(* Windows                                                                 *)

\* A window is no shorter than a shortest sleep, and shorter than a day
LEMMA LengthOf ==
    ASSUME job \in Jobs, job.kind = "history"
    PROVE  /\ Length \in Nat /\ MinSleep <= Length /\ Length < DayUnits
           /\ \A t \in Int : EndOf(t) = t + Length
<1>1. /\ job.at \in Nat /\ job.end \in Nat /\ job.at < DayUnits /\ job.end < DayUnits /\ DayUnits \in Nat
      /\ MinSleep \in Nat /\ 1 < MinSleep
      /\ IF job.at < job.end THEN job.end - job.at >= MinSleep
         ELSE job.at > job.end /\ job.end + DayUnits - job.at >= MinSleep
  BY ClockOf, ScheduleAssumption DEF ScheduleAssumption
<1> QED  BY <1>1 DEF Length, EndOf

\* From a unit before it begins to its end, a window stops at its end
LEMMA StopIs ==
    ASSUME job \in Jobs, job.kind = "history", NEW f, IsTime(f), NEW t \in Nat, f - 1 <= t, t < f + Length
    PROVE  StopAfter(t) = f + Length
<1>1. PICK d \in Nat : f = TimeOn(d, job.at)
  BY DEF IsTime
<1> DEFINE c == DayOf(t)
<1>2. /\ c \in Nat /\ c * DayUnits \in Nat /\ c * DayUnits <= t /\ t < c * DayUnits + DayUnits
      /\ d * DayUnits \in Nat /\ f = d * DayUnits + job.at
      /\ job.at \in Nat /\ job.end \in Nat /\ job.at < DayUnits /\ job.end < DayUnits /\ DayUnits \in Nat
      /\ Length \in Nat /\ 1 < Length /\ Length < DayUnits
      /\ SameDay(t) = c * DayUnits + job.end
      /\ StopAfter(t) = IF SameDay(t) <= t THEN SameDay(t) + DayUnits ELSE SameDay(t)
  BY <1>1, DayBounds, DayTimes, ClockOf, LengthOf DEF TimeOn, SameDay, StopAfter
<1>3. f + Length = d * DayUnits + job.end \/ f + Length = d * DayUnits + job.end + DayUnits
  BY <1>2 DEF Length
<1> HIDE DEF c
<1>4. CASE c = d
  BY <1>2, <1>3, <1>4
<1>5. CASE c < d
  <2>1. c * DayUnits + DayUnits <= d * DayUnits
    BY <1>2, <1>5, DaysApart
  <2>2. t = d * DayUnits - 1 /\ c * DayUnits + DayUnits = d * DayUnits /\ job.at = 0
    BY <1>2, <2>1
  <2>3. Length = job.end
    BY <1>2, <2>2, LengthOf DEF Length
  <2> QED  BY <1>2, <2>2, <2>3
<1>6. CASE d < c
  <2>1. d * DayUnits + DayUnits <= c * DayUnits
    BY <1>2, <1>6, DaysApart
  <2>2. f + Length = d * DayUnits + job.end + DayUnits
    BY <1>2, <1>3, <2>1
  <2>3. CASE c = d + 1
    BY <1>2, <2>2, <2>3, DayTimes
  <2>4. CASE d + 1 < c
    <3>1. (d + 1) * DayUnits + DayUnits <= c * DayUnits /\ (d + 1) * DayUnits = d * DayUnits + DayUnits
      BY <1>2, <2>4, DaysApart, DayTimes
    <3> QED  BY <1>2, <2>2, <3>1
  <2> QED  BY <1>2, <1>6, <2>3, <2>4
<1> QED  BY <1>2, <1>4, <1>5, <1>6

\* A window that is found open has begun and is not over
LEMMA ActiveIs ==
    ASSUME job \in Jobs, job.kind = "history", NEW t \in Nat, DayUnits <= t, ActiveWindow(t) # Never
    PROVE  /\ IsTime(ActiveWindow(t)) /\ ActiveWindow(t) \in Nat
           /\ ActiveWindow(t) <= t /\ t < ActiveWindow(t) + Length
<1> DEFINE d == DayOf(t)
           b == ActiveWindow(t)
<1>1. /\ d \in Nat /\ d * DayUnits \in Nat /\ d * DayUnits <= t /\ t < d * DayUnits + DayUnits
      /\ job.at \in Nat /\ job.end \in Nat /\ job.at < DayUnits /\ job.end < DayUnits /\ DayUnits \in Nat
      /\ TimeOn(d, job.at) = d * DayUnits + job.at /\ TimeOn(d, job.end) = d * DayUnits + job.end
  BY DayBounds, ClockOf DEF TimeOn
<1>2. d - 1 \in Nat /\ d * DayUnits = (d - 1) * DayUnits + DayUnits
  <2>1. d # 0
    <3> SUFFICES ASSUME d = 0 PROVE FALSE
      OBVIOUS
    <3>1. 0 * DayUnits = 0
      BY ClockOf
    <3> QED  BY <1>1, <3>1
  <2>2. d - 1 \in Int /\ d = (d - 1) + 1 /\ d - 1 \in Nat
    BY <1>1, <2>1
  <2> QED  BY <2>2, DayTimes
<1>3. b = IF job.at < job.end
          THEN (IF TimeOn(d, job.at) <= t /\ t < TimeOn(d, job.end) THEN TimeOn(d, job.at) ELSE Never)
          ELSE IF t >= TimeOn(d, job.at) THEN TimeOn(d, job.at)
          ELSE IF t < TimeOn(d, job.end) THEN TimeOn(d, job.at) - DayUnits
          ELSE Never
  BY DEF ActiveWindow
<1>4. IsTime(TimeOn(d, job.at)) /\ IsTime(TimeOn(d - 1, job.at))
  BY <1>1, <1>2 DEF IsTime
<1>5. TimeOn(d - 1, job.at) = TimeOn(d, job.at) - DayUnits
  <2>1. (d - 1) * DayUnits \in Int
    BY <1>2, DayTimes
  <2> QED  BY <1>1, <1>2, <2>1 DEF TimeOn
<1>6. Length = IF job.end > job.at THEN job.end - job.at ELSE job.end - job.at + DayUnits
  BY DEF Length
<1>7. CASE b = TimeOn(d, job.at)
  BY <1>1, <1>3, <1>4, <1>6, <1>7
<1>8. CASE b # TimeOn(d, job.at)
  <2>1. b = TimeOn(d - 1, job.at) /\ ~(job.at < job.end) /\ t < TimeOn(d, job.end) /\ ~(t >= TimeOn(d, job.at))
    BY <1>1, <1>3, <1>5, <1>8
  <2>2. b \in Nat
    BY <1>4, <2>1, TimeNat
  <2> QED  BY <1>1, <1>4, <1>5, <1>6, <2>1, <2>2
<1> QED  BY <1>7, <1>8

\* The next maintenance window is the first one on a day that has one
LEMMA NextWindowIs ==
    ASSUME job \in Jobs, NEW t \in Nat
    PROVE  /\ NextWindow(t) \in Nat /\ t <= NextWindow(t)
           /\ \E d \in Nat \ Weekend : NextWindow(t) = TimeOn(d, job.at)
           /\ \A e \in Nat \ Weekend : t <= TimeOn(e, job.at) => NextWindow(t) <= TimeOn(e, job.at)
<1> DEFINE c == DayOf(t)
           first == IF t > TimeOn(c, job.at) THEN c + 1 ELSE c
           last == first + Cardinality(Weekend)
           S == {d \in first..last : d \notin Weekend}
<1>1. /\ c \in Nat /\ c * DayUnits \in Nat /\ (c + 1) * DayUnits = c * DayUnits + DayUnits
      /\ c * DayUnits <= t /\ t < c * DayUnits + DayUnits
      /\ job.at \in Nat /\ job.at < DayUnits /\ DayUnits \in Nat
  BY DayFacts
<1>2. /\ first \in Nat /\ t <= TimeOn(first, job.at) /\ TimeOn(first, job.at) < t + DayUnits
  BY <1>1 DEF TimeOn
<1>3. IsFiniteSet(Weekend) /\ Cardinality(Weekend) \in Nat
  BY ScheduleAssumption, FS_CardinalityType DEF ScheduleAssumption
<1> HIDE DEF first
<1>4. S # {} /\ S \subseteq Nat
  <2>1. S \subseteq Nat /\ last \in Nat
    BY <1>2, <1>3
  <2>2. ASSUME S = {} PROVE FALSE
    <3>1. first..last \subseteq Weekend
      BY <2>2
    <3>2. IsFiniteSet(first..last) /\ Cardinality(first..last) = Cardinality(Weekend) + 1
      BY <1>2, <1>3, <2>1, FS_Interval
    <3>3. Cardinality(first..last) <= Cardinality(Weekend)
      BY <1>3, <3>1, FS_Subset
    <3> QED  BY <1>3, <3>2, <3>3
  <2> QED  BY <2>1, <2>2
<1>5. Least(S) \in S /\ \A n \in S : Least(S) <= n
  BY <1>4, LeastExists
<1>6. PICK d : d = Least(S)
  OBVIOUS
<1>7. NextWindow(t) = TimeOn(d, job.at)
  BY <1>6 DEF NextWindow, first
<1>8. d \in Nat \ Weekend /\ first <= d /\ \A n \in S : d <= n
  BY <1>2, <1>3, <1>4, <1>5, <1>6
<1>9. \A x, y \in Nat : x <= y => TimeOn(x, job.at) \in Nat /\ TimeOn(y, job.at) \in Nat /\ TimeOn(x, job.at) <= TimeOn(y, job.at)
  <2> SUFFICES ASSUME NEW x \in Nat, NEW y \in Nat, x <= y
               PROVE  TimeOn(x, job.at) \in Nat /\ TimeOn(y, job.at) \in Nat /\ TimeOn(x, job.at) <= TimeOn(y, job.at)
    OBVIOUS
  <2>1. x * DayUnits \in Nat /\ y * DayUnits \in Nat
    BY DayTimes
  <2>2. CASE x = y
    BY <1>1, <2>1, <2>2 DEF TimeOn
  <2>3. CASE x < y
    BY <1>1, <2>1, <2>3, DaysApart DEF TimeOn
  <2> QED  BY <2>2, <2>3
<1>10. ASSUME NEW e \in Nat \ Weekend, t <= TimeOn(e, job.at)
       PROVE  TimeOn(d, job.at) <= TimeOn(e, job.at)
  <2>1. first <= e
    <3> SUFFICES ASSUME e < first PROVE FALSE
      BY <1>2
    <3>1. e * DayUnits + DayUnits <= first * DayUnits /\ e * DayUnits \in Int /\ first * DayUnits \in Int
      BY <1>2, DaysApart
    <3> QED  BY <1>1, <1>2, <1>10, <3>1 DEF TimeOn
  <2>2. d <= e
    <3>1. CASE e <= last
      <4>1. e \in S
        BY <1>2, <1>3, <2>1, <3>1
      <4> QED  BY <1>8, <4>1
    <3>2. CASE e > last
      <4>1. d <= last
        BY <1>5, <1>6, <1>2, <1>3
      <4> QED  BY <1>2, <1>3, <1>8, <3>2, <4>1
    <3> QED  BY <1>2, <1>3, <3>1, <3>2
  <2> QED  BY <1>8, <1>9, <2>2
<1>11. t <= TimeOn(d, job.at) /\ TimeOn(d, job.at) \in Nat
  <2>1. TimeOn(first, job.at) \in Nat /\ TimeOn(d, job.at) \in Nat /\ TimeOn(first, job.at) <= TimeOn(d, job.at)
    BY <1>2, <1>8, <1>9
  <2> QED  BY <1>2, <2>1
<1> QED  BY <1>7, <1>8, <1>10, <1>11

-----------------------------------------------------------------------------
(* The loops that keep to the clock: what is always known                  *)

ScPcs == {"starting", "sleeping", "running", "retrying", "requested"}
ScLoops == [pc : ScPcs, wake : Int, for : Int, stop : Int, episode : Int, window : Int]
ScRuns == [at : Nat, for : Nat, date : Nat, end : Int, ready : BOOLEAN]

ScTyped ==
    /\ job \in Jobs /\ since \in Starts /\ time \in Nat /\ since <= time /\ time <= MaxNow
    /\ healthy \in BOOLEAN /\ loop \in ScLoops /\ runs \subseteq ScRuns
    /\ requests \subseteq [at : Int, sound : Int] /\ looks \in [sound : Int, broken : Int]

\* No loop sleeps too long
InTime == loop.pc \in {"starting", "sleeping", "retrying"} => time <= loop.wake

\* A run is for a time, begins about then, and has the date of the day it began
Room == IF job.kind = "history" THEN Length ELSE MinSleep
RunFits(r) ==
    IsTime(r.for) /\ r.for - 1 <= r.at /\ r.at < r.for + Room /\ r.at <= time /\ r.date = DayOf(r.at)

\* Of the runs at most the last is going on
LastRun(r) == r \in runs /\ r.end = Never /\ r.for = loop.for /\ \A q \in runs : q.at <= r.at /\ (q.end = Never => q = r)
OpenRun ==
    IF loop.pc = "running" THEN \E r \in runs : LastRun(r) ELSE \A r \in runs : r.end # Never

\* The daily loops and the one with a window
Clocked ==
    /\ loop.pc \in ScPcs \ {"requested"} /\ requests = {} /\ loop.episode = Never
    /\ \A r \in runs : RunFits(r)
    /\ OpenRun
    /\ loop.pc = "starting" => runs = {} /\ loop.wake = since + StartDelay
    /\ loop.pc = "sleeping" => IsTime(loop.for) /\ loop.for - 1 <= loop.wake /\ loop.wake < loop.for + MinSleep

ServedAt(t) ==
    \E r \in runs : \/ r.at \in t - 1..t + MinSleep
                    \/ (r.at < t /\ (r.end = Never \/ r.end >= t))

\* Before the time a daily loop sleeps until, or up to now while it runs, every time was served
DailyInv ==
    /\ loop.pc # "retrying"
    /\ \A t : IsTime(t) /\ since + StartDelay < t =>
          /\ loop.pc = "sleeping" /\ t < loop.for => ServedAt(t)
          /\ loop.pc = "running" /\ t <= time => ServedAt(t)

\* The last run for a time was complete, or ended too late for another
DoneWith(t) ==
    \E r \in runs : /\ r.for = t /\ \A q \in runs : q.for = t => q.at <= r.at
                    /\ r.end # Never /\ (r.ready \/ r.end + RetryEvery >= t + Length)
Concerns(t) == IsTime(t) /\ (since + StartDelay < t \/ t = ActiveWindow(since + StartDelay))

HistoryInv ==
    /\ loop.pc \in {"running", "retrying"} =>
          IsTime(loop.for) /\ loop.for - 1 <= time /\ loop.stop = loop.for + Length
    /\ loop.pc = "running" => time <= loop.stop
    /\ loop.pc = "retrying" => loop.wake < loop.stop
    /\ loop.pc # "starting" => \A t : Concerns(t) /\ t < loop.for => DoneWith(t)

IsWindow(w) == \E d \in Nat \ Weekend : w = TimeOn(d, job.at)

WatchInv ==
    /\ runs = {} /\ loop.pc \in {"starting", "requested"}
    /\ RestartJustified /\ OutageEndsInRestart
    /\ loop.pc = "starting" =>
          /\ looks.sound < loop.wake /\ \A q \in requests : q.at < loop.wake
          /\ loop.episode # Never =>
                /\ looks.sound < loop.episode /\ IsWindow(loop.window) /\ loop.episode <= loop.window
                /\ \A q \in requests : q.at < loop.window
                /\ \A w : IsWindow(w) /\ loop.episode <= w /\ w < loop.window => \E q \in requests : q.at >= w

SchedInv ==
    /\ ScTyped /\ InTime
    /\ job.kind # "maintenance" => Clocked
    /\ job.kind = "daily" => DailyInv
    /\ job.kind = "history" => HistoryInv
    /\ job.kind = "maintenance" => WatchInv

-----------------------------------------------------------------------------
(* The parts of a step                                                     *)

\* A loop sleeps until its next time
LEMMA SleepIs ==
    ASSUME ScTyped, SleepUntilTime
    PROVE  /\ loop' \in ScLoops /\ loop'.pc = "sleeping" /\ loop'.episode = loop.episode
           /\ loop'.for \in Nat /\ IsTime(loop'.for) /\ time < loop'.wake
           /\ loop'.for - 1 <= loop'.wake /\ loop'.wake < loop'.for + MinSleep
           /\ \A s : IsTime(s) /\ s < loop'.for => s <= time
<1>1. PICK n : n = NextAt(time, job.at)
  OBVIOUS
<1>2. PICK w \in Wakes(time, n) : loop' = [loop EXCEPT !.pc = "sleeping", !.wake = w, !.for = n]
  BY <1>1 DEF SleepUntilTime, Sleeps
<1>3. IsTime(n) /\ n \in Nat /\ time < n /\ \A s : IsTime(s) /\ s < n => s <= time
  BY <1>1, NextAtIs DEF ScTyped
<1>4. w \in Nat /\ time < w /\ n - 1 <= w /\ w < n + MinSleep
  BY <1>3, WakesWhen DEF ScTyped
<1>5. loop \in ScLoops /\ n \in Int /\ w \in Int /\ "sleeping" \in ScPcs
  BY <1>3, <1>4 DEF ScTyped, ScPcs
<1>6. loop' \in ScLoops
  BY <1>2, <1>5 DEF ScLoops
<1>7. loop'.pc = "sleeping" /\ loop'.episode = loop.episode /\ loop'.for = n /\ loop'.wake = w
  BY <1>2, <1>5 DEF ScLoops
<1> QED  BY <1>3, <1>4, <1>6, <1>7

\* A run begins
LEMMA BeginIs ==
    ASSUME ScTyped, \A r \in runs : RunFits(r), NEW for \in Nat, IsTime(for),
           for - 1 <= time, time < for + Room, RunBegins(for), time' = time, job' = job
    PROVE  /\ runs' \subseteq ScRuns /\ (\A r \in runs : RunFits(r))' /\ runs \subseteq runs'
           /\ \E n \in runs' : /\ n.at = time /\ n.for = for /\ n.end = Never
                               /\ \A r \in runs' : r.at <= n.at /\ (r = n \/ r \in runs)
<1>1. PICK n : n = [at |-> time, for |-> for, date |-> DayOf(time), end |-> Never, ready |-> FALSE]
  OBVIOUS
<1>2. runs' = runs \cup {n}
  BY <1>1 DEF RunBegins
<1>3. DayOf(time) \in Nat /\ time \in Nat
  BY DayBounds DEF ScTyped
<1>4. n \in ScRuns /\ n.at = time /\ n.for = for /\ n.end = Never /\ n.date = DayOf(time)
  BY <1>1, <1>3 DEF ScRuns, Never
<1>5. \A r \in runs : RunFits(r)'
  BY DEF RunFits, IsTime, Room, Length
<1>6. RunFits(n)'
  BY <1>3, <1>4 DEF RunFits, IsTime, Room, Length
<1>7. \A r \in runs : r.at <= time
  BY DEF RunFits
<1> QED  BY <1>2, <1>3, <1>4, <1>5, <1>6, <1>7 DEF ScTyped

\* The run that is going on ends
LEMMA EndIs ==
    ASSUME ScTyped, \A r \in runs : RunFits(r), NEW o, LastRun(o), NEW ready \in BOOLEAN,
           RunEnds(ready), time' = time, job' = job
    PROVE  /\ runs' \subseteq ScRuns /\ (\A r \in runs : RunFits(r))' /\ \A r \in runs : r = o \/ r \in runs'
           /\ \E n \in runs' : /\ n.at = o.at /\ n.for = o.for /\ n.end = time /\ n.ready = ready
                               /\ \A r \in runs' : r = n \/ (r \in runs /\ r.end # Never)
<1>1. PICK n : n = [o EXCEPT !.end = time, !.ready = ready]
  OBVIOUS
<1>2. o \in runs /\ o \in ScRuns /\ o.end = Never /\ \A r \in runs : r.end = Never => r = o
  BY DEF LastRun, ScTyped
<1>3. n \in ScRuns /\ n.at = o.at /\ n.for = o.for /\ n.date = o.date /\ n.end = time /\ n.ready = ready
  <2>1. time \in Int
    BY DEF ScTyped
  <2>2. n \in ScRuns
    BY <1>1, <1>2, <2>1 DEF ScRuns
  <2>3. n.at = o.at /\ n.for = o.for /\ n.date = o.date /\ n.end = time /\ n.ready = ready
    BY <1>1, <1>2 DEF ScRuns
  <2> QED  BY <2>2, <2>3
<1>4. \A r \in runs : (IF r.end = Never THEN [r EXCEPT !.end = time, !.ready = ready] ELSE r) = IF r = o THEN n ELSE r
  BY <1>1, <1>2
<1>5. runs' = {IF r = o THEN n ELSE r : r \in runs}
  BY <1>4 DEF RunEnds
<1>6. n \in runs' /\ \A r \in runs : r = o \/ r \in runs'
  BY <1>2, <1>5
<1>7. \A r \in runs' : r = n \/ (r \in runs /\ r # o)
  BY <1>5
<1>8. \A r \in runs' : r = n \/ (r \in runs /\ r.end # Never)
  BY <1>2, <1>7
<1>9. \A r \in runs : RunFits(r)'
  BY DEF RunFits, IsTime, Room, Length
<1>10. RunFits(n)'
  BY <1>2, <1>3, <1>9 DEF RunFits
<1>11. (\A r \in runs : RunFits(r))'
  BY <1>8, <1>9, <1>10
<1>12. runs' \subseteq ScRuns
  BY <1>3, <1>8 DEF ScTyped
<1> QED  BY <1>3, <1>6, <1>8, <1>11, <1>12

\* A loop that has waited is on time
LEMMA AwakeIs ==
    ASSUME ScTyped, InTime, NEW pc \in {"starting", "sleeping", "retrying"}, Awake(pc)
    PROVE  loop.pc = pc /\ time = loop.wake
  BY DEF ScTyped, InTime, Awake, ScLoops

\* What a step that leaves the clock keeps of the types
LEMMA StillTyped ==
    ASSUME ScTyped, OnlyLoop, loop' \in ScLoops, runs' \subseteq ScRuns
    PROVE  ScTyped'
  BY DEF ScTyped, OnlyLoop

-----------------------------------------------------------------------------
(* The daily loops                                                         *)

LEMMA DailyBeginsKeeps == SchedInv /\ DailyBegins => SchedInv'
<1> SUFFICES ASSUME SchedInv, DailyBegins PROVE SchedInv'
  OBVIOUS
<1>1. /\ ScTyped /\ InTime /\ Clocked /\ job.kind = "daily" /\ job' = job /\ time' = time /\ since' = since
      /\ runs' = runs /\ SleepUntilTime /\ OnlyLoop
  BY DEF SchedInv, DailyBegins, OnlyLoop
<1>2. loop.pc = "starting" /\ time = loop.wake
  BY <1>1, AwakeIs DEF DailyBegins
<1>3. runs = {} /\ time = since + StartDelay /\ loop.episode = Never /\ requests' = {}
  BY <1>1, <1>2 DEF Clocked, OnlyLoop
<1>4. /\ loop' \in ScLoops /\ loop'.pc = "sleeping" /\ loop'.episode = loop.episode
      /\ IsTime(loop'.for) /\ time < loop'.wake
      /\ loop'.for - 1 <= loop'.wake /\ loop'.wake < loop'.for + MinSleep
      /\ \A s : IsTime(s) /\ s < loop'.for => s <= time
  BY <1>1, SleepIs
<1>5. ScTyped'
  BY <1>1, <1>3, <1>4, StillTyped
<1>6. InTime' /\ Clocked'
  BY <1>1, <1>3, <1>4 DEF InTime, Clocked, OpenRun, ScPcs, IsTime, ScTyped, ScLoops
<1>7. DailyInv'
  <2>1. ASSUME NEW t, IsTime(t), since + StartDelay < t, t < loop'.for
        PROVE  FALSE
    <3>1. t \in Nat /\ t <= time /\ time \in Nat
      BY <1>1, <1>4, <2>1, TimeNat DEF ScTyped
    <3> QED  BY <1>3, <2>1, <3>1
  <2> QED  BY <1>1, <1>4, <2>1 DEF DailyInv, IsTime
<1> QED  BY <1>1, <1>5, <1>6, <1>7 DEF SchedInv

LEMMA DailyRunsKeeps == SchedInv /\ DailyRuns => SchedInv'
<1> SUFFICES ASSUME SchedInv, DailyRuns PROVE SchedInv'
  OBVIOUS
<1>1. /\ ScTyped /\ InTime /\ Clocked /\ DailyInv /\ job.kind = "daily" /\ job' = job /\ time' = time /\ since' = since
      /\ RunBegins(loop.for) /\ OnlyLoop /\ loop' = [loop EXCEPT !.pc = "running"] /\ requests' = requests
  BY DEF SchedInv, DailyRuns, OnlyLoop
<1>2. loop.pc = "sleeping" /\ time = loop.wake
  BY <1>1, AwakeIs DEF DailyRuns
<1>3. /\ loop' \in ScLoops /\ loop'.pc = "running" /\ loop'.for = loop.for /\ loop'.episode = loop.episode
  BY <1>1 DEF ScTyped, ScLoops, ScPcs
<1>4. /\ IsTime(loop.for) /\ loop.for \in Nat /\ loop.for - 1 <= time /\ time < loop.for + MinSleep /\ Room = MinSleep
      /\ \A r \in runs : RunFits(r) /\ r.end # Never
  BY <1>1, <1>2, TimeNat DEF Clocked, Room, OpenRun, ScTyped
<1>5. /\ runs' \subseteq ScRuns /\ (\A r \in runs : RunFits(r))' /\ runs \subseteq runs'
  BY <1>1, <1>4, BeginIs
<1>6. PICK n \in runs' : /\ n.at = time /\ n.for = loop.for /\ n.end = Never
                         /\ \A r \in runs' : r.at <= n.at /\ (r = n \/ r \in runs)
  BY <1>1, <1>4, BeginIs
<1>7. ScTyped' /\ InTime'
  BY <1>1, <1>3, <1>5, StillTyped DEF InTime
<1>8. LastRun(n)'
  BY <1>3, <1>4, <1>6 DEF LastRun
<1>9. Clocked'
  BY <1>1, <1>3, <1>5, <1>8 DEF Clocked, OpenRun, ScPcs
<1>10. DailyInv'
  <2>1. ASSUME NEW t, IsTime(t), since + StartDelay < t, t <= time
        PROVE  ServedAt(t)'
    <3>1. t \in Nat /\ time \in Nat /\ MinSleep \in Nat /\ MinSleep < DayUnits /\ DayUnits \in Nat
      BY <1>1, <2>1, TimeNat, ClockOf DEF ScTyped
    <3>2. CASE t < loop.for
      <4>1. ServedAt(t)
        BY <1>1, <1>2, <2>1, <3>2 DEF DailyInv
      <4> QED  BY <1>5, <4>1 DEF ServedAt
    <3>3. CASE t = loop.for
      <4>1. n.at \in t - 1..t + MinSleep
        BY <1>4, <1>6, <3>1, <3>3
      <4> QED  BY <1>6, <4>1 DEF ServedAt
    <3>4. CASE loop.for < t
      <4>1. loop.for + DayUnits <= t
        BY <1>1, <1>4, <2>1, <3>4, TimesApart DEF ScTyped
      <4> QED  BY <1>4, <2>1, <3>1, <4>1
    <3> QED  BY <1>4, <3>1, <3>2, <3>3, <3>4
  <2> QED  BY <1>1, <1>3, <2>1 DEF DailyInv, IsTime
<1> QED  BY <1>1, <1>7, <1>9, <1>10 DEF SchedInv

LEMMA DailyEndsKeeps == SchedInv /\ DailyEnds => SchedInv'
<1> SUFFICES ASSUME SchedInv, DailyEnds PROVE SchedInv'
  OBVIOUS
<1>1. /\ ScTyped /\ InTime /\ Clocked /\ DailyInv /\ job.kind = "daily" /\ job' = job /\ time' = time /\ since' = since
      /\ RunEnds(TRUE) /\ OnlyLoop /\ SleepUntilTime /\ requests' = requests /\ loop.pc = "running"
      /\ time \in Nat
  BY DEF SchedInv, DailyEnds, OnlyLoop, ScTyped
<1>2. PICK o : LastRun(o)
  BY <1>1 DEF Clocked, OpenRun
<1>3. /\ loop' \in ScLoops /\ loop'.pc = "sleeping" /\ loop'.episode = loop.episode
      /\ IsTime(loop'.for) /\ time < loop'.wake
      /\ loop'.for - 1 <= loop'.wake /\ loop'.wake < loop'.for + MinSleep
      /\ \A s : IsTime(s) /\ s < loop'.for => s <= time
  BY <1>1, SleepIs
<1>4. (\A r \in runs : RunFits(r)) /\ requests = {} /\ loop.episode = Never
  BY <1>1 DEF Clocked
<1>5. /\ runs' \subseteq ScRuns /\ (\A r \in runs : RunFits(r))' /\ \A r \in runs : r = o \/ r \in runs'
  BY <1>1, <1>2, <1>4, EndIs
<1>6. PICK n \in runs' : /\ n.at = o.at /\ n.for = o.for /\ n.end = time /\ n.ready = TRUE
                         /\ \A r \in runs' : r = n \/ (r \in runs /\ r.end # Never)
  BY <1>1, <1>2, <1>4, EndIs
<1>7. ScTyped'
  BY <1>1, <1>3, <1>5, StillTyped
<1>8. InTime'
  BY <1>1, <1>3 DEF InTime, ScTyped, ScLoops
<1>9. OpenRun'
  BY <1>1, <1>3, <1>6 DEF OpenRun, Never
<1>10. Clocked'
  BY <1>1, <1>3, <1>4, <1>5, <1>9 DEF Clocked, ScPcs, IsTime
<1>11. DailyInv'
  <2>1. ASSUME NEW t, IsTime(t), since + StartDelay < t, t <= time
        PROVE  ServedAt(t)'
    <3>1. t \in Nat
      BY <1>1, <2>1, TimeNat DEF ScTyped
    <3>2. PICK r \in runs : \/ r.at \in t - 1..t + MinSleep
                            \/ (r.at < t /\ (r.end = Never \/ r.end >= t))
      BY <1>1, <2>1 DEF DailyInv, ServedAt
    <3>3. CASE r = o
      BY <1>1, <1>6, <2>1, <3>1, <3>2, <3>3 DEF ServedAt
    <3>4. CASE r # o
      BY <1>5, <3>2, <3>4 DEF ServedAt
    <3> QED  BY <3>3, <3>4
  <2> QED  BY <1>1, <1>3, <2>1 DEF DailyInv, IsTime
<1> QED  BY <1>1, <1>7, <1>8, <1>10, <1>11 DEF SchedInv

-----------------------------------------------------------------------------
(* The sync of history in its window                                       *)

\* A run of the window a loop is in begins
LEMMA AttemptKeeps ==
    ASSUME SchedInv, job.kind = "history", OnlyLoop, NEW for, IsTime(for), NEW stop, stop = for + Length,
           for - 1 <= time, time < stop, loop.pc \in {"starting", "sleeping", "retrying"}, Attempts(for, stop),
           \A t : Concerns(t) /\ t < for => DoneWith(t)
    PROVE  SchedInv'
<1>1. /\ ScTyped /\ InTime /\ Clocked /\ job' = job /\ time' = time /\ since' = since
      /\ RunBegins(for) /\ requests' = requests /\ time \in Nat
      /\ loop' = [loop EXCEPT !.pc = "running", !.for = for, !.stop = stop]
  BY DEF SchedInv, Attempts, OnlyLoop, ScTyped
<1>2. Length \in Nat /\ for \in Nat /\ Room = Length
  BY <1>1, LengthOf, TimeNat DEF ScTyped, Room
<1>3. loop' \in ScLoops
  <2>1. loop \in ScLoops /\ for \in Int /\ stop \in Int /\ "running" \in ScPcs
    BY <1>1, <1>2 DEF ScTyped, ScPcs
  <2> QED  BY <1>1, <2>1 DEF ScLoops
<1>4. loop'.pc = "running" /\ loop'.for = for /\ loop'.stop = stop /\ loop'.episode = loop.episode
  BY <1>1 DEF ScTyped, ScLoops
<1>5. \A r \in runs : RunFits(r) /\ r.end # Never
  BY <1>1 DEF Clocked, OpenRun
<1>6. /\ runs' \subseteq ScRuns /\ (\A r \in runs : RunFits(r))' /\ runs \subseteq runs'
  BY <1>1, <1>2, <1>5, BeginIs
<1>7. PICK n \in runs' : /\ n.at = time /\ n.for = for /\ n.end = Never
                         /\ \A r \in runs' : r.at <= n.at /\ (r = n \/ r \in runs)
  BY <1>1, <1>2, <1>5, BeginIs
<1>8. ScTyped' /\ InTime'
  BY <1>1, <1>3, <1>4, <1>6, StillTyped DEF InTime
<1>9. LastRun(n)'
  BY <1>4, <1>5, <1>7 DEF LastRun
<1>10. Clocked'
  BY <1>1, <1>4, <1>6, <1>9 DEF Clocked, OpenRun, ScPcs
<1>11. ASSUME NEW t, Concerns(t)', t < for
       PROVE  DoneWith(t)'
  <2>1. Concerns(t) /\ IsTime(t)
    BY <1>1, <1>11 DEF Concerns, IsTime, ActiveWindow
  <2>2. t # for
    BY <1>1, <1>2, <1>11, <2>1, TimeNat DEF ScTyped
  <2>3. PICK r \in runs : /\ r.for = t /\ \A q \in runs : q.for = t => q.at <= r.at
                          /\ r.end # Never /\ (r.ready \/ r.end + RetryEvery >= t + Length)
    BY <1>11, <2>1 DEF DoneWith
  <2>4. r \in runs' /\ \A q \in runs' : q.for = t => q.at <= r.at
    BY <1>6, <1>7, <2>2, <2>3
  <2>5. Length' = Length
    BY <1>1 DEF Length
  <2> QED  BY <2>3, <2>4, <2>5 DEF DoneWith
<1>12. HistoryInv'
  <2>1. IsTime(for)' /\ Length' = Length
    BY <1>1 DEF IsTime, Length
  <2>2. time <= stop
    BY <1>1, <1>2
  <2> QED  BY <1>1, <1>4, <1>11, <2>1, <2>2 DEF HistoryInv
<1> QED  BY <1>1, <1>8, <1>10, <1>12 DEF SchedInv

LEMMA WindowLoopBeginsKeeps == SchedInv /\ WindowLoopBegins => SchedInv'
<1> SUFFICES ASSUME SchedInv, WindowLoopBegins PROVE SchedInv'
  OBVIOUS
<1>1. /\ ScTyped /\ InTime /\ Clocked /\ job.kind = "history" /\ job' = job /\ time' = time /\ since' = since
      /\ OnlyLoop /\ time \in Nat
  BY DEF SchedInv, WindowLoopBegins, OnlyLoop, ScTyped
<1>2. loop.pc = "starting" /\ time = loop.wake
  BY <1>1, AwakeIs DEF WindowLoopBegins
<1>3. runs = {} /\ time = since + StartDelay /\ loop.episode = Never /\ requests' = {}
  BY <1>1, <1>2 DEF Clocked, OnlyLoop
<1>4. DayUnits <= time /\ job \in Jobs
  BY <1>1, ClockOf DEF ScTyped
<1>5. CASE ActiveWindow(time) # Never
  <2>1. PICK b : b = ActiveWindow(time)
    OBVIOUS
  <2>2. IsTime(b) /\ b \in Nat /\ b <= time /\ time < b + Length
    BY <1>1, <1>4, <1>5, <2>1, ActiveIs
  <2>3. StopAfter(b) = b + Length /\ Length \in Nat
    BY <1>1, <1>4, <2>2, StopIs, LengthOf
  <2>4. Attempts(b, StopAfter(b))
    BY <1>5, <2>1 DEF WindowLoopBegins
  <2>5. ASSUME NEW t, Concerns(t), t < b
        PROVE  FALSE
    <3>1. t \in Nat
      BY <1>4, <2>5, TimeNat DEF Concerns
    <3> QED  BY <1>1, <1>3, <2>1, <2>2, <2>5, <3>1 DEF Concerns
  <2> QED  BY <1>1, <1>2, <2>2, <2>3, <2>4, <2>5, AttemptKeeps
<1>6. CASE ActiveWindow(time) = Never
  <2>1. SleepUntilTime /\ runs' = runs
    BY <1>6 DEF WindowLoopBegins
  <2>2. /\ loop' \in ScLoops /\ loop'.pc = "sleeping" /\ loop'.episode = loop.episode
        /\ IsTime(loop'.for) /\ time < loop'.wake
        /\ loop'.for - 1 <= loop'.wake /\ loop'.wake < loop'.for + MinSleep
        /\ \A s : IsTime(s) /\ s < loop'.for => s <= time
    BY <1>1, <2>1, SleepIs
  <2>3. ScTyped'
    BY <1>1, <1>3, <2>1, <2>2, StillTyped DEF ScTyped
  <2>4. InTime' /\ Clocked'
    BY <1>1, <1>3, <2>1, <2>2 DEF InTime, Clocked, OpenRun, ScPcs, IsTime, ScTyped, ScLoops
  <2>5. ASSUME NEW t, Concerns(t), t < loop'.for
        PROVE  FALSE
    <3>1. t \in Nat /\ t <= time
      BY <1>4, <2>2, <2>5, TimeNat DEF Concerns
    <3> QED  BY <1>1, <1>3, <1>6, <2>5, <3>1 DEF Concerns, Never
  <2>6. ASSUME NEW t, Concerns(t)', t < loop'.for
        PROVE  FALSE
    <3>1. Concerns(t)
      BY <1>1, <2>6 DEF Concerns, IsTime, ActiveWindow
    <3> QED  BY <2>5, <2>6, <3>1
  <2>7. HistoryInv'
    BY <2>2, <2>6 DEF HistoryInv
  <2> QED  BY <1>1, <2>3, <2>4, <2>7 DEF SchedInv
<1> QED  BY <1>5, <1>6

LEMMA WindowOpensKeeps == SchedInv /\ WindowOpens => SchedInv'
<1> SUFFICES ASSUME SchedInv, WindowOpens PROVE SchedInv'
  OBVIOUS
<1>1. /\ ScTyped /\ InTime /\ Clocked /\ HistoryInv /\ job.kind = "history" /\ OnlyLoop /\ time \in Nat
      /\ Attempts(loop.for, StopAfter(time)) /\ job \in Jobs
  BY DEF SchedInv, WindowOpens, ScTyped
<1>2. loop.pc = "sleeping" /\ time = loop.wake
  BY <1>1, AwakeIs DEF WindowOpens
<1>3. IsTime(loop.for) /\ loop.for \in Nat /\ loop.for - 1 <= time /\ time < loop.for + MinSleep
  BY <1>1, <1>2, TimeNat DEF Clocked
<1>4. Length \in Nat /\ MinSleep <= Length /\ MinSleep \in Nat
  BY <1>1, LengthOf, ClockOf
<1>5. time < loop.for + Length
  BY <1>1, <1>3, <1>4
<1>6. StopAfter(time) = loop.for + Length
  BY <1>1, <1>3, <1>5, StopIs
<1>7. \A t : Concerns(t) /\ t < loop.for => DoneWith(t)
  BY <1>1, <1>2 DEF HistoryInv
<1> QED  BY <1>1, <1>2, <1>3, <1>5, <1>6, <1>7, AttemptKeeps

LEMMA AttemptsAgainKeeps == SchedInv /\ AttemptsAgain => SchedInv'
<1> SUFFICES ASSUME SchedInv, AttemptsAgain PROVE SchedInv'
  OBVIOUS
<1>1. /\ ScTyped /\ InTime /\ Clocked /\ HistoryInv /\ job.kind = "history" /\ OnlyLoop /\ time \in Nat
      /\ Attempts(loop.for, loop.stop) /\ job \in Jobs
  BY DEF SchedInv, AttemptsAgain, ScTyped
<1>2. loop.pc = "retrying" /\ time = loop.wake
  BY <1>1, AwakeIs DEF AttemptsAgain
<1>3. /\ IsTime(loop.for) /\ loop.for - 1 <= time /\ loop.stop = loop.for + Length /\ time < loop.stop
      /\ \A t : Concerns(t) /\ t < loop.for => DoneWith(t)
  BY <1>1, <1>2 DEF HistoryInv
<1> QED  BY <1>1, <1>2, <1>3, AttemptKeeps

LEMMA AttemptEndsKeeps == SchedInv /\ (\E ready \in BOOLEAN : AttemptEnds(ready)) => SchedInv'
<1> SUFFICES ASSUME SchedInv, NEW ready \in BOOLEAN, AttemptEnds(ready) PROVE SchedInv'
  OBVIOUS
<1>1. /\ ScTyped /\ InTime /\ Clocked /\ HistoryInv /\ job.kind = "history" /\ job' = job /\ time' = time
      /\ since' = since /\ RunEnds(ready) /\ OnlyLoop /\ requests' = requests /\ loop.pc = "running"
      /\ time \in Nat /\ job \in Jobs
  BY DEF SchedInv, AttemptEnds, OnlyLoop, ScTyped
<1>2. PICK o : LastRun(o)
  BY <1>1 DEF Clocked, OpenRun
<1>3. (\A r \in runs : RunFits(r)) /\ requests = {} /\ loop.episode = Never
  BY <1>1 DEF Clocked
<1>4. /\ runs' \subseteq ScRuns /\ (\A r \in runs : RunFits(r))' /\ \A r \in runs : r = o \/ r \in runs'
  BY <1>1, <1>2, <1>3, EndIs
<1>5. PICK n \in runs' : /\ n.at = o.at /\ n.for = o.for /\ n.end = time /\ n.ready = ready
                         /\ \A r \in runs' : r = n \/ (r \in runs /\ r.end # Never)
  BY <1>1, <1>2, <1>3, EndIs
<1>6. /\ IsTime(loop.for) /\ loop.for \in Nat /\ loop.for - 1 <= time /\ loop.stop = loop.for + Length
      /\ time <= loop.stop /\ Length \in Nat /\ Length < DayUnits /\ DayUnits \in Nat
      /\ RetryEvery \in Nat /\ RetryEvery >= 1
      /\ \A t : Concerns(t) /\ t < loop.for => DoneWith(t)
  BY <1>1, TimeNat, LengthOf, ClockOf DEF HistoryInv
<1>7. \A r \in runs' : r.end # Never
  BY <1>1, <1>5 DEF Never
<1>8. ASSUME NEW t, Concerns(t), t < loop.for
      PROVE  DoneWith(t)'
  <2>1. t # loop.for
    BY <1>1, <1>6, <1>8, TimeNat DEF Concerns
  <2>2. PICK r \in runs : /\ r.for = t /\ \A q \in runs : q.for = t => q.at <= r.at
                          /\ r.end # Never /\ (r.ready \/ r.end + RetryEvery >= t + Length)
    BY <1>6, <1>8 DEF DoneWith
  <2>3. o.for = loop.for /\ o \in runs
    BY <1>2 DEF LastRun
  <2>4. r \in runs' /\ \A q \in runs' : q.for = t => q.at <= r.at
    BY <1>4, <1>5, <2>1, <2>2, <2>3
  <2>5. Length' = Length
    BY <1>1 DEF Length
  <2> QED  BY <2>2, <2>4, <2>5 DEF DoneWith
<1>9. \A t : Concerns(t)' => Concerns(t)
  BY <1>1 DEF Concerns, IsTime, ActiveWindow
<1>10. CASE ready \/ time + RetryEvery >= loop.stop
  <2>1. SleepUntilTime
    BY <1>10 DEF AttemptEnds
  <2>2. /\ loop' \in ScLoops /\ loop'.pc = "sleeping" /\ loop'.episode = loop.episode
        /\ IsTime(loop'.for) /\ time < loop'.wake
        /\ loop'.for - 1 <= loop'.wake /\ loop'.wake < loop'.for + MinSleep
        /\ \A s : IsTime(s) /\ s < loop'.for => s <= time
    BY <1>1, <2>1, SleepIs
  <2>3. ScTyped'
    BY <1>1, <1>4, <2>2, StillTyped
  <2>4. InTime' /\ OpenRun'
    BY <1>1, <1>7, <2>2 DEF InTime, OpenRun, ScTyped, ScLoops
  <2>5. Clocked'
    BY <1>1, <1>3, <1>4, <2>2, <2>4 DEF Clocked, ScPcs, IsTime
  <2>6. ASSUME NEW t, Concerns(t), t < loop'.for
        PROVE  DoneWith(t)'
    <3>1. t \in Nat /\ t <= time /\ IsTime(t)
      BY <1>1, <2>2, <2>6, TimeNat DEF Concerns
    <3>2. CASE t < loop.for
      BY <1>8, <2>6, <3>2
    <3>3. CASE t = loop.for
      <4>1. n.for = t /\ n.end # Never /\ (n.ready \/ n.end + RetryEvery >= t + Length)
        BY <1>2, <1>5, <1>6, <1>7, <1>10, <3>3 DEF LastRun
      <4>2. \A q \in runs' : q.at <= n.at
        <5>1. o \in runs /\ \A q \in runs : q.at <= o.at
          BY <1>2 DEF LastRun
        <5>2. n.at <= n.at
          BY <1>5, <5>1
        <5> QED  BY <1>5, <5>1, <5>2
      <4>3. Length' = Length
        BY <1>1 DEF Length
      <4> QED  BY <1>5, <4>1, <4>2, <4>3 DEF DoneWith
    <3>4. CASE loop.for < t
      <4>1. loop.for + DayUnits <= t
        BY <1>1, <1>6, <3>1, <3>4, TimesApart
      <4> QED  BY <1>1, <1>6, <3>1, <4>1
    <3> QED  BY <1>6, <3>1, <3>2, <3>3, <3>4
  <2>7. HistoryInv'
    BY <1>9, <2>2, <2>6 DEF HistoryInv
  <2> QED  BY <1>1, <2>3, <2>4, <2>5, <2>7 DEF SchedInv
<1>11. CASE ~(ready \/ time + RetryEvery >= loop.stop)
  <2>1. loop' = [loop EXCEPT !.pc = "retrying", !.wake = time + RetryEvery, !.for = loop.for]
    BY <1>11 DEF AttemptEnds, Sleeps
  <2>2. loop \in ScLoops /\ time + RetryEvery \in Int /\ loop.for \in Int /\ "retrying" \in ScPcs
    BY <1>1, <1>6 DEF ScTyped, ScPcs
  <2>3. loop' \in ScLoops
    BY <2>1, <2>2 DEF ScLoops
  <2>4. /\ loop'.pc = "retrying" /\ loop'.wake = time + RetryEvery /\ loop'.for = loop.for
        /\ loop'.stop = loop.stop /\ loop'.episode = loop.episode
    BY <2>1, <2>2 DEF ScLoops
  <2>5. ScTyped'
    BY <1>1, <1>4, <2>3, StillTyped
  <2>6. InTime' /\ OpenRun'
    BY <1>1, <1>6, <1>7, <2>4 DEF InTime, OpenRun
  <2>7. Clocked'
    BY <1>1, <1>3, <1>4, <2>4, <2>6 DEF Clocked, ScPcs
  <2>8. loop'.wake < loop'.stop
    BY <1>1, <1>6, <1>11, <2>4
  <2>9. IsTime(loop.for)' /\ Length' = Length
    BY <1>1, <1>6, <2>4 DEF IsTime, Length
  <2>10. HistoryInv'
    BY <1>1, <1>6, <1>8, <1>9, <2>4, <2>8, <2>9 DEF HistoryInv
  <2> QED  BY <1>1, <2>5, <2>6, <2>7, <2>10 DEF SchedInv
<1> QED  BY <1>10, <1>11

-----------------------------------------------------------------------------
(* The restart that an outage asks for                                     *)

\* Before the next window there is no window
LEMMA WindowIs ==
    ASSUME ScTyped, NEW t \in Nat
    PROVE  /\ NextWindow(t) \in Nat /\ t <= NextWindow(t) /\ IsWindow(NextWindow(t))
           /\ \A w : IsWindow(w) /\ w < NextWindow(t) => w < t
<1>1. job \in Jobs
  BY DEF ScTyped
<1>2. /\ NextWindow(t) \in Nat /\ t <= NextWindow(t) /\ IsWindow(NextWindow(t))
      /\ \A e \in Nat \ Weekend : t <= TimeOn(e, job.at) => NextWindow(t) <= TimeOn(e, job.at)
  BY <1>1, NextWindowIs DEF IsWindow
<1>3. ASSUME NEW w, IsWindow(w), w < NextWindow(t)
      PROVE  w < t
  <2>1. PICK e \in Nat \ Weekend : w = TimeOn(e, job.at)
    BY <1>3 DEF IsWindow
  <2>2. w \in Nat
    BY <1>1, <2>1, TimeNat DEF IsTime
  <2> QED  BY <1>2, <1>3, <2>1, <2>2
<1> QED  BY <1>2, <1>3

\* The windows that a behaviour reaches
LEMMA WindowsAre ==
    ASSUME ScTyped
    PROVE  /\ \A w \in Windows : IsWindow(w) /\ w \in Nat
           /\ \A w : IsWindow(w) /\ w <= MaxNow => w \in Windows
           /\ \A w : IsWindow(w) => w \in Nat
<1>1. job \in Jobs /\ MaxNow \in Nat /\ DayUnits \in Nat
  BY ClockOf DEF ScTyped
<1>2. PICK m \in Nat : m = DayOf(MaxNow)
  BY <1>1, DayBounds
<1>3. Hours = 0..m
  BY <1>2 DEF Hours
<1>4. \A w : IsWindow(w) => w \in Nat
  BY <1>1, TimeNat DEF IsWindow, IsTime
<1>5. \A w \in Windows : IsWindow(w)
  BY <1>3 DEF Windows, IsWindow
<1>6. ASSUME NEW w, IsWindow(w), w <= MaxNow
      PROVE  w \in Windows
  <2>1. PICK d \in Nat \ Weekend : w = TimeOn(d, job.at)
    BY <1>6 DEF IsWindow
  <2>2. d <= m
    <3> SUFFICES ASSUME m < d PROVE FALSE
      BY <1>2
    <3>1. m * DayUnits + DayUnits <= d * DayUnits /\ m * DayUnits \in Int /\ d * DayUnits \in Int
      BY <1>2, DaysApart
    <3>2. MaxNow < m * DayUnits + DayUnits /\ job.at \in Nat
      BY <1>1, <1>2, DayBounds, ClockOf
    <3>3. w = d * DayUnits + job.at
      BY <2>1 DEF TimeOn
    <3> QED  BY <1>1, <1>6, <3>1, <3>2, <3>3
  <2>3. d \in Hours \ Weekend
    BY <1>2, <1>3, <2>1, <2>2
  <2> QED  BY <2>1, <2>3 DEF Windows
<1> QED  BY <1>4, <1>5, <1>6

\* What is known when the loop looks
LEMMA WatchIs ==
    ASSUME SchedInv, Watches
    PROVE  /\ ScTyped /\ WatchInv /\ job.kind = "maintenance" /\ time \in Nat /\ time <= MaxNow
           /\ time' = time /\ job' = job /\ since' = since /\ runs' = runs /\ healthy' = healthy
           /\ loop.pc = "starting" /\ loop \in ScLoops /\ Windows' = Windows
           /\ looks.sound < time /\ looks.sound \in Int /\ looks.broken \in Int
           /\ \A q \in requests : q.at < time /\ q.at \in Int /\ q.sound \in Int
<1>1. /\ ScTyped /\ WatchInv /\ job.kind = "maintenance" /\ InTime
      /\ time' = time /\ job' = job /\ since' = since /\ runs' = runs /\ healthy' = healthy
  BY DEF SchedInv, Watches
<1>2. loop.pc = "starting" /\ time = loop.wake
  BY <1>1, AwakeIs DEF Watches
<1>3. Windows' = Windows
  BY <1>1 DEF Windows, Hours, TimeOn
<1> QED  BY <1>1, <1>2, <1>3 DEF WatchInv, ScTyped

\* When the loop has looked and goes on
LEMMA LooksKeeps ==
    ASSUME SchedInv, Watches, NEW episode \in Int, NEW window \in Int, LooksAgain(episode, window),
           requests' \subseteq [at : Int, sound : Int], looks' \in [sound : Int, broken : Int],
           looks'.sound <= time, \A q \in requests' : q.at <= time,
           RestartJustified', OutageEndsInRestart',
           episode # Never =>
                /\ looks'.sound < episode /\ IsWindow(window) /\ episode <= window
                /\ \A q \in requests' : q.at < window
                /\ \A w : IsWindow(w) /\ episode <= w /\ w < window => \E q \in requests' : q.at >= w
    PROVE  SchedInv'
<1>1. /\ ScTyped /\ WatchInv /\ job.kind = "maintenance" /\ time \in Nat
      /\ time' = time /\ job' = job /\ since' = since /\ runs' = runs /\ healthy' = healthy
      /\ loop.pc = "starting" /\ loop \in ScLoops
  BY WatchIs
<1>2. CheckEvery \in Nat /\ CheckEvery >= 1
  BY ClockOf
<1>3. time + CheckEvery \in Int /\ time < time + CheckEvery
  BY <1>1, <1>2
<1>4. loop' = [loop EXCEPT !.wake = time + CheckEvery, !.episode = episode, !.window = window]
  BY DEF LooksAgain
<1>5. loop' \in ScLoops
  BY <1>1, <1>3, <1>4 DEF ScLoops
<1>6. /\ loop'.pc = "starting" /\ loop'.wake = time + CheckEvery /\ loop'.episode = episode
      /\ loop'.window = window
  BY <1>1, <1>4 DEF ScLoops
<1>7. ScTyped'
  BY <1>1, <1>5 DEF ScTyped
<1>8. InTime'
  BY <1>1, <1>3, <1>6 DEF InTime
<1>9. looks'.sound < loop'.wake /\ \A q \in requests' : q.at < loop'.wake
  BY <1>1, <1>2, <1>6
<1>10. \A w : IsWindow(w)' <=> IsWindow(w)
  BY <1>1 DEF IsWindow
<1>11. IsWindow(loop.window)' <=> IsWindow(window)
  BY <1>1, <1>6 DEF IsWindow
<1>12. runs' = {}
  BY <1>1 DEF WatchInv
<1>13. WatchInv'
  BY <1>6, <1>9, <1>10, <1>11, <1>12 DEF WatchInv
<1> QED  BY <1>1, <1>7, <1>8, <1>13 DEF SchedInv

LEMMA ObservationFailsKeeps == SchedInv /\ ObservationFails => SchedInv'
<1> SUFFICES ASSUME SchedInv, ObservationFails PROVE SchedInv'
  OBVIOUS
<1>1. Watches /\ LooksAgain(loop.episode, loop.window) /\ requests' = requests /\ looks' = looks
  BY DEF ObservationFails
<1>2. /\ ScTyped /\ WatchInv /\ loop \in ScLoops /\ Windows' = Windows /\ looks.sound < time /\ job' = job
      /\ loop.pc = "starting" /\ time \in Nat /\ looks.sound \in Int
      /\ \A q \in requests : q.at < time /\ q.at \in Int
  BY <1>1, WatchIs
<1>3. loop.episode \in Int /\ loop.window \in Int
  BY <1>2 DEF ScLoops
<1>4. loop'.episode = loop.episode
  BY <1>1, <1>2 DEF LooksAgain, ScLoops
<1>5. RestartJustified' /\ OutageEndsInRestart'
  BY <1>1, <1>2, <1>4 DEF WatchInv, RestartJustified, OutageEndsInRestart
<1>6. /\ requests' \subseteq [at : Int, sound : Int] /\ looks' \in [sound : Int, broken : Int]
      /\ looks'.sound <= time /\ \A q \in requests' : q.at <= time
  BY <1>1, <1>2 DEF ScTyped
<1>7. loop.episode # Never =>
        /\ looks'.sound < loop.episode /\ IsWindow(loop.window) /\ loop.episode <= loop.window
        /\ \A q \in requests' : q.at < loop.window
        /\ \A w : IsWindow(w) /\ loop.episode <= w /\ w < loop.window => \E q \in requests' : q.at >= w
  BY <1>1, <1>2 DEF WatchInv
<1> QED  BY <1>1, <1>3, <1>5, <1>6, <1>7, LooksKeeps

LEMMA SeesHealthyKeeps == SchedInv /\ SeesHealthy => SchedInv'
<1> SUFFICES ASSUME SchedInv, SeesHealthy PROVE SchedInv'
  OBVIOUS
<1>1. Watches /\ LooksAgain(Never, Never) /\ requests' = requests /\ looks' = [looks EXCEPT !.sound = time]
  BY DEF SeesHealthy
<1>2. /\ ScTyped /\ WatchInv /\ loop \in ScLoops /\ Windows' = Windows /\ job' = job /\ time \in Nat
      /\ \A q \in requests : q.at < time /\ q.at \in Int
  BY <1>1, WatchIs
<1>3. loop'.episode = Never /\ Never \in Int
  BY <1>1, <1>2 DEF LooksAgain, ScLoops, Never
<1>4. RestartJustified' /\ OutageEndsInRestart'
  BY <1>1, <1>2, <1>3 DEF WatchInv, RestartJustified, OutageEndsInRestart
<1>5. /\ looks' \in [sound : Int, broken : Int] /\ looks'.sound = time
  BY <1>1, <1>2 DEF ScTyped
<1>6. requests' \subseteq [at : Int, sound : Int] /\ \A q \in requests' : q.at <= time
  BY <1>1, <1>2 DEF ScTyped
<1>7. time <= time
  BY <1>2
<1> QED  BY <1>1, <1>3, <1>4, <1>5, <1>6, <1>7, LooksKeeps

\* What is known of an outage that is seen
LEMMA EpisodeIs ==
    ASSUME SchedInv, Watches
    PROVE  /\ Episode \in Int /\ Episode # Never /\ Window \in Int /\ looks.sound < Episode /\ Episode <= Window
           /\ IsWindow(Window) /\ \A q \in requests : q.at < Window
           /\ \A w : IsWindow(w) /\ Episode <= w /\ w < Window => \E q \in requests : q.at >= w
<1>1. /\ ScTyped /\ WatchInv /\ loop \in ScLoops /\ looks.sound < time /\ time \in Nat /\ loop.pc = "starting"
      /\ \A q \in requests : q.at < time /\ q.at \in Int
  BY WatchIs
<1>2. CASE loop.episode # Never
  <2>1. Episode = loop.episode /\ Window = loop.window
    BY <1>2 DEF Episode, Window
  <2> QED  BY <1>1, <1>2, <2>1 DEF WatchInv, ScLoops
<1>3. CASE loop.episode = Never
  <2>1. Episode = time /\ Window = NextWindow(time)
    BY <1>3 DEF Episode, Window
  <2>2. /\ NextWindow(time) \in Nat /\ time <= NextWindow(time) /\ IsWindow(NextWindow(time))
        /\ \A w : IsWindow(w) /\ w < NextWindow(time) => w < time
    BY <1>1, WindowIs
  <2>3. ASSUME NEW w, IsWindow(w), Episode <= w, w < Window
        PROVE  FALSE
    BY <1>1, <2>1, <2>2, <2>3, WindowsAre
  <2>4. \A q \in requests : q.at < Window
    BY <1>1, <2>1, <2>2
  <2> QED  BY <1>1, <2>1, <2>2, <2>3, <2>4 DEF Never
<1> QED  BY <1>2, <1>3

LEMMA SeesOutageKeeps == SchedInv /\ SeesOutage => SchedInv'
<1> SUFFICES ASSUME SchedInv, SeesOutage PROVE SchedInv'
  OBVIOUS
<1>1. Watches /\ LooksAgain(Episode, Window) /\ requests' = requests /\ looks' = [looks EXCEPT !.broken = time] /\ ~Due
  BY DEF SeesOutage, SeenBroken
<1>2. /\ ScTyped /\ WatchInv /\ loop \in ScLoops /\ Windows' = Windows /\ job' = job /\ time \in Nat
      /\ looks.sound < time /\ looks.sound \in Int /\ \A q \in requests : q.at < time /\ q.at \in Int
  BY <1>1, WatchIs
<1>3. /\ Episode \in Int /\ Episode # Never /\ Window \in Int /\ looks.sound < Episode /\ Episode <= Window
      /\ IsWindow(Window) /\ \A q \in requests : q.at < Window
      /\ \A w : IsWindow(w) /\ Episode <= w /\ w < Window => \E q \in requests : q.at >= w
  BY <1>1, EpisodeIs
<1>4. PICK e \in Int : e = Episode
  BY <1>3
<1>5. PICK v \in Int : v = Window
  BY <1>3
<1>6. looks' \in [sound : Int, broken : Int] /\ looks'.sound = looks.sound /\ looks'.broken = time
  BY <1>1, <1>2 DEF ScTyped
<1>7. loop'.episode = e
  BY <1>1, <1>2, <1>4 DEF LooksAgain, ScLoops
<1>8. RestartJustified'
  BY <1>1, <1>2 DEF WatchInv, RestartJustified
<1>9. ASSUME NEW w \in Windows, time >= e + OutageGrace, w >= e, w <= time
      PROVE  \E q \in requests : q.at >= w
  <2>1. IsWindow(w) /\ w \in Nat
    BY <1>2, WindowsAre
  <2>2. time < v
    <3>1. ~(time >= v /\ time - e >= OutageGrace)
      BY <1>1, <1>4, <1>5 DEF Due
    <3>2. OutageGrace \in Nat
      BY ClockOf
    <3> QED  BY <1>2, <1>9, <3>1, <3>2
  <2>3. e <= w /\ w < v
    BY <1>2, <1>9, <2>1, <2>2
  <2> QED  BY <1>3, <1>4, <1>5, <2>1, <2>3
<1>10. OutageEndsInRestart'
  BY <1>1, <1>2, <1>6, <1>7, <1>9 DEF OutageEndsInRestart
<1>11. /\ requests' \subseteq [at : Int, sound : Int] /\ looks'.sound <= time
       /\ \A q \in requests' : q.at <= time
  BY <1>1, <1>2, <1>6 DEF ScTyped
<1> QED  BY <1>1, <1>3, <1>6, <1>8, <1>10, <1>11, LooksKeeps

\* A restart is requested for a window that has come since the outage was seen
LEMMA RequestIs ==
    ASSUME SchedInv, NEW taken \in BOOLEAN, RequestsRestart(taken)
    PROVE  /\ RestartJustified' /\ OutageEndsInRestart' /\ requests' \subseteq [at : Int, sound : Int]
           /\ \A q \in requests' : q.at <= time
           /\ \E q \in requests' : q.at = time
<1>1. /\ Watches /\ Due /\ looks' = [looks EXCEPT !.broken = time]
      /\ requests' = requests \cup {[at |-> time, sound |-> looks.sound]}
  BY DEF RequestsRestart, SeenBroken
<1>2. /\ ScTyped /\ WatchInv /\ loop \in ScLoops /\ Windows' = Windows /\ job' = job /\ time \in Nat /\ time <= MaxNow
      /\ looks.sound < time /\ looks.sound \in Int /\ looks.broken \in Int
      /\ \A q \in requests : q.at < time /\ q.at \in Int /\ q.sound \in Int
  BY <1>1, WatchIs
<1>3. PICK n : n = [at |-> time, sound |-> looks.sound]
  OBVIOUS
<1>4. n \in [at : Int, sound : Int] /\ n.at = time /\ n.sound = looks.sound /\ requests' = requests \cup {n}
  BY <1>1, <1>2, <1>3
<1>5. /\ Episode \in Int /\ Window \in Int /\ looks.sound < Episode /\ Episode <= Window
      /\ IsWindow(Window) /\ \A q \in requests : q.at < Window
  BY <1>1, EpisodeIs
<1>6. PICK v \in Int : v = Window
  BY <1>5
<1>7. PICK e \in Int : e = Episode
  BY <1>5
<1>8. time >= v /\ time - e >= OutageGrace /\ OutageGrace \in Nat
  BY <1>1, <1>6, <1>7, ClockOf DEF Due
<1>9. v \in Windows /\ v > looks.sound /\ v <= time
  <2>1. v <= MaxNow /\ v > looks.sound /\ v <= time
    BY <1>2, <1>5, <1>6, <1>7, <1>8, ClockOf
  <2> QED  BY <1>2, <1>5, <1>6, <2>1, WindowsAre
<1>10. /\ n.at - n.sound > OutageGrace
       /\ n.at - n.sound > OutageGrace /\ \A p \in requests' : p.at < n.at => p.at < v
  BY <1>2, <1>4, <1>5, <1>6, <1>7, <1>8
<1>11. ASSUME NEW q \in requests
       PROVE  /\ q.at - q.sound > OutageGrace
              /\ \E w \in Windows : w > q.sound /\ w <= q.at /\ \A p \in requests' : p.at < q.at => p.at < w
  <2>1. PICK w \in Windows : w > q.sound /\ w <= q.at /\ \A p \in requests : p.at < q.at => p.at < w
    BY <1>2 DEF WatchInv, RestartJustified
  <2>2. ~(n.at < q.at)
    BY <1>2, <1>4
  <2>3. \A p \in requests' : p.at < q.at => p.at < w
    BY <1>4, <2>1, <2>2
  <2>4. q.at - q.sound > OutageGrace
    BY <1>2 DEF WatchInv, RestartJustified
  <2> QED  BY <2>1, <2>3, <2>4
<1>12. RestartJustified'
  <2>1. OutageGrace' = OutageGrace
    OBVIOUS
  <2>2. \E w \in Windows : w > n.sound /\ w <= n.at /\ \A p \in requests' : p.at < n.at => p.at < w
    BY <1>4, <1>9, <1>10
  <2>3. \A q \in requests' :
          /\ q.at - q.sound > OutageGrace
          /\ \E w \in Windows : w > q.sound /\ w <= q.at /\ \A p \in requests' : p.at < q.at => p.at < w
    BY <1>4, <1>10, <1>11, <2>2
  <2> QED  BY <1>2, <2>3 DEF RestartJustified
<1>13. looks'.broken = time
  BY <1>1, <1>2 DEF ScTyped
<1>14. OutageEndsInRestart'
  <2>1. \A w \in Windows' : w <= looks'.broken => n.at >= w
    BY <1>2, <1>4, <1>13, WindowsAre
  <2> QED  BY <1>4, <2>1 DEF OutageEndsInRestart
<1>15. requests' \subseteq [at : Int, sound : Int]
  BY <1>2, <1>4 DEF ScTyped
<1>16. \A q \in requests' : q.at <= time
  BY <1>2, <1>4
<1> QED  BY <1>4, <1>12, <1>14, <1>15, <1>16

LEMMA RequestsRestartKeeps == SchedInv /\ (\E taken \in BOOLEAN : RequestsRestart(taken)) => SchedInv'
<1> SUFFICES ASSUME SchedInv, NEW taken \in BOOLEAN, RequestsRestart(taken) PROVE SchedInv'
  OBVIOUS
<1>1. /\ Watches /\ looks' = [looks EXCEPT !.broken = time]
      /\ requests' = requests \cup {[at |-> time, sound |-> looks.sound]}
      /\ IF taken THEN loop' = [loop EXCEPT !.pc = "requested", !.episode = Episode, !.window = Window]
         ELSE LooksAgain(Episode, NextWindow(time + 1))
  BY DEF RequestsRestart, SeenBroken
<1>2. /\ ScTyped /\ WatchInv /\ job.kind = "maintenance" /\ loop \in ScLoops /\ job' = job /\ time \in Nat
      /\ time' = time /\ since' = since /\ runs' = runs /\ healthy' = healthy
      /\ looks.sound < time /\ looks.sound \in Int /\ \A q \in requests : q.at < time /\ q.at \in Int
  BY <1>1, WatchIs
<1>3. /\ RestartJustified' /\ OutageEndsInRestart' /\ requests' \subseteq [at : Int, sound : Int]
      /\ \A q \in requests' : q.at <= time
  BY RequestIs
<1>4. PICK n \in requests' : n.at = time
  BY RequestIs
<1>5. /\ Episode \in Int /\ Episode # Never /\ Window \in Int /\ looks.sound < Episode /\ Episode <= Window
  BY <1>1, EpisodeIs
<1>6. looks' \in [sound : Int, broken : Int] /\ looks'.sound = looks.sound
  BY <1>1, <1>2 DEF ScTyped
<1>7. CASE taken
  <2>1. loop' = [loop EXCEPT !.pc = "requested", !.episode = Episode, !.window = Window] /\ "requested" \in ScPcs
    BY <1>1, <1>7 DEF ScPcs
  <2>2. loop' \in ScLoops
    BY <1>2, <1>5, <2>1 DEF ScLoops
  <2>3. loop'.pc = "requested"
    BY <1>2, <2>1 DEF ScLoops
  <2>4. ScTyped' /\ InTime'
    BY <1>2, <1>3, <1>6, <2>2, <2>3 DEF ScTyped, InTime
  <2>5. WatchInv'
    BY <1>2, <1>3, <2>3 DEF WatchInv
  <2> QED  BY <1>2, <2>4, <2>5 DEF SchedInv
<1>8. CASE ~taken
  <2>1. PICK v : v = NextWindow(time + 1)
    OBVIOUS
  <2>2. PICK e \in Int : e = Episode
    BY <1>5
  <2>3. time + 1 \in Nat
    BY <1>2
  <2>4. v \in Nat /\ time + 1 <= v /\ IsWindow(v) /\ \A w : IsWindow(w) /\ w < v => w < time + 1
    BY <1>2, <2>1, <2>3, WindowIs
  <2>5. LooksAgain(e, v)
    BY <1>1, <1>8, <2>1, <2>2
  <2>6. e <= time
    <3>1. time - Episode >= OutageGrace /\ OutageGrace \in Nat
      BY ClockOf DEF RequestsRestart, Due
    <3> QED  BY <1>2, <2>2, <3>1
  <2>7. \A q \in requests' : q.at < v
    BY <1>2, <1>3, <2>4
  <2>8. \A w : IsWindow(w) /\ e <= w /\ w < v => n.at >= w
    BY <1>2, <1>4, <2>4, WindowsAre
  <2>9. looks'.sound < e /\ e <= v /\ looks'.sound <= time
    BY <1>2, <1>5, <1>6, <2>2, <2>4, <2>6
  <2>10. v \in Int
    BY <2>4
  <2> QED  BY <1>1, <1>3, <1>4, <1>6, <2>4, <2>5, <2>7, <2>8, <2>9, <2>10, LooksKeeps
<1> QED  BY <1>7, <1>8

-----------------------------------------------------------------------------
(* Every loop at any time                                                  *)

LEMMA ScTickKeeps == SchedInv /\ ScTick => SchedInv'
<1> SUFFICES ASSUME SchedInv, ScTick PROVE SchedInv'
  OBVIOUS
<1>1. /\ ScTyped /\ InTime /\ time \in Nat /\ time' = time + 1 /\ time' \in Nat /\ time < MaxNow /\ MaxNow \in Nat
      /\ job' = job /\ since' = since /\ loop' = loop /\ runs' = runs /\ requests' = requests /\ looks' = looks
      /\ ~Overdue /\ ~Overruns /\ healthy' \in BOOLEAN /\ loop \in ScLoops /\ since \in Nat /\ job \in Jobs
  <2>1. ScTyped /\ InTime /\ since \in Nat /\ MaxNow \in Nat /\ time \in Nat
    BY ClockOf DEF SchedInv, ScTyped
  <2>2. healthy' \in BOOLEAN
    BY DEF ScTick
  <2>3. time' = time + 1 /\ time < MaxNow
    BY DEF ScTick
  <2>4. ~Overdue /\ ~Overruns
    BY DEF ScTick
  <2>5. job' = job /\ since' = since /\ loop' = loop /\ runs' = runs /\ requests' = requests /\ looks' = looks
    BY DEF ScTick
  <2> QED  BY <2>1, <2>2, <2>3, <2>4, <2>5 DEF ScTyped
<1>2. ScTyped'
  BY <1>1 DEF ScTyped
<1>3. InTime'
  BY <1>1 DEF InTime, Overdue, ScLoops
<1>4. ASSUME job.kind # "maintenance" PROVE Clocked'
  <2>1. Clocked
    BY <1>4 DEF SchedInv
  <2>2. (\A r \in runs : RunFits(r))'
    <3>1. \A r \in runs : RunFits(r) /\ r.at \in Nat
      BY <1>1, <2>1 DEF Clocked, ScTyped, ScRuns
    <3> QED  BY <1>1, <3>1 DEF RunFits, IsTime, Room, Length
  <2> QED  BY <1>1, <2>1, <2>2 DEF Clocked, OpenRun, LastRun, IsTime
<1>5. ASSUME job.kind = "daily" PROVE DailyInv'
  <2>1. DailyInv /\ Clocked
    BY <1>5 DEF SchedInv
  <2>2. ASSUME NEW t, IsTime(t), since + StartDelay < t, loop.pc = "running", t <= time + 1
        PROVE  ServedAt(t)'
    <3>1. t \in Nat
      BY <1>1, <2>2, TimeNat
    <3>2. CASE t <= time
      BY <1>1, <2>1, <2>2, <3>2 DEF DailyInv, ServedAt
    <3>3. CASE t = time + 1
      <4>1. PICK o : LastRun(o)
        BY <2>1, <2>2 DEF Clocked, OpenRun
      <4>2. o \in runs /\ o.end = Never /\ o.at <= time /\ o.at \in Nat
        BY <1>1, <2>1, <4>1 DEF Clocked, LastRun, RunFits, ScTyped, ScRuns
      <4>3. o.at < t
        BY <1>1, <3>3, <4>2
      <4> QED  BY <1>1, <4>2, <4>3 DEF ServedAt
    <3> QED  BY <1>1, <2>2, <3>1, <3>2, <3>3
  <2>3. ASSUME NEW t, IsTime(t), since + StartDelay < t, loop.pc = "sleeping", t < loop.for
        PROVE  ServedAt(t)'
    BY <1>1, <2>1, <2>3 DEF DailyInv, ServedAt
  <2> QED  BY <1>1, <2>1, <2>2, <2>3 DEF DailyInv, IsTime
<1>6. ASSUME job.kind = "history" PROVE HistoryInv'
  <2>1. HistoryInv
    BY <1>6 DEF SchedInv
  <2>2. loop.pc = "running" => time + 1 <= loop.stop
    BY <1>1, <1>6 DEF Overruns, ScLoops
  <2>3. loop.pc \in {"running", "retrying"} => loop.for - 1 <= time + 1
    BY <1>1, <2>1 DEF HistoryInv, ScLoops
  <2>4. \A t : /\ Concerns(t)' <=> Concerns(t)
               /\ DoneWith(t)' <=> DoneWith(t)
    BY <1>1 DEF Concerns, DoneWith, IsTime, Length, ActiveWindow
  <2>5. (IsTime(loop.for))' <=> IsTime(loop.for)
    BY <1>1 DEF IsTime
  <2>6. Length' = Length
    BY <1>1 DEF Length
  <2> QED  BY <1>1, <2>1, <2>2, <2>3, <2>4, <2>5, <2>6 DEF HistoryInv
<1>7. ASSUME job.kind = "maintenance" PROVE WatchInv'
  <2>1. WatchInv
    BY <1>7 DEF SchedInv
  <2>2. Windows' = Windows
    BY <1>1 DEF Windows, Hours, TimeOn
  <2>3. RestartJustified' /\ OutageEndsInRestart'
    BY <1>1, <2>1, <2>2 DEF WatchInv, RestartJustified, OutageEndsInRestart
  <2>4. \A w : IsWindow(w)' <=> IsWindow(w)
    BY <1>1 DEF IsWindow
  <2>5. IsWindow(loop.window)' <=> IsWindow(loop.window)
    BY <1>1 DEF IsWindow
  <2> QED  BY <1>1, <2>1, <2>3, <2>4, <2>5 DEF WatchInv
<1> QED  BY <1>1, <1>2, <1>3, <1>4, <1>5, <1>6, <1>7 DEF SchedInv

\* When a loop starts
LEMMA SchedStarts == ScInit => SchedInv
<1> SUFFICES ASSUME ScInit PROVE SchedInv
  OBVIOUS
<1>1. /\ job \in Jobs /\ since \in Nat /\ since <= MaxNow /\ MaxNow \in Nat /\ StartDelay \in Nat /\ time = since
      /\ since \in Starts /\ healthy \in BOOLEAN
      /\ loop = [pc |-> "starting", wake |-> since + StartDelay, for |-> Never, stop |-> Never,
                 episode |-> Never, window |-> Never]
      /\ runs = {} /\ requests = {} /\ looks = [sound |-> since - 1, broken |-> Never]
  BY ClockOf DEF ScInit
<1>2. ScTyped
  BY <1>1 DEF ScTyped, ScLoops, ScPcs, Never
<1>3. InTime
  BY <1>1 DEF InTime
<1>4. Clocked
  BY <1>1 DEF Clocked, OpenRun, ScPcs
<1>5. DailyInv /\ HistoryInv
  BY <1>1 DEF DailyInv, HistoryInv
<1>6. WatchInv
  BY <1>1 DEF WatchInv, RestartJustified, OutageEndsInRestart
<1> QED  BY <1>2, <1>3, <1>4, <1>5, <1>6 DEF SchedInv

LEMMA SchedSteps == SchedInv /\ [ScNext]_scVars => SchedInv'
<1>1. SchedInv /\ UNCHANGED scVars => SchedInv'
  BY DEF SchedInv, ScTyped, InTime, Clocked, OpenRun, LastRun, RunFits, Room, Length, IsTime, DailyInv, ServedAt,
         HistoryInv, Concerns, DoneWith, ActiveWindow, WatchInv, RestartJustified, OutageEndsInRestart, Windows,
         IsWindow, scVars
<1> QED  BY <1>1, DailyBeginsKeeps, DailyRunsKeeps, DailyEndsKeeps, WindowLoopBeginsKeeps, WindowOpensKeeps,
            AttemptsAgainKeeps, AttemptEndsKeeps, ObservationFailsKeeps, SeesHealthyKeeps, SeesOutageKeeps,
            RequestsRestartKeeps, ScTickKeeps DEF ScNext

\* The daily times are served, with the date of their day
LEMMA DailyShows ==
    ASSUME SchedInv, job.kind = "daily"
    PROVE  DailyServed /\ DatesRight
<1>1. /\ ScTyped /\ InTime /\ Clocked /\ DailyInv /\ time \in Nat /\ loop \in ScLoops /\ job \in Jobs /\ since \in Nat
      /\ StartDelay \in Nat /\ MinSleep \in Nat /\ MinSleep < DayUnits /\ DayUnits \in Nat
  BY ClockOf DEF SchedInv, ScTyped
<1>2. Hours \subseteq Nat
  BY DEF Hours
<1>3. \A t \in Times : IsTime(t) /\ t \in Nat /\ since + StartDelay < t /\ t <= time
  BY <1>1, <1>2, TimeNat DEF Times, IsTime
<1>4. ASSUME NEW t \in Times, time >= t + MinSleep
      PROVE  ServedAt(t)
  <2>1. CASE loop.pc = "starting"
    BY <1>1, <1>3, <2>1 DEF Clocked, InTime
  <2>2. CASE loop.pc = "running"
    BY <1>1, <1>3, <2>2 DEF DailyInv
  <2>3. CASE loop.pc = "sleeping"
    <3>1. time <= loop.wake /\ loop.wake < loop.for + MinSleep /\ loop.wake \in Int /\ loop.for \in Int
      BY <1>1, <2>3 DEF Clocked, InTime, ScLoops
    <3>2. t < loop.for
      BY <1>1, <1>3, <1>4, <3>1
    <3> QED  BY <1>1, <1>3, <2>3, <3>2 DEF DailyInv
  <2> QED  BY <1>1, <2>1, <2>2, <2>3 DEF Clocked, DailyInv, ScPcs
<1>5. DailyServed
  BY <1>4 DEF DailyServed, ServedAt
<1>6. ASSUME job.at \in 1..DayUnits - MinSleep, NEW r \in runs
      PROVE  r.date = DayOf(r.for)
  <2>1. IsTime(r.for) /\ r.for - 1 <= r.at /\ r.at < r.for + MinSleep /\ r.date = DayOf(r.at) /\ r.at \in Nat
    BY <1>1 DEF Clocked, RunFits, Room, ScTyped, ScRuns
  <2>2. PICK d \in Nat : r.for = TimeOn(d, job.at)
    BY <2>1 DEF IsTime
  <2>3. d * DayUnits \in Nat /\ r.for = d * DayUnits + job.at
    BY <2>2, DayTimes DEF TimeOn
  <2>4. r.for \in Nat /\ d * DayUnits <= r.for /\ r.for < d * DayUnits + DayUnits
    BY <1>1, <2>3, ClockOf
  <2>5. d * DayUnits <= r.at /\ r.at < d * DayUnits + DayUnits
    BY <1>1, <1>6, <2>1, <2>3
  <2> QED  BY <2>1, <2>4, <2>5, DayIs
<1>7. DatesRight
  BY <1>6 DEF DatesRight
<1> QED  BY <1>5, <1>7

\* The windows are served
LEMMA HistoryShows ==
    ASSUME SchedInv, job.kind = "history"
    PROVE  WindowsServed
<1>1. /\ ScTyped /\ InTime /\ Clocked /\ HistoryInv /\ time \in Nat /\ loop \in ScLoops /\ job \in Jobs /\ since \in Nat
      /\ StartDelay \in Nat /\ MinSleep \in Nat /\ DayUnits \in Nat /\ DayUnits <= since
      /\ Length \in Nat /\ MinSleep <= Length /\ \A t \in Int : EndOf(t) = t + Length
  BY ClockOf, LengthOf DEF SchedInv, ScTyped
<1>2. Hours \subseteq Nat
  BY DEF Hours
<1>3. ASSUME NEW r \in runs PROVE r.at \in r.for - 1..EndOf(r.for) - 1
  <2>1. r.for - 1 <= r.at /\ r.at < r.for + Length /\ r.at \in Nat /\ r.for \in Nat
    BY <1>1 DEF Clocked, RunFits, Room, ScTyped, ScRuns
  <2>2. EndOf(r.for) = r.for + Length
    BY <1>1, <2>1
  <2> QED  BY <1>1, <2>1, <2>2
<1>4. since + StartDelay \in Nat /\ DayUnits <= since + StartDelay
  BY <1>1
<1>5. ASSUME NEW t \in Ended PROVE DoneWith(t)
  <2>1. t \in Times \cup {ActiveWindow(since + StartDelay)} /\ t # Never /\ EndOf(t) <= time /\ loop.pc # "running"
    BY DEF Ended
  <2>2. /\ Concerns(t) /\ t \in Nat
        /\ since + StartDelay < t + Length
    <3>1. CASE t \in Times
      <4>1. IsTime(t) /\ since + StartDelay < t
        BY <1>2, <3>1 DEF Times, IsTime
      <4> QED  BY <1>1, <1>4, <4>1, TimeNat DEF Concerns
    <3>2. CASE t = ActiveWindow(since + StartDelay)
      <4>1. IsTime(t) /\ t \in Nat /\ since + StartDelay < t + Length
        BY <1>1, <1>4, <2>1, <3>2, ActiveIs
      <4> QED  BY <3>2, <4>1 DEF Concerns
    <3> QED  BY <2>1, <3>1, <3>2
  <2>3. t + Length <= time
    BY <1>1, <2>1, <2>2
  <2>4. CASE loop.pc = "starting"
    <3>1. time <= since + StartDelay
      BY <1>1, <2>4 DEF Clocked, InTime
    <3> QED  BY <1>1, <1>4, <2>2, <2>3, <3>1
  <2>5. CASE loop.pc = "sleeping"
    <3>1. time <= loop.wake /\ loop.wake < loop.for + MinSleep /\ loop.wake \in Int /\ loop.for \in Int
      BY <1>1, <2>5 DEF Clocked, InTime, ScLoops
    <3>2. t < loop.for
      BY <1>1, <2>2, <2>3, <3>1
    <3> QED  BY <1>1, <2>2, <2>5, <3>2 DEF HistoryInv
  <2>6. CASE loop.pc = "retrying"
    <3>1. time <= loop.wake /\ loop.wake < loop.for + Length /\ loop.wake \in Int /\ loop.for \in Int
      BY <1>1, <2>6 DEF HistoryInv, InTime, ScLoops
    <3>2. t < loop.for
      BY <1>1, <2>2, <2>3, <3>1
    <3> QED  BY <1>1, <2>2, <2>6, <3>2 DEF HistoryInv
  <2> QED  BY <1>1, <2>1, <2>4, <2>5, <2>6 DEF Clocked, ScPcs
<1>6. ASSUME NEW t \in Ended
      PROVE  \E r \in AttemptsFor(t) : /\ \A q \in AttemptsFor(t) : q.at <= r.at
                                       /\ r.ready \/ r.end + RetryEvery >= EndOf(t)
  <2>1. PICK r \in runs : /\ r.for = t /\ \A q \in runs : q.for = t => q.at <= r.at
                          /\ r.end # Never /\ (r.ready \/ r.end + RetryEvery >= t + Length)
    BY <1>5 DEF DoneWith
  <2>2. EndOf(t) = t + Length
    BY <1>1, <2>1 DEF ScTyped, ScRuns
  <2> QED  BY <2>1, <2>2 DEF AttemptsFor
<1> QED  BY <1>3, <1>6 DEF WindowsServed

\* What always holds is what was meant
LEMMA SchedShows == SchedInv => SchedulesKept
<1> SUFFICES ASSUME SchedInv PROVE SchedulesKept
  OBVIOUS
<1>1. ScTyped /\ job.kind \in {"daily", "history", "maintenance"}
  BY ScheduleAssumption DEF SchedInv, ScTyped, ScheduleAssumption
<1>2. time \in since..MaxNow /\ job \in Jobs /\ healthy \in BOOLEAN /\ loop.pc \in ScPcs
  <2>1. since \in Nat /\ MaxNow \in Nat
    BY <1>1, ClockOf DEF ScTyped
  <2> QED  BY <1>1, <2>1 DEF ScTyped, ScLoops
<1>3. CASE job.kind = "maintenance"
  <2>1. WatchInv
    BY <1>3 DEF SchedInv
  <2>2. {r \in runs : r.end = Never} = {} /\ loop.pc # "running" /\ loop.pc \in ScPcs
    BY <2>1 DEF WatchInv, ScPcs
  <2>3. Cardinality({r \in runs : r.end = Never}) = 0
    BY <2>2, FS_EmptySet
  <2>4. ScTypeOK
    BY <1>2, <2>2, <2>3 DEF ScTypeOK, ScPcs
  <2> QED  BY <1>3, <2>1, <2>4 DEF SchedulesKept, DailyServed, DatesRight, WindowsServed, WatchInv
<1>4. CASE job.kind # "maintenance"
  <2>1. Clocked
    BY <1>4 DEF SchedInv
  <2>2. ASSUME loop.pc = "running" PROVE ScTypeOK
    <3>1. PICK o : LastRun(o)
      BY <2>1, <2>2 DEF Clocked, OpenRun
    <3>2. {r \in runs : r.end = Never} = {o}
      BY <3>1 DEF LastRun
    <3>3. Cardinality({r \in runs : r.end = Never}) = 1
      BY <3>2, FS_Singleton
    <3> QED  BY <1>2, <2>2, <3>3 DEF ScTypeOK, ScPcs
  <2>3. ASSUME loop.pc # "running" PROVE ScTypeOK
    <3>1. {r \in runs : r.end = Never} = {}
      BY <2>1, <2>3 DEF Clocked, OpenRun
    <3>2. Cardinality({r \in runs : r.end = Never}) = 0
      BY <3>1, FS_EmptySet
    <3> QED  BY <1>2, <2>3, <3>2 DEF ScTypeOK, ScPcs
  <2>4. ScTypeOK
    BY <2>2, <2>3
  <2>5. RestartJustified /\ OutageEndsInRestart
    BY <1>4, <2>1 DEF Clocked, RestartJustified, OutageEndsInRestart
  <2>6. DailyServed /\ DatesRight
    BY DailyShows DEF DailyServed, DatesRight
  <2>7. WindowsServed
    BY HistoryShows DEF WindowsServed
  <2> QED  BY <2>4, <2>5, <2>6, <2>7 DEF SchedulesKept
<1> QED  BY <1>3, <1>4

\* Every loop that keeps to the clock serves its times and windows, on the days they are of, and a
\* restart is asked for when an outage has lasted, once for each window, and then always
THEOREM SchedulesCorrect == ScSpec => []SchedulesKept
<1>1. ScInit => SchedInv
  BY SchedStarts
<1>2. SchedInv /\ [ScNext]_scVars => SchedInv'
  BY SchedSteps
<1>3. SchedInv => SchedulesKept
  BY SchedShows
<1> QED  BY <1>1, <1>2, <1>3, PTL DEF ScSpec

=============================================================================
