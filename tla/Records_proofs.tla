---------------------------- MODULE Records_proofs ----------------------------
(***************************************************************************)
(* What the stored records promise: the two ledgers of money, the log of   *)
(* the syncs with its summary, and the schema with its versions.           *)
(*                                                                         *)
(* The asset ledgers, for every number of requests, files and rows: one    *)
(* inductive invariant says what a request knows of the legs of the trade  *)
(* it works at, as long as it works at it alone (and what it still knows   *)
(* when legs are changed or deleted by hand meanwhile), and what a batch   *)
(* and a key stand for while imports are under way.                        *)
(*                                                                         *)
(* The books of a paper trading run, for every price, cost and limit: an   *)
(* invariant of the account's parts, which every fill keeps, gives the     *)
(* books, the orders and the forced closes.                                *)
(*                                                                         *)
(* The log, for every number of operators, kinds and batches: a summary    *)
(* whose total agrees with the entries counts every kind of them, and what *)
(* is deleted was counted, until somebody counts the rest anew.            *)
(*                                                                         *)
(* The schema, for every number of migrators, old databases and releases:  *)
(* what a migration has still to do covers what the versions it will       *)
(* record add to what is there, and one that is alone meets no obstacle.   *)
(***************************************************************************)
EXTENDS AssetLedger, PaperTrading, SyncLog, Migrations, FiniteSetTheorems, WellFoundedInduction, TLAPS

-----------------------------------------------------------------------------
(* The asset ledgers: the invariant                                        *)

AllRoles == {"settlement_out", "broker_in", "broker_out", "settlement_in"}
SyncPcs == {"created", "creating", "patched", "patching", "syncing"}
HandPcs == SyncPcs \cup {"deleting"}
FilePcs == {"checked", "opened"}
RowRec == [alive : BOOLEAN, side : {"buy", "sell"}, version : {0, 1, 2},
           key : {NoKey} \cup UNION Files, batch : 0..MaxBatches]
LegPlaces == {"bank", "broker"}
LegRec == [id : Nat, trade : TradeIds, role : AllRoles, version : {0, 1, 2}, at : LegPlaces, batch : 0..MaxBatches]
EditRec == [id : Nat, version : {0, 1, 2}]
ReqRec == [pc : HandPcs \cup FilePcs \cup {"idle", "rolling", "editing"}, trade : 0..MaxTrades, row : RowRec,
           listed : SUBSET LegRec, write : SUBSET AllRoles, drop : SUBSET LegRec,
           file : SUBSET UNION Files, batch : 0..MaxBatches, edit : EditRec]
BatchStates == {"none", "pending", "committed", "failed", "rolled_back"}

AlTyped ==
    /\ accounts \in [auto : BOOLEAN, bank : BOOLEAN] /\ (accounts.auto => accounts.bank)
    /\ trades \in [TradeIds -> RowRec]
    /\ legs \in SUBSET LegRec
    /\ batches \in [BatchIds -> BatchStates]
    /\ req \in [LedgerRequests -> ReqRec]
    /\ ids \in [trade : Nat, leg : Nat, batch : Nat] /\ 0 < ids.trade /\ 0 < ids.leg /\ 0 < ids.batch
    /\ torn \in SUBSET TradeIds /\ edited \in SUBSET TradeIds

\* What refers to a row refers to one that was given out
LegGivenOut == \A l \in legs : l.id < ids.leg /\ l.trade < ids.trade
RowGivenOut ==
    \A t \in TradeIds : /\ t \in torn => t < ids.trade
                        /\ trades[t].alive => t < ids.trade /\ trades[t].batch < ids.batch
Seen(r) == req[r].listed \cup req[r].drop
ReqGivenOut ==
    \A r \in LedgerRequests : /\ req[r].trade < ids.trade /\ req[r].batch < ids.batch
                              /\ \A l \in Seen(r) : l.id < ids.leg /\ l.trade = req[r].trade
BatchGivenOut == \A b \in BatchIds : batches[b] # "none" => b < ids.batch
GivenOut == LegGivenOut /\ RowGivenOut /\ ReqGivenOut /\ BatchGivenOut

\* A leg is found by its id, which a request may have read long ago
LegIds ==
    /\ \A l, m \in legs : l.id = m.id => l = m
    /\ \A r \in LedgerRequests : \A l \in Seen(r), m \in legs : l.id = m.id => m.trade = l.trade

\* A leg is of the batch of its trade, and so is what a request would insert
LegBatches ==
    /\ \A l \in legs : l.batch = trades[l.trade].batch
    /\ \A r \in LedgerRequests :
          req[r].pc \in SyncPcs => req[r].row.batch = trades[req[r].trade].batch

\* A request has a trade or a file while it works at one
Shaped(x) ==
    /\ IF x.pc \in HandPcs THEN x.trade \in TradeIds ELSE x.trade = 0
    /\ x.pc \notin FilePcs => x.file = {}
    /\ x.write \subseteq Roles(x.row.side)
    /\ \E f \in Files \cup {{}} : x.file \subseteq f
Hands ==
    /\ \A r \in LedgerRequests : Shaped(req[r])
    /\ \A r, q \in LedgerRequests : \A t \in TradeIds : /\ r # q /\ Touches(r, t) /\ Touches(q, t)
                                                        => t \in torn

\* A trade that only one request works at has at most one leg per role.  Whatever is changed by
\* hand meanwhile, a request that has listed the legs knows every leg there still is by its id
\* and role: one that writes inserts no second leg of a role, and drops those of other roles, or
\* all of them
OnePerRole(S) == \A l, m \in S : l.role = m.role => l = m
Same(l, m) == l.id = m.id /\ l.role = m.role
ListsAll(L, S) == \A l \in S : \E m \in L : Same(l, m)
KnowsAll(x, S) ==
    /\ accounts.bank /\ x.write \subseteq Roles(x.row.side)
    /\ \A l \in S : \/ l.role \in Roles(x.row.side) \ x.write
                    \/ l.role \in x.write /\ \E m \in x.listed : Same(l, m)
                    \/ l.role \notin Roles(x.row.side) /\ \E m \in x.drop : Same(l, m)
Knows(x, S) ==
    /\ trades[x.trade].alive
    /\ x.pc \in SyncPcs => x.row = trades[x.trade] /\ OnePerRole(S)
    /\ x.pc \in SyncPcs \ {"syncing"} => x.write = {}
    /\ x.pc \in {"creating", "patching"} => ListsAll(x.listed, S)
    /\ x.pc = "syncing" => KnowsAll(x, S) \/ (x.write = {} /\ ListsAll(x.drop, S))
    /\ x.pc = "deleting" => ListsAll(x.drop, S)

\* As long as nothing is changed by hand it knows them exactly, and one that writes has brought in
\* a role once it is not to be written any more
OfRole(S, role) == {l \in S : l.role = role}
Written(S, side, version, todo) ==
    \A role \in Roles(side) \ todo : \E l \in S : l.role = role /\ l.version = version /\ l.at = Place(role)
Settling(x, S) ==
    /\ accounts.bank /\ x.write \subseteq Roles(x.row.side)
    /\ x.drop = {l \in S : l.role \notin Roles(x.row.side)}
    /\ Written(S, x.row.side, x.row.version, x.write)
    /\ \A role \in x.write : OfRole(x.listed, role) = OfRole(S, role)
Clearing(x, S) == x.write = {} /\ x.drop = S
Exact(x, S) ==
    /\ x.pc \in {"creating", "patching"} => x.listed = S
    /\ x.pc = "syncing" => Settling(x, S) \/ Clearing(x, S)
    /\ x.pc = "deleting" => x.drop = S
InStep(x, S) == Knows(x, S) /\ (x.trade \notin edited => Exact(x, S))

Wanted(side) == {x \in Roles(side) : Bookable(x)}
Complete(S, row) ==
    /\ \A l \in S : l.role \in Wanted(row.side) /\ l.version = row.version /\ l.at = Place(l.role)
    /\ \A role \in Wanted(row.side) : \E l \in S : l.role = role
OfSide(S, side) == OnePerRole(S) /\ \A l \in S : l.role \in Roles(side)
AtRest(t) ==
    \/ LegsOf(t) = {}
    \/ /\ trades[t].alive /\ OfSide(LegsOf(t), trades[t].side)
       /\ t \notin edited => Complete(LegsOf(t), trades[t])

Fits(t) ==
    t \notin torn =>
       /\ \A r \in LedgerRequests : Touches(r, t) => InStep(req[r], LegsOf(t))
       /\ ~InHand(t) => AtRest(t)
LegsFit == \A t \in TradeIds : Fits(t)

\* A batch is opened by one import, and has rows once it is committed
OneOpened ==
    \A r, q \in LedgerRequests : /\ r # q /\ req[r].pc = "opened" /\ req[q].pc = "opened"
                                 => req[r].batch # req[q].batch
ReqBatches ==
    \A r \in LedgerRequests :
       /\ req[r].pc = "opened" => req[r].batch \in BatchIds /\ batches[req[r].batch] = "pending"
       /\ req[r].pc = "rolling" =>
             req[r].batch \in BatchIds /\ batches[req[r].batch] \in {"committed", "rolled_back"}
RowBatches == \A t \in TradeIds : trades[t].alive /\ trades[t].batch # 0 => batches[trades[t].batch] = "committed"
BatchesFit == OneOpened /\ ReqBatches /\ RowBatches

\* A key is stored once, unless it is of the journal and two imports of it overlapped
RowKeys ==
    \A t, u \in TradeIds : /\ t # u /\ trades[t].alive /\ trades[u].alive
                           /\ trades[t].key = trades[u].key /\ trades[t].key # NoKey
                           => trades[t].key \in JournalKeys \cap racedKeys
ReqKeys == \A r \in LedgerRequests : \A k \in req[r].file : BatchStored(k) => k \in racedKeys
TwoFiles ==
    \A r, q \in LedgerRequests : r # q => \A k \in req[r].file \cap req[q].file : k \in racedKeys
KeysFit == RowKeys /\ ReqKeys /\ TwoFiles

AlInv == AlTyped /\ GivenOut /\ LegIds /\ LegBatches /\ Hands /\ LegsFit /\ BatchesFit /\ KeysFit

LEMMA LedgerIds ==
    /\ MaxTrades \in Nat /\ MaxBatches \in Nat
    /\ TradeIds = 1..MaxTrades /\ BatchIds = 1..MaxBatches /\ 0 \notin TradeIds
BY LedgerAssumption DEF LedgerAssumption, TradeIds, BatchIds

LEMMA WaitingIs ==
    /\ Waiting \in ReqRec /\ Shaped(Waiting) /\ Waiting.pc = "idle" /\ Waiting.trade = 0
    /\ Waiting.listed = {} /\ Waiting.drop = {} /\ Waiting.write = {} /\ Waiting.file = {} /\ Waiting.batch = 0
<1>1. NoTrade \in RowRec
  BY LedgerIds DEF NoTrade, RowRec
<1>2. Waiting \in ReqRec
  BY <1>1, LedgerIds DEF Waiting, ReqRec, EditRec
<1> QED
  BY <1>2 DEF Waiting, Shaped, HandPcs, SyncPcs, FilePcs

\* One request moves on
ReqMoves(r, z) ==
    /\ z \in ReqRec /\ Shaped(z) /\ req'[r] = z /\ req' \in [LedgerRequests -> ReqRec]
    /\ \A q \in LedgerRequests : q # r => req'[q] = req[q]

LEMMA BecomesIs ==
    ASSUME AlTyped, NEW r \in LedgerRequests, NEW z \in ReqRec, Shaped(z), Becomes(r, z)
    PROVE  ReqMoves(r, z)
BY DEF Becomes, ReqMoves, AlTyped

\* A row that stays, and that nobody begins or ceases to work at
Undisturbed(t) ==
    /\ trades'[t] = trades[t] /\ LegsOf(t)' = LegsOf(t) /\ accounts'.bank = accounts.bank
    /\ (t \in torn => t \in torn') /\ (t \in edited => t \in edited')
    /\ \A r \in LedgerRequests : /\ Touches(r, t)' <=> Touches(r, t)
                                 /\ Touches(r, t) => req'[r] = req[r]

LEMMA FitsStays ==
    ASSUME NEW t \in TradeIds, Fits(t), Undisturbed(t)
    PROVE  Fits(t)'
<1> SUFFICES ASSUME t \notin torn'
             PROVE  /\ \A r \in LedgerRequests : Touches(r, t)' => InStep(req[r], LegsOf(t))'
                    /\ ~InHand(t)' => AtRest(t)'
  BY DEF Fits
<1>1. ASSUME NEW r \in LedgerRequests, Touches(r, t)'
      PROVE  InStep(req[r], LegsOf(t))'
  <2>1. InStep(req[r], LegsOf(t)) /\ req'[r] = req[r] /\ req[r].trade = t
    BY <1>1 DEF Undisturbed, Fits, Touches
  <2> QED
    BY <2>1 DEF Undisturbed, InStep, Knows, KnowsAll, Exact, Settling, Clearing
<1>2. ~InHand(t)' => AtRest(t)'
  <2>1. InHand(t)' <=> InHand(t)
    BY DEF InHand, Undisturbed
  <2> QED
    BY <2>1 DEF Undisturbed, Fits, AtRest, Complete, Wanted, Bookable
<1> QED
  BY <1>1, <1>2

LEMMA HandsStay ==
    ASSUME AlTyped, Hands, NEW r \in LedgerRequests, NEW z, ReqMoves(r, z),
           z.trade \in {0, req[r].trade}, torn \subseteq torn'
    PROVE  Hands'
<1>1. \A q \in LedgerRequests : Shaped(req[q])'
  BY DEF ReqMoves, Hands, Shaped
<1>2. \A q \in LedgerRequests : \A t \in TradeIds : Touches(q, t)' => Touches(q, t)
  BY LedgerIds DEF Hands, ReqMoves, Touches, Shaped, HandPcs, SyncPcs
<1> QED
  BY <1>1, <1>2 DEF Hands

LEMMA KeysStay ==
    ASSUME KeysFit, racedKeys \subseteq racedKeys',
           \A t \in TradeIds : /\ trades'[t].alive /\ trades'[t].key # NoKey
                               => trades[t].alive /\ trades'[t].key = trades[t].key,
           \A q \in LedgerRequests : req'[q].file \subseteq req[q].file /\ NoKey \notin req[q].file
    PROVE  KeysFit'
<1>1. RowKeys'
  BY DEF KeysFit, RowKeys
<1>2. ReqKeys'
  BY DEF KeysFit, ReqKeys, BatchStored
<1>3. TwoFiles'
  BY DEF KeysFit, TwoFiles
<1> QED
  BY <1>1, <1>2, <1>3 DEF KeysFit

LEMMA NoKeyInFile ==
    ASSUME AlTyped
    PROVE  \A q \in LedgerRequests : NoKey \notin req[q].file
BY LedgerAssumption DEF LedgerAssumption, AlTyped, ReqRec

LEMMA BatchesStay ==
    ASSUME BatchesFit, UNCHANGED batches,
           \A t \in TradeIds : /\ trades'[t].alive /\ trades'[t].batch # 0
                               => trades[t].alive /\ trades'[t].batch = trades[t].batch,
           \A q \in LedgerRequests : /\ req'[q].pc \in {"opened", "rolling"}
                                     => req'[q].pc = req[q].pc /\ req'[q].batch = req[q].batch
    PROVE  BatchesFit'
<1>1. OneOpened'
  BY DEF BatchesFit, OneOpened
<1>2. ReqBatches'
  BY DEF BatchesFit, ReqBatches
<1>3. RowBatches'
  BY DEF BatchesFit, RowBatches
<1> QED
  BY <1>1, <1>2, <1>3 DEF BatchesFit

LEMMA LegIdsStay ==
    ASSUME LegIds, legs' \subseteq legs,
           \A q \in LedgerRequests : Seen(q)' \subseteq Seen(q) \cup legs
    PROVE  LegIds'
<1>1. \A l, m \in legs' : l.id = m.id => l = m
  BY DEF LegIds
<1>2. \A q \in LedgerRequests : \A l \in Seen(q)', m \in legs' : l.id = m.id => m.trade = l.trade
  BY DEF LegIds
<1> QED
  BY <1>1, <1>2 DEF LegIds

LEMMA LegBatchesStay ==
    ASSUME AlTyped, Hands, LegBatches, legs' \subseteq legs,
           \A t \in TradeIds : trades'[t].batch = trades[t].batch,
           \A q \in LedgerRequests : /\ req'[q].pc \in SyncPcs
                                     => /\ req[q].pc \in SyncPcs /\ req'[q].trade = req[q].trade
                                        /\ req'[q].row = req[q].row
    PROVE  LegBatches'
<1>1. \A l \in legs' : l.batch = trades'[l.trade].batch
  BY DEF AlTyped, LegRec, LegBatches
<1>2. \A q \in LedgerRequests : req[q].pc \in SyncPcs => req[q].trade \in TradeIds
  BY DEF Hands, Shaped, HandPcs
<1>3. \A q \in LedgerRequests : req'[q].pc \in SyncPcs => req'[q].row.batch = trades'[req'[q].trade].batch
  BY <1>2 DEF LegBatches
<1> QED
  BY <1>1, <1>3 DEF LegBatches

\* A trade that nobody has touched, and that a request creates
LEMMA CreateTradeInv ==
    ASSUME AlInv, NEW r \in LedgerRequests, NEW side \in {"buy", "sell"}, CreateTrade(r, side)
    PROVE  AlInv'
<1>1. PICK t \in TradeIds : t = ids.trade
  BY LedgerIds DEF CreateTrade, AlInv, AlTyped
<1>2. PICK row \in RowRec : row = [alive |-> TRUE, side |-> side, version |-> 1, key |-> NoKey, batch |-> 0]
  <2>1. PICK b \in 0..MaxBatches : b = 0
    BY LedgerIds
  <2>2. [alive |-> TRUE, side |-> side, version |-> 1, key |-> NoKey, batch |-> b] \in RowRec
    BY DEF RowRec
  <2> QED
    BY <2>1, <2>2
<1>3. PICK z \in ReqRec : z = [Waiting EXCEPT !.pc = "created", !.trade = t, !.row = row]
  <2>1. PICK w \in ReqRec : w = Waiting
    BY WaitingIs
  <2>2. t \in 0..MaxTrades
    BY LedgerIds
  <2>3. [w EXCEPT !.pc = "created", !.trade = t, !.row = row] \in ReqRec
    BY <2>2 DEF ReqRec, HandPcs, SyncPcs
  <2> QED
    BY <2>1, <2>3
<1>4. /\ z.pc = "created" /\ z.trade = t /\ z.row = row /\ Shaped(z)
      /\ z.listed = {} /\ z.drop = {} /\ z.write = {} /\ z.file = {} /\ z.batch = 0
  BY <1>3, WaitingIs DEF Shaped, ReqRec, HandPcs, SyncPcs, FilePcs
<1>5. /\ trades' = [trades EXCEPT ![t] = row] /\ ids' = [ids EXCEPT !.trade = t + 1]
      /\ Becomes(r, z) /\ req[r].pc = "idle"
      /\ UNCHANGED <<accounts, legs, batches, torn, racedKeys, edited>>
  BY <1>1, <1>2, <1>3 DEF CreateTrade, InPhase
<1>6. ReqMoves(r, z) /\ req[r].trade = 0 /\ req[r].file = {}
  BY <1>4, <1>5, BecomesIs DEF AlInv, Hands, Shaped, HandPcs, SyncPcs, FilePcs
<1>7. /\ trades' \in [TradeIds -> RowRec] /\ trades'[t] = row
      /\ \A u \in TradeIds : u # t => trades'[u] = trades[u]
  BY <1>2, <1>5 DEF AlInv, AlTyped
<1>8. /\ ids' \in [trade : Nat, leg : Nat, batch : Nat] /\ ids'.trade = t + 1
      /\ ids'.leg = ids.leg /\ ids'.batch = ids.batch
  BY <1>1, <1>5 DEF AlInv, AlTyped
<1>9. /\ t \notin torn /\ ~trades[t].alive /\ LegsOf(t) = {} /\ trades[t].alive = FALSE
      /\ \A q \in LedgerRequests : ~Touches(q, t)
  <2>1. \A q \in LedgerRequests : req[q].trade \in 0..MaxTrades
    BY DEF AlInv, AlTyped, ReqRec
  <2> QED
    BY <1>1, <2>1, LedgerIds
       DEF AlInv, AlTyped, RowRec, LegRec, GivenOut, LegGivenOut, RowGivenOut, ReqGivenOut, LegsOf, Touches
<1>10. AlTyped'
  BY <1>1, <1>5, <1>6, <1>7, <1>8 DEF AlInv, AlTyped, ReqMoves
<1>11. GivenOut'
  <2>1. LegGivenOut'
    BY <1>1, <1>5, <1>8, LedgerIds DEF AlInv, AlTyped, LegRec, GivenOut, LegGivenOut
  <2>2. RowGivenOut'
    BY <1>1, <1>2, <1>5, <1>7, <1>8, LedgerIds DEF AlInv, AlTyped, GivenOut, RowGivenOut
  <2>3. \A q \in LedgerRequests : Seen(q)' = IF q = r THEN {} ELSE Seen(q)
    BY <1>4, <1>6 DEF Seen, ReqMoves
  <2>4. \A q \in LedgerRequests : req'[q].trade < t + 1 /\ req'[q].batch < ids.batch
    <3>1. \A q \in LedgerRequests : req[q].trade \in 0..MaxTrades /\ req[q].batch \in 0..MaxBatches
      BY DEF AlInv, AlTyped, ReqRec
    <3> QED
      BY <1>1, <1>4, <1>6, <3>1, LedgerIds DEF AlInv, AlTyped, GivenOut, ReqGivenOut, ReqMoves
  <2>5. ReqGivenOut'
    BY <1>6, <1>8, <2>3, <2>4 DEF AlInv, GivenOut, ReqGivenOut, ReqMoves
  <2>6. BatchGivenOut'
    BY <1>5, <1>8 DEF AlInv, GivenOut, BatchGivenOut
  <2> QED
    BY <2>1, <2>2, <2>5, <2>6 DEF GivenOut
<1>12. LegIds'
  <2>1. \A q \in LedgerRequests : Seen(q)' \subseteq Seen(q)
    BY <1>4, <1>6 DEF Seen, ReqMoves
  <2> QED
    BY <1>5, <2>1, LegIdsStay DEF AlInv
<1>13. LegBatches'
  <2>1. \A l \in legs' : l.batch = trades'[l.trade].batch
    BY <1>5, <1>7, <1>9 DEF AlInv, AlTyped, LegRec, LegBatches, LegsOf
  <2>2. \A q \in LedgerRequests : q # r /\ req[q].pc \in SyncPcs => req[q].trade \in TradeIds /\ req[q].trade # t
    BY <1>9 DEF AlInv, Hands, Shaped, Touches, HandPcs, SyncPcs
  <2>3. \A q \in LedgerRequests : req'[q].pc \in SyncPcs => req'[q].row.batch = trades'[req'[q].trade].batch
    BY <1>4, <1>6, <1>7, <2>2 DEF AlInv, LegBatches, ReqMoves
  <2> QED
    BY <2>1, <2>3 DEF LegBatches
<1>14. Hands'
  <2>1. \A q \in LedgerRequests : Shaped(req[q])'
    BY <1>6 DEF AlInv, Hands, ReqMoves, Shaped
  <2>2. \A q \in LedgerRequests : \A u \in TradeIds : Touches(q, u)' => Touches(q, u) \/ (q = r /\ u = t)
    BY <1>4, <1>6 DEF ReqMoves, Touches
  <2> QED
    BY <1>5, <1>9, <2>1, <2>2 DEF AlInv, Hands
<1>15. LegsFit'
  <2>1. Fits(t)'
    <3>1. InStep(req[r], LegsOf(t))'
      BY <1>2, <1>4, <1>5, <1>6, <1>7, <1>9 DEF InStep, Knows, Exact, OnePerRole, LegsOf, ReqMoves, SyncPcs
    <3>2. \A q \in LedgerRequests : Touches(q, t)' <=> q = r
      BY <1>4, <1>6, <1>9 DEF ReqMoves, Touches
    <3> QED
      BY <3>1, <3>2 DEF Fits, InHand
  <2>2. ASSUME NEW u \in TradeIds, u # t PROVE Fits(u)'
    <3>1. Undisturbed(u)
      BY <1>4, <1>5, <1>6, <1>7, <2>2, LedgerIds DEF Undisturbed, ReqMoves, Touches, LegsOf
    <3> QED
      BY <3>1, FitsStays DEF AlInv, LegsFit
  <2> QED
    BY <2>1, <2>2 DEF LegsFit
<1>16. BatchesFit'
  BY <1>2, <1>4, <1>5, <1>6, <1>7, BatchesStay DEF AlInv, ReqMoves
<1>17. KeysFit'
  BY <1>2, <1>4, <1>5, <1>6, <1>7, NoKeyInFile, KeysStay DEF AlInv, ReqMoves
<1> QED
  BY <1>10, <1>11, <1>12, <1>13, <1>14, <1>15, <1>16, <1>17 DEF AlInv

\* A trade that a request begins to work at, alone or not: its row keeps its key and its batch
LEMMA TakesInv ==
    ASSUME AlInv, NEW r \in LedgerRequests, NEW t \in TradeIds, NEW row \in RowRec, NEW z,
           req[r].pc = "idle", trades[t].alive,
           row.alive, row.key = trades[t].key, row.batch = trades[t].batch,
           trades' = [trades EXCEPT ![t] = row],
           ReqMoves(r, z), z.pc \in {"patched", "deleting"}, z.trade = t,
           z.pc = "patched" => z.row = row,
           z.listed = {}, z.drop \subseteq LegsOf(t), z.pc = "deleting" => z.drop = LegsOf(t),
           z.write = {}, z.batch = 0, z.file = {}, Marks(r, {t}),
           UNCHANGED <<accounts, legs, batches, ids, racedKeys, edited>>
    PROVE  AlInv'
<1>1. req[r].trade = 0 /\ req[r].file = {}
  BY DEF AlInv, Hands, Shaped, HandPcs, SyncPcs, FilePcs
<1>2. /\ trades' \in [TradeIds -> RowRec] /\ trades'[t] = row
      /\ \A u \in TradeIds : u # t => trades'[u] = trades[u]
  BY DEF AlInv, AlTyped
<1>3. /\ torn \subseteq torn' /\ torn' \subseteq torn \cup {t} /\ torn' \in SUBSET TradeIds
      /\ \A q \in LedgerRequests : q # r /\ Touches(q, t) => t \in torn'
  BY DEF Marks, AlInv, AlTyped
<1>4. \A q \in LedgerRequests : Seen(q)' = IF q = r THEN z.drop ELSE Seen(q)
  BY DEF Seen, ReqMoves
<1>5. AlTyped'
  BY <1>2, <1>3 DEF AlInv, AlTyped, ReqMoves
<1>6. GivenOut'
  <2>1. LegGivenOut' /\ BatchGivenOut'
    BY DEF AlInv, GivenOut, LegGivenOut, BatchGivenOut
  <2>2. RowGivenOut'
    BY <1>2, <1>3 DEF AlInv, GivenOut, RowGivenOut
  <2>3. t < ids.trade /\ 0 < ids.batch
    BY DEF AlInv, AlTyped, GivenOut, RowGivenOut
  <2>4. \A l \in z.drop : l.id < ids.leg /\ l.trade = t
    BY DEF AlInv, GivenOut, LegGivenOut, LegsOf
  <2>5. ReqGivenOut'
    BY <1>4, <2>3, <2>4 DEF AlInv, GivenOut, ReqGivenOut, ReqMoves
  <2> QED
    BY <2>1, <2>2, <2>5 DEF GivenOut
<1>7. LegIds'
  <2>1. \A q \in LedgerRequests : Seen(q)' \subseteq Seen(q) \cup legs
    BY <1>4 DEF LegsOf
  <2> QED
    BY <2>1, LegIdsStay DEF AlInv
<1>8. LegBatches'
  <2>1. \A l \in legs' : l.batch = trades'[l.trade].batch
    BY <1>2 DEF AlInv, AlTyped, LegRec, LegBatches
  <2>2. \A q \in LedgerRequests : req[q].pc \in SyncPcs => req[q].trade \in TradeIds
    BY DEF AlInv, Hands, Shaped, HandPcs
  <2>3. \A q \in LedgerRequests : req'[q].pc \in SyncPcs => req'[q].row.batch = trades'[req'[q].trade].batch
    BY <1>2, <2>2 DEF AlInv, LegBatches, ReqMoves, SyncPcs
  <2> QED
    BY <2>1, <2>3 DEF LegBatches
<1>9. Hands'
  <2>1. \A q \in LedgerRequests : Shaped(req[q])'
    BY DEF AlInv, Hands, ReqMoves, Shaped
  <2>2. \A q \in LedgerRequests : \A u \in TradeIds : Touches(q, u)' => (q # r /\ Touches(q, u)) \/ (q = r /\ u = t)
    BY DEF ReqMoves, Touches
  <2> QED
    BY <1>3, <2>1, <2>2 DEF AlInv, Hands
<1>10. LegsFit'
  <2>1. Fits(t)'
    <3> SUFFICES ASSUME t \notin torn' PROVE /\ \A q \in LedgerRequests : Touches(q, t)' => InStep(req[q], LegsOf(t))'
                                             /\ InHand(t)'
      BY DEF Fits
    <3>1. \A q \in LedgerRequests : ~Touches(q, t)
      BY <1>1, <1>3, LedgerIds DEF Touches
    <3>2. OnePerRole(LegsOf(t))
      BY <1>3, <3>1 DEF AlInv, LegsFit, Fits, InHand, AtRest, OfSide, OnePerRole
    <3>3. \A q \in LedgerRequests : Touches(q, t)' <=> q = r
      BY <3>1 DEF ReqMoves, Touches
    <3>4. LegsOf(t)' = LegsOf(t)
      BY DEF LegsOf
    <3>5. InStep(req[r], LegsOf(t))'
      <4>1. ListsAll(LegsOf(t), LegsOf(t))
        BY DEF ListsAll, Same
      <4> QED
        BY <1>2, <3>2, <3>4, <4>1 DEF InStep, Knows, Exact, ListsAll, OnePerRole, ReqMoves, SyncPcs
    <3> QED
      BY <3>3, <3>5 DEF InHand
  <2>2. ASSUME NEW u \in TradeIds, u # t PROVE Fits(u)'
    <3>1. Undisturbed(u)
      BY <1>1, <1>2, <1>3, <2>2, LedgerIds DEF Undisturbed, ReqMoves, Touches, LegsOf
    <3> QED
      BY <3>1, FitsStays DEF AlInv, LegsFit
  <2> QED
    BY <2>1, <2>2 DEF LegsFit
<1>11. BatchesFit'
  BY <1>2, BatchesStay DEF AlInv, ReqMoves
<1>12. KeysFit'
  BY <1>1, <1>2, NoKeyInFile, KeysStay DEF AlInv, ReqMoves
<1> QED
  BY <1>5, <1>6, <1>7, <1>8, <1>9, <1>10, <1>11, <1>12 DEF AlInv

LEMMA PatchTradeInv ==
    ASSUME AlInv, NEW r \in LedgerRequests, NEW t \in TradeIds, NEW side \in {"buy", "sell"},
           PatchTrade(r, t, side)
    PROVE  AlInv'
<1>1. PICK old \in RowRec : old = trades[t]
  BY DEF AlInv, AlTyped
<1>2. PICK row \in RowRec : row = [old EXCEPT !.side = side, !.version = 2]
  BY DEF RowRec
<1>3. row.alive = old.alive /\ row.key = old.key /\ row.batch = old.batch
  BY <1>2 DEF RowRec
<1>4. PICK z \in ReqRec : z = [Waiting EXCEPT !.pc = "patched", !.trade = t, !.row = row]
  <2>1. PICK w \in ReqRec : w = Waiting
    BY WaitingIs
  <2>2. t \in 0..MaxTrades
    BY LedgerIds
  <2>3. [w EXCEPT !.pc = "patched", !.trade = t, !.row = row] \in ReqRec
    BY <2>2 DEF ReqRec, HandPcs, SyncPcs
  <2> QED
    BY <2>1, <2>3
<1>5. /\ z.pc = "patched" /\ z.trade = t /\ z.row = row /\ Shaped(z)
      /\ z.listed = {} /\ z.drop = {} /\ z.write = {} /\ z.file = {} /\ z.batch = 0
  BY <1>4, WaitingIs DEF Shaped, ReqRec, HandPcs, SyncPcs, FilePcs
<1>6. /\ trades' = [trades EXCEPT ![t] = row] /\ Becomes(r, z)
      /\ req[r].pc = "idle" /\ trades[t].alive /\ Marks(r, {t})
      /\ UNCHANGED <<accounts, legs, batches, ids, racedKeys, edited>>
  BY <1>1, <1>2, <1>4 DEF PatchTrade, InPhase, Alive
<1>7. ReqMoves(r, z)
  BY <1>5, <1>6, BecomesIs DEF AlInv
<1> QED
  BY <1>1, <1>3, <1>5, <1>6, <1>7, TakesInv

LEMMA DeleteTradeInv ==
    ASSUME AlInv, NEW r \in LedgerRequests, NEW t \in TradeIds, DeleteTrade(r, t)
    PROVE  AlInv'
<1>1. PICK row \in RowRec : row = trades[t]
  BY DEF AlInv, AlTyped
<1>2. PICK S \in SUBSET LegRec : S = LegsOf(t)
  BY DEF AlInv, AlTyped, LegsOf
<1>3. PICK z \in ReqRec : z = [Waiting EXCEPT !.pc = "deleting", !.trade = t, !.drop = S]
  <2>1. PICK w \in ReqRec : w = Waiting
    BY WaitingIs
  <2>2. t \in 0..MaxTrades
    BY LedgerIds
  <2>3. [w EXCEPT !.pc = "deleting", !.trade = t, !.drop = S] \in ReqRec
    BY <2>2 DEF ReqRec, HandPcs
  <2> QED
    BY <2>1, <2>3
<1>4. /\ z.pc = "deleting" /\ z.trade = t /\ z.drop = S /\ Shaped(z)
      /\ z.listed = {} /\ z.write = {} /\ z.file = {} /\ z.batch = 0
  BY <1>3, WaitingIs DEF Shaped, ReqRec, HandPcs, FilePcs
<1>5. /\ trades' = [trades EXCEPT ![t] = row] /\ Becomes(r, z)
      /\ req[r].pc = "idle" /\ trades[t].alive /\ Marks(r, {t})
      /\ UNCHANGED <<accounts, legs, batches, ids, racedKeys, edited>>
  BY <1>1, <1>2, <1>3 DEF DeleteTrade, InPhase, Alive, AlInv, AlTyped
<1>6. ReqMoves(r, z)
  BY <1>4, <1>5, BecomesIs DEF AlInv
<1> QED
  BY <1>1, <1>2, <1>4, <1>5, <1>6, TakesInv

\* The only request at a trade that is not torn
LEMMA AtWork ==
    ASSUME AlInv, NEW r \in LedgerRequests, NEW t \in TradeIds, req[r].pc # "idle", req[r].trade = t,
           t \notin torn
    PROVE  InStep(req[r], LegsOf(t)) /\ \A q \in LedgerRequests : Touches(q, t) => q = r
<1>1. Touches(r, t)
  BY DEF Touches
<1> QED
  BY <1>1 DEF AlInv, LegsFit, Fits, Hands

\* A request moves on with its trade, or leaves it; the other trades are not disturbed
LEMMA WorkFits ==
    ASSUME AlInv, NEW r \in LedgerRequests, NEW z, ReqMoves(r, z),
           NEW t \in 0..MaxTrades, t = req[r].trade, z.trade \in {0, t},
           accounts'.bank = accounts.bank, torn \subseteq torn',
           \A u \in TradeIds : u # t => trades'[u] = trades[u] /\ LegsOf(u)' = LegsOf(u),
           \A u \in TradeIds : u # t /\ u \in edited => u \in edited',
           t \in TradeIds /\ t \notin torn' =>
               IF z.trade = t /\ z.pc # "idle" THEN InStep(req[r], LegsOf(t))' ELSE AtRest(t)'
    PROVE  LegsFit'
<1>1. ASSUME NEW u \in TradeIds, u # t PROVE Fits(u)'
  <2>1. Undisturbed(u)
    BY <1>1, LedgerIds DEF Undisturbed, ReqMoves, Touches
  <2> QED
    BY <2>1, FitsStays DEF AlInv, LegsFit
<1>2. ASSUME t \in TradeIds PROVE Fits(t)'
  <2> SUFFICES ASSUME t \notin torn'
               PROVE  /\ \A q \in LedgerRequests : Touches(q, t)' => InStep(req[q], LegsOf(t))'
                      /\ ~InHand(t)' => AtRest(t)'
    BY DEF Fits
  <2>1. t \notin torn /\ req[r].pc # "idle"
    BY <1>2, LedgerIds DEF AlInv, Hands, Shaped, HandPcs, SyncPcs
  <2>2. \A q \in LedgerRequests : Touches(q, t)' => q = r
    BY <1>2, <2>1, AtWork DEF ReqMoves, Touches
  <2>3. Touches(r, t)' <=> z.trade = t /\ z.pc # "idle"
    BY DEF ReqMoves, Touches
  <2>4. IF Touches(r, t)' THEN InStep(req[r], LegsOf(t))' ELSE AtRest(t)'
    BY <1>2, <2>3
  <2> QED
    BY <2>2, <2>4 DEF InHand
<1> QED
  BY <1>1, <1>2 DEF LegsFit

\* A request moves on while the tables stay: it has seen legs of its trade
LEMMA TablesStay ==
    ASSUME AlInv, NEW r \in LedgerRequests, NEW z, ReqMoves(r, z), z.trade \in {0, req[r].trade},
           z.batch < ids.batch,
           \A l \in Seen(r)' : z.trade # 0 /\ (l \in Seen(r) \/ (l \in legs /\ l.trade = z.trade)),
           z.pc \in SyncPcs => req[r].pc \in SyncPcs /\ z.trade = req[r].trade /\ z.row = req[r].row,
           edited' \in SUBSET TradeIds,
           UNCHANGED <<accounts, trades, legs, batches, ids, torn>>
    PROVE  AlTyped' /\ GivenOut' /\ LegIds' /\ LegBatches' /\ Hands'
<1>1. AlTyped'
  BY DEF AlInv, AlTyped, ReqMoves
<1>2. \A q \in LedgerRequests : q # r => Seen(q)' = Seen(q)
  BY DEF Seen, ReqMoves
<1>3. GivenOut'
  <2>1. LegGivenOut' /\ RowGivenOut' /\ BatchGivenOut'
    BY DEF AlInv, GivenOut, LegGivenOut, RowGivenOut, BatchGivenOut
  <2>2. \A l \in Seen(r)' : l.id < ids.leg /\ l.trade = z.trade
    BY DEF AlInv, GivenOut, LegGivenOut, ReqGivenOut
  <2>3. z.trade < ids.trade
    BY DEF AlInv, AlTyped, GivenOut, ReqGivenOut
  <2>4. ReqGivenOut'
    BY <1>2, <2>2, <2>3 DEF AlInv, GivenOut, ReqGivenOut, ReqMoves
  <2> QED
    BY <2>1, <2>4 DEF GivenOut
<1>4. LegIds'
  <2>1. \A q \in LedgerRequests : Seen(q)' \subseteq Seen(q) \cup legs
    BY <1>2
  <2> QED
    BY <2>1, LegIdsStay DEF AlInv
<1>5. LegBatches'
  BY LegBatchesStay DEF AlInv, ReqMoves
<1>6. Hands'
  BY HandsStay DEF AlInv
<1> QED
  BY <1>1, <1>3, <1>4, <1>5, <1>6

\* sync_trade_linked_cash_entries reads the legs, plans, and ends
LEMMA SyncListsInv ==
    ASSUME AlInv, NEW r \in LedgerRequests, SyncLists(r)
    PROVE  AlInv'
<1>1. PICK x \in ReqRec : x = req[r]
  BY DEF AlInv, AlTyped
<1>2. PICK t \in TradeIds : t = x.trade
  BY <1>1 DEF SyncLists, AlInv, Hands, Shaped, HandPcs, SyncPcs
<1>3. PICK S \in SUBSET LegRec : S = LegsOf(t)
  BY DEF AlInv, AlTyped, LegsOf
<1>4. PICK pc : pc = (IF x.pc = "created" THEN "creating" ELSE "patching")
  OBVIOUS
<1>5. PICK z \in ReqRec : z = [x EXCEPT !.pc = pc, !.listed = S]
  BY <1>4 DEF ReqRec, HandPcs, SyncPcs
<1>6. /\ z.pc = pc /\ z.listed = S /\ z.trade = t /\ z.row = x.row /\ z.drop = x.drop
      /\ z.write = x.write
      /\ z.file = x.file /\ z.batch = x.batch /\ pc \in {"creating", "patching"}
  BY <1>2, <1>4, <1>5 DEF ReqRec
<1>7. /\ x.pc \in {"created", "patched"} /\ Becomes(r, z)
      /\ edited' = edited \ {t} /\ edited' \in SUBSET TradeIds
      /\ UNCHANGED <<accounts, trades, legs, batches, ids, torn, racedKeys>>
  BY <1>1, <1>2, <1>3, <1>4, <1>5 DEF SyncLists, AlInv, AlTyped
<1>8. Shaped(z) /\ ReqMoves(r, z)
  BY <1>1, <1>2, <1>6, <1>7, BecomesIs DEF AlInv, Hands, Shaped, HandPcs, SyncPcs, FilePcs
<1>9. AlTyped' /\ GivenOut' /\ LegIds' /\ LegBatches' /\ Hands'
  <2>1. z.batch < ids.batch
    BY <1>1, <1>6 DEF AlInv, GivenOut, ReqGivenOut
  <2>2. \A l \in Seen(r)' : z.trade # 0 /\ (l \in Seen(r) \/ (l \in legs /\ l.trade = z.trade))
    BY <1>1, <1>3, <1>6, <1>8, LedgerIds DEF Seen, ReqMoves, LegsOf
  <2> QED
    BY <1>1, <1>2, <1>6, <1>7, <1>8, <2>1, <2>2, TablesStay DEF SyncPcs
<1>10. LegsFit'
  <2>1. ASSUME t \notin torn PROVE InStep(req[r], LegsOf(t))'
    <3>1. InStep(x, LegsOf(t))
      BY <1>1, <1>2, <1>7, <2>1, AtWork
    <3>2. LegsOf(t)' = S
      BY <1>3, <1>7 DEF LegsOf
    <3>3. ListsAll(S, S)
      BY DEF ListsAll, Same
    <3> QED
      BY <1>1, <1>2, <1>3, <1>6, <1>7, <1>8, <3>1, <3>2, <3>3 DEF InStep, Knows, Exact, OnePerRole, ReqMoves, SyncPcs
  <2>2. \A u \in TradeIds : trades'[u] = trades[u] /\ LegsOf(u)' = LegsOf(u)
    BY <1>7 DEF LegsOf
  <2> QED
    BY <1>1, <1>2, <1>6, <1>7, <1>8, <2>1, <2>2, WorkFits, LedgerIds
<1>11. BatchesFit'
  BY <1>6, <1>7, <1>8, BatchesStay DEF AlInv, ReqMoves
<1>12. KeysFit'
  BY <1>1, <1>6, <1>7, <1>8, NoKeyInFile, KeysStay DEF AlInv, ReqMoves
<1> QED
  BY <1>9, <1>10, <1>11, <1>12 DEF AlInv

LEMMA SyncPlansInv ==
    ASSUME AlInv, NEW r \in LedgerRequests, SyncPlans(r)
    PROVE  AlInv'
<1>1. PICK x \in ReqRec : x = req[r]
  BY DEF AlInv, AlTyped
<1>2. PICK t \in TradeIds : t = x.trade
  BY <1>1 DEF SyncPlans, AlInv, Hands, Shaped, HandPcs, SyncPcs
<1>3. PICK todo \in SUBSET AllRoles : todo = (IF Settles THEN Roles(x.row.side) ELSE x.write)
  BY DEF ReqRec, Roles, AllRoles
<1>4. PICK D \in SUBSET LegRec : D = (IF Settles THEN WrongRole(x.listed, x.row.side) ELSE x.listed)
  BY DEF ReqRec, WrongRole
<1>5. PICK z \in ReqRec : z = [x EXCEPT !.pc = "syncing", !.write = todo, !.drop = D]
  BY DEF ReqRec, HandPcs, SyncPcs
<1>6. /\ z.pc = "syncing" /\ z.write = todo /\ z.drop = D /\ z.trade = t /\ z.row = x.row
      /\ z.listed = x.listed /\ z.file = x.file /\ z.batch = x.batch
  BY <1>2, <1>5 DEF ReqRec
<1>7. /\ x.pc \in {"creating", "patching"}
      /\ UNCHANGED <<accounts, trades, legs, batches, ids, torn, racedKeys, edited>>
  BY <1>1 DEF SyncPlans
<1>8. Becomes(r, z)
  <2>1. CASE Settles
    BY <1>1, <1>3, <1>4, <1>5, <2>1 DEF SyncPlans
  <2>2. CASE ~Settles
    <3>1. z = [x EXCEPT !.pc = "syncing", !.drop = x.listed]
      BY <1>3, <1>4, <1>5, <2>2 DEF ReqRec
    <3> QED
      BY <1>1, <2>2, <3>1 DEF SyncPlans
  <2> QED
    BY <2>1, <2>2
<1>9. Shaped(z) /\ ReqMoves(r, z)
  <2>1. Shaped(x)
    BY <1>1 DEF AlInv, Hands
  <2>2. todo \subseteq Roles(x.row.side)
    BY <1>3, <2>1 DEF Shaped
  <2>3. Shaped(z)
    BY <1>2, <1>6, <1>7, <2>1, <2>2 DEF Shaped, HandPcs, SyncPcs, FilePcs
  <2> QED
    BY <1>8, <2>3, BecomesIs DEF AlInv
<1>10. AlTyped' /\ GivenOut' /\ LegIds' /\ LegBatches' /\ Hands'
  <2>1. z.batch < ids.batch
    BY <1>1, <1>6 DEF AlInv, GivenOut, ReqGivenOut
  <2>2. \A l \in Seen(r)' : z.trade # 0 /\ (l \in Seen(r) \/ (l \in legs /\ l.trade = z.trade))
    BY <1>1, <1>4, <1>6, <1>9, LedgerIds DEF Seen, ReqMoves, WrongRole
  <2>3. edited' \in SUBSET TradeIds
    BY <1>7 DEF AlInv, AlTyped
  <2> QED
    BY <1>1, <1>2, <1>6, <1>7, <1>9, <2>1, <2>2, <2>3, TablesStay DEF SyncPcs
<1>11. LegsFit'
  <2>1. ASSUME t \notin torn PROVE InStep(req[r], LegsOf(t))'
    <3>1. InStep(x, LegsOf(t))
      BY <1>1, <1>2, <1>7, <2>1, AtWork
    <3>2. PICK S : S = LegsOf(t)
      OBVIOUS
    <3>3. x.write = {} /\ x.row = trades[t] /\ trades[t].alive /\ OnePerRole(S) /\ ListsAll(x.listed, S)
      BY <1>2, <1>7, <3>1, <3>2 DEF InStep, Knows, SyncPcs
    <3>4. KnowsAll(z, S) \/ (z.write = {} /\ ListsAll(z.drop, S))
      <4>1. CASE Settles
        <5>1. \A l \in S : \E m \in x.listed : Same(l, m)
          BY <3>3 DEF ListsAll
        <5>2. \A m \in x.listed : m.role \notin Roles(x.row.side) => m \in D
          BY <1>4, <4>1 DEF WrongRole
        <5> QED
          BY <1>3, <1>6, <4>1, <5>1, <5>2 DEF Settles, KnowsAll, Same
      <4>2. CASE ~Settles
        BY <1>3, <1>4, <1>6, <3>3, <4>2
      <4> QED
        BY <4>1, <4>2
    <3>5. t \notin edited => Settling(z, S) \/ Clearing(z, S)
      <4>1. CASE Settles /\ t \notin edited
        BY <1>2, <1>3, <1>4, <1>6, <1>7, <3>1, <3>2, <3>3, <4>1
           DEF Settles, Settling, WrongRole, Written, OfRole, InStep, Exact
      <4>2. CASE ~Settles /\ t \notin edited
        BY <1>2, <1>3, <1>4, <1>6, <1>7, <3>1, <3>2, <3>3, <4>2 DEF Clearing, InStep, Exact
      <4> QED
        BY <4>1, <4>2
    <3>6. LegsOf(t)' = S
      BY <1>7, <3>2 DEF LegsOf
    <3>7. Knows(z, S)'
      BY <1>6, <1>7, <3>3, <3>4 DEF Knows, OnePerRole, KnowsAll, SyncPcs
    <3>8. t \notin edited' => Exact(z, S)'
      BY <1>6, <1>7, <3>5 DEF Exact, Settling, Clearing
    <3>9. req'[r] = z /\ z.trade = t
      BY <1>6, <1>9 DEF ReqMoves
    <3> QED
      BY <3>6, <3>7, <3>8, <3>9 DEF InStep
  <2>2. \A u \in TradeIds : trades'[u] = trades[u] /\ LegsOf(u)' = LegsOf(u)
    BY <1>7 DEF LegsOf
  <2> QED
    BY <1>1, <1>2, <1>6, <1>7, <1>9, <2>1, <2>2, WorkFits, LedgerIds
<1>12. BatchesFit'
  BY <1>6, <1>7, <1>9, BatchesStay DEF AlInv, ReqMoves
<1>13. KeysFit'
  BY <1>1, <1>6, <1>7, <1>9, NoKeyInFile, KeysStay DEF AlInv, ReqMoves
<1> QED
  BY <1>10, <1>11, <1>12, <1>13 DEF AlInv

LEMMA SyncEndsInv ==
    ASSUME AlInv, NEW r \in LedgerRequests, SyncEnds(r)
    PROVE  AlInv'
<1>1. PICK x \in ReqRec : x = req[r]
  BY DEF AlInv, AlTyped
<1>2. PICK t \in TradeIds : t = x.trade
  BY <1>1 DEF SyncEnds, InPhase, AlInv, Hands, Shaped, HandPcs, SyncPcs
<1>3. /\ x.pc = "syncing" /\ x.write = {} /\ x.drop = {} /\ Becomes(r, Waiting)
      /\ UNCHANGED <<accounts, trades, legs, batches, ids, torn, racedKeys, edited>>
  BY <1>1 DEF SyncEnds, InPhase, Done
<1>4. ReqMoves(r, Waiting)
  BY <1>3, WaitingIs, BecomesIs DEF AlInv
<1>5. AlTyped' /\ GivenOut' /\ LegIds' /\ LegBatches' /\ Hands'
  <2>1. Seen(r)' = {}
    BY <1>4, WaitingIs DEF Seen, ReqMoves
  <2>2. Waiting.batch < ids.batch /\ edited' \in SUBSET TradeIds
    BY <1>3, WaitingIs DEF AlInv, AlTyped
  <2> QED
    BY <1>3, <1>4, <2>1, <2>2, WaitingIs, TablesStay DEF SyncPcs
<1>6. LegsFit'
  <2>1. ASSUME t \notin torn PROVE AtRest(t)'
    <3>1. InStep(x, LegsOf(t))
      BY <1>1, <1>2, <1>3, <2>1, AtWork
    <3>2. PICK S : S = LegsOf(t)
      OBVIOUS
    <3>3. /\ trades[t].alive /\ x.row = trades[t] /\ OnePerRole(S)
          /\ KnowsAll(x, S) \/ ListsAll(x.drop, S)
      BY <1>2, <1>3, <3>1, <3>2 DEF InStep, Knows, SyncPcs
    <3>4. OfSide(S, trades[t].side)
      BY <1>3, <3>3 DEF KnowsAll, ListsAll, OfSide
    <3>5. t \notin edited => S = {} \/ Complete(S, trades[t])
      <4> SUFFICES ASSUME t \notin edited PROVE S = {} \/ Complete(S, trades[t])
        OBVIOUS
      <4>1. CASE Clearing(x, S)
        BY <1>3, <4>1 DEF Clearing
      <4>2. CASE Settling(x, S)
        <5>1. Wanted(trades[t].side) = Roles(trades[t].side)
          BY <4>2 DEF Settling, Wanted, Bookable
        <5> QED
          BY <1>3, <3>3, <4>2, <5>1 DEF Settling, Written, Complete, OnePerRole
      <4> QED
        BY <1>2, <1>3, <3>1, <3>2, <4>1, <4>2 DEF InStep, Exact
    <3>6. LegsOf(t)' = S /\ trades' = trades /\ edited' = edited /\ accounts' = accounts
      BY <1>3, <3>2 DEF LegsOf
    <3> QED
      BY <3>3, <3>4, <3>5, <3>6 DEF AtRest, OfSide, OnePerRole, Complete, Wanted, Bookable
  <2>2. \A u \in TradeIds : trades'[u] = trades[u] /\ LegsOf(u)' = LegsOf(u)
    BY <1>3 DEF LegsOf
  <2> QED
    BY <1>1, <1>2, <1>3, <1>4, <2>1, <2>2, WorkFits, WaitingIs, LedgerIds
<1>7. BatchesFit'
  BY <1>3, <1>4, WaitingIs, BatchesStay DEF AlInv, ReqMoves
<1>8. KeysFit'
  BY <1>3, <1>4, WaitingIs, NoKeyInFile, KeysStay DEF AlInv, ReqMoves
<1> QED
  BY <1>5, <1>6, <1>7, <1>8 DEF AlInv

\* A request without a trade moves on, and the tables of trades and legs stay
LEMMA NoTradeFits ==
    ASSUME AlInv, NEW r \in LedgerRequests, NEW z, ReqMoves(r, z), req[r].trade = 0, z.trade = 0,
           UNCHANGED <<accounts, trades, legs, torn, edited>>
    PROVE  LegsFit'
<1>1. 0 \in 0..MaxTrades
  BY LedgerIds
<1>2. \A u \in TradeIds : trades'[u] = trades[u] /\ LegsOf(u)' = LegsOf(u)
  BY DEF LegsOf
<1> QED
  BY <1>1, <1>2, WorkFits, LedgerIds

\* An import checks its file: what it shares with an import under way is recorded
LEMMA ImportChecksInv ==
    ASSUME AlInv, NEW r \in LedgerRequests, NEW f \in Files, ImportChecks(r, f)
    PROVE  AlInv'
<1>1. PICK new \in SUBSET UNION Files : new = {k \in f : ~BatchStored(k)}
  OBVIOUS
<1>2. PICK z \in ReqRec : z = [Waiting EXCEPT !.pc = "checked", !.file = new]
  <2>1. PICK w \in ReqRec : w = Waiting
    BY WaitingIs
  <2>2. [w EXCEPT !.pc = "checked", !.file = new] \in ReqRec
    BY DEF ReqRec, FilePcs
  <2> QED
    BY <2>1, <2>2
<1>3. /\ z.pc = "checked" /\ z.file = new /\ z.trade = 0 /\ z.listed = {} /\ z.drop = {} /\ z.batch = 0
      /\ Shaped(z)
  <2>1. /\ z.pc = "checked" /\ z.file = new /\ z.trade = 0 /\ z.listed = {} /\ z.drop = {} /\ z.batch = 0
        /\ z.write = {}
    BY <1>2, WaitingIs DEF ReqRec
  <2>2. \E h \in Files \cup {{}} : z.file \subseteq h
    BY <1>1, <2>1
  <2> QED
    BY <2>1, <2>2 DEF Shaped, FilePcs, HandPcs, SyncPcs
<1>4. /\ req[r].pc = "idle" /\ Becomes(r, z)
      /\ racedKeys' = racedKeys \cup {k \in new : Importing(k) # {}}
      /\ UNCHANGED <<accounts, trades, legs, batches, ids, torn, edited>>
  BY <1>1, <1>2 DEF ImportChecks, InPhase
<1>5. ReqMoves(r, z) /\ req[r].trade = 0 /\ req[r].file = {}
  BY <1>3, <1>4, BecomesIs DEF AlInv, Hands, Shaped, HandPcs, SyncPcs, FilePcs
<1>6. AlTyped' /\ GivenOut' /\ LegIds' /\ LegBatches' /\ Hands'
  <2>1. Seen(r)' = {}
    BY <1>3, <1>5 DEF Seen, ReqMoves
  <2>2. z.batch < ids.batch /\ edited' \in SUBSET TradeIds
    BY <1>3, <1>4 DEF AlInv, AlTyped
  <2> QED
    BY <1>3, <1>4, <1>5, <2>1, <2>2, TablesStay DEF SyncPcs
<1>7. LegsFit'
  BY <1>3, <1>4, <1>5, NoTradeFits
<1>8. BatchesFit'
  BY <1>3, <1>4, <1>5, BatchesStay DEF AlInv, ReqMoves
<1>9. KeysFit'
  <2>1. RowKeys'
    BY <1>4 DEF AlInv, KeysFit, RowKeys
  <2>2. ReqKeys'
    BY <1>1, <1>3, <1>4, <1>5 DEF AlInv, KeysFit, ReqKeys, BatchStored, ReqMoves
  <2>3. \A q \in LedgerRequests : q # r => \A k \in new \cap req[q].file : k \in racedKeys'
    BY <1>4 DEF Importing
  <2>4. TwoFiles'
    BY <1>3, <1>4, <1>5, <2>3 DEF AlInv, KeysFit, TwoFiles, ReqMoves
  <2> QED
    BY <2>1, <2>2, <2>4 DEF KeysFit
<1> QED
  BY <1>6, <1>7, <1>8, <1>9 DEF AlInv

LEMMA RollbackReadsInv ==
    ASSUME AlInv, NEW r \in LedgerRequests, NEW b \in BatchIds, RollbackReads(r, b)
    PROVE  AlInv'
<1>1. b \in 0..MaxBatches
  BY LedgerIds
<1>2. PICK z \in ReqRec : z = [Waiting EXCEPT !.pc = "rolling", !.batch = b]
  <2>1. PICK w \in ReqRec : w = Waiting
    BY WaitingIs
  <2>2. [w EXCEPT !.pc = "rolling", !.batch = b] \in ReqRec
    BY <1>1 DEF ReqRec
  <2> QED
    BY <2>1, <2>2
<1>3. /\ z.pc = "rolling" /\ z.file = {} /\ z.trade = 0 /\ z.listed = {} /\ z.drop = {} /\ z.batch = b
      /\ Shaped(z)
  BY <1>2, WaitingIs DEF ReqRec, Shaped, FilePcs, HandPcs, SyncPcs
<1>4. /\ req[r].pc = "idle" /\ Becomes(r, z) /\ batches[b] = "committed"
      /\ UNCHANGED <<accounts, trades, legs, batches, ids, torn, racedKeys, edited>>
  BY <1>2 DEF RollbackReads, InPhase
<1>5. ReqMoves(r, z) /\ req[r].trade = 0 /\ req[r].file = {}
  BY <1>3, <1>4, BecomesIs DEF AlInv, Hands, Shaped, HandPcs, SyncPcs, FilePcs
<1>6. AlTyped' /\ GivenOut' /\ LegIds' /\ LegBatches' /\ Hands'
  <2>1. Seen(r)' = {}
    BY <1>3, <1>5 DEF Seen, ReqMoves
  <2>2. z.batch < ids.batch
    BY <1>3, <1>4 DEF AlInv, GivenOut, BatchGivenOut
  <2>3. edited' \in SUBSET TradeIds
    BY <1>4 DEF AlInv, AlTyped
  <2> QED
    BY <1>3, <1>4, <1>5, <2>1, <2>2, <2>3, TablesStay DEF SyncPcs
<1>7. LegsFit'
  BY <1>3, <1>4, <1>5, NoTradeFits
<1>8. BatchesFit'
  <2>1. OneOpened'
    BY <1>3, <1>5 DEF AlInv, BatchesFit, OneOpened, ReqMoves
  <2>2. ReqBatches'
    BY <1>3, <1>4, <1>5 DEF AlInv, BatchesFit, ReqBatches, ReqMoves
  <2>3. RowBatches'
    BY <1>4 DEF AlInv, BatchesFit, RowBatches
  <2> QED
    BY <2>1, <2>2, <2>3 DEF BatchesFit
<1>9. KeysFit'
  BY <1>3, <1>4, <1>5, NoKeyInFile, KeysStay DEF AlInv, ReqMoves
<1> QED
  BY <1>6, <1>7, <1>8, <1>9 DEF AlInv

\* A request leaves its trade, whose row may be gone then
LEMMA LeavesInv ==
    ASSUME AlInv, NEW r \in LedgerRequests, NEW t \in TradeIds, req[r].trade = t,
           Becomes(r, Waiting),
           \/ UNCHANGED trades
           \/ trades' = [trades EXCEPT ![t].alive = FALSE],
           torn \subseteq torn', torn' \subseteq torn \cup {t},
           t \notin torn' => LegsOf(t) = {},
           UNCHANGED <<accounts, legs, batches, ids, racedKeys, edited>>
    PROVE  AlInv'
<1>1. PICK old \in RowRec : old = trades[t]
  BY DEF AlInv, AlTyped
<1>2. PICK row \in RowRec : row = [old EXCEPT !.alive = FALSE]
  BY DEF RowRec
<1>3. row.alive = FALSE /\ row.key = old.key /\ row.batch = old.batch
  BY <1>2 DEF RowRec
<1>4. /\ trades' \in [TradeIds -> RowRec] /\ trades'[t] \in {old, row}
      /\ \A u \in TradeIds : u # t => trades'[u] = trades[u]
  <2>1. UNCHANGED trades \/ trades' = [trades EXCEPT ![t] = row]
    BY <1>1, <1>2
  <2> QED
    BY <1>1, <2>1 DEF AlInv, AlTyped
<1>5. \A u \in TradeIds : /\ trades'[u].alive => trades[u].alive
                          /\ trades'[u].key = trades[u].key /\ trades'[u].batch = trades[u].batch
  BY <1>1, <1>3, <1>4
<1>6. ReqMoves(r, Waiting)
  BY WaitingIs, BecomesIs DEF AlInv
<1>7. \A q \in LedgerRequests : Seen(q)' = IF q = r THEN {} ELSE Seen(q)
  BY <1>6, WaitingIs DEF Seen, ReqMoves
<1>8. AlTyped'
  BY <1>4, <1>6 DEF AlInv, AlTyped, ReqMoves
<1>9. GivenOut'
  <2>1. LegGivenOut' /\ BatchGivenOut'
    BY DEF AlInv, GivenOut, LegGivenOut, BatchGivenOut
  <2>2. t < ids.trade /\ 0 < ids.trade /\ 0 < ids.batch
    BY DEF AlInv, AlTyped, GivenOut, ReqGivenOut
  <2>3. RowGivenOut'
    BY <1>5, <2>2 DEF AlInv, GivenOut, RowGivenOut
  <2>4. ReqGivenOut'
    BY <1>6, <1>7, <2>2, WaitingIs DEF AlInv, GivenOut, ReqGivenOut, ReqMoves
  <2> QED
    BY <2>1, <2>3, <2>4 DEF GivenOut
<1>10. LegIds'
  <2>1. \A q \in LedgerRequests : Seen(q)' \subseteq Seen(q)
    BY <1>7
  <2> QED
    BY <2>1, LegIdsStay DEF AlInv
<1>11. LegBatches'
  BY <1>5, <1>6, WaitingIs, LegBatchesStay DEF AlInv, ReqMoves, SyncPcs
<1>12. Hands'
  BY <1>6, WaitingIs, HandsStay DEF AlInv
<1>13. LegsFit'
  <2>1. t \notin torn' => AtRest(t)'
    BY DEF AtRest, LegsOf
  <2>2. \A u \in TradeIds : u # t => trades'[u] = trades[u] /\ LegsOf(u)' = LegsOf(u)
    BY <1>4 DEF LegsOf
  <2> QED
    BY <1>6, <2>1, <2>2, WorkFits, WaitingIs, LedgerIds
<1>14. BatchesFit'
  BY <1>5, <1>6, WaitingIs, BatchesStay DEF AlInv, ReqMoves
<1>15. KeysFit'
  BY <1>5, <1>6, WaitingIs, NoKeyInFile, KeysStay DEF AlInv, ReqMoves
<1> QED
  BY <1>8, <1>9, <1>10, <1>11, <1>12, <1>13, <1>14, <1>15 DEF AlInv

\* A call fails: the trade is torn, and it is gone where it was just created
LEMMA RequestFailsInv ==
    ASSUME AlInv, NEW r \in LedgerRequests, RequestFails(r)
    PROVE  AlInv'
<1>1. PICK t \in TradeIds : t = req[r].trade
  BY DEF RequestFails, Alive
<1>2. torn' = torn \cup {t} /\ Becomes(r, Waiting)
  BY <1>1 DEF RequestFails, Done
<1>3. UNCHANGED trades \/ trades' = [trades EXCEPT ![t].alive = FALSE]
  BY <1>1 DEF RequestFails
<1>4. UNCHANGED <<accounts, legs, batches, ids, racedKeys, edited>>
  BY DEF RequestFails
<1> QED
  BY <1>1, <1>2, <1>3, <1>4, LeavesInv

\* Some natural numbers have a smallest one
LEMMA SmallestIs ==
    ASSUME NEW S \in SUBSET Nat, S # {}
    PROVE  \E m \in S : \A y \in S : m <= y
<1>1. PICK m \in S : \A y \in S : ~ (<<y, m>> \in OpToRel(<, Nat))
  BY WFMin, NatLessThanWellFounded
<1>2. \A y \in S : y < m => <<y, m>> \in OpToRel(<, Nat)
  BY DEF OpToRel
<1>3. \A y \in S : m <= y
  <2> SUFFICES ASSUME NEW y \in S, y < m PROVE FALSE
    OBVIOUS
  <2> QED
    BY <1>1, <1>2
<1> QED
  BY <1>3

\* The newest of some legs is one of them
LEMMA NewestIs ==
    ASSUME NEW S \in SUBSET LegRec, S # {}, NEW n \in Nat, \A l \in S : l.id < n
    PROVE  NewestOf(S) \in S
<1> DEFINE Left == {n - l.id : l \in S}
<1>1. \A l \in S : l.id \in Nat /\ n - l.id \in Nat
  BY DEF LegRec
<1>2. Left \in SUBSET Nat /\ Left # {}
  BY <1>1
<1>3. \E m \in Left : \A y \in Left : m <= y
  <2> HIDE DEF Left
  <2> QED
    BY <1>2, SmallestIs
<1>4. PICK l \in S : \A k \in S : n - l.id <= n - k.id
  BY <1>3
<1>5. \A k \in S : k.id <= l.id
  BY <1>1, <1>4
<1> QED
  BY <1>5 DEF NewestOf

\* A row is dropped by its id, and no other trade has a row of this id
LEMMA DropsInv ==
    ASSUME AlInv, NEW r \in LedgerRequests, req[r].pc \in {"syncing", "deleting"},
           req[r].pc = "syncing" => req[r].write = {},
           req[r].drop # {}, DropsNext(r),
           UNCHANGED <<accounts, trades, batches, ids, torn, racedKeys, edited>>
    PROVE  AlInv'
<1>1. PICK x \in ReqRec : x = req[r]
  BY DEF AlInv, AlTyped
<1>2. PICK t \in TradeIds : t = x.trade
  BY <1>1 DEF AlInv, Hands, Shaped, HandPcs, SyncPcs
<1>3. PICK l \in LegRec : l \in x.drop /\ l = NewestOf(x.drop)
  <2>1. x.drop \in SUBSET LegRec /\ ids.leg \in Nat /\ \A m \in x.drop : m.id < ids.leg
    BY <1>1 DEF ReqRec, AlInv, AlTyped, GivenOut, ReqGivenOut, Seen
  <2>2. NewestOf(x.drop) \in x.drop
    BY <1>1, <2>1, NewestIs
  <2> QED
    BY <2>1, <2>2
<1>4. l.trade = t /\ \A m \in legs : m.id = l.id => m.trade = t
  BY <1>1, <1>2, <1>3 DEF AlInv, GivenOut, ReqGivenOut, LegIds, Seen
<1>5. PICK D \in SUBSET LegRec : D = x.drop \ {l}
  BY DEF ReqRec
<1>6. PICK z \in ReqRec : z = [x EXCEPT !.drop = D]
  BY DEF ReqRec
<1>7. /\ z.pc = x.pc /\ z.write = x.write /\ z.drop = D /\ z.trade = t /\ z.row = x.row
      /\ z.listed = x.listed /\ z.file = x.file /\ z.batch = x.batch
  BY <1>2, <1>6 DEF ReqRec
<1>8. legs' = {m \in legs : m.id # l.id} /\ Becomes(r, z)
  BY <1>1, <1>3, <1>5, <1>6 DEF DropsNext
<1>9. Shaped(z) /\ ReqMoves(r, z)
  BY <1>1, <1>2, <1>7, <1>8, BecomesIs DEF AlInv, Hands, Shaped
<1>10. \A q \in LedgerRequests : Seen(q)' \subseteq Seen(q)
  BY <1>1, <1>5, <1>7, <1>9 DEF Seen, ReqMoves
<1>11. AlTyped'
  BY <1>8, <1>9 DEF AlInv, AlTyped, ReqMoves
<1>12. GivenOut'
  <2>1. LegGivenOut' /\ BatchGivenOut' /\ RowGivenOut'
    BY <1>8 DEF AlInv, GivenOut, LegGivenOut, BatchGivenOut, RowGivenOut
  <2>2. ReqGivenOut'
    BY <1>1, <1>2, <1>7, <1>9, <1>10 DEF AlInv, GivenOut, ReqGivenOut, ReqMoves
  <2> QED
    BY <2>1, <2>2 DEF GivenOut
<1>13. LegIds'
  BY <1>8, <1>10, LegIdsStay DEF AlInv
<1>14. LegBatches'
  BY <1>1, <1>2, <1>7, <1>8, <1>9, LegBatchesStay DEF AlInv, ReqMoves
<1>15. Hands'
  BY <1>1, <1>2, <1>7, <1>9, HandsStay DEF AlInv
<1>16. LegsFit'
  <2>1. ASSUME t \notin torn PROVE InStep(req[r], LegsOf(t))'
    <3>1. PICK S : S = LegsOf(t)
      OBVIOUS
    <3>2. InStep(x, S)
      BY <1>1, <1>2, <2>1, <3>1, AtWork
    <3>3. \A m, o \in S : m.id = o.id => m = o
      BY <3>1 DEF AlInv, LegIds, LegsOf
    <3>4. PICK T \in SUBSET S : T = {m \in S : m.id # l.id}
      OBVIOUS
    <3>5. LegsOf(t)' = T
      BY <1>8, <3>1, <3>4 DEF LegsOf
    <3>6. Knows(z, T)'
      <4>1. /\ trades[t].alive
            /\ x.pc = "syncing" => x.row = trades[t] /\ OnePerRole(S) /\ x.write = {}
            /\ x.pc = "syncing" => KnowsAll(x, S) \/ ListsAll(x.drop, S)
            /\ x.pc = "deleting" => ListsAll(x.drop, S)
        BY <1>1, <1>2, <3>2 DEF InStep, Knows, SyncPcs
      <4>2. \A e \in T : (\E m \in x.drop : Same(e, m)) => \E m \in D : Same(e, m)
        BY <1>5, <3>4 DEF Same
      <4>3. OnePerRole(S) => OnePerRole(T)
        BY DEF OnePerRole
      <4>4. KnowsAll(x, S) => KnowsAll(z, T)
        BY <1>7, <4>2 DEF KnowsAll
      <4>5. ListsAll(x.drop, S) => ListsAll(z.drop, T)
        BY <1>7, <4>2 DEF ListsAll
      <4> QED
        BY <1>1, <1>7, <4>1, <4>3, <4>4, <4>5 DEF Knows, KnowsAll, ListsAll, OnePerRole, SyncPcs
    <3>7. ASSUME t \notin edited PROVE Exact(z, T)'
      <4>1. Exact(x, S)
        BY <1>2, <3>2, <3>7 DEF InStep
      <4>2. CASE Settling(x, S) /\ x.pc = "syncing"
        <5>1. x.write = {} /\ x.drop = {m \in S : m.role \notin Roles(x.row.side)}
          BY <1>1, <4>2 DEF Settling
        <5>2. T = S \ {l}
          BY <1>3, <3>3, <3>4, <5>1
        <5>3. Settling(z, T)'
          BY <1>3, <1>5, <1>7, <4>2, <5>1, <5>2 DEF Settling, Written
        <5> QED
          BY <1>7, <4>2, <5>3 DEF Exact
      <4>3. CASE x.drop = S
        <5>1. T = D
          BY <1>3, <1>5, <3>3, <3>4, <4>3
        <5> QED
          BY <1>1, <1>7, <5>1 DEF Exact, Clearing
      <4> QED
        BY <1>1, <4>1, <4>2, <4>3 DEF Exact, Clearing
    <3>8. req'[r] = z /\ z.trade = t /\ edited' = edited
      BY <1>7, <1>9 DEF ReqMoves
    <3> QED
      BY <3>5, <3>6, <3>7, <3>8 DEF InStep
  <2>2. \A u \in TradeIds : u # t => trades'[u] = trades[u] /\ LegsOf(u)' = LegsOf(u)
    BY <1>4, <1>8 DEF LegsOf
  <2> QED
    BY <1>1, <1>2, <1>7, <1>9, <2>1, <2>2, WorkFits, LedgerIds
<1>17. BatchesFit'
  BY <1>1, <1>7, <1>9, BatchesStay DEF AlInv, ReqMoves
<1>18. KeysFit'
  BY <1>1, <1>7, <1>9, NoKeyInFile, KeysStay DEF AlInv, ReqMoves
<1> QED
  BY <1>11, <1>12, <1>13, <1>14, <1>15, <1>16, <1>17, <1>18 DEF AlInv

LEMMA DeleteStepInv ==
    ASSUME AlInv, NEW r \in LedgerRequests, DeleteStep(r)
    PROVE  AlInv'
<1>1. req[r].pc = "deleting" /\ UNCHANGED <<accounts, batches, ids, torn, racedKeys, edited>>
  BY DEF DeleteStep, InPhase
<1>2. CASE req[r].drop # {} /\ DropsNext(r) /\ UNCHANGED trades
  BY <1>1, <1>2, DropsInv
<1>3. CASE LegsGone(r) /\ trades' = [trades EXCEPT ![req[r].trade].alive = FALSE] /\ Done(r) /\ UNCHANGED legs
  <2>1. PICK t \in TradeIds : t = req[r].trade
    BY <1>1 DEF AlInv, Hands, Shaped, HandPcs
  <2>2. t \notin torn' => LegsOf(t) = {}
    BY <1>1, <1>3, <2>1, AtWork DEF InStep, Knows, ListsAll, LegsGone
  <2>3. Becomes(r, Waiting) /\ trades' = [trades EXCEPT ![t].alive = FALSE]
    BY <1>3, <2>1 DEF Done
  <2> QED
    BY <1>1, <1>3, <2>1, <2>2, <2>3, LeavesInv
<1> QED
  BY <1>2, <1>3 DEF DeleteStep

\* What is left to write is of the side of the trade, so one of it comes first
LEMMA NextRoleIs ==
    ASSUME NEW side, NEW todo \in SUBSET Roles(side), todo # {}
    PROVE  NextRole(todo) \in todo
<1>1. CASE \E x \in todo : x \in {"settlement_out", "broker_out"}
  BY <1>1 DEF NextRole
<1>2. CASE ~\E x \in todo : x \in {"settlement_out", "broker_out"}
  <2>1. PICK x : todo = {x}
    BY <1>2 DEF Roles
  <2>2. Cardinality(todo) = 1
    BY <2>1, FS_Singleton
  <2> QED
    BY <2>1, <2>2 DEF NextRole
<1> QED
  BY <1>1, <1>2

\* A leg is rewritten in its place
Revises(e, l, n, version, place) ==
    /\ e.id = l.id /\ e.trade = l.trade /\ e.role = l.role /\ e.batch = l.batch
    /\ IF l.id = n THEN e.version = version /\ e.at = place ELSE e = l

LEMMA RewrittenIs ==
    ASSUME legs \in SUBSET LegRec, NEW n \in Nat, NEW version \in {0, 1, 2}, NEW place \in LegPlaces
    PROVE  /\ Rewrite(n, version, place) \in SUBSET LegRec
           /\ \A e \in Rewrite(n, version, place) : \E l \in legs : Revises(e, l, n, version, place)
           /\ \A l \in legs : \E e \in Rewrite(n, version, place) : Revises(e, l, n, version, place)
<1> DEFINE New(l) == IF l.id = n THEN [l EXCEPT !.version = version, !.at = place] ELSE l
<1>1. ASSUME NEW l \in LegRec
      PROVE  New(l) \in LegRec /\ Revises(New(l), l, n, version, place)
  BY DEF LegRec, Revises
<1>2. Rewrite(n, version, place) = {New(l) : l \in legs}
  BY DEF Rewrite
<1> HIDE DEF New
<1> QED
  BY <1>1, <1>2

\* Rows that stay under their ids and roles leave one per role where there was one
LEMMA OneStill ==
    ASSUME NEW S, NEW T, OnePerRole(S), \A e \in T : \E l \in S : Same(e, l),
           \A e, f \in T : e.id = f.id => e = f
    PROVE  OnePerRole(T)
<1> SUFFICES ASSUME NEW e \in T, NEW f \in T, e.role = f.role PROVE e = f
  BY DEF OnePerRole
<1>1. PICK l \in S, m \in S : Same(e, l) /\ Same(f, m)
  OBVIOUS
<1>2. l.role = e.role /\ m.role = f.role /\ e.id = l.id /\ f.id = m.id
  BY <1>1 DEF Same
<1>3. l.role = m.role
  BY <1>2
<1>4. l = m
  BY <1>3 DEF OnePerRole
<1>5. e.id = f.id
  BY <1>2, <1>4
<1> QED
  BY <1>5

\* A request that has a role to write, and what it becomes
WritesRole(r, x, t, role, z) ==
    /\ x = req[r] /\ x.pc = "syncing" /\ t = x.trade /\ role \in x.write
    /\ role = NextRole(x.write) /\ x.write \subseteq Roles(x.row.side)
    /\ z.pc = x.pc /\ z.write = x.write \ {role} /\ z.drop = x.drop /\ z.trade = x.trade
    /\ z.row = x.row /\ z.listed = x.listed /\ z.file = x.file /\ z.batch = x.batch
    /\ ReqMoves(r, z)

LEMMA WritesNext ==
    ASSUME AlInv, NEW r \in LedgerRequests, SyncWrites(r)
    PROVE  \E x \in ReqRec, t \in TradeIds, role \in AllRoles, z \in ReqRec : WritesRole(r, x, t, role, z)
<1>1. PICK x \in ReqRec : x = req[r]
  BY DEF AlInv, AlTyped
<1>2. x.pc = "syncing" /\ x.write # {} /\ Shaped(x)
  BY <1>1 DEF SyncWrites, InPhase, AlInv, Hands
<1>3. x.trade \in TradeIds /\ x.write \subseteq Roles(x.row.side)
  BY <1>2 DEF Shaped, HandPcs, SyncPcs
<1>4. NextRole(x.write) \in x.write
  BY <1>2, <1>3, NextRoleIs
<1>5. PICK role \in AllRoles : role = NextRole(x.write)
  BY <1>4 DEF ReqRec
<1>6. PICK W \in SUBSET AllRoles : W = x.write \ {role}
  BY DEF ReqRec
<1>7. PICK z \in ReqRec : z = [x EXCEPT !.write = W]
  BY DEF ReqRec
<1>8. /\ z.pc = x.pc /\ z.write = W /\ z.drop = x.drop /\ z.trade = x.trade
      /\ z.row = x.row /\ z.listed = x.listed /\ z.file = x.file /\ z.batch = x.batch
  BY <1>7 DEF ReqRec
<1>9. Becomes(r, z)
  BY <1>1, <1>5, <1>6, <1>7 DEF SyncWrites
<1>10. ReqMoves(r, z)
  BY <1>2, <1>6, <1>8, <1>9, BecomesIs DEF AlInv, Shaped
<1> QED
  BY <1>1, <1>2, <1>3, <1>4, <1>5, <1>6, <1>8, <1>10 DEF WritesRole

\* A role is brought in: by one row of it, of the version of the trade, when there was no other
LEMMA RoleIsIn ==
    ASSUME NEW S, NEW T, NEW x, NEW z, NEW role \in x.write, Settling(x, S), OnePerRole(S),
           x.write \subseteq Roles(x.row.side),
           z.write = x.write \ {role}, z.drop = x.drop, z.row = x.row, z.listed = x.listed,
           NEW e \in T, e.role = role, e.version = x.row.version, e.at = Place(role),
           \A l \in T : l = e \/ (l \in S /\ l.role # role),
           \A l \in S : l.role # role => l \in T
    PROVE  Settling(z, T) /\ OnePerRole(T)
<1>1. OnePerRole(T)
  BY DEF OnePerRole
<1>2. z.drop = {l \in T : l.role \notin Roles(z.row.side)}
  BY DEF Settling
<1>3. Written(T, z.row.side, z.row.version, z.write)
  BY DEF Settling, Written
<1>4. \A other \in z.write : OfRole(z.listed, other) = OfRole(T, other)
  <2> SUFFICES ASSUME NEW other \in z.write PROVE OfRole(z.listed, other) = OfRole(T, other)
    OBVIOUS
  <2>1. other # role /\ OfRole(x.listed, other) = OfRole(S, other)
    BY DEF Settling
  <2>2. OfRole(T, other) = OfRole(S, other)
    BY <2>1 DEF OfRole
  <2> QED
    BY <2>1, <2>2
<1> QED
  BY <1>1, <1>2, <1>3, <1>4 DEF Settling

\* A role needs not be written any more; the other legs are those there were
LEMMA RoleIsKnown ==
    ASSUME NEW S, NEW T, NEW x, NEW z, NEW role \in x.write, KnowsAll(x, S),
           z.write = x.write \ {role}, z.drop = x.drop, z.row = x.row, z.listed = x.listed,
           \A e \in T : e.role = role \/ \E l \in S : Same(e, l)
    PROVE  KnowsAll(z, T)
<1>1. accounts.bank /\ z.write \subseteq Roles(z.row.side) /\ role \in Roles(z.row.side)
  BY DEF KnowsAll
<1>2. ASSUME NEW e \in T, e.role # role
      PROVE  \/ e.role \in Roles(z.row.side) \ z.write
             \/ e.role \in z.write /\ \E m \in z.listed : Same(e, m)
             \/ e.role \notin Roles(z.row.side) /\ \E m \in z.drop : Same(e, m)
  <2>1. PICK l \in S : Same(e, l)
    BY <1>2
  <2> QED
    BY <1>2, <2>1 DEF KnowsAll, Same
<1> QED
  BY <1>1, <1>2 DEF KnowsAll

\* What a step of a request at one trade has to keep, when it writes one leg of that trade
LEMMA WritesInv ==
    ASSUME AlInv, NEW r \in LedgerRequests, NEW x \in ReqRec, NEW t \in TradeIds,
           NEW role \in AllRoles, NEW z \in ReqRec, WritesRole(r, x, t, role, z),
           AlTyped', LegGivenOut', LegIds',
           ids.leg <= ids'.leg, ids'.trade = ids.trade, ids'.batch = ids.batch,
           \A l \in legs' : l.batch = trades[l.trade].batch,
           \A u \in TradeIds : u # t => LegsOf(u)' = LegsOf(u),
           t \notin torn => KnowsAll(z, LegsOf(t))' /\ OnePerRole(LegsOf(t))',
           t \notin torn /\ t \notin edited => Settling(z, LegsOf(t))',
           UNCHANGED <<accounts, trades, batches, torn, racedKeys, edited>>
    PROVE  AlInv'
<1>0. /\ x = req[r] /\ x.pc = "syncing" /\ t = x.trade /\ ReqMoves(r, z)
      /\ z.pc = x.pc /\ z.drop = x.drop /\ z.trade = x.trade
      /\ z.row = x.row /\ z.listed = x.listed /\ z.file = x.file /\ z.batch = x.batch
  BY DEF WritesRole
<1>1. GivenOut'
  <2>1. RowGivenOut' /\ BatchGivenOut'
    BY DEF AlInv, GivenOut, RowGivenOut, BatchGivenOut
  <2>2. \A q \in LedgerRequests : Seen(q)' = Seen(q)
    BY <1>0 DEF Seen, ReqMoves
  <2>3. \A q \in LedgerRequests : \A l \in Seen(q) : l.id < ids'.leg
    <3>1. \A q \in LedgerRequests : \A l \in Seen(q) : l.id \in Nat /\ l.id < ids.leg
      BY DEF AlInv, AlTyped, GivenOut, ReqGivenOut, Seen, ReqRec, LegRec
    <3>2. ids.leg \in Nat /\ ids'.leg \in Nat
      BY DEF AlInv, AlTyped
    <3> QED
      BY <3>1, <3>2
  <2>4. ReqGivenOut'
    BY <1>0, <2>2, <2>3 DEF AlInv, GivenOut, ReqGivenOut, ReqMoves
  <2> QED
    BY <2>1, <2>4 DEF GivenOut
<1>2. LegBatches'
  <2>1. \A q \in LedgerRequests : req'[q].pc \in SyncPcs => req'[q].row.batch = trades'[req'[q].trade].batch
    BY <1>0 DEF AlInv, LegBatches, ReqMoves
  <2> QED
    BY <2>1 DEF LegBatches
<1>3. Hands'
  BY <1>0, HandsStay DEF AlInv
<1>4. LegsFit'
  <2>1. ASSUME t \notin torn PROVE InStep(req[r], LegsOf(t))'
    <3>1. InStep(x, LegsOf(t))
      BY <1>0, <2>1, AtWork
    <3>2. /\ KnowsAll(z, LegsOf(t))' /\ OnePerRole(LegsOf(t))'
          /\ t \notin edited => Settling(z, LegsOf(t))'
      BY <2>1
    <3>3. z.pc = "syncing" /\ z.row = trades[t] /\ trades[t].alive /\ z.trade = t
      BY <1>0, <3>1 DEF InStep, Knows, SyncPcs
    <3> QED
      BY <1>0, <3>2, <3>3 DEF InStep, Knows, Exact, ReqMoves, SyncPcs
  <2> QED
    BY <1>0, <2>1, WorkFits, LedgerIds
<1>5. BatchesFit'
  BY <1>0, BatchesStay DEF AlInv, ReqMoves
<1>6. KeysFit'
  BY <1>0, NoKeyInFile, KeysStay DEF AlInv, ReqMoves
<1> QED
  BY <1>1, <1>2, <1>3, <1>4, <1>5, <1>6 DEF AlInv

\* The newest row of the role that the request has seen is rewritten
LEMMA RewritesInv ==
    ASSUME AlInv, NEW r \in LedgerRequests, NEW x \in ReqRec, NEW t \in TradeIds,
           NEW role \in AllRoles, NEW z \in ReqRec, WritesRole(r, x, t, role, z),
           OfRole(x.listed, role) # {},
           legs' = Rewrite(NewestOf(OfRole(x.listed, role)).id, x.row.version, Place(role)),
           UNCHANGED <<accounts, trades, batches, ids, torn, racedKeys, edited>>
    PROVE  AlInv'
<1>0. /\ x = req[r] /\ x.pc = "syncing" /\ t = x.trade /\ ReqMoves(r, z) /\ role \in x.write
      /\ x.write \subseteq Roles(x.row.side)
  BY DEF WritesRole
<1>1. PICK n \in LegRec : n \in OfRole(x.listed, role) /\ n = NewestOf(OfRole(x.listed, role))
  <2>1. OfRole(x.listed, role) \in SUBSET LegRec /\ ids.leg \in Nat
    BY DEF ReqRec, OfRole, AlInv, AlTyped
  <2>2. \A m \in OfRole(x.listed, role) : m.id < ids.leg
    BY <1>0 DEF AlInv, GivenOut, ReqGivenOut, Seen, OfRole
  <2> QED
    BY <2>1, <2>2, NewestIs
<1>2. PICK v \in {0, 1, 2}, pl \in LegPlaces : v = x.row.version /\ pl = Place(role)
  BY DEF ReqRec, RowRec, Place, LegPlaces
<1>3. n.role = role /\ n.trade = t /\ \A m \in legs : m.id = n.id => m.trade = t
  <2>1. n \in Seen(r) /\ n.role = role
    BY <1>0, <1>1 DEF Seen, OfRole
  <2>2. n.trade = t
    BY <1>0, <2>1 DEF AlInv, GivenOut, ReqGivenOut
  <2> QED
    BY <2>1, <2>2 DEF AlInv, LegIds
<1>4. /\ legs' \in SUBSET LegRec
      /\ \A e \in legs' : \E l \in legs : Revises(e, l, n.id, v, pl)
      /\ \A l \in legs : \E e \in legs' : Revises(e, l, n.id, v, pl)
  <2>1. legs \in SUBSET LegRec /\ n.id \in Nat /\ legs' = Rewrite(n.id, v, pl)
    BY <1>1, <1>2 DEF LegRec, AlInv, AlTyped
  <2>2. PICK i \in Nat : i = n.id
    BY <2>1
  <2> QED
    BY <2>1, <2>2, RewrittenIs
<1>5. AlTyped'
  BY <1>0, <1>4 DEF AlInv, AlTyped, ReqMoves
<1>6. LegGivenOut'
  BY <1>4 DEF AlInv, GivenOut, LegGivenOut, Revises
<1>7. LegIds'
  <2>1. \A l, m \in legs : l.id = m.id => l = m
    BY DEF AlInv, LegIds
  <2>2. \A e, f \in legs' : e.id = f.id => e = f
    <3> SUFFICES ASSUME NEW e \in legs', NEW f \in legs', e.id = f.id PROVE e = f
      OBVIOUS
    <3>1. PICK l \in legs : Revises(e, l, n.id, v, pl)
      BY <1>4
    <3>2. PICK m \in legs : Revises(f, m, n.id, v, pl)
      BY <1>4
    <3>3. l = m
      BY <2>1, <3>1, <3>2 DEF Revises
    <3>4. e \in LegRec /\ f \in LegRec
      BY <1>4
    <3> QED
      BY <3>1, <3>2, <3>3, <3>4 DEF LegRec, Revises
  <2>3. \A q \in LedgerRequests : Seen(q)' = Seen(q)
    BY <1>0 DEF Seen, ReqMoves, WritesRole
  <2>4. \A q \in LedgerRequests : \A l \in Seen(q)', m \in legs' : l.id = m.id => m.trade = l.trade
    BY <1>4, <2>3 DEF AlInv, LegIds, Revises
  <2> QED
    BY <2>2, <2>4 DEF LegIds
<1>8. \A l \in legs' : l.batch = trades[l.trade].batch
  BY <1>4 DEF AlInv, LegBatches, Revises
<1>9. \A u \in TradeIds : u # t => LegsOf(u)' = LegsOf(u)
  <2> SUFFICES ASSUME NEW u \in TradeIds, u # t PROVE LegsOf(u)' = LegsOf(u)
    OBVIOUS
  <2>1. \A l \in legs : l.trade = u => l \in legs'
    BY <1>3, <1>4 DEF Revises
  <2>2. \A e \in legs' : e.trade = u => e \in legs
    BY <1>3, <1>4 DEF Revises
  <2> QED
    BY <2>1, <2>2 DEF LegsOf
<1>10. PICK S : S = LegsOf(t)
  OBVIOUS
<1>11. PICK T : T = LegsOf(t)'
  OBVIOUS
<1>12. \A e \in T : \E l \in S : Same(e, l) /\ (l.id = n.id \/ e = l)
  <2> SUFFICES ASSUME NEW e \in T PROVE \E l \in S : Same(e, l) /\ (l.id = n.id \/ e = l)
    OBVIOUS
  <2>1. PICK l \in legs : Revises(e, l, n.id, v, pl)
    BY <1>4, <1>11 DEF LegsOf
  <2>2. l \in S
    BY <1>10, <1>11, <2>1 DEF LegsOf, Revises
  <2> QED
    BY <2>1, <2>2 DEF Revises, Same
<1>13. /\ z.write = x.write \ {role} /\ z.drop = x.drop /\ z.row = x.row /\ z.listed = x.listed
  BY DEF WritesRole
<1>14. ASSUME t \notin torn PROVE KnowsAll(x, S) /\ KnowsAll(z, T) /\ OnePerRole(S) /\ OnePerRole(T)
  <2>1. Knows(x, S)
    BY <1>0, <1>10, <1>14, AtWork DEF InStep
  <2>2. KnowsAll(x, S) /\ OnePerRole(S)
    BY <1>0, <2>1 DEF Knows, SyncPcs
  <2>3. KnowsAll(z, T)
    BY <1>0, <1>12, <1>13, <2>2, RoleIsKnown
  <2>4. \A e, f \in T : e.id = f.id => e = f
    BY <1>7, <1>11 DEF LegIds, LegsOf
  <2>5. OnePerRole(T)
    BY <1>12, <2>2, <2>4, OneStill
  <2> QED
    BY <2>2, <2>3, <2>5
<1>15. ASSUME t \notin torn, t \notin edited PROVE Settling(z, T)
  <2>1. Exact(x, S)
    BY <1>0, <1>10, <1>15, AtWork DEF InStep
  <2>2. Settling(x, S) /\ OnePerRole(S)
    BY <1>0, <1>14, <1>15, <2>1 DEF Exact, Clearing
  <2>3. n \in S
    BY <1>0, <1>1, <2>2 DEF Settling, OfRole
  <2>4. n \in legs /\ \A m \in S : m.role = role => m = n
    BY <1>3, <1>10, <2>2, <2>3 DEF OnePerRole, LegsOf
  <2>5. PICK e \in legs' : e.id = n.id /\ e.trade = t /\ e.role = role /\ e.version = v /\ e.at = pl
    BY <1>3, <1>4, <2>4 DEF Revises
  <2>6. \A l \in T : l = e \/ (l \in S /\ l.role # role)
    <3> SUFFICES ASSUME NEW l \in T, l # e PROVE l \in S /\ l.role # role
      OBVIOUS
    <3>1. l \in legs' /\ l.id # n.id
      BY <1>7, <1>11, <2>5 DEF LegIds, LegsOf
    <3>2. l \in S
      BY <1>12, <3>1 DEF Same
    <3> QED
      BY <2>4, <3>1, <3>2
  <2>7. \A l \in S : l.role # role => l \in T
    <3> SUFFICES ASSUME NEW l \in S, l.role # role PROVE l \in T
      OBVIOUS
    <3>1. l \in legs /\ l.trade = t
      BY <1>10 DEF LegsOf
    <3>2. l.id # n.id
      BY <1>3, <2>4, <3>1 DEF AlInv, LegIds
    <3>3. l \in legs'
      BY <1>4, <3>1, <3>2 DEF Revises
    <3> QED
      BY <1>11, <3>1, <3>3 DEF LegsOf
  <2>8. e \in T
    BY <1>11, <2>5 DEF LegsOf
  <2>9. e.version = x.row.version /\ e.at = Place(role)
    BY <1>2, <2>5
  <2> QED
    BY <1>0, <1>13, <2>2, <2>5, <2>6, <2>7, <2>8, <2>9, RoleIsIn
<1>16. ids.leg <= ids'.leg /\ ids'.trade = ids.trade /\ ids'.batch = ids.batch
  BY DEF AlInv, AlTyped
<1>17. t \notin torn => KnowsAll(z, LegsOf(t))' /\ OnePerRole(LegsOf(t))'
  BY <1>11, <1>14 DEF KnowsAll, OnePerRole
<1>18. t \notin torn /\ t \notin edited => Settling(z, LegsOf(t))'
  BY <1>11, <1>15 DEF Settling, Written
<1> QED
  BY <1>5, <1>6, <1>7, <1>8, <1>9, <1>16, <1>17, <1>18, WritesInv

\* A row of the role is inserted, with the next id
LEMMA InsertsInv ==
    ASSUME AlInv, NEW r \in LedgerRequests, NEW x \in ReqRec, NEW t \in TradeIds,
           NEW role \in AllRoles, NEW z \in ReqRec, WritesRole(r, x, t, role, z),
           OfRole(x.listed, role) = {},
           legs' = legs \cup {NewLeg(ids.leg, t, role, x.row)},
           ids' = [ids EXCEPT !.leg = @ + 1],
           UNCHANGED <<accounts, trades, batches, torn, racedKeys, edited>>
    PROVE  AlInv'
<1>0. /\ x = req[r] /\ x.pc = "syncing" /\ t = x.trade /\ ReqMoves(r, z) /\ role \in x.write
      /\ x.write \subseteq Roles(x.row.side)
  BY DEF WritesRole
<1>1. PICK n \in Nat : n = ids.leg
  BY DEF AlInv, AlTyped
<1>2. PICK e \in LegRec : e = NewLeg(n, t, role, x.row)
  <2>1. PICK w \in RowRec : w = x.row
    BY DEF ReqRec
  <2>2. Place(role) \in LegPlaces
    BY DEF Place, LegPlaces
  <2>3. NewLeg(n, t, role, w) \in LegRec
    BY <2>2 DEF NewLeg, LegRec, RowRec
  <2> QED
    BY <2>1, <2>3
<1>3. /\ e.id = n /\ e.trade = t /\ e.role = role /\ e.version = x.row.version
      /\ e.at = Place(role) /\ e.batch = trades[t].batch
  BY <1>0, <1>2 DEF NewLeg, AlInv, LegBatches, SyncPcs
<1>4. legs' = legs \cup {e}
  BY <1>1, <1>2
<1>5. /\ ids' \in [trade : Nat, leg : Nat, batch : Nat] /\ ids'.leg = n + 1
      /\ ids'.trade = ids.trade /\ ids'.batch = ids.batch
  BY <1>1 DEF AlInv, AlTyped
<1>6. AlTyped'
  BY <1>0, <1>1, <1>4, <1>5 DEF AlInv, AlTyped, ReqMoves
<1>7. LegGivenOut'
  <2>1. t < ids.trade /\ \A l \in legs : l.id \in Nat /\ l.id < n
    BY <1>0, <1>1 DEF AlInv, AlTyped, LegRec, GivenOut, LegGivenOut, ReqGivenOut
  <2> QED
    BY <1>3, <1>4, <1>5, <2>1 DEF AlInv, GivenOut, LegGivenOut
<1>8. LegIds'
  <2>1. \A l \in legs : l.id # n
    BY <1>1 DEF AlInv, AlTyped, GivenOut, LegGivenOut
  <2>2. \A q \in LedgerRequests : \A l \in Seen(q) : l.id # n
    BY <1>1 DEF AlInv, AlTyped, GivenOut, ReqGivenOut
  <2>3. \A q \in LedgerRequests : Seen(q)' = Seen(q)
    BY <1>0 DEF Seen, ReqMoves, WritesRole
  <2> QED
    BY <1>3, <1>4, <2>1, <2>2, <2>3 DEF AlInv, LegIds
<1>9. \A l \in legs' : l.batch = trades[l.trade].batch
  BY <1>3, <1>4 DEF AlInv, LegBatches
<1>10. \A u \in TradeIds : u # t => LegsOf(u)' = LegsOf(u)
  BY <1>3, <1>4 DEF LegsOf
<1>11. PICK S : S = LegsOf(t)
  OBVIOUS
<1>12. PICK T : T = LegsOf(t)' /\ T = S \cup {e}
  BY <1>3, <1>4, <1>11 DEF LegsOf
<1>13. z.write = x.write \ {role} /\ z.drop = x.drop /\ z.row = x.row /\ z.listed = x.listed
  BY DEF WritesRole
<1>14. ASSUME t \notin torn
       PROVE  /\ KnowsAll(z, T) /\ OnePerRole(S) /\ OnePerRole(T)
              /\ \A l \in S : l.role # role
  <2>1. Knows(x, S)
    BY <1>0, <1>11, <1>14, AtWork DEF InStep
  <2>2. KnowsAll(x, S) /\ OnePerRole(S)
    BY <1>0, <2>1 DEF Knows, SyncPcs
  <2>3. \A l \in S : l.role # role
    BY <1>0, <2>2 DEF KnowsAll, OfRole, Same
  <2>4. OnePerRole(T)
    BY <1>3, <1>12, <2>2, <2>3 DEF OnePerRole
  <2>5. \A l \in T : l.role = role \/ \E m \in S : Same(l, m)
    BY <1>3, <1>12 DEF Same
  <2>6. KnowsAll(z, T)
    BY <1>0, <1>13, <2>2, <2>5, RoleIsKnown
  <2> QED
    BY <2>2, <2>3, <2>4, <2>6
<1>15. ASSUME t \notin torn, t \notin edited PROVE Settling(z, T)
  <2>1. Exact(x, S)
    BY <1>0, <1>11, <1>15, AtWork DEF InStep
  <2>2. Settling(x, S)
    BY <1>0, <2>1 DEF Exact, Clearing
  <2>3. /\ e \in T
        /\ \A l \in T : l = e \/ (l \in S /\ l.role # role)
        /\ \A l \in S : l.role # role => l \in T
    BY <1>12, <1>14, <1>15
  <2> QED
    BY <1>0, <1>3, <1>13, <1>14, <1>15, <2>2, <2>3, RoleIsIn
<1>16. t \notin torn => KnowsAll(z, LegsOf(t))' /\ OnePerRole(LegsOf(t))'
  BY <1>12, <1>14 DEF KnowsAll, OnePerRole
<1>17. t \notin torn /\ t \notin edited => Settling(z, LegsOf(t))'
  BY <1>12, <1>15 DEF Settling, Written
<1>18. ids.leg <= ids'.leg
  BY <1>1, <1>5
<1> QED
  BY <1>5, <1>6, <1>7, <1>8, <1>9, <1>10, <1>16, <1>17, <1>18, WritesInv

LEMMA SyncWritesInv ==
    ASSUME AlInv, NEW r \in LedgerRequests, SyncWrites(r)
    PROVE  AlInv'
<1>1. PICK x \in ReqRec, t \in TradeIds, role \in AllRoles, z \in ReqRec : WritesRole(r, x, t, role, z)
  BY WritesNext
<1>2. x = req[r] /\ t = x.trade /\ role = NextRole(x.write)
  BY <1>1 DEF WritesRole
<1>3. UNCHANGED <<accounts, trades, batches, torn, racedKeys, edited>>
  BY DEF SyncWrites
<1>4. OfRole(x.listed, role) = {l \in req[r].listed : l.role = NextRole(req[r].write)}
  BY <1>2 DEF OfRole
<1>5. CASE OfRole(x.listed, role) # {}
  <2>1. legs' = Rewrite(NewestOf(OfRole(x.listed, role)).id, x.row.version, Place(role)) /\ UNCHANGED ids
    BY <1>2, <1>4, <1>5 DEF SyncWrites
  <2> QED
    BY <1>1, <1>3, <1>5, <2>1, RewritesInv
<1>6. CASE OfRole(x.listed, role) = {}
  <2>1. legs' = legs \cup {NewLeg(ids.leg, t, role, x.row)} /\ ids' = [ids EXCEPT !.leg = @ + 1]
    BY <1>2, <1>4, <1>6 DEF SyncWrites
  <2> QED
    BY <1>1, <1>3, <1>6, <2>1, InsertsInv
<1> QED
  BY <1>5, <1>6

LEMMA SyncDropsInv ==
    ASSUME AlInv, NEW r \in LedgerRequests, SyncDrops(r)
    PROVE  AlInv'
BY DropsInv DEF SyncDrops, InPhase

\* An import opens its batch
LEMMA ImportOpensInv ==
    ASSUME AlInv, NEW r \in LedgerRequests, ImportOpens(r)
    PROVE  AlInv'
<1>1. PICK x \in ReqRec : x = req[r]
  BY DEF AlInv, AlTyped
<1>2. PICK b \in BatchIds : b = ids.batch
  BY LedgerIds DEF AlInv, AlTyped, ImportOpens
<1>3. PICK z \in ReqRec : z = [x EXCEPT !.pc = "opened", !.batch = b]
  <2>1. b \in 0..MaxBatches
    BY LedgerIds
  <2>2. [x EXCEPT !.pc = "opened", !.batch = b] \in ReqRec
    BY <2>1 DEF ReqRec, FilePcs
  <2> QED
    BY <2>2
<1>4. /\ z.pc = "opened" /\ z.batch = b /\ z.trade = x.trade /\ z.file = x.file /\ z.listed = x.listed
      /\ z.drop = x.drop /\ z.write = x.write /\ z.row = x.row
  BY <1>3 DEF ReqRec
<1>5. /\ x.pc = "checked" /\ Becomes(r, z) /\ batches' = [batches EXCEPT ![b] = "pending"]
      /\ ids' = [ids EXCEPT !.batch = b + 1]
      /\ UNCHANGED <<accounts, trades, legs, torn, racedKeys, edited>>
  BY <1>1, <1>2, <1>3 DEF ImportOpens, InPhase
<1>6. Shaped(z) /\ ReqMoves(r, z) /\ x.trade = 0
  BY <1>1, <1>4, <1>5, BecomesIs DEF AlInv, Hands, Shaped, HandPcs, SyncPcs, FilePcs
<1>7. /\ ids' \in [trade : Nat, leg : Nat, batch : Nat] /\ ids'.batch = b + 1
      /\ ids'.trade = ids.trade /\ ids'.leg = ids.leg
  BY <1>2, <1>5 DEF AlInv, AlTyped
<1>8. AlTyped'
  <2>1. batches' \in [BatchIds -> BatchStates]
    BY <1>5 DEF AlInv, AlTyped, BatchStates
  <2> QED
    BY <1>2, <1>5, <1>6, <1>7, <2>1 DEF AlInv, AlTyped, ReqMoves
<1>9. \A q \in LedgerRequests : Seen(q)' = Seen(q)
  BY <1>1, <1>4, <1>6 DEF Seen, ReqMoves
<1>10. GivenOut'
  <2>1. LegGivenOut'
    BY <1>5, <1>7 DEF AlInv, GivenOut, LegGivenOut
  <2>2. RowGivenOut'
    BY <1>2, <1>5, <1>7 DEF AlInv, AlTyped, RowRec, GivenOut, RowGivenOut
  <2>3. BatchGivenOut'
    BY <1>2, <1>5, <1>7, LedgerIds DEF AlInv, AlTyped, GivenOut, BatchGivenOut
  <2>4. \A q \in LedgerRequests : req[q].batch \in 0..MaxBatches /\ req[q].batch < b
    BY <1>2 DEF AlInv, AlTyped, ReqRec, GivenOut, ReqGivenOut
  <2>5. \A q \in LedgerRequests : req'[q].trade < ids.trade /\ req'[q].batch < b + 1
    BY <1>1, <1>4, <1>6, <2>4, LedgerIds DEF AlInv, GivenOut, ReqGivenOut, ReqMoves
  <2>6. ReqGivenOut'
    BY <1>1, <1>4, <1>6, <1>7, <1>9, <2>5 DEF AlInv, GivenOut, ReqGivenOut, ReqMoves
  <2> QED
    BY <2>1, <2>2, <2>3, <2>6 DEF GivenOut
<1>11. LegIds'
  BY <1>5, <1>9, LegIdsStay DEF AlInv
<1>12. LegBatches'
  BY <1>4, <1>5, <1>6, LegBatchesStay DEF AlInv, ReqMoves, SyncPcs
<1>13. Hands'
  BY <1>1, <1>4, <1>5, <1>6, HandsStay DEF AlInv
<1>14. LegsFit'
  BY <1>1, <1>4, <1>5, <1>6, NoTradeFits
<1>15. BatchesFit'
  <2>1. \A q \in LedgerRequests : req[q].pc = "opened" => req[q].batch # b
    BY <1>2 DEF AlInv, AlTyped, ReqRec, GivenOut, ReqGivenOut
  <2>2. OneOpened'
    BY <1>4, <1>6, <2>1 DEF AlInv, BatchesFit, OneOpened, ReqMoves
  <2>3. batches[b] = "none"
    BY <1>2, LedgerIds DEF AlInv, GivenOut, BatchGivenOut
  <2>4. \A c \in BatchIds : batches'[c] = IF c = b THEN "pending" ELSE batches[c]
    BY <1>5 DEF AlInv, AlTyped
  <2>5. ReqBatches'
    BY <1>4, <1>6, <2>3, <2>4 DEF AlInv, BatchesFit, ReqBatches, ReqMoves
  <2>6. \A t \in TradeIds : trades[t].alive => trades[t].batch < b /\ trades[t].batch \in 0..MaxBatches
    BY <1>2 DEF AlInv, AlTyped, RowRec, GivenOut, RowGivenOut
  <2>7. RowBatches'
    <3> SUFFICES ASSUME NEW t \in TradeIds, trades[t].alive, trades[t].batch # 0
                 PROVE  batches'[trades[t].batch] = "committed"
      BY <1>5 DEF RowBatches
    <3>1. trades[t].batch \in BatchIds /\ trades[t].batch # b
      BY <2>6, LedgerIds
    <3> QED
      BY <2>4, <3>1 DEF AlInv, BatchesFit, RowBatches
  <2> QED
    BY <2>2, <2>5, <2>7 DEF BatchesFit
<1>16. KeysFit'
  BY <1>1, <1>4, <1>5, <1>6, NoKeyInFile, KeysStay DEF AlInv, ReqMoves
<1> QED
  BY <1>8, <1>10, <1>11, <1>12, <1>13, <1>14, <1>15, <1>16 DEF AlInv

\* The batch of an import has no rows when it fails
LEMMA ImportFailsInv ==
    ASSUME AlInv, NEW r \in LedgerRequests, ImportFails(r)
    PROVE  AlInv'
<1>1. PICK b \in BatchIds : b = req[r].batch
  BY DEF ImportFails, InPhase, AlInv, BatchesFit, ReqBatches
<1>2. /\ req[r].pc = "opened" /\ Becomes(r, Waiting) /\ batches' = [batches EXCEPT ![b] = "failed"]
      /\ UNCHANGED <<accounts, trades, legs, ids, torn, racedKeys, edited>>
  BY <1>1 DEF ImportFails, InPhase, Done
<1>3. ReqMoves(r, Waiting) /\ req[r].trade = 0
  BY <1>2, WaitingIs, BecomesIs DEF AlInv, Hands, Shaped, HandPcs, SyncPcs
<1>4. \A c \in BatchIds : batches'[c] = IF c = b THEN "failed" ELSE batches[c]
  BY <1>2 DEF AlInv, AlTyped
<1>5. batches[b] = "pending"
  BY <1>1, <1>2 DEF AlInv, BatchesFit, ReqBatches
<1>6. AlTyped'
  <2>1. batches' \in [BatchIds -> BatchStates]
    BY <1>2 DEF AlInv, AlTyped, BatchStates
  <2> QED
    BY <1>2, <1>3, <2>1 DEF AlInv, AlTyped, ReqMoves
<1>7. \A q \in LedgerRequests : Seen(q)' = IF q = r THEN {} ELSE Seen(q)
  BY <1>3, WaitingIs DEF Seen, ReqMoves
<1>8. GivenOut'
  <2>1. LegGivenOut' /\ RowGivenOut'
    BY <1>2 DEF AlInv, GivenOut, LegGivenOut, RowGivenOut
  <2>2. BatchGivenOut'
    BY <1>2, <1>4, <1>5 DEF AlInv, GivenOut, BatchGivenOut
  <2>3. ReqGivenOut'
    BY <1>2, <1>3, <1>7, WaitingIs DEF AlInv, AlTyped, GivenOut, ReqGivenOut, ReqMoves
  <2> QED
    BY <2>1, <2>2, <2>3 DEF GivenOut
<1>9. LegIds'
  <2>1. \A q \in LedgerRequests : Seen(q)' \subseteq Seen(q)
    BY <1>7
  <2> QED
    BY <1>2, <2>1, LegIdsStay DEF AlInv
<1>10. LegBatches'
  BY <1>2, <1>3, WaitingIs, LegBatchesStay DEF AlInv, ReqMoves, SyncPcs
<1>11. Hands'
  BY <1>2, <1>3, WaitingIs, HandsStay DEF AlInv
<1>12. LegsFit'
  BY <1>2, <1>3, WaitingIs, NoTradeFits
<1>13. BatchesFit'
  <2>1. OneOpened'
    BY <1>3, WaitingIs DEF AlInv, BatchesFit, OneOpened, ReqMoves
  <2>2. \A q \in LedgerRequests : q # r /\ req[q].pc = "opened" => req[q].batch # b
    BY <1>1, <1>2 DEF AlInv, BatchesFit, OneOpened
  <2>3. ReqBatches'
    BY <1>3, <1>4, <1>5, <2>2, WaitingIs DEF AlInv, BatchesFit, ReqBatches, ReqMoves
  <2>4. RowBatches'
    <3> SUFFICES ASSUME NEW t \in TradeIds, trades[t].alive, trades[t].batch # 0
                 PROVE  batches'[trades[t].batch] = "committed"
      BY <1>2 DEF RowBatches
    <3>1. trades[t].batch \in BatchIds /\ batches[trades[t].batch] = "committed"
      BY LedgerIds DEF AlInv, AlTyped, RowRec, BatchesFit, RowBatches
    <3> QED
      BY <1>4, <1>5, <3>1
  <2> QED
    BY <2>1, <2>3, <2>4 DEF BatchesFit
<1>14. KeysFit'
  BY <1>2, <1>3, WaitingIs, NoKeyInFile, KeysStay DEF AlInv, ReqMoves
<1> QED
  BY <1>6, <1>8, <1>9, <1>10, <1>11, <1>12, <1>13, <1>14 DEF AlInv

\* The rows of a trade are changed or deleted by hand: whoever works at it still knows those there are
LEMMA EditedFits ==
    ASSUME AlInv, NEW t \in TradeIds, t \in edited', UNCHANGED <<accounts, trades, torn>>,
           \A e \in LegsOf(t)' : \E l \in LegsOf(t) : Same(e, l),
           \A e, f \in LegsOf(t)' : e.id = f.id => e = f,
           \A q \in LedgerRequests : (Touches(q, t)' <=> Touches(q, t)) /\ (Touches(q, t) => req'[q] = req[q])
    PROVE  Fits(t)'
<1> SUFFICES ASSUME t \notin torn
             PROVE  /\ \A q \in LedgerRequests : Touches(q, t)' => InStep(req[q], LegsOf(t))'
                    /\ ~InHand(t)' => AtRest(t)'
  BY DEF Fits
<1>1. PICK S : S = LegsOf(t)
  OBVIOUS
<1>2. PICK T : T = LegsOf(t)'
  OBVIOUS
<1>3. OnePerRole(S) => OnePerRole(T)
  BY <1>1, <1>2, OneStill
<1>4. ASSUME NEW q \in LedgerRequests, Touches(q, t)' PROVE InStep(req[q], LegsOf(t))'
  <2>1. PICK x : x = req[q] /\ x = req'[q]
    BY <1>4
  <2>2. x.trade = t /\ Knows(x, S)
    BY <1>1, <1>4, <2>1 DEF AlInv, LegsFit, Fits, InStep, Touches
  <2>3. \A L : ListsAll(L, S) => ListsAll(L, T)
    BY <1>1, <1>2 DEF ListsAll, Same
  <2>4. KnowsAll(x, S) => KnowsAll(x, T)
    BY <1>1, <1>2 DEF KnowsAll, Same
  <2>5. Knows(x, T)
    BY <1>3, <2>2, <2>3, <2>4 DEF Knows
  <2> QED
    BY <1>2, <2>1, <2>2, <2>5 DEF InStep, Knows, KnowsAll, OnePerRole
<1>5. ASSUME ~InHand(t)' PROVE AtRest(t)'
  <2>1. AtRest(t)
    BY <1>5 DEF AlInv, LegsFit, Fits, InHand
  <2>2. T = {} \/ (trades[t].alive /\ OfSide(S, trades[t].side))
    BY <1>1, <1>2, <2>1 DEF AtRest
  <2>3. OfSide(S, trades[t].side) => OfSide(T, trades[t].side)
    BY <1>1, <1>2, <1>3 DEF OfSide, Same
  <2> QED
    BY <1>2, <2>2, <2>3 DEF AtRest
<1> QED
  BY <1>4, <1>5

\* Rows changed or deleted by hand keep their ids, links, roles and batches, if they stay
LEMMA ByHandInv ==
    ASSUME AlInv, UNCHANGED <<accounts, trades, batches, ids, torn, racedKeys>>,
           edited \subseteq edited', edited' \in SUBSET TradeIds, legs' \in SUBSET LegRec,
           \A e \in legs' : \E l \in legs : Same(e, l) /\ e.trade = l.trade /\ e.batch = l.batch,
           \A e, f \in legs' : e.id = f.id => e = f,
           \A t \in TradeIds \ edited' : LegsOf(t)' = LegsOf(t),
           req' \in [LedgerRequests -> ReqRec],
           \A q \in LedgerRequests : req'[q] = req[q] \/ (req'[q] = Waiting /\ req[q].pc = "editing")
    PROVE  AlInv'
<1>1. AlTyped'
  BY DEF AlInv, AlTyped
<1>2. \A q \in LedgerRequests : req[q].pc = "editing" => req[q].trade = 0
  BY DEF AlInv, Hands, Shaped, HandPcs, SyncPcs
<1>3. \A q \in LedgerRequests : Seen(q)' \subseteq Seen(q) /\ req'[q].trade = req[q].trade
  BY <1>2, WaitingIs DEF Seen
<1>4. GivenOut'
  <2>1. LegGivenOut'
    BY DEF AlInv, GivenOut, LegGivenOut, Same
  <2>2. RowGivenOut' /\ BatchGivenOut'
    BY DEF AlInv, GivenOut, RowGivenOut, BatchGivenOut
  <2>3. ReqGivenOut'
    BY <1>3, WaitingIs DEF AlInv, AlTyped, GivenOut, ReqGivenOut
  <2> QED
    BY <2>1, <2>2, <2>3 DEF GivenOut
<1>5. LegIds'
  BY <1>3 DEF AlInv, LegIds, Same
<1>6. LegBatches'
  <2>1. \A l \in legs' : l.batch = trades[l.trade].batch
    BY DEF AlInv, LegBatches
  <2>2. \A q \in LedgerRequests : req'[q].pc \in SyncPcs => req'[q] = req[q]
    BY WaitingIs DEF SyncPcs
  <2> QED
    BY <2>1, <2>2 DEF AlInv, LegBatches
<1>7. \A q \in LedgerRequests : \A t \in TradeIds : /\ Touches(q, t)' <=> Touches(q, t)
                                                    /\ Touches(q, t) => req'[q] = req[q]
  BY <1>2, WaitingIs, LedgerIds DEF Touches
<1>8. Hands'
  <2>1. \A q \in LedgerRequests : Shaped(req'[q])
    BY WaitingIs DEF AlInv, Hands
  <2> QED
    BY <1>7, <2>1 DEF AlInv, Hands, Shaped
<1>9. LegsFit'
  <2> SUFFICES ASSUME NEW t \in TradeIds PROVE Fits(t)'
    BY DEF LegsFit
  <2>1. CASE t \in edited'
    <3>1. \A e \in LegsOf(t)' : \E l \in LegsOf(t) : Same(e, l)
      BY DEF LegsOf
    <3>2. \A e, f \in LegsOf(t)' : e.id = f.id => e = f
      BY DEF LegsOf
    <3> QED
      BY <1>7, <2>1, <3>1, <3>2, EditedFits
  <2>2. CASE t \notin edited'
    <3>1. Undisturbed(t)
      BY <1>7, <2>2 DEF Undisturbed
    <3> QED
      BY <3>1, FitsStays DEF AlInv, LegsFit
  <2> QED
    BY <2>1, <2>2
<1>10. BatchesFit'
  BY WaitingIs, BatchesStay DEF AlInv
<1>11. KeysFit'
  BY WaitingIs, NoKeyInFile, KeysStay DEF AlInv
<1> QED
  BY <1>1, <1>4, <1>5, <1>6, <1>8, <1>9, <1>10, <1>11 DEF AlInv

LEMMA DeleteLegInv ==
    ASSUME AlInv, NEW l \in legs, DeleteLeg(l)
    PROVE  AlInv'
<1>1. /\ legs' = legs \ {l} /\ edited' = edited \cup {l.trade}
      /\ UNCHANGED <<accounts, trades, batches, req, ids, torn, racedKeys>>
  BY DEF DeleteLeg
<1>2. l.trade \in TradeIds /\ edited' \in SUBSET TradeIds /\ edited \subseteq edited'
  BY <1>1 DEF AlInv, AlTyped, LegRec
<1>3. legs' \in SUBSET LegRec /\ req' \in [LedgerRequests -> ReqRec]
  BY <1>1 DEF AlInv, AlTyped
<1>4. \A e \in legs' : \E m \in legs : Same(e, m) /\ e.trade = m.trade /\ e.batch = m.batch
  BY <1>1 DEF Same
<1>5. \A e, f \in legs' : e.id = f.id => e = f
  BY <1>1 DEF AlInv, LegIds
<1>6. \A t \in TradeIds \ edited' : LegsOf(t)' = LegsOf(t)
  BY <1>1 DEF LegsOf
<1> QED
  BY <1>1, <1>2, <1>3, <1>4, <1>5, <1>6, ByHandInv

LEMMA PatchLegReadsInv ==
    ASSUME AlInv, NEW r \in LedgerRequests, NEW l \in legs, PatchLegReads(r, l)
    PROVE  AlInv'
<1>1. PICK e \in EditRec : e = [id |-> l.id, version |-> l.version]
  BY DEF EditRec, AlInv, AlTyped, LegRec
<1>2. PICK z \in ReqRec : z = [Waiting EXCEPT !.pc = "editing", !.edit = e]
  <2>1. PICK w \in ReqRec : w = Waiting
    BY WaitingIs
  <2>2. [w EXCEPT !.pc = "editing", !.edit = e] \in ReqRec
    BY DEF ReqRec
  <2> QED
    BY <2>1, <2>2
<1>3. /\ z.pc = "editing" /\ z.file = {} /\ z.trade = 0 /\ z.listed = {} /\ z.drop = {} /\ z.batch = 0
      /\ Shaped(z)
  BY <1>2, WaitingIs DEF ReqRec, Shaped, FilePcs, HandPcs, SyncPcs
<1>4. /\ req[r].pc = "idle" /\ Becomes(r, z)
      /\ UNCHANGED <<accounts, trades, legs, batches, ids, torn, racedKeys, edited>>
  BY <1>1, <1>2 DEF PatchLegReads, InPhase
<1>5. ReqMoves(r, z) /\ req[r].trade = 0 /\ req[r].file = {}
  BY <1>3, <1>4, BecomesIs DEF AlInv, Hands, Shaped, HandPcs, SyncPcs, FilePcs
<1>6. AlTyped' /\ GivenOut' /\ LegIds' /\ LegBatches' /\ Hands'
  <2>1. Seen(r)' = {}
    BY <1>3, <1>5 DEF Seen, ReqMoves
  <2>2. z.batch < ids.batch /\ edited' \in SUBSET TradeIds
    BY <1>3, <1>4 DEF AlInv, AlTyped
  <2> QED
    BY <1>3, <1>4, <1>5, <2>1, <2>2, TablesStay DEF SyncPcs
<1>7. LegsFit'
  BY <1>3, <1>4, <1>5, NoTradeFits
<1>8. BatchesFit'
  BY <1>3, <1>4, <1>5, BatchesStay DEF AlInv, ReqMoves
<1>9. KeysFit'
  BY <1>3, <1>4, <1>5, NoKeyInFile, KeysStay DEF AlInv, ReqMoves
<1> QED
  BY <1>6, <1>7, <1>8, <1>9 DEF AlInv

\* A request that has no trade any more
LEMMA EditEnds ==
    ASSUME AlInv, NEW r \in LedgerRequests, req[r].pc = "editing", Done(r)
    PROVE  /\ req' \in [LedgerRequests -> ReqRec]
           /\ \A q \in LedgerRequests : req'[q] = req[q] \/ (req'[q] = Waiting /\ req[q].pc = "editing")
BY WaitingIs, BecomesIs DEF AlInv, Done, ReqMoves

LEMMA PatchLegStepInv ==
    ASSUME AlInv, NEW r \in LedgerRequests, PatchLegStep(r)
    PROVE  AlInv'
<1>1. CASE PatchLegFails(r)
  <2>1. /\ req[r].pc = "editing" /\ Done(r)
        /\ UNCHANGED <<accounts, trades, legs, batches, ids, torn, racedKeys, edited>>
    BY <1>1 DEF PatchLegFails, InPhase
  <2>2. \A e \in legs' : \E l \in legs : Same(e, l) /\ e.trade = l.trade /\ e.batch = l.batch
    BY <2>1 DEF Same
  <2>3. /\ \A e, f \in legs' : e.id = f.id => e = f
        /\ legs' \in SUBSET LegRec /\ edited' \in SUBSET TradeIds
    BY <2>1 DEF AlInv, AlTyped, LegIds
  <2>4. \A t \in TradeIds \ edited' : LegsOf(t)' = LegsOf(t)
    BY <2>1 DEF LegsOf
  <2> QED
    BY <2>1, <2>2, <2>3, <2>4, EditEnds, ByHandInv
<1>2. ASSUME NEW amount \in 0..2, NEW place \in {"bank", "broker"}, PatchLegWrites(r, amount, place)
      PROVE  AlInv'
  <2>1. PICK n \in Nat : n = req[r].edit.id
    BY DEF AlInv, AlTyped, ReqRec, EditRec
  <2>2. /\ req[r].pc = "editing" /\ Done(r) /\ legs' = Rewrite(n, amount, place)
        /\ edited' = edited \cup {l.trade : l \in legs \ legs'}
        /\ UNCHANGED <<accounts, trades, batches, ids, torn, racedKeys>>
    BY <1>2, <2>1 DEF PatchLegWrites, InPhase
  <2>3. PICK v \in {0, 1, 2}, pl \in LegPlaces : v = amount /\ pl = place
    BY DEF LegPlaces
  <2>4. /\ legs' \in SUBSET LegRec
        /\ \A e \in legs' : \E l \in legs : Revises(e, l, n, v, pl)
        /\ \A l \in legs : \E e \in legs' : Revises(e, l, n, v, pl)
    <3>1. legs \in SUBSET LegRec
      BY DEF AlInv, AlTyped
    <3> QED
      BY <2>2, <2>3, <3>1, RewrittenIs
  <2>5. \A e \in legs' : \E l \in legs : Same(e, l) /\ e.trade = l.trade /\ e.batch = l.batch
    BY <2>4 DEF Revises, Same
  <2>6. \A e, f \in legs' : e.id = f.id => e = f
    <3> SUFFICES ASSUME NEW e \in legs', NEW f \in legs', e.id = f.id PROVE e = f
      OBVIOUS
    <3>1. PICK l \in legs, m \in legs : Revises(e, l, n, v, pl) /\ Revises(f, m, n, v, pl)
      BY <2>4
    <3>2. l = m
      BY <3>1 DEF AlInv, LegIds, Revises
    <3>3. e \in LegRec /\ f \in LegRec
      BY <2>4
    <3> QED
      BY <3>1, <3>2, <3>3 DEF LegRec, Revises
  <2>7. edited \subseteq edited' /\ edited' \in SUBSET TradeIds
    BY <2>2 DEF AlInv, AlTyped, LegRec
  <2>8. \A t \in TradeIds \ edited' : LegsOf(t)' = LegsOf(t)
    <3> SUFFICES ASSUME NEW t \in TradeIds \ edited' PROVE LegsOf(t)' = LegsOf(t)
      OBVIOUS
    <3>1. \A l \in legs : l.trade = t => l \in legs'
      BY <2>2
    <3>2. \A e \in legs' : e.trade = t => e \in legs
      <4> SUFFICES ASSUME NEW e \in legs', e.trade = t PROVE e \in legs
        OBVIOUS
      <4>1. PICK l \in legs : Revises(e, l, n, v, pl)
        BY <2>4
      <4>2. l \in legs' /\ l.id = e.id
        BY <3>1, <4>1 DEF Revises
      <4> QED
        BY <2>6, <4>2
    <3> QED
      BY <3>1, <3>2 DEF LegsOf
  <2> QED
    BY <2>2, <2>4, <2>5, <2>6, <2>7, <2>8, EditEnds, ByHandInv
<1> QED
  BY <1>1, <1>2 DEF PatchLegStep

\* The switch of automatic settlement
LEMMA SetAutoInv ==
    ASSUME AlInv, SetAuto
    PROVE  AlInv'
<1>1. /\ accounts' = [accounts EXCEPT !.auto = ~@] /\ accounts.bank
      /\ UNCHANGED <<trades, legs, batches, req, ids, torn, racedKeys, edited>>
  BY DEF SetAuto
<1>2. accounts' \in [auto : BOOLEAN, bank : BOOLEAN] /\ accounts'.bank = accounts.bank
  BY <1>1 DEF AlInv, AlTyped
<1>3. AlTyped' /\ GivenOut' /\ LegIds' /\ LegBatches' /\ Hands'
  <2>1. AlTyped'
    BY <1>1, <1>2 DEF AlInv, AlTyped
  <2>2. GivenOut'
    BY <1>1 DEF AlInv, GivenOut, LegGivenOut, RowGivenOut, ReqGivenOut, BatchGivenOut, Seen
  <2>3. LegIds' /\ LegBatches'
    BY <1>1 DEF AlInv, LegIds, LegBatches, Seen
  <2>4. Hands'
    BY <1>1 DEF AlInv, Hands, Touches
  <2> QED
    BY <2>1, <2>2, <2>3, <2>4
<1>4. \A t \in TradeIds : Undisturbed(t)
  BY <1>1, <1>2 DEF Undisturbed, Touches, LegsOf
<1>5. LegsFit'
  BY <1>4, FitsStays DEF AlInv, LegsFit
<1>6. BatchesFit' /\ KeysFit'
  BY <1>1 DEF AlInv, BatchesFit, OneOpened, ReqBatches, RowBatches, KeysFit, RowKeys, ReqKeys, TwoFiles, BatchStored
<1> QED
  BY <1>3, <1>5, <1>6 DEF AlInv

\* The bank account goes, and its legs with it
LEMMA DeleteBankInv ==
    ASSUME AlInv, DeleteBank
    PROVE  AlInv'
<1>1. /\ accounts' = [auto |-> FALSE, bank |-> FALSE] /\ legs' = {l \in legs : l.at # "bank"}
      /\ torn' = torn \cup {t \in TradeIds : InHand(t)}
      /\ UNCHANGED <<trades, batches, req, ids, racedKeys, edited>>
  BY DEF DeleteBank
<1>2. AlTyped'
  BY <1>1 DEF AlInv, AlTyped
<1>3. GivenOut'
  <2>1. \A t \in TradeIds : InHand(t) => t < ids.trade
    BY DEF AlInv, InHand, Touches, GivenOut, ReqGivenOut
  <2> QED
    BY <1>1, <2>1 DEF AlInv, GivenOut, LegGivenOut, RowGivenOut, ReqGivenOut, BatchGivenOut, Seen
<1>4. LegIds' /\ LegBatches' /\ Hands'
  <2>1. \A q \in LedgerRequests : Seen(q)' = Seen(q)
    BY <1>1 DEF Seen
  <2>2. LegIds'
    BY <1>1, <2>1, LegIdsStay DEF AlInv
  <2>3. LegBatches'
    BY <1>1, LegBatchesStay DEF AlInv
  <2>4. Hands'
    BY <1>1 DEF AlInv, Hands, Shaped, Touches
  <2> QED
    BY <2>2, <2>3, <2>4
<1>5. LegsFit'
  <2> SUFFICES ASSUME NEW t \in TradeIds, t \notin torn' PROVE ~InHand(t)' /\ AtRest(t)'
    BY DEF LegsFit, Fits, InHand
  <2>1. ~InHand(t) /\ t \notin torn
    BY <1>1
  <2>2. ~InHand(t)'
    BY <1>1, <2>1 DEF InHand, Touches
  <2>3. AtRest(t)
    BY <2>1 DEF AlInv, LegsFit, Fits
  <2>4. PICK S : S = LegsOf(t)
    OBVIOUS
  <2>5. PICK T : T = {l \in S : l.at # "bank"} /\ T = LegsOf(t)'
    BY <1>1, <2>4 DEF LegsOf
  <2>6. CASE S = {}
    BY <2>2, <2>5, <2>6 DEF AtRest
  <2>7. ASSUME trades[t].alive, OfSide(S, trades[t].side), t \notin edited => Complete(S, trades[t])
        PROVE  AtRest(t)'
    <3>1. OfSide(T, trades[t].side)
      BY <2>5, <2>7 DEF OfSide, OnePerRole
    <3>2. ASSUME t \notin edited PROVE Complete(T, trades[t])'
      <4>1. \A role : role \in Wanted(trades[t].side)' <=> role \in Wanted(trades[t].side) /\ ~AtBank(role)
        BY <1>1 DEF Wanted, Bookable
      <4>2. \A l \in S : /\ l.role \in Wanted(trades[t].side) /\ l.version = trades[t].version
                         /\ l.at = Place(l.role)
        BY <2>7, <3>2 DEF Complete
      <4>3. \A role \in Wanted(trades[t].side) : \E l \in S : l.role = role
        BY <2>7, <3>2 DEF Complete
      <4>4. \A l \in S : l \in T <=> ~AtBank(l.role)
        BY <2>5, <4>2 DEF Place
      <4>5. \A l \in T : /\ l.role \in Wanted(trades[t].side)' /\ l.version = trades[t].version
                         /\ l.at = Place(l.role)
        BY <2>5, <4>1, <4>2, <4>4
      <4>6. \A role \in Wanted(trades[t].side)' : \E l \in T : l.role = role
        BY <4>1, <4>3, <4>4
      <4> QED
        BY <1>1, <4>5, <4>6 DEF Complete
    <3> QED
      BY <1>1, <2>5, <2>7, <3>1, <3>2 DEF AtRest
  <2> QED
    BY <2>2, <2>3, <2>4, <2>6, <2>7 DEF AtRest
<1>6. BatchesFit' /\ KeysFit'
  BY <1>1 DEF AlInv, BatchesFit, OneOpened, ReqBatches, RowBatches, KeysFit, RowKeys, ReqKeys, TwoFiles, BatchStored
<1> QED
  BY <1>2, <1>3, <1>4, <1>5, <1>6 DEF AlInv

\* The process dies: what was in hand is torn
LEMMA LedgerCrashInv ==
    ASSUME AlInv, LedgerCrash
    PROVE  AlInv'
<1>1. /\ req' = [r \in LedgerRequests |-> Waiting]
      /\ torn' = torn \cup {t \in TradeIds : InHand(t)}
      /\ UNCHANGED <<accounts, trades, legs, batches, ids, racedKeys, edited>>
  BY DEF LedgerCrash
<1>2. \A q \in LedgerRequests : req'[q] = Waiting
  BY <1>1
<1>3. \A q \in LedgerRequests : Seen(q)' = {}
  BY <1>2, WaitingIs DEF Seen
<1>4. AlTyped'
  BY <1>1, WaitingIs DEF AlInv, AlTyped
<1>5. GivenOut'
  <2>1. \A t \in TradeIds : InHand(t) => t < ids.trade
    BY DEF AlInv, InHand, Touches, GivenOut, ReqGivenOut
  <2>2. LegGivenOut' /\ BatchGivenOut' /\ RowGivenOut'
    BY <1>1, <2>1 DEF AlInv, GivenOut, LegGivenOut, RowGivenOut, BatchGivenOut
  <2>3. ReqGivenOut'
    BY <1>1, <1>2, <1>3, WaitingIs DEF AlInv, AlTyped, ReqGivenOut
  <2> QED
    BY <2>2, <2>3 DEF GivenOut
<1>6. LegIds' /\ LegBatches' /\ Hands'
  <2>1. LegIds'
    BY <1>1, <1>3, LegIdsStay DEF AlInv
  <2>2. LegBatches'
    BY <1>1, <1>2, WaitingIs, LegBatchesStay DEF AlInv, SyncPcs
  <2>3. Hands'
    BY <1>2, WaitingIs DEF Hands, Touches, Shaped
  <2> QED
    BY <2>1, <2>2, <2>3
<1>7. LegsFit'
  <2> SUFFICES ASSUME NEW t \in TradeIds, t \notin torn' PROVE ~InHand(t)' /\ AtRest(t)'
    BY DEF LegsFit, Fits, InHand
  <2>1. AtRest(t)
    BY <1>1 DEF AlInv, LegsFit, Fits
  <2> QED
    BY <1>1, <1>2, <2>1, WaitingIs DEF InHand, Touches, AtRest, Complete, Wanted, Bookable, LegsOf
<1>8. BatchesFit'
  BY <1>1, <1>2, WaitingIs, BatchesStay DEF AlInv
<1>9. KeysFit'
  BY <1>1, <1>2, WaitingIs, NoKeyInFile, KeysStay DEF AlInv
<1> QED
  BY <1>4, <1>5, <1>6, <1>7, <1>8, <1>9 DEF AlInv

\* A batch is rolled back: its rows and their legs go, in one transaction
LEMMA RollbackCommitsInv ==
    ASSUME AlInv, NEW r \in LedgerRequests, RollbackCommits(r)
    PROVE  AlInv'
<1>1. PICK b \in BatchIds : b = req[r].batch
  BY DEF RollbackCommits, InPhase, AlInv, BatchesFit, ReqBatches
<1>2. PICK gone \in SUBSET TradeIds : gone = {t \in TradeIds : trades[t].alive /\ trades[t].batch = b}
  OBVIOUS
<1>3. /\ req[r].pc = "rolling" /\ Becomes(r, Waiting)
      /\ trades' = [t \in TradeIds |-> IF t \in gone THEN [trades[t] EXCEPT !.alive = FALSE] ELSE trades[t]]
      /\ legs' = {l \in legs : l.batch # b} /\ batches' = [batches EXCEPT ![b] = "rolled_back"]
      /\ Marks(r, gone)
      /\ UNCHANGED <<accounts, ids, racedKeys, edited>>
  BY <1>1, <1>2 DEF RollbackCommits, OtherLegs, InPhase, Done
<1>4. ReqMoves(r, Waiting) /\ req[r].trade = 0
  BY <1>3, WaitingIs, BecomesIs DEF AlInv, Hands, Shaped, HandPcs, SyncPcs
<1>5. \A t \in TradeIds : /\ trades'[t] \in RowRec
                          /\ trades'[t].alive => trades[t].alive /\ t \notin gone
                          /\ trades'[t].key = trades[t].key /\ trades'[t].batch = trades[t].batch
                          /\ t \notin gone => trades'[t] = trades[t]
  <2> SUFFICES ASSUME NEW t \in TradeIds
               PROVE  /\ trades'[t] \in RowRec
                      /\ trades'[t].alive => trades[t].alive /\ t \notin gone
                      /\ trades'[t].key = trades[t].key /\ trades'[t].batch = trades[t].batch
                      /\ t \notin gone => trades'[t] = trades[t]
    OBVIOUS
  <2>1. PICK old \in RowRec : old = trades[t]
    BY DEF AlInv, AlTyped
  <2>2. PICK row \in RowRec : row = [old EXCEPT !.alive = FALSE]
    BY DEF RowRec
  <2>3. row.alive = FALSE /\ row.key = old.key /\ row.batch = old.batch
    BY <2>2 DEF RowRec
  <2>4. trades'[t] = IF t \in gone THEN row ELSE old
    BY <1>3, <2>1, <2>2
  <2> QED
    BY <2>1, <2>3, <2>4
<1>6. torn \subseteq torn' /\ torn' \subseteq torn \cup gone /\ torn' \in SUBSET TradeIds
  BY <1>3 DEF Marks, AlInv, AlTyped
<1>7. \A c \in BatchIds : batches'[c] = IF c = b THEN "rolled_back" ELSE batches[c]
  BY <1>3 DEF AlInv, AlTyped
<1>8. batches[b] \in {"committed", "rolled_back"}
  BY <1>1, <1>3 DEF AlInv, BatchesFit, ReqBatches
<1>9. AlTyped'
  <2>1. batches' \in [BatchIds -> BatchStates]
    BY <1>3 DEF AlInv, AlTyped, BatchStates
  <2>2. trades' \in [TradeIds -> RowRec]
    <3>1. trades' = [t \in TradeIds |-> trades'[t]]
      BY <1>3
    <3> QED
      BY <1>5, <3>1
  <2> QED
    BY <1>3, <1>4, <1>6, <2>1, <2>2 DEF AlInv, AlTyped, ReqMoves
<1>10. \A q \in LedgerRequests : Seen(q)' = IF q = r THEN {} ELSE Seen(q)
  BY <1>4, WaitingIs DEF Seen, ReqMoves
<1>11. GivenOut'
  <2>1. LegGivenOut'
    BY <1>3 DEF AlInv, GivenOut, LegGivenOut
  <2>2. RowGivenOut'
    BY <1>2, <1>3, <1>5, <1>6 DEF AlInv, GivenOut, RowGivenOut
  <2>3. BatchGivenOut'
    BY <1>3, <1>7, <1>8 DEF AlInv, GivenOut, BatchGivenOut
  <2>4. ReqGivenOut'
    BY <1>3, <1>4, <1>10, WaitingIs DEF AlInv, AlTyped, GivenOut, ReqGivenOut, ReqMoves
  <2> QED
    BY <2>1, <2>2, <2>3, <2>4 DEF GivenOut
<1>12. LegIds'
  <2>1. legs' \subseteq legs /\ \A q \in LedgerRequests : Seen(q)' \subseteq Seen(q)
    BY <1>3, <1>10
  <2> QED
    BY <2>1, LegIdsStay DEF AlInv
<1>13. LegBatches'
  <2>1. legs' \subseteq legs
    BY <1>3
  <2> QED
    BY <1>4, <1>5, <2>1, WaitingIs, LegBatchesStay DEF AlInv, ReqMoves, SyncPcs
<1>14. Hands'
  BY <1>4, <1>6, WaitingIs, HandsStay DEF AlInv
<1>15. LegsFit'
  <2> SUFFICES ASSUME NEW t \in TradeIds PROVE Fits(t)'
    BY DEF LegsFit
  <2>1. \A q \in LedgerRequests : Touches(q, t)' <=> Touches(q, t)
    BY <1>4, WaitingIs, LedgerIds DEF ReqMoves, Touches
  <2>2. CASE t \in torn'
    BY <2>2 DEF Fits
  <2>3. CASE t \notin torn' /\ t \in gone
    <3>1. \A q \in LedgerRequests : ~Touches(q, t)
      BY <1>3, <1>4, <2>3, LedgerIds DEF Marks, Touches
    <3>2. LegsOf(t)' = {}
      BY <1>2, <1>3, <2>3 DEF LegsOf, AlInv, LegBatches
    <3>3. AtRest(t)'
      BY <3>2 DEF AtRest
    <3> QED
      BY <2>1, <3>1, <3>3 DEF Fits
  <2>4. CASE t \notin torn' /\ t \notin gone
    <3>1. LegsOf(t)' = LegsOf(t)
      <4>1. CASE trades[t].batch # b
        BY <1>3, <4>1 DEF LegsOf, AlInv, LegBatches
      <4>2. CASE ~trades[t].alive
        <5>1. LegsOf(t) = {}
          BY <1>6, <2>4, <4>2 DEF AlInv, LegsFit, Fits, InHand, InStep, Knows, AtRest, Touches
        <5> QED
          BY <1>3, <5>1 DEF LegsOf
      <4> QED
        BY <1>2, <2>4, <4>1, <4>2
    <3>2. Undisturbed(t)
      BY <1>3, <1>4, <1>5, <1>6, <2>1, <2>4, <3>1, LedgerIds DEF Undisturbed, ReqMoves, Touches
    <3> QED
      BY <3>2, FitsStays DEF AlInv, LegsFit
  <2> QED
    BY <2>2, <2>3, <2>4
<1>16. BatchesFit'
  <2>1. OneOpened'
    BY <1>4, WaitingIs DEF AlInv, BatchesFit, OneOpened, ReqMoves
  <2>2. ReqBatches'
    BY <1>4, <1>7, <1>8, WaitingIs DEF AlInv, BatchesFit, ReqBatches, ReqMoves
  <2>3. RowBatches'
    <3> SUFFICES ASSUME NEW t \in TradeIds, trades'[t].alive, trades'[t].batch # 0
                 PROVE  batches'[trades'[t].batch] = "committed"
      BY DEF RowBatches
    <3>1. trades'[t] = trades[t] /\ t \notin gone
      BY <1>5
    <3>2. trades[t].batch \in BatchIds /\ batches[trades[t].batch] = "committed" /\ trades[t].batch # b
      BY <1>2, <3>1, LedgerIds DEF AlInv, AlTyped, RowRec, BatchesFit, RowBatches
    <3> QED
      BY <1>7, <3>1, <3>2
  <2> QED
    BY <2>1, <2>2, <2>3 DEF BatchesFit
<1>17. KeysFit'
  BY <1>3, <1>4, <1>5, WaitingIs, NoKeyInFile, KeysStay DEF AlInv, ReqMoves
<1> QED
  BY <1>9, <1>11, <1>12, <1>13, <1>14, <1>15, <1>16, <1>17 DEF AlInv

\* The rows an import brings in have the keys of its file, one each
GoRound(f, N) == \E g \in [N -> f] : \A x, y \in N : g[x] = g[y] => x = y
LEMMA KeysGoRound ==
    ASSUME NEW f, IsFiniteSet(f), NEW a \in Nat, NEW n \in Nat, n = Cardinality(f), NEW N, N = a..(a + n - 1)
    PROVE  GoRound(f, N)
<1>1. PICK c \in Int : c = a + n - 1
  OBVIOUS
<1>2. IsFiniteSet(a..c)
  BY FS_Interval
<1>3. Cardinality(a..c) = IF a > c THEN 0 ELSE c - a + 1
  BY FS_Interval
<1>4. Cardinality(a..c) = Cardinality(f)
  BY <1>1, <1>3
<1>5. ExistsBijection(a..c, f)
  BY <1>2, <1>4, FS_SameCardinalityBij
<1> QED
  BY <1>1, <1>5 DEF GoRound, ExistsBijection, Bijection, Injection, IsInjective

LEMMA FileIsFinite ==
    ASSUME AlInv, NEW r \in LedgerRequests
    PROVE  IsFiniteSet(req[r].file) /\ Cardinality(req[r].file) \in Nat
<1>1. PICK h \in Files \cup {{}} : req[r].file \subseteq h
  BY DEF AlInv, Hands, Shaped
<1>2. IsFiniteSet(h)
  BY FS_EmptySet, LedgerAssumption DEF LedgerAssumption
<1>3. IsFiniteSet(req[r].file)
  BY <1>1, <1>2, FS_Subset
<1> QED
  BY <1>3, FS_CardinalityType

ImportedRow(k, b) == [alive |-> TRUE, side |-> "buy", version |-> 1, key |-> k, batch |-> b]
ImportedLegs(a, i, N, g, b) ==
    UNION {{NewLeg(i + 2 * (t - a), t, "settlement_out", ImportedRow(g[t], b)),
            NewLeg(i + 2 * (t - a) + 1, t, "broker_in", ImportedRow(g[t], b))} : t \in N}

\* What the legs of an import are: two of every trade, with the next ids
LegsComeIn(L, N, i, n, b) ==
    /\ \A l \in L : /\ l \in LegRec /\ l.trade \in N /\ l.role \in {"settlement_out", "broker_in"}
                    /\ l.version = 1 /\ l.at = Place(l.role) /\ l.batch = b /\ i <= l.id /\ l.id < i + 2 * n
    /\ \A l, m \in L : l.id = m.id => l = m
    /\ \A l, m \in L : l.trade = m.trade /\ l.role = m.role => l = m
    /\ \A t \in N : \A role \in {"settlement_out", "broker_in"} : \E l \in L : l.trade = t /\ l.role = role

LEMMA ImportedLegsAre ==
    ASSUME NEW a \in Nat, NEW n \in Nat, NEW i \in Nat, NEW b \in 0..MaxBatches,
           NEW N \in SUBSET TradeIds, N = a..(a + n - 1), NEW g
    PROVE  LegsComeIn(ImportedLegs(a, i, N, g, b), N, i, n, b)
<1> DEFINE out(t) == [id |-> i + 2 * (t - a), trade |-> t, role |-> "settlement_out", version |-> 1, at |-> "bank", batch |-> b]
           in(t) == [id |-> i + 2 * (t - a) + 1, trade |-> t, role |-> "broker_in", version |-> 1, at |-> "broker", batch |-> b]
<1>1. PICK L : L = ImportedLegs(a, i, N, g, b)
  OBVIOUS
<1>2. \A t \in N : /\ t \in Nat /\ a <= t /\ t < a + n /\ t \in TradeIds
  BY LedgerIds
<1>3. L = UNION {{out(t), in(t)} : t \in N}
  BY <1>1 DEF ImportedLegs, NewLeg, Place, AtBank, ImportedRow
<1>4. \A t \in N : out(t) \in L /\ in(t) \in L
  BY <1>3
<1>5. \A l \in L : \E t \in N : l = out(t) \/ l = in(t)
  BY <1>3
<1>6. \A t \in N : /\ out(t) \in LegRec /\ in(t) \in LegRec
                   /\ i <= i + 2 * (t - a) /\ i + 2 * (t - a) + 1 < i + 2 * n
  <2> SUFFICES ASSUME NEW t \in N
               PROVE  /\ out(t) \in LegRec /\ in(t) \in LegRec
                      /\ i <= i + 2 * (t - a) /\ i + 2 * (t - a) + 1 < i + 2 * n
    OBVIOUS
  <2>1. PICK d \in Nat : d = t - a /\ d < n
    BY <1>2
  <2>2. /\ i + 2 * d \in Nat /\ i + 2 * d + 1 \in Nat
        /\ i <= i + 2 * d /\ i + 2 * d + 1 < i + 2 * n
    BY <2>1
  <2> QED
    BY <1>2, <2>1, <2>2 DEF LegRec, LegPlaces, AllRoles
<1>7. \A l \in L : /\ l \in LegRec /\ l.trade \in N /\ l.version = 1 /\ l.at = Place(l.role) /\ l.batch = b
                   /\ \/ l.role = "settlement_out" /\ l.id = i + 2 * (l.trade - a) /\ l = out(l.trade)
                      \/ l.role = "broker_in" /\ l.id = i + 2 * (l.trade - a) + 1 /\ l = in(l.trade)
  <2> SUFFICES ASSUME NEW l \in L
               PROVE  /\ l \in LegRec /\ l.trade \in N /\ l.version = 1 /\ l.at = Place(l.role) /\ l.batch = b
                      /\ \/ l.role = "settlement_out" /\ l.id = i + 2 * (l.trade - a) /\ l = out(l.trade)
                         \/ l.role = "broker_in" /\ l.id = i + 2 * (l.trade - a) + 1 /\ l = in(l.trade)
    OBVIOUS
  <2>1. PICK t \in N : l = out(t) \/ l = in(t)
    BY <1>5
  <2>2. l.trade = t /\ l.version = 1 /\ l.at = Place(l.role) /\ l.batch = b
    BY <2>1 DEF Place, AtBank
  <2>3. CASE l = out(t)
    <3>1. l \in LegRec
      BY <1>6, <2>3
    <3>2. l.role = "settlement_out" /\ l.id = i + 2 * (t - a)
      BY <2>3
    <3>3. l = out(l.trade)
      BY <2>2, <2>3
    <3> QED
      BY <2>2, <3>1, <3>2, <3>3
  <2>4. CASE l = in(t)
    <3>1. l \in LegRec
      BY <1>6, <2>4
    <3>2. l.role = "broker_in" /\ l.id = i + 2 * (t - a) + 1
      BY <2>4
    <3>3. l = in(l.trade)
      BY <2>2, <2>4
    <3> QED
      BY <2>2, <3>1, <3>2, <3>3
  <2> QED
    BY <2>1, <2>3, <2>4
<1>8. \A t \in N : out(t).trade = t /\ out(t).role = "settlement_out" /\ in(t).trade = t /\ in(t).role = "broker_in"
  OBVIOUS
<1> HIDE DEF out, in
<1>9. \A l \in L : /\ l \in LegRec /\ l.trade \in N /\ l.role \in {"settlement_out", "broker_in"}
                   /\ l.version = 1 /\ l.at = Place(l.role) /\ l.batch = b /\ i <= l.id /\ l.id < i + 2 * n
  <2> SUFFICES ASSUME NEW l \in L PROVE i <= l.id /\ l.id < i + 2 * n
    BY <1>7
  <2>1. PICK t \in N : t = l.trade
    BY <1>7
  <2>2. l.id \in {i + 2 * (t - a), i + 2 * (t - a) + 1}
    BY <1>7, <2>1
  <2> QED
    BY <1>2, <1>6, <2>2
<1>10. \A l, m \in L : l.id = m.id => l = m
  <2> SUFFICES ASSUME NEW l \in L, NEW m \in L, l.id = m.id PROVE l = m
    OBVIOUS
  <2>1. PICK t \in N, u \in N : t = l.trade /\ u = m.trade
    BY <1>7
  <2>2. \/ l = out(t) /\ l.id = i + 2 * (t - a)
        \/ l = in(t) /\ l.id = i + 2 * (t - a) + 1
    BY <1>7, <2>1
  <2>3. \/ m = out(u) /\ m.id = i + 2 * (u - a)
        \/ m = in(u) /\ m.id = i + 2 * (u - a) + 1
    BY <1>7, <2>1
  <2>4. t \in Nat /\ u \in Nat
    BY <1>2
  <2> QED
    BY <2>2, <2>3, <2>4
<1>11. \A l, m \in L : l.trade = m.trade /\ l.role = m.role => l = m
  BY <1>7
<1>12. \A t \in N : \A role \in {"settlement_out", "broker_in"} : \E l \in L : l.trade = t /\ l.role = role
  BY <1>4, <1>8
<1> QED
  BY <1>1, <1>9, <1>10, <1>11, <1>12 DEF LegsComeIn

\* An import commits: its rows, their legs and its batch come in together
LEMMA ImportCommitsInv ==
    ASSUME AlInv, NEW r \in LedgerRequests, ImportCommits(r)
    PROVE  AlInv'
<1> DEFINE ff == req[r].file
           new == FirstFree(Cardinality(ff))
           order == CHOOSE g \in [new -> ff] : \A x, y \in new : g[x] = g[y] => x = y
<1>1. /\ req[r].pc = "opened" /\ Unique(ff) /\ new \subseteq TradeIds
      /\ trades' = [t \in TradeIds |-> IF t \in new THEN ImportedRow(order[t], req[r].batch) ELSE trades[t]]
      /\ legs' = legs \cup (IF Settles THEN ImportedLegs(ids.trade, ids.leg, new, order, req[r].batch) ELSE {})
      /\ ids' = [ids EXCEPT !.trade = @ + Cardinality(ff),
                            !.leg = @ + (IF Settles THEN 2 * Cardinality(ff) ELSE 0)]
      /\ batches' = [batches EXCEPT ![req[r].batch] = "committed"]
      /\ Becomes(r, Waiting)
      /\ UNCHANGED <<accounts, torn, racedKeys, edited>>
  BY DEF ImportCommits, InPhase, Done, ImportedRow, ImportedLegs
<1>2. IsFiniteSet(ff) /\ Cardinality(ff) \in Nat
  BY FileIsFinite
<1>3. PICK f \in SUBSET UNION Files : f = ff
  BY DEF AlInv, AlTyped, ReqRec
<1>4. PICK b \in BatchIds : b = req[r].batch
  BY <1>1 DEF AlInv, BatchesFit, ReqBatches
<1>5. PICK a \in Nat, i \in Nat, n \in Nat : a = ids.trade /\ 0 < a /\ i = ids.leg /\ n = Cardinality(ff)
  BY <1>2 DEF AlInv, AlTyped
<1>6. PICK N \in SUBSET TradeIds : N = new
  BY <1>1
<1>7. N = a..(a + n - 1)
  BY <1>5, <1>6 DEF FirstFree
<1>8. /\ order \in [new -> ff] /\ \A x, y \in new : order[x] = order[y] => x = y
  <2>1. \E g \in [new -> ff] : \A x, y \in new : g[x] = g[y] => x = y
    <3>1. IsFiniteSet(f) /\ n = Cardinality(f)
      BY <1>2, <1>3, <1>5
    <3>2. GoRound(f, N)
      BY <1>7, <3>1, KeysGoRound
    <3>3. GoRound(ff, new)
      BY <1>3, <1>6, <3>2
    <3> HIDE DEF new, ff
    <3> QED
      BY <3>3 DEF GoRound
  <2> HIDE DEF new, ff
  <2> QED
    BY <2>1
<1> HIDE DEF order, new
<1>9. PICK g \in [N -> f] : g = order /\ \A x, y \in N : g[x] = g[y] => x = y
  BY <1>3, <1>6, <1>8
<1> HIDE DEF ff
<1>10. PICK L : L = (IF Settles THEN ImportedLegs(a, i, N, g, b) ELSE {})
  OBVIOUS
<1>11. PICK m \in Nat : m = (IF Settles THEN 2 * n ELSE 0)
  OBVIOUS
<1>12. /\ trades' = [t \in TradeIds |-> IF t \in N THEN ImportedRow(g[t], b) ELSE trades[t]]
       /\ legs' = legs \cup L
       /\ ids' = [ids EXCEPT !.trade = a + n, !.leg = i + m]
       /\ batches' = [batches EXCEPT ![b] = "committed"]
  <2>1. trades' = [t \in TradeIds |-> IF t \in N THEN ImportedRow(g[t], b) ELSE trades[t]]
    BY <1>1, <1>4, <1>6, <1>9
  <2>2. legs' = legs \cup L
    BY <1>1, <1>4, <1>5, <1>6, <1>9, <1>10
  <2>3. ids' = [ids EXCEPT !.trade = a + n, !.leg = i + m]
    BY <1>1, <1>5, <1>11 DEF AlInv, AlTyped
  <2> QED
    BY <1>1, <1>4, <2>1, <2>2, <2>3
<1>13. /\ req[r].pc = "opened" /\ Unique(f) /\ req[r].file = f /\ req[r].batch = b
       /\ Becomes(r, Waiting) /\ UNCHANGED <<accounts, torn, racedKeys, edited>>
  BY <1>1, <1>3, <1>4 DEF ff
<1>14. ReqMoves(r, Waiting) /\ req[r].trade = 0
  BY <1>13, WaitingIs, BecomesIs DEF AlInv, Hands, Shaped, HandPcs, SyncPcs
<1>15. \A t \in N : /\ trades'[t] \in RowRec /\ trades'[t].alive /\ trades'[t].side = "buy" /\ trades'[t].version = 1
                    /\ trades'[t].key = g[t] /\ g[t] \in f /\ trades'[t].batch = b
                    /\ t \in TradeIds /\ t \in Nat /\ a <= t /\ t < a + n
  <2> SUFFICES ASSUME NEW t \in N
               PROVE  /\ trades'[t] \in RowRec /\ trades'[t].alive /\ trades'[t].side = "buy" /\ trades'[t].version = 1
                      /\ trades'[t].key = g[t] /\ g[t] \in f /\ trades'[t].batch = b
                      /\ t \in TradeIds /\ t \in Nat /\ a <= t /\ t < a + n
    OBVIOUS
  <2>1. trades'[t] = [alive |-> TRUE, side |-> "buy", version |-> 1, key |-> g[t], batch |-> b]
    BY <1>12 DEF ImportedRow
  <2>2. g[t] \in f /\ g[t] \in UNION Files /\ b \in 0..MaxBatches
    BY LedgerIds
  <2>3. t \in TradeIds /\ t \in Nat /\ a <= t /\ t < a + n
    BY <1>7, LedgerIds
  <2>4. trades'[t] \in RowRec
    BY <2>1, <2>2 DEF RowRec
  <2> QED
    BY <2>1, <2>2, <2>3, <2>4
<1>16. \A t \in TradeIds : t \notin N => trades'[t] = trades[t]
  BY <1>12
<1>17. /\ L = {} \/ (Settles /\ LegsComeIn(L, N, i, n, b) /\ m = 2 * n)
       /\ L # {} => Settles
  <2>1. b \in 0..MaxBatches
    BY LedgerIds
  <2>2. LegsComeIn(ImportedLegs(a, i, N, g, b), N, i, n, b)
    BY <1>7, <2>1, ImportedLegsAre
  <2> QED
    BY <1>10, <1>11, <2>2
<1>18. \A l \in L : /\ l \in LegRec /\ l.trade \in N /\ l.version = 1 /\ l.batch = b
                    /\ i <= l.id /\ l.id < i + m
  BY <1>17 DEF LegsComeIn
<1>19. \A l, k \in L : l.id = k.id => l = k
  BY <1>17 DEF LegsComeIn
<1>20. ids' \in [trade : Nat, leg : Nat, batch : Nat] /\ ids'.trade = a + n /\ ids'.leg = i + m /\ ids'.batch = ids.batch
  <2>1. PICK c \in Nat, d \in Nat : c = a + n /\ d = i + m
    OBVIOUS
  <2>2. ids' = [ids EXCEPT !.trade = c, !.leg = d]
    BY <1>12, <2>1
  <2>3. ids' \in [trade : Nat, leg : Nat, batch : Nat] /\ ids'.trade = c /\ ids'.leg = d /\ ids'.batch = ids.batch
    BY <2>2 DEF AlInv, AlTyped
  <2> QED
    BY <2>1, <2>3
<1>21. \A c \in BatchIds : batches'[c] = IF c = b THEN "committed" ELSE batches[c]
  BY <1>12 DEF AlInv, AlTyped
<1>22. batches[b] = "pending"
  BY <1>13 DEF AlInv, BatchesFit, ReqBatches
<1>23. \A q \in LedgerRequests : Seen(q)' = IF q = r THEN {} ELSE Seen(q)
  BY <1>14, WaitingIs DEF Seen, ReqMoves
<1>24. \A t \in N : t \notin torn /\ LegsOf(t) = {} /\ \A q \in LedgerRequests : req[q].trade # t
  <2> SUFFICES ASSUME NEW t \in N
               PROVE  t \notin torn /\ LegsOf(t) = {} /\ \A q \in LedgerRequests : req[q].trade # t
    OBVIOUS
  <2>1. t \in TradeIds /\ t \in Nat /\ ~(t < ids.trade)
    BY <1>5, <1>15
  <2> QED
    BY <2>1 DEF AlInv, GivenOut, LegGivenOut, RowGivenOut, ReqGivenOut, LegsOf
<1>25. \A l \in legs : l.trade \in TradeIds /\ l.trade \notin N
  <2>1. \A l \in legs : l.trade \in TradeIds
    BY DEF AlInv, AlTyped, LegRec
  <2> QED
    BY <1>24, <2>1 DEF LegsOf
<1>26. AlTyped'
  <2>1. trades' \in [TradeIds -> RowRec]
    <3>1. \A t \in TradeIds : trades'[t] \in RowRec
      BY <1>15, <1>16 DEF AlInv, AlTyped
    <3>2. trades' = [t \in TradeIds |-> trades'[t]]
      BY <1>12
    <3> QED
      BY <3>1, <3>2
  <2>2. legs' \in SUBSET LegRec
    BY <1>12, <1>18 DEF AlInv, AlTyped
  <2>3. batches' \in [BatchIds -> BatchStates]
    BY <1>12 DEF AlInv, AlTyped, BatchStates
  <2>4. 0 < ids'.trade /\ 0 < ids'.leg /\ 0 < ids'.batch
    BY <1>5, <1>20 DEF AlInv, AlTyped
  <2> QED
    BY <1>13, <1>14, <1>20, <2>1, <2>2, <2>3, <2>4 DEF AlInv, AlTyped, ReqMoves
<1>27. GivenOut'
  <2>1. LegGivenOut'
    <3>1. \A l \in legs : l.id \in Nat /\ l.id < i /\ l.trade \in Nat /\ l.trade < a
      BY <1>5, LedgerIds DEF AlInv, AlTyped, LegRec, GivenOut, LegGivenOut
    <3>2. \A l \in L : l.id < i + m /\ l.trade < a + n
      BY <1>15, <1>18
    <3> QED
      BY <1>12, <1>20, <3>1, <3>2 DEF LegGivenOut
  <2>2. RowGivenOut'
    <3> SUFFICES ASSUME NEW t \in TradeIds
                 PROVE  /\ t \in torn' => t < ids'.trade
                        /\ trades'[t].alive => t < ids'.trade /\ trades'[t].batch < ids'.batch
      BY DEF RowGivenOut
    <3>1. CASE t \in N
      <4>1. b < ids.batch
        BY <1>13 DEF AlInv, GivenOut, ReqGivenOut
      <4> QED
        BY <1>15, <1>20, <3>1, <4>1
    <3>2. CASE t \notin N
      <4>1. t \in Nat
        BY LedgerIds
      <4> QED
        BY <1>5, <1>13, <1>16, <1>20, <3>2, <4>1 DEF AlInv, GivenOut, RowGivenOut
    <3> QED
      BY <3>1, <3>2
  <2>3. BatchGivenOut'
    <3>1. \A c \in BatchIds : batches'[c] # "none" => batches[c] # "none"
      BY <1>21, <1>22
    <3> QED
      BY <1>20, <3>1 DEF AlInv, GivenOut, BatchGivenOut
  <2>4. ReqGivenOut'
    <3>1. \A q \in LedgerRequests : req'[q].trade < a + n /\ req'[q].batch < ids.batch
      <4>1. \A q \in LedgerRequests : req[q].trade \in 0..MaxTrades /\ req[q].trade < a /\ req[q].batch < ids.batch
        BY <1>5 DEF AlInv, AlTyped, ReqRec, GivenOut, ReqGivenOut
      <4>2. 0 < a + n /\ 0 < ids.batch
        BY <1>5 DEF AlInv, AlTyped
      <4> QED
        BY <1>14, <4>1, <4>2, WaitingIs, LedgerIds DEF ReqMoves
    <3>2. \A q \in LedgerRequests : \A l \in Seen(q)' : l.id < i + m /\ l.trade = req'[q].trade
      <4>1. \A q \in LedgerRequests : \A l \in Seen(q) : l.id \in Nat /\ l.id < i /\ l.trade = req[q].trade
        BY <1>5 DEF AlInv, AlTyped, ReqRec, LegRec, GivenOut, ReqGivenOut, Seen
      <4> QED
        BY <1>14, <1>23, <4>1 DEF ReqMoves
    <3> QED
      BY <1>20, <3>1, <3>2 DEF ReqGivenOut
  <2> QED
    BY <2>1, <2>2, <2>3, <2>4 DEF GivenOut
<1>28. LegIds'
  <2>1. \A l \in legs : l.id \in Nat /\ l.id < i
    BY <1>5 DEF AlInv, AlTyped, LegRec, GivenOut, LegGivenOut
  <2>2. \A l \in L : l.id \in Nat /\ i <= l.id
    BY <1>18 DEF LegRec
  <2>3. \A l, k \in legs' : l.id = k.id => l = k
    BY <1>12, <1>19, <2>1, <2>2 DEF AlInv, LegIds
  <2>4. \A q \in LedgerRequests : \A l \in Seen(q) : l.id \in Nat /\ l.id < i
    BY <1>5 DEF AlInv, AlTyped, ReqRec, LegRec, GivenOut, ReqGivenOut, Seen
  <2>5. \A q \in LedgerRequests : \A l \in Seen(q)', k \in legs' : l.id = k.id => k.trade = l.trade
    BY <1>12, <1>23, <2>2, <2>4 DEF AlInv, LegIds
  <2> QED
    BY <2>3, <2>5 DEF LegIds
<1>29. LegBatches'
  <2>1. \A l \in legs : l.batch = trades'[l.trade].batch
    BY <1>16, <1>25 DEF AlInv, LegBatches
  <2>2. \A l \in L : l.batch = trades'[l.trade].batch
    BY <1>15, <1>18
  <2>3. \A q \in LedgerRequests : q # r /\ req[q].pc \in SyncPcs => req[q].trade \in TradeIds /\ req[q].trade \notin N
    BY <1>24 DEF AlInv, Hands, Shaped, HandPcs
  <2>4. \A q \in LedgerRequests : req'[q].pc \in SyncPcs => req'[q].row.batch = trades'[req'[q].trade].batch
    BY <1>14, <1>16, <2>3, WaitingIs DEF AlInv, LegBatches, ReqMoves, SyncPcs
  <2> QED
    BY <1>12, <2>1, <2>2, <2>4 DEF LegBatches
<1>30. Hands'
  BY <1>13, <1>14, WaitingIs, HandsStay DEF AlInv
<1>31. \A q \in LedgerRequests : \A t \in TradeIds : Touches(q, t)' <=> Touches(q, t)
  BY <1>14, WaitingIs, LedgerIds DEF ReqMoves, Touches
<1>32. LegsFit'
  <2> SUFFICES ASSUME NEW t \in TradeIds PROVE Fits(t)'
    BY DEF LegsFit
  <2>1. CASE t \in N
    <3>1. \A q \in LedgerRequests : ~Touches(q, t)'
      BY <1>24, <1>31, <2>1 DEF Touches
    <3>2. LegsOf(t)' = {l \in L : l.trade = t}
      BY <1>12, <1>25, <2>1 DEF LegsOf
    <3>3. AtRest(t)'
      <4>1. CASE L = {}
        BY <3>2, <4>1 DEF AtRest
      <4>2. CASE Settles /\ LegsComeIn(L, N, i, n, b)
        <5>1. PICK S : S = {l \in L : l.trade = t}
          OBVIOUS
        <5>2. OnePerRole(S)
          BY <4>2, <5>1 DEF OnePerRole, LegsComeIn
        <5>3. \A l \in S : l.role \in {"settlement_out", "broker_in"} /\ l.version = 1 /\ l.at = Place(l.role)
          BY <4>2, <5>1 DEF LegsComeIn
        <5>4. \A role \in {"settlement_out", "broker_in"} : \E l \in S : l.role = role
          BY <2>1, <4>2, <5>1 DEF LegsComeIn
        <5>5. Wanted("buy")' = {"settlement_out", "broker_in"}
          BY <1>13, <4>2 DEF Wanted, Bookable, Settles, Roles
        <5>6. Complete(LegsOf(t), trades[t])'
          BY <1>15, <2>1, <3>2, <5>1, <5>3, <5>4, <5>5 DEF Complete
        <5>7. OfSide(LegsOf(t), trades[t].side)'
          BY <1>15, <2>1, <3>2, <5>1, <5>2, <5>3 DEF OfSide, OnePerRole, Roles
        <5> QED
          BY <1>15, <2>1, <5>6, <5>7 DEF AtRest
      <4> QED
        BY <1>17, <4>1, <4>2
    <3> QED
      BY <3>1, <3>3 DEF Fits
  <2>2. CASE t \notin N
    <3>1. LegsOf(t)' = LegsOf(t)
      BY <1>12, <1>18, <2>2 DEF LegsOf
    <3>2. \A q \in LedgerRequests : Touches(q, t) => req'[q] = req[q]
      BY <1>14, LedgerIds DEF ReqMoves, Touches
    <3>3. Undisturbed(t)
      BY <1>13, <1>16, <1>31, <2>2, <3>1, <3>2 DEF Undisturbed
    <3> QED
      BY <3>3, FitsStays DEF AlInv, LegsFit
  <2> QED
    BY <2>1, <2>2
<1>33. BatchesFit'
  <2>1. OneOpened'
    BY <1>14, WaitingIs DEF AlInv, BatchesFit, OneOpened, ReqMoves
  <2>2. ReqBatches'
    <3> SUFFICES ASSUME NEW q \in LedgerRequests
                 PROVE  /\ req'[q].pc = "opened" => req'[q].batch \in BatchIds /\ batches'[req'[q].batch] = "pending"
                        /\ req'[q].pc = "rolling" =>
                              req'[q].batch \in BatchIds /\ batches'[req'[q].batch] \in {"committed", "rolled_back"}
      BY DEF ReqBatches
    <3>1. CASE q = r
      BY <1>14, <3>1, WaitingIs DEF ReqMoves
    <3>2. CASE q # r
      <4>1. req'[q] = req[q]
        BY <1>14, <3>2 DEF ReqMoves
      <4>2. req[q].pc = "opened" => req[q].batch # b
        BY <1>13, <3>2 DEF AlInv, BatchesFit, OneOpened
      <4> QED
        BY <1>21, <4>1, <4>2 DEF AlInv, BatchesFit, ReqBatches
    <3> QED
      BY <3>1, <3>2
  <2>3. RowBatches'
    <3> SUFFICES ASSUME NEW t \in TradeIds, trades'[t].alive, trades'[t].batch # 0
                 PROVE  batches'[trades'[t].batch] = "committed"
      BY DEF RowBatches
    <3>1. CASE t \in N
      BY <1>15, <1>21, <3>1
    <3>2. CASE t \notin N
      <4>1. trades[t].batch \in BatchIds
        BY <1>16, <3>2, LedgerIds DEF AlInv, AlTyped, RowRec
      <4> QED
        BY <1>16, <1>21, <3>2, <4>1 DEF AlInv, BatchesFit, RowBatches
    <3> QED
      BY <3>1, <3>2
  <2> QED
    BY <2>1, <2>2, <2>3 DEF BatchesFit
<1>34. KeysFit'
  <2>1. \A t \in N : \A u \in TradeIds : /\ u \notin N /\ trades[u].alive /\ trades[u].key = g[t]
                                         => g[t] \in JournalKeys \cap racedKeys
    <3> SUFFICES ASSUME NEW t \in N, NEW u \in TradeIds, u \notin N, trades[u].alive, trades[u].key = g[t]
                 PROVE  g[t] \in JournalKeys \cap racedKeys
      OBVIOUS
    <3>1. g[t] \in f /\ BatchStored(g[t])
      BY DEF BatchStored
    <3>2. g[t] \in JournalKeys
      BY <1>13, <3>1 DEF Unique
    <3>3. g[t] \in racedKeys
      BY <1>13, <3>1 DEF AlInv, KeysFit, ReqKeys
    <3> QED
      BY <3>2, <3>3
  <2>2. RowKeys'
    <3> SUFFICES ASSUME NEW t \in TradeIds, NEW u \in TradeIds, t # u, trades'[t].alive, trades'[u].alive,
                        trades'[t].key = trades'[u].key, trades'[t].key # NoKey
                 PROVE  trades'[t].key \in JournalKeys \cap racedKeys'
      BY DEF RowKeys
    <3>1. CASE t \in N /\ u \in N
      BY <1>9, <1>15, <3>1
    <3>2. CASE t \in N /\ u \notin N
      BY <1>13, <1>15, <1>16, <2>1, <3>2
    <3>3. CASE t \notin N /\ u \in N
      BY <1>13, <1>15, <1>16, <2>1, <3>3
    <3>4. CASE t \notin N /\ u \notin N
      BY <1>13, <1>16, <3>4 DEF AlInv, KeysFit, RowKeys
    <3> QED
      BY <3>1, <3>2, <3>3, <3>4
  <2>3. ReqKeys'
    <3> SUFFICES ASSUME NEW q \in LedgerRequests, NEW k \in req'[q].file, BatchStored(k)'
                 PROVE  k \in racedKeys'
      BY DEF ReqKeys
    <3>1. q # r /\ k \in req[q].file
      BY <1>14, WaitingIs DEF ReqMoves
    <3>2. PICK t \in TradeIds : trades'[t].alive /\ trades'[t].key = k
      BY DEF BatchStored
    <3>3. CASE t \in N
      BY <1>13, <1>15, <3>1, <3>2, <3>3 DEF AlInv, KeysFit, TwoFiles
    <3>4. CASE t \notin N
      <4>1. BatchStored(k)
        BY <1>16, <3>2, <3>4 DEF BatchStored
      <4> QED
        BY <1>13, <3>1, <4>1 DEF AlInv, KeysFit, ReqKeys
    <3> QED
      BY <3>3, <3>4
  <2>4. TwoFiles'
    <3>1. \A q \in LedgerRequests : req'[q].file \subseteq req[q].file
      BY <1>14, WaitingIs DEF ReqMoves
    <3> QED
      BY <1>13, <3>1 DEF AlInv, KeysFit, TwoFiles
  <2> QED
    BY <2>2, <2>3, <2>4 DEF KeysFit
<1> QED
  BY <1>26, <1>27, <1>28, <1>29, <1>30, <1>32, <1>33, <1>34 DEF AlInv

LEMMA LedgerInit == AlInit => AlInv
<1> SUFFICES ASSUME AlInit PROVE AlInv
  OBVIOUS
<1>1. NoTrade \in RowRec /\ NoTrade.alive = FALSE /\ NoTrade.batch = 0
  BY LedgerIds DEF NoTrade, RowRec
<1>2. trades \in [TradeIds -> RowRec] /\ \A t \in TradeIds : trades[t].alive = FALSE /\ trades[t].batch = 0
  BY <1>1 DEF AlInit
<1>3. req \in [LedgerRequests -> ReqRec] /\ \A r \in LedgerRequests : req[r] = Waiting
  BY WaitingIs DEF AlInit
<1>4. batches \in [BatchIds -> BatchStates] /\ \A b \in BatchIds : batches[b] = "none"
  BY DEF AlInit, BatchStates
<1>5. ids \in [trade : Nat, leg : Nat, batch : Nat] /\ ids.trade = 1 /\ ids.leg = 1 /\ ids.batch = 1
  BY DEF AlInit
<1>6. accounts \in [auto : BOOLEAN, bank : BOOLEAN] /\ accounts.bank
  BY DEF AlInit
<1>7. legs = {} /\ torn = {} /\ racedKeys = {} /\ edited = {}
  BY DEF AlInit
<1>8. AlTyped
  BY <1>2, <1>3, <1>4, <1>5, <1>6, <1>7 DEF AlTyped
<1>9. GivenOut
  BY <1>2, <1>3, <1>4, <1>5, <1>7, WaitingIs
     DEF GivenOut, LegGivenOut, RowGivenOut, ReqGivenOut, BatchGivenOut, Seen
<1>10. LegIds /\ LegBatches
  BY <1>3, <1>7, WaitingIs DEF LegIds, LegBatches, SyncPcs
<1>11. Hands
  BY <1>3, WaitingIs DEF Hands, Touches
<1>12. LegsFit
  BY <1>3, <1>7, WaitingIs DEF LegsFit, Fits, Touches, AtRest, LegsOf
<1>13. BatchesFit
  BY <1>2, <1>3, WaitingIs DEF BatchesFit, OneOpened, ReqBatches, RowBatches
<1>14. KeysFit
  BY <1>2, <1>3, WaitingIs DEF KeysFit, RowKeys, ReqKeys, TwoFiles
<1> QED
  BY <1>8, <1>9, <1>10, <1>11, <1>12, <1>13, <1>14 DEF AlInv

LEMMA LedgerRests ==
    ASSUME AlInv, UNCHANGED alVars
    PROVE  AlInv'
<1> USE DEF alVars
<1>1. AlTyped'
  BY DEF AlInv, AlTyped
<1>2. GivenOut'
  BY DEF AlInv, GivenOut, LegGivenOut, RowGivenOut, ReqGivenOut, BatchGivenOut, Seen
<1>3. LegIds' /\ LegBatches'
  BY DEF AlInv, LegIds, LegBatches, Seen
<1>4. Hands'
  BY DEF AlInv, Hands, Touches
<1>5. LegsFit'
  <2> SUFFICES ASSUME NEW t \in TradeIds PROVE Fits(t)'
    BY DEF LegsFit
  <2>1. Undisturbed(t)
    BY DEF Undisturbed, Touches, LegsOf
  <2> QED
    BY <2>1, FitsStays DEF AlInv, LegsFit
<1>6. BatchesFit'
  BY DEF AlInv, BatchesFit, OneOpened, ReqBatches, RowBatches
<1>7. KeysFit'
  BY DEF AlInv, KeysFit, RowKeys, ReqKeys, TwoFiles, BatchStored
<1> QED
  BY <1>1, <1>2, <1>3, <1>4, <1>5, <1>6, <1>7 DEF AlInv

LEMMA LedgerStep == AlInv /\ [AlNext]_alVars => AlInv'
<1> SUFFICES ASSUME AlInv, [AlNext]_alVars PROVE AlInv'
  OBVIOUS
<1>1. ASSUME NEW r \in LedgerRequests, RequestBegins(r) PROVE AlInv'
  BY <1>1, CreateTradeInv, PatchTradeInv, DeleteTradeInv, ImportChecksInv, RollbackReadsInv, PatchLegReadsInv
     DEF RequestBegins
<1>2. ASSUME NEW r \in LedgerRequests, SyncStep(r) PROVE AlInv'
  BY <1>2, SyncListsInv, SyncPlansInv, SyncWritesInv, SyncDropsInv, SyncEndsInv DEF SyncStep
<1>3. ASSUME NEW r \in LedgerRequests, ImportStep(r) PROVE AlInv'
  BY <1>3, ImportOpensInv, ImportCommitsInv, ImportFailsInv DEF ImportStep
<1>4. ASSUME NEW r \in LedgerRequests, DeleteStep(r) \/ RequestFails(r) \/ PatchLegStep(r) \/ RollbackCommits(r)
      PROVE  AlInv'
  BY <1>4, DeleteStepInv, RequestFailsInv, PatchLegStepInv, RollbackCommitsInv
<1>5. ASSUME NEW l \in legs, DeleteLeg(l) PROVE AlInv'
  BY <1>5, DeleteLegInv
<1>6. CASE SetAuto \/ DeleteBank \/ LedgerCrash
  BY <1>6, SetAutoInv, DeleteBankInv, LedgerCrashInv
<1>7. CASE UNCHANGED alVars
  BY <1>7, LedgerRests
<1> QED
  BY <1>1, <1>2, <1>3, <1>4, <1>5, <1>6, <1>7 DEF AlNext

LEMMA SettledRests ==
    ASSUME AlInv, NEW t \in TradeIds, Settled(t)
    PROVE  AtRest(t)
BY DEF AlInv, LegsFit, Fits, Settled

\* As many legs as roles, where every role has one and none has two
LEMMA OneLegEach ==
    ASSUME NEW side, NEW W \in SUBSET Roles(side), NEW S, OnePerRole(S),
           \A l \in S : l.role \in W, \A role \in W : \E l \in S : l.role = role
    PROVE  Cardinality(S) = Cardinality(W)
<1>1. IsFiniteSet(Roles(side))
  <2>1. \/ Roles(side) = {"settlement_out"} \cup {"broker_in"}
        \/ Roles(side) = {"broker_out"} \cup {"settlement_in"}
    BY DEF Roles
  <2>2. \A x : IsFiniteSet({x})
    BY FS_Singleton
  <2>3. \A x, y : IsFiniteSet({x} \cup {y})
    BY <2>2, FS_AddElement
  <2> QED
    BY <2>1, <2>3
<1>2. IsFiniteSet(W)
  BY <1>1, FS_Subset
<1> DEFINE leg == [role \in W |-> CHOOSE l \in S : l.role = role]
<1>3. \A role \in W : leg[role] \in S /\ leg[role].role = role
  OBVIOUS
<1> HIDE DEF leg
<1>4. leg \in [W -> S]
  BY <1>3 DEF leg
<1>5. \A x, y \in W : leg[x] = leg[y] => x = y
  BY <1>3
<1>6. \A l \in S : leg[l.role] = l /\ l.role \in W
  BY <1>3 DEF OnePerRole
<1>7. leg \in Bijection(W, S)
  BY <1>4, <1>5, <1>6 DEF Bijection, Injection, Surjection, IsInjective
<1>8. ExistsBijection(W, S)
  BY <1>7 DEF ExistsBijection
<1> QED
  BY <1>2, <1>8, FS_Bijection

LEMMA LedgerKept == AlInv => LedgerSound
<1> SUFFICES ASSUME AlInv PROVE LedgerSound
  OBVIOUS
<1>1. \A l \in legs : l.trade \in TradeIds /\ l \in LegsOf(l.trade)
  BY DEF AlInv, AlTyped, LegRec, LegsOf
<1>2. AlTypeOK
  BY DEF AlInv, AlTyped, BatchStates, GivenOut, LegGivenOut, RowGivenOut, ReqGivenOut, Seen, AlTypeOK
<1>3. LegsMatchTrade
  <2> SUFFICES ASSUME NEW t \in TradeIds, Settled(t), NEW S, S = LegsOf(t), NEW R, R = {l.role : l \in S}
               PROVE  /\ R \subseteq Roles(trades[t].side) /\ Cardinality(S) = Cardinality(R)
                      /\ t \notin edited /\ S # {} =>
                            /\ R = Wanted(trades[t].side)
                            /\ \A l \in S : l.version = trades[t].version /\ l.at = Place(l.role)
    BY DEF LegsMatchTrade, Wanted
  <2>1. S = {} \/ (OfSide(S, trades[t].side) /\ (t \notin edited => Complete(S, trades[t])))
    BY SettledRests DEF AtRest
  <2>2. OnePerRole(S) /\ \A l \in S : l.role \in Roles(trades[t].side)
    BY <2>1 DEF OfSide, OnePerRole
  <2>3. /\ R \in SUBSET Roles(trades[t].side) /\ \A l \in S : l.role \in R
        /\ \A role \in R : \E l \in S : l.role = role
    BY <2>2
  <2>4. Cardinality(S) = Cardinality(R)
    BY <2>2, <2>3, OneLegEach
  <2>5. ASSUME t \notin edited, S # {}
        PROVE  /\ R = Wanted(trades[t].side)
               /\ \A l \in S : l.version = trades[t].version /\ l.at = Place(l.role)
    BY <2>1, <2>5 DEF Complete
  <2> QED
    BY <2>3, <2>4, <2>5
<1>4. NoOrphanLegs
  BY <1>1, SettledRests DEF NoOrphanLegs, AtRest, Alive
<1>5. ImportedOnce
  <2> SUFFICES ASSUME NEW k \in UNION Files, k \notin JournalKeys \cap racedKeys
               PROVE  ~(Cardinality({t \in TradeIds : trades[t].alive /\ trades[t].key = k}) > 1)
    BY DEF ImportedOnce
  <2>1. PICK S : S = {t \in TradeIds : trades[t].alive /\ trades[t].key = k}
    OBVIOUS
  <2>2. k # NoKey
    BY LedgerAssumption DEF LedgerAssumption
  <2>3. \A t, u \in S : t = u
    BY <2>1, <2>2 DEF AlInv, KeysFit, RowKeys
  <2>4. ASSUME S # {} PROVE \E t : S = {t}
    <3>1. PICK t \in S : TRUE
      BY <2>4
    <3>2. S = {t}
      BY <2>3
    <3> QED
      BY <3>2
  <2>5. Cardinality(S) = 0 \/ Cardinality(S) = 1
    BY <2>4, FS_EmptySet, FS_Singleton
  <2> QED
    BY <2>1, <2>5
<1>6. BatchTellsTruth
  <2>1. \A t \in TradeIds : Alive(t) /\ trades[t].batch # 0 => batches[trades[t].batch] = "committed"
    BY DEF AlInv, BatchesFit, RowBatches, Alive
  <2>2. ASSUME NEW l \in legs, l.batch # 0, Settled(l.trade)
        PROVE  batches[l.batch] = "committed"
    <3>1. trades[l.trade].alive
      BY <1>1, <2>2, SettledRests DEF AtRest
    <3> QED
      BY <1>1, <2>1, <2>2, <3>1 DEF AlInv, LegBatches, Alive
  <2> QED
    BY <2>1, <2>2 DEF BatchTellsTruth
<1> QED
  BY <1>2, <1>3, <1>4, <1>5, <1>6 DEF LedgerSound

\* However requests interleave, fail and die, whatever accounts are unhooked or deleted on the way
\* and whichever legs are changed or deleted by hand: a trade whose requests neither met nor broke
\* has at most one leg of a role, all of its side, and unless somebody put his hand to them since a
\* request last listed them, none or exactly those it settles by, at its version and its accounts;
\* its legs go with it; what is imported is stored once, but for journal entries two imports
\* brought in at once; and a batch has rows only once it says so.
THEOREM LedgerCorrect == AlSpec => []LedgerSound
  BY LedgerInit, LedgerStep, LedgerKept, PTL DEF AlSpec


-----------------------------------------------------------------------------
(* The paper account: the invariant                                        *)

PosRec == [side : Sides, qty : Nat, cost : Int]
AccountRec ==
    [cash : Int, realized : Int, daily : Int, entryFee : Int, peak : Int, drop : Int,
     cooldown : 0..CooldownBars, mark : Prices, flow : Int, pos : PosRec]
OrderRec == [side : Sides, qty : Nat \ {0}, opens : BOOLEAN]
ModeRec == [via : {"live", "replay", "ended"}, strategy : {"v1", "v2"},
            policy : {"day_only", "overnight_allowed"}]

\* The cash is what the fills paid and received and what the open contracts cost, with the fees
\* of the contracts still open, each of which was paid for once
Booked(p, cash, flow) == cash = StartingEquity + flow + Sign(p.side) * p.cost * PointValue
FeesOpen(p, fee) == fee = FeePerSide * p.qty
Explained(cash, realized, fee) == cash = StartingEquity + realized - fee
EmptyIsFree(p) == p.qty = 0 => p.cost = 0
Marked(a) == a.peak >= StartingEquity /\ a.drop >= 0
AccountOK(a) ==
    /\ a \in AccountRec
    /\ Booked(a.pos, a.cash, a.flow) /\ FeesOpen(a.pos, a.entryFee)
    /\ Explained(a.cash, a.realized, a.entryFee) /\ EmptyIsFree(a.pos) /\ Marked(a)

SideOf(p) == IF p.qty > 0 THEN p.side ELSE "none"
Suits(o, p) ==
    IF o.opens THEN /\ p.qty > 0 => p.side = o.side
                    /\ p.qty + o.qty <= ProfileQty /\ p.qty + o.qty <= MaxContracts
    ELSE p.side = Opposite(o.side) /\ o.qty <= p.qty
\* No order, or one that suits the position
Pending(os, p) == os = <<>> \/ \E o \in OrderRec : os = <<o>> /\ Suits(o, p)
AtMostOne(os) == os = <<>> \/ \E o \in OrderRec : os = <<o>>

PtInv ==
    /\ mode \in ModeRec /\ AccountOK(account) /\ AtMostOne(orders)
    /\ mode.via # "ended" => Pending(orders, account.pos)
    /\ believed = SideOf(account.pos)
    /\ clock \in [session : Nat, mins : Nat, bars : Nat]
    /\ FlatBeforeClose

-----------------------------------------------------------------------------
(* Arithmetic                                                              *)

LEMMA LeastOfTwo == ASSUME NEW a \in Int, NEW b \in Int
                    PROVE  Least({a, b}) = IF a <= b THEN a ELSE b
  <1> DEFINE r == IF a <= b THEN a ELSE b
  <1>1. r \in {a, b} /\ \A y \in {a, b} : r <= y
    OBVIOUS
  <1>2. \A x \in {a, b} : (\A y \in {a, b} : x <= y) => x = r
    OBVIOUS
  <1> QED
    BY <1>1, <1>2 DEF Least

LEMMA GreatestOfTwo == ASSUME NEW a \in Int, NEW b \in Int
                       PROVE  Greatest({a, b}) \in Int /\ Greatest({a, b}) >= a /\ Greatest({a, b}) >= b
  <1> DEFINE r == IF a >= b THEN a ELSE b
  <1>1. r \in {a, b} /\ \A y \in {a, b} : r >= y
    OBVIOUS
  <1> DEFINE g == Greatest({a, b})
  <1>2. g \in {a, b} /\ \A y \in {a, b} : g >= y
    BY <1>1 DEF Greatest
  <1> QED
    BY <1>2

\* The least of five lies under each of them
LEMMA LeastOfFive ==
    ASSUME NEW a \in Int, NEW b \in Int, NEW c \in Int, NEW d \in Int, NEW e \in Int
    PROVE  LET l == Least({a, b, c, d, e})
           IN l \in Int /\ l <= a /\ l <= b /\ l <= c /\ l <= d /\ l <= e
  <1> DEFINE S == {a, b, c, d, e}
             Low(x) == \A y \in S : x <= y
  <1>1. PICK x \in S : Low(x)
    OBVIOUS
  <1> DEFINE l == Least(S)
  <1>2. l \in S /\ Low(l)
    BY <1>1 DEF Least
  <1> QED
    BY <1>2

LEMMA Distribute ==
    ASSUME NEW s \in {1, -1}, NEW c \in Int, NEW x \in Int, NEW v \in Int
    PROVE  /\ s * (c + x) * v = s * c * v + s * x * v
           /\ s * (c - x) * v = s * c * v - s * x * v
           /\ -s * x * v = -(s * x * v)
           /\ s * x * v \in Int
  OBVIOUS

LEMMA FeeOf == ASSUME NEW f \in Int, NEW a \in Int, NEW b \in Int
               PROVE f * (a + b) = f * a + f * b /\ f * (a - b) = f * a - f * b /\ f * a \in Int
  OBVIOUS

LEMMA ShareOf == ASSUME NEW f \in Int, NEW n \in Nat \ {0}, NEW q \in Int
                 PROVE ((f * n) * q) \div n = f * q
  <1>1. (f * n) * q = (f * q) * n /\ f * q \in Int
    OBVIOUS
  <1>2. \A x \in Int : (x * n) \div n = x
    OBVIOUS
  <1> QED
    BY <1>1, <1>2

LEMMA Nothing == ASSUME NEW s \in {1, -1}, NEW v \in Int PROVE s * 0 * v = 0
  OBVIOUS

LEMMA WholeCost == ASSUME NEW c \in Int, NEW n \in Nat \ {0} PROVE (c * n) \div n = c
  OBVIOUS

LEMMA DivInt == ASSUME NEW c \in Int, NEW n \in Nat \ {0} PROVE c \div n \in Int
  OBVIOUS

-----------------------------------------------------------------------------
(* Fills                                                                   *)

FillRec == [side : Sides, qty : Nat \ {0}, price : Int, fee : Int]
\* A fill on the other side closes no more than there is
FillFits(p, f) ==
    /\ f \in FillRec /\ f.fee = FeePerSide * f.qty
    /\ p.qty > 0 /\ p.side # f.side => f.qty <= p.qty
AfterFill(p, f) ==
    IF p.qty = 0 \/ p.side = f.side THEN [side |-> f.side, qty |-> p.qty + f.qty, cost |-> CostWith(p, f)]
    ELSE IF f.qty = p.qty THEN NoPosition
    ELSE [p EXCEPT !.qty = @ - f.qty, !.cost = @ - (p.cost * f.qty) \div p.qty]

LEMMA Constants ==
    /\ PointValue \in Nat /\ FeePerSide \in Nat /\ InitialMargin \in Nat \ {0}
    /\ Prices \subseteq Nat /\ SlippagePoints \in Nat /\ StartingEquity \in Nat
    /\ MaxContracts \in Nat /\ ProfileQty \in Nat
    /\ FlattenMinutes \in Nat /\ NoNewMinutes \in Nat /\ SessionMinutes \in Nat
    /\ CooldownBars \in Nat /\ MaxBars \in Nat /\ MaxSessions \in Nat
    /\ FlattenMinutes <= NoNewMinutes /\ NoNewMinutes < SessionMinutes
  BY PaperAssumption

LEMMA Scaled == StopPoints * PointValue \in Nat \ {0} /\ StressPoints * PointValue \in Nat \ {0}
  <1>1. PointValue \in Nat \ {0} /\ StopPoints \in Nat \ {0} /\ StressPoints \in Nat \ {0}
    BY PaperAssumption
  <1>2. \A a, b \in Nat \ {0} : a * b \in Nat \ {0}
    OBVIOUS
  <1> QED
    BY <1>1, <1>2

LEMMA SignIs == ASSUME NEW s \in Sides
                PROVE  Sign(s) \in {1, -1} /\ \A t \in Sides : t # s => Sign(t) = -Sign(s)
  <1>1. Sign("buy") = 1 /\ Sign("sell") = -1
    BY DEF Sign
  <1>2. s = "buy" \/ s = "sell"
    BY DEF Sides
  <1>3. \A t \in Sides : t = "buy" \/ t = "sell"
    BY DEF Sides
  <1>4. Sign(s) \in {1, -1}
    BY <1>1, <1>2
  <1>5. ASSUME NEW t \in Sides, t # s PROVE Sign(t) = -Sign(s)
    <2>1. CASE s = "buy"
      <3>1. t = "sell"
        BY <2>1, <1>3, <1>5
      <3> QED
        BY <2>1, <3>1, <1>1
    <2>2. CASE s = "sell"
      <3>1. t = "buy"
        BY <2>2, <1>3, <1>5
      <3> QED
        BY <2>2, <3>1, <1>1
    <2> QED
      BY <2>1, <2>2, <1>2
  <1> QED
    BY <1>4, <1>5

\* The money of an account of the right shape is a number
LEMMA AccountParts ==
    ASSUME NEW a, a \in AccountRec
    PROVE  /\ a.cash \in Int /\ a.realized \in Int /\ a.daily \in Int /\ a.entryFee \in Int
           /\ a.peak \in Int /\ a.drop \in Int /\ a.cooldown \in 0..CooldownBars /\ a.mark \in Prices
           /\ a.flow \in Int /\ a.pos \in PosRec
           /\ a.pos.side \in Sides /\ a.pos.qty \in Nat /\ a.pos.cost \in Int
           /\ a.mark \in Int /\ Sign(a.pos.side) \in {1, -1}
  <1>1. /\ a.cash \in Int /\ a.realized \in Int /\ a.daily \in Int /\ a.entryFee \in Int
        /\ a.peak \in Int /\ a.drop \in Int /\ a.cooldown \in 0..CooldownBars /\ a.mark \in Prices
        /\ a.flow \in Int /\ a.pos \in PosRec
    BY DEF AccountRec
  <1>2. a.pos.side \in Sides /\ a.pos.qty \in Nat /\ a.pos.cost \in Int
    BY <1>1 DEF PosRec
  <1>3. a.mark \in Int
    <2>1. a.mark \in Prices
      BY <1>1
    <2>2. Prices \subseteq Nat
      BY Constants
    <2>3. a.mark \in Nat
      BY <2>1, <2>2, Zenon
    <2> QED
      BY <2>3
  <1>4. Sign(a.pos.side) \in {1, -1}
    BY <1>2, SignIs
  <1> QED
    BY <1>1, <1>2, <1>3, <1>4

LEMMA EquityInt ==
    ASSUME NEW a, a \in AccountRec PROVE Equity(a) \in Int /\ Unrealized(a) \in Int
  <1>1. \A s \in {1, -1} : \A m, q, c, v \in Int : s * (m * q - c) * v \in Int
    OBVIOUS
  <1>2. Unrealized(a) \in Int
    BY <1>1, AccountParts, Constants DEF Unrealized
  <1> QED
    BY <1>2, AccountParts DEF Equity

LEMMA EnteredKeeps ==
    ASSUME NEW a, AccountOK(a), NEW f, FillFits(a.pos, f), a.pos.qty = 0 \/ a.pos.side = f.side
    PROVE  AccountOK(OnFill(a, f)) /\ OnFill(a, f).pos = AfterFill(a.pos, f)
  <1> DEFINE x == Sign(f.side) * f.price * f.qty * PointValue
             p == [side |-> f.side, qty |-> a.pos.qty + f.qty, cost |-> a.pos.cost + f.price * f.qty]
             b == [a EXCEPT !.cash = @ - f.fee, !.flow = @ - f.fee - x, !.pos = p, !.entryFee = @ + f.fee]
  <1>1. a \in AccountRec /\ f \in FillRec
    BY DEF AccountOK, FillFits
  <1>2. f.side \in Sides /\ f.qty \in Nat \ {0} /\ f.price \in Int /\ f.fee \in Int
        /\ Sign(f.side) \in {1, -1} /\ f.fee = FeePerSide * f.qty
    BY <1>1, SignIs DEF FillRec, FillFits
  <1>3. OnFill(a, f) = b
    BY <1>1, AccountParts DEF OnFill, HasPosition, Entered, CostWith, AccountRec
  <1>4. f.price * f.qty \in Int /\ x \in Int /\ x = Sign(f.side) * (f.price * f.qty) * PointValue
    <2>1. \A s \in {1, -1} : \A r, n, v \in Int :
             r * n \in Int /\ s * r * n * v \in Int /\ s * r * n * v = s * (r * n) * v
      OBVIOUS
    <2> QED
      BY <2>1, <1>2, Constants
  <1>5. p \in PosRec /\ p.qty > 0
    BY <1>1, <1>2, <1>4, AccountParts DEF PosRec
  <1>6. b \in AccountRec
    <2>1. a.cash - f.fee \in Int /\ a.flow - f.fee - x \in Int /\ a.entryFee + f.fee \in Int
      <3> HIDE DEF x
      <3> QED
        BY <1>1, <1>2, <1>4, AccountParts
    <2> HIDE DEF p, x
    <2> QED
      BY <1>1, <1>5, <2>1 DEF AccountRec
  <1>7. b.pos = p /\ b.cash = a.cash - f.fee /\ b.flow = a.flow - f.fee - x /\ b.entryFee = a.entryFee + f.fee
        /\ b.realized = a.realized /\ b.peak = a.peak /\ b.drop = a.drop
    BY <1>1 DEF AccountRec
  <1>8. a.cash = StartingEquity + a.flow + Sign(f.side) * a.pos.cost * PointValue
    <2>1. CASE a.pos.side = f.side
      BY <2>1 DEF AccountOK, Booked
    <2>2. CASE a.pos.qty = 0
      <3>1. a.pos.cost = 0
        BY <2>2 DEF AccountOK, EmptyIsFree
      <3>2. Sign(f.side) * a.pos.cost * PointValue = 0 /\ Sign(a.pos.side) * a.pos.cost * PointValue = 0
        BY <3>1, <1>1, <1>2, AccountParts, Constants, Nothing
      <3> QED
        BY <3>2, <1>1, AccountParts, Constants DEF AccountOK, Booked
    <2> QED
      BY <2>1, <2>2
  <1>9. Booked(p, b.cash, b.flow)
    <2>1. Sign(f.side) * p.cost * PointValue
             = Sign(f.side) * a.pos.cost * PointValue + Sign(f.side) * (f.price * f.qty) * PointValue
      <3>1. PICK t, c, y, v : t = Sign(f.side) /\ c = a.pos.cost /\ y = f.price * f.qty /\ v = PointValue
        OBVIOUS
      <3>2. t \in {1, -1} /\ c \in Int /\ y \in Int /\ v \in Int
        BY <3>1, <1>1, <1>2, <1>4, AccountParts, Constants
      <3>3. t * (c + y) * v = t * c * v + t * y * v
        BY ONLY <3>2, Distribute
      <3>4. p.cost = c + y
        BY <3>1
      <3> HIDE DEF p
      <3> QED
        BY <3>1, <3>3, <3>4
    <2>2. Sign(f.side) * a.pos.cost * PointValue \in Int
      BY Distribute, <1>1, <1>2, AccountParts, Constants
    <2> HIDE DEF x
    <2>3. Sign(p.side) * p.cost * PointValue = Sign(f.side) * a.pos.cost * PointValue + x
      BY <2>1, <1>4
    <2> DEFINE y == Sign(f.side) * a.pos.cost * PointValue
               z == Sign(p.side) * p.cost * PointValue
    <2>4. a.cash = StartingEquity + a.flow + y /\ z = y + x /\ y \in Int
      BY <1>8, <2>2, <2>3
    <2> HIDE DEF y, z, p, b
    <2>5. b.cash = StartingEquity + b.flow + z
      BY <2>4, <1>7, <1>1, <1>2, <1>4, AccountParts, Constants
    <2> QED
      BY <2>5 DEF Booked, z
  <1>10. FeesOpen(p, b.entryFee)
    <2>1. a.entryFee = FeePerSide * a.pos.qty
      BY DEF AccountOK, FeesOpen
    <2>2. a.pos.qty \in Int /\ f.qty \in Int /\ FeePerSide \in Int
      BY <1>1, <1>2, AccountParts, Constants
    <2>3. FeePerSide * (a.pos.qty + f.qty) = FeePerSide * a.pos.qty + FeePerSide * f.qty
      BY <2>2, FeeOf
    <2>4. b.entryFee = a.entryFee + f.fee /\ f.fee = FeePerSide * f.qty /\ p.qty = a.pos.qty + f.qty
      BY <1>2, <1>7
    <2> HIDE DEF b, p
    <2> QED
      BY <2>1, <2>3, <2>4 DEF FeesOpen
  <1>11. Explained(b.cash, b.realized, b.entryFee)
    <2> HIDE DEF b
    <2> QED
      BY <1>1, <1>2, <1>7, AccountParts, Constants DEF Explained, AccountOK
  <1>12. EmptyIsFree(p) /\ Marked(b)
    BY <1>5, <1>7 DEF EmptyIsFree, AccountOK, Marked
  <1>13. AccountOK(b)
    <2> HIDE DEF b, p
    <2> QED
      BY <1>6, <1>7, <1>9, <1>10, <1>11, <1>12 DEF AccountOK
  <1> QED
    BY <1>3, <1>7, <1>13 DEF AfterFill, CostWith

LEMMA ClosedKeeps ==
    ASSUME NEW a, AccountOK(a), NEW f, FillFits(a.pos, f), a.pos.qty > 0, a.pos.side # f.side
    PROVE  AccountOK(OnFill(a, f)) /\ OnFill(a, f).pos = AfterFill(a.pos, f)
  <1> DEFINE n == a.pos.qty
             q == f.qty
             s == Sign(a.pos.side)
             x == Sign(f.side) * f.price * f.qty * PointValue
             share == (a.pos.cost * q) \div n
             gross == s * (f.price * q - share) * PointValue
             fees == (a.entryFee * q) \div n
             net == gross - fees - f.fee
             cool == IF net < 0 THEN CooldownBars ELSE a.cooldown
             p == IF q = n THEN NoPosition ELSE [a.pos EXCEPT !.qty = n - q, !.cost = @ - share]
             rest == (a.entryFee * (n - q)) \div n
             b == [a EXCEPT !.cash = a.cash - f.fee + gross, !.realized = @ + net, !.daily = @ + net,
                            !.flow = @ - f.fee - x, !.cooldown = cool, !.pos = p, !.entryFee = rest]
  <1>1. a \in AccountRec /\ f \in FillRec
    BY DEF AccountOK, FillFits
  <1>2. f.side \in Sides /\ q \in Nat \ {0} /\ f.price \in Int /\ f.fee \in Int
        /\ f.fee = FeePerSide * q /\ q <= n /\ n \in Nat \ {0} /\ s \in {1, -1} /\ Sign(f.side) = -s
    BY <1>1, SignIs, AccountParts DEF FillRec, FillFits
  <1>3. Least({f.qty, a.pos.qty}) = q
    BY <1>2, LeastOfTwo
  <1>4x. x \in Int
    <2>1. PICK t, r, m, v : t = Sign(f.side) /\ r = f.price /\ m = f.qty /\ v = PointValue
      OBVIOUS
    <2>2. t \in Int /\ r \in Int /\ m \in Int /\ v \in Int
      BY <2>1, <1>2, Constants
    <2>3. t * r * m * v \in Int
      BY ONLY <2>2
    <2> QED
      BY <2>1, <2>3
  <1>4. OnFill(a, f) = b
    <2> DEFINE paid == [a EXCEPT !.cash = @ - f.fee, !.flow = @ - f.fee - x]
    <2>1. OnFill(a, f) = Closed(paid, f)
      BY <1>1, <1>2, AccountParts DEF OnFill, HasPosition
    <2>2. paid.pos = a.pos /\ paid.entryFee = a.entryFee
      BY <1>1 DEF AccountRec
    <2>3. paid \in AccountRec
      <3>1. a.cash - f.fee \in Int /\ a.flow - f.fee - x \in Int
        BY <1>1, <1>2, <1>4x, AccountParts
      <3> HIDE DEF x
      <3> QED
        BY <1>1, <3>1 DEF AccountRec
    <2>4. FeeShare(paid, q) = fees
      BY <2>2 DEF FeeShare
    <2> DEFINE c == paid
    <2> HIDE DEF c
    <2>5. c \in AccountRec /\ c.pos = a.pos /\ c.entryFee = a.entryFee /\ c.cooldown = a.cooldown
          /\ FeeShare(c, q) = fees
      BY <1>1, <2>2, <2>3, <2>4 DEF c, AccountRec
    <2>6. Closed(c, f) =
             [c EXCEPT !.cash = @ + gross, !.realized = @ + net, !.daily = @ + net,
                       !.cooldown = IF net < 0 THEN CooldownBars ELSE @, !.pos = p, !.entryFee = rest]
      <3>1. p = IF q = c.pos.qty THEN NoPosition ELSE [c.pos EXCEPT !.qty = @ - q, !.cost = @ - share]
        BY <2>5
      <3>2. /\ share = (c.pos.cost * q) \div c.pos.qty
            /\ gross = Sign(c.pos.side) * (f.price * q - share) * PointValue
            /\ rest = (c.entryFee * (c.pos.qty - q)) \div c.pos.qty
            /\ q = Least({f.qty, c.pos.qty}) /\ net = gross - FeeShare(c, q) - f.fee
        BY <1>3, <2>5
      <3> HIDE DEF gross, net, fees, share, p, rest, q
      <3> QED
        BY <2>5, <3>1, <3>2 DEF Closed
    <2> HIDE DEF gross, net, share, fees, x, p, rest
    <2>7. Closed(paid, f) = b
      BY <1>1, <2>5, <2>6 DEF c, AccountRec
    <2> QED
      BY <2>1, <2>7
  <1>5. a.entryFee = FeePerSide * n /\ fees = FeePerSide * q /\ rest = FeePerSide * (n - q)
        /\ fees \in Int /\ rest \in Int /\ rest = a.entryFee - fees
    <2>1. a.entryFee = FeePerSide * n
      BY DEF AccountOK, FeesOpen
    <2>2. fees = FeePerSide * q
      <3>1. q \in Int /\ FeePerSide \in Int
        BY <1>2, Constants
      <3>2. ((FeePerSide * n) * q) \div n = FeePerSide * q
        <4> HIDE DEF n, q
        <4> QED
          BY <3>1, <1>2, ShareOf
      <3> QED
        BY <2>1, <3>2
    <2>3. rest = FeePerSide * (n - q)
      <3>1. n - q \in Int /\ FeePerSide \in Int
        BY <1>2, Constants
      <3>2. ((FeePerSide * n) * (n - q)) \div n = FeePerSide * (n - q)
        <4> HIDE DEF n, q
        <4> QED
          BY <3>1, <1>2, ShareOf
      <3> QED
        BY <2>1, <3>2
    <2> QED
      <3>1. n \in Int /\ q \in Int /\ FeePerSide \in Int
        BY <1>2, Constants
      <3> HIDE DEF n, q, fees, rest
      <3>2. /\ FeePerSide * (n - q) = FeePerSide * n - FeePerSide * q
            /\ FeePerSide * (n - q) \in Int /\ FeePerSide * q \in Int
        <4>1. n - q \in Int
          BY <3>1
        <4> QED
          BY <3>1, <4>1, FeeOf
      <3> QED
        BY <2>1, <2>2, <2>3, <3>2
  <1>6. share \in Int /\ f.price * q \in Int /\ gross \in Int /\ x \in Int
        /\ gross = s * (f.price * q) * PointValue - s * share * PointValue
        /\ x = -(s * (f.price * q) * PointValue)
        /\ s * share * PointValue \in Int /\ s * (f.price * q) * PointValue \in Int
    <2>1. a.pos.cost * q \in Int /\ f.price * q \in Int
      BY <1>1, <1>2, AccountParts
    <2>2. share \in Int
      BY <2>1, <1>2, DivInt
    <2> HIDE DEF share
    <2>3. gross = s * (f.price * q) * PointValue - s * share * PointValue
          /\ s * share * PointValue \in Int /\ s * (f.price * q) * PointValue \in Int
      BY <2>1, <2>2, <1>2, Distribute, Constants
    <2>4. \A t \in {1, -1} : \A r, m, v \in Int : (-t) * r * m * v = -(t * (r * m) * v)
      OBVIOUS
    <2>5. x = -(s * (f.price * q) * PointValue)
      BY <2>4, <1>2, Constants
    <2> HIDE DEF gross, x, s, q
    <2> QED
      BY <2>1, <2>2, <2>3, <2>5
  <1>7. net \in Int /\ net = gross - fees - f.fee /\ cool \in 0..CooldownBars
    <2>1. net \in Int
      <3> HIDE DEF gross, fees
      <3> QED
        BY <1>2, <1>5, <1>6
    <2> HIDE DEF gross, fees
    <2> QED
      BY <2>1, <1>1, AccountParts, Constants
  <1>8. /\ p \in PosRec /\ p.qty = n - q /\ EmptyIsFree(p)
        /\ Sign(p.side) * p.cost * PointValue = s * a.pos.cost * PointValue - s * share * PointValue
    <2>1. CASE q = n
      <3>1. share = a.pos.cost
        BY <2>1, <1>1, <1>2, AccountParts, WholeCost
      <3>2. p = NoPosition
        BY <2>1
      <3>3. Sign("buy") * 0 * PointValue = 0 /\ s * share * PointValue \in Int
        BY <1>6, Constants, Nothing, SignIs DEF Sides
      <3> HIDE DEF share, p
      <3>4. p \in PosRec /\ p.qty = 0 /\ p.cost = 0 /\ p.side = "buy"
        BY <3>2 DEF NoPosition, PosRec, Sides
      <3> QED
        BY <2>1, <3>1, <3>3, <3>4, <1>2 DEF EmptyIsFree
    <2>2. CASE q # n
      <3> HIDE DEF share
      <3>1. p = [a.pos EXCEPT !.qty = n - q, !.cost = @ - share] /\ a.pos \in PosRec /\ a.pos.cost \in Int
        BY <2>2, <1>1, AccountParts
      <3>2. n - q \in Nat \ {0} /\ a.pos.cost - share \in Int
        BY <2>2, <1>2, <1>6, <3>1
      <3> HIDE DEF p, n, q
      <3>3. p \in PosRec /\ p.qty = n - q /\ p.cost = a.pos.cost - share /\ p.side = a.pos.side
        BY <3>1, <3>2 DEF PosRec
      <3>4. s * (a.pos.cost - share) * PointValue = s * a.pos.cost * PointValue - s * share * PointValue
        <4>1. s \in {1, -1} /\ share \in Int /\ a.pos.cost \in Int /\ PointValue \in Int
          BY <3>1, <1>2, <1>6, Constants
        <4> HIDE DEF s
        <4> QED
          BY ONLY <4>1, Distribute
      <3> QED
        BY <3>2, <3>3, <3>4 DEF EmptyIsFree
    <2> QED
      BY <2>1, <2>2
  <1>9. b \in AccountRec
    <2> HIDE DEF gross, net, fees, share, x, cool, p, rest
    <2>1. a.cash - f.fee + gross \in Int /\ a.realized + net \in Int /\ a.daily + net \in Int
          /\ a.flow - f.fee - x \in Int
      BY <1>1, <1>2, <1>6, <1>7, AccountParts
    <2> QED
      BY <2>1, <1>1, <1>5, <1>7, <1>8 DEF AccountRec
  <1>10. b.pos = p /\ b.cash = a.cash - f.fee + gross /\ b.flow = a.flow - f.fee - x /\ b.entryFee = rest
        /\ b.realized = a.realized + net /\ b.peak = a.peak /\ b.drop = a.drop
    <2> HIDE DEF gross, net, fees, share, x, cool, p, rest
    <2> QED
      BY <1>1 DEF AccountRec
  <1>11. Booked(p, b.cash, b.flow)
    <2> DEFINE y == s * a.pos.cost * PointValue
               z == Sign(p.side) * p.cost * PointValue
               u == s * share * PointValue
               w == s * (f.price * q) * PointValue
    <2>1. a.cash = StartingEquity + a.flow + y
      BY DEF AccountOK, Booked
    <2>2. y \in Int
      BY Distribute, <1>1, <1>2, AccountParts, Constants
    <2>3. z = y - u /\ gross = w - u /\ x = -w /\ u \in Int /\ w \in Int
      BY <1>6, <1>8
    <2> HIDE DEF y, z, u, w, gross, x, p, b
    <2>4. b.cash = StartingEquity + b.flow + z
      BY <2>1, <2>2, <2>3, <1>10, <1>1, <1>2, AccountParts, Constants
    <2> QED
      BY <2>4 DEF Booked, z
  <1>12. FeesOpen(p, b.entryFee)
    <2> HIDE DEF b, p, rest
    <2> QED
      BY <1>5, <1>8, <1>10 DEF FeesOpen
  <1>13. Explained(b.cash, b.realized, b.entryFee)
    <2> HIDE DEF b, p, rest, net, fees, gross
    <2> QED
      <3>1. /\ a.cash \in Int /\ a.realized \in Int /\ a.entryFee \in Int /\ f.fee \in Int
            /\ StartingEquity \in Int
        BY <1>1, <1>2, AccountParts, Constants
      <3>2. /\ rest = a.entryFee - fees /\ fees \in Int /\ gross \in Int
            /\ net = gross - fees - f.fee
        BY <1>5, <1>6, <1>7
      <3>3. Explained(a.cash, a.realized, a.entryFee)
        BY DEF AccountOK
      <3>4. b.cash = a.cash - f.fee + gross /\ b.realized = a.realized + net /\ b.entryFee = rest
        BY <1>10
      <3> QED
        BY ONLY <3>1, <3>2, <3>3, <3>4 DEF Explained
  <1>14. AccountOK(b)
    <2>1. Marked(b)
      <3> HIDE DEF b
      <3> QED
        BY <1>10 DEF AccountOK, Marked
    <2> HIDE DEF b, p
    <2> QED
      BY <2>1, <1>8, <1>9, <1>10, <1>11, <1>12, <1>13 DEF AccountOK
  <1>15. p = AfterFill(a.pos, f)
    BY <1>2 DEF AfterFill
  <1> QED
    BY <1>4, <1>10, <1>14, <1>15

\* A fill that fits keeps the books, and the strategy is told of the position it leaves
LEMMA FillKeeps ==
    ASSUME NEW a, AccountOK(a), NEW f, FillFits(a.pos, f)
    PROVE  /\ AccountOK(OnFill(a, f)) /\ OnFill(a, f).pos = AfterFill(a.pos, f)
           /\ Told(OnFill(a, f), f, SideOf(a.pos)) = SideOf(OnFill(a, f).pos)
  <1> DEFINE b == OnFill(a, f)
  <1>1. a \in AccountRec /\ a.pos.qty \in Nat /\ a.pos.side \in Sides
    BY AccountParts DEF AccountOK
  <1>2. AccountOK(b) /\ b.pos = AfterFill(a.pos, f)
    BY <1>1, EnteredKeeps, ClosedKeeps
  <1>3. f.side \in Sides /\ f.qty \in Nat \ {0} /\ a.pos \in PosRec
    BY <1>1, AccountParts DEF FillFits, FillRec
  <1>4. Told(b, f, SideOf(a.pos)) = SideOf(b.pos)
    <2> HIDE DEF b
    <2>1. CASE a.pos.qty = 0 \/ a.pos.side = f.side
      <3>1. b.pos.side = f.side /\ b.pos.qty > 0
        BY <2>1, <1>1, <1>2, <1>3 DEF AfterFill
      <3> QED
        BY <3>1 DEF Told, HasPosition, SideOf
    <2>2. CASE ~(a.pos.qty = 0 \/ a.pos.side = f.side) /\ f.qty = a.pos.qty
      <3>1. b.pos.qty = 0
        BY <2>2, <1>1, <1>2, <1>3 DEF AfterFill, NoPosition
      <3> QED
        BY <3>1 DEF Told, HasPosition, SideOf
    <2>3. CASE ~(a.pos.qty = 0 \/ a.pos.side = f.side) /\ f.qty # a.pos.qty
      <3>1. f.qty < a.pos.qty
        BY <2>3, <1>1, <1>3 DEF FillFits
      <3>2. b.pos = [a.pos EXCEPT !.qty = @ - f.qty, !.cost = @ - (a.pos.cost * f.qty) \div a.pos.qty]
        BY <2>3, <1>1, <1>2 DEF AfterFill
      <3>3. b.pos.qty = a.pos.qty - f.qty /\ b.pos.side = a.pos.side
        BY <3>2, <1>3 DEF PosRec
      <3> QED
        BY <2>3, <3>1, <3>3, <1>1, <1>3 DEF Told, HasPosition, SideOf
    <2> QED
      BY <2>1, <2>2, <2>3
  <1> QED
    BY <1>2, <1>4

LEMMA MarkKeeps ==
    ASSUME NEW a, AccountOK(a), NEW price \in Prices, NEW advance \in BOOLEAN
    PROVE  AccountOK(OnBar(a, price, advance)) /\ OnBar(a, price, advance).pos = a.pos
  <1> DEFINE m == [a EXCEPT !.mark = price]
             e == Equity(m)
             peak == Greatest({a.peak, e})
             cool == IF advance THEN CountedDown(a.cooldown) ELSE a.cooldown
             b == [m EXCEPT !.peak = peak, !.drop = peak - e, !.cooldown = cool]
  <1>1. a \in AccountRec /\ m \in AccountRec /\ m.peak = a.peak /\ m.cooldown = a.cooldown
    BY DEF AccountOK, AccountRec
  <1>2. e \in Int
    BY <1>1, EquityInt
  <1>3. a.peak \in Int /\ a.cooldown \in 0..CooldownBars
    BY <1>1, AccountParts
  <1> HIDE DEF e
  <1>4. peak \in Int /\ peak >= a.peak /\ peak >= e
    BY <1>2, <1>3, GreatestOfTwo
  <1>5. cool \in 0..CooldownBars
    BY <1>3, Constants DEF CountedDown, Floor0
  <1>6. OnBar(a, price, advance) = b
    BY <1>1 DEF OnBar, e
  <1> HIDE DEF peak, cool
  <1>7. peak - e \in Int /\ peak - e >= 0 /\ peak >= StartingEquity
    <2>1. a.peak >= StartingEquity
      BY DEF AccountOK, Marked
    <2> QED
      BY <2>1, <1>2, <1>3, <1>4, Constants
  <1>8. b \in AccountRec
    BY <1>1, <1>4, <1>5, <1>7 DEF AccountRec
  <1>9. b.pos = a.pos /\ b.cash = a.cash /\ b.flow = a.flow /\ b.entryFee = a.entryFee
        /\ b.realized = a.realized /\ b.peak = peak /\ b.drop = peak - e
    BY <1>1 DEF AccountRec
  <1> HIDE DEF b
  <1>10. AccountOK(b)
    BY <1>7, <1>8, <1>9 DEF AccountOK, Marked
  <1> QED
    BY <1>6, <1>9, <1>10

LEMMA ResetKeeps ==
    ASSUME NEW a, AccountOK(a) PROVE AccountOK(ResetDaily(a)) /\ ResetDaily(a).pos = a.pos
  <1> DEFINE b == [a EXCEPT !.daily = 0]
  <1>1. a \in AccountRec
    BY DEF AccountOK
  <1>2. b \in AccountRec
    BY <1>1 DEF AccountRec
  <1>3. b.pos = a.pos /\ b.cash = a.cash /\ b.flow = a.flow /\ b.entryFee = a.entryFee
        /\ b.realized = a.realized /\ b.peak = a.peak /\ b.drop = a.drop
    BY <1>1 DEF AccountRec
  <1> HIDE DEF b
  <1>4. AccountOK(b)
    BY <1>2, <1>3 DEF AccountOK, Marked
  <1> QED
    BY <1>3, <1>4 DEF ResetDaily, b

\* What the broker fills
LEMMA FillShape ==
    ASSUME NEW side \in Sides, NEW qty \in Nat \ {0}, NEW price \in Prices
    PROVE  /\ FillOf(side, qty, price) \in FillRec
           /\ FillOf(side, qty, price).side = side /\ FillOf(side, qty, price).qty = qty
           /\ FillOf(side, qty, price).fee = FeePerSide * qty
  <1>1. Sign(side) \in {1, -1} /\ price \in Int /\ SlippagePoints \in Int /\ FeePerSide \in Int
    <2>1. Prices \subseteq Nat /\ SlippagePoints \in Int /\ FeePerSide \in Int
      BY Constants
    <2>2. price \in Nat
      BY <2>1, Zenon
    <2> QED
      BY <2>1, <2>2, SignIs
  <1>2. price + Sign(side) * SlippagePoints \in Int /\ FeePerSide * qty \in Int
    <2>1. \A s \in {1, -1} : \A p, v \in Int : p + s * v \in Int
      OBVIOUS
    <2>2. \A p, v \in Int : p * v \in Int
      OBVIOUS
    <2> QED
      BY <1>1, <2>1, <2>2
  <1> QED
    BY <1>2 DEF FillOf, FillRec

\* A settled pair: an account in order, and the strategy told of its position
AccountTold(s) == s = [acc |-> s.acc, bel |-> s.bel] /\ AccountOK(s.acc) /\ s.bel = SideOf(s.acc.pos)

LEMMA FilledKeeps ==
    ASSUME NEW s, AccountTold(s), NEW f, FillFits(s.acc.pos, f)
    PROVE  AccountTold(Filled(s, f)) /\ Filled(s, f).acc = OnFill(s.acc, f)
  <1>1. /\ AccountOK(OnFill(s.acc, f))
        /\ Told(OnFill(s.acc, f), f, s.bel) = SideOf(OnFill(s.acc, f).pos)
    BY FillKeeps DEF AccountTold
  <1>2. Filled(s, f) = [acc |-> OnFill(s.acc, f), bel |-> Told(OnFill(s.acc, f), f, s.bel)]
    BY DEF Filled
  <1>3. Filled(s, f).acc = OnFill(s.acc, f) /\ Filled(s, f).bel = Told(OnFill(s.acc, f), f, s.bel)
    BY <1>2
  <1>4. Filled(s, f) = [acc |-> Filled(s, f).acc, bel |-> Filled(s, f).bel]
    BY <1>2, <1>3
  <1> HIDE DEF Filled
  <1> QED
    BY <1>1, <1>3, <1>4 DEF AccountTold

\* A forced close leaves nothing
LEMMA FlattenedIsFlat ==
    ASSUME NEW s, AccountTold(s), s.acc.pos.qty > 0, NEW close \in Prices
    PROVE  AccountTold(Flattened(s, close)) /\ Flattened(s, close).acc.pos.qty = 0
  <1> DEFINE f == FillOf(Opposite(s.acc.pos.side), s.acc.pos.qty, close)
  <1>1. s.acc \in AccountRec
    BY DEF AccountTold, AccountOK
  <1>2. s.acc.pos.qty \in Nat \ {0} /\ s.acc.pos.side \in Sides
    BY <1>1, AccountParts
  <1>3. Opposite(s.acc.pos.side) \in Sides /\ Opposite(s.acc.pos.side) # s.acc.pos.side
    BY <1>2 DEF Opposite, Sides
  <1>4. f \in FillRec /\ f.side = Opposite(s.acc.pos.side) /\ f.qty = s.acc.pos.qty
        /\ f.fee = FeePerSide * s.acc.pos.qty
    BY <1>2, <1>3, FillShape
  <1> HIDE DEF f
  <1>5. FillFits(s.acc.pos, f)
    BY <1>2, <1>4 DEF FillFits
  <1>6. OnFill(s.acc, f).pos = AfterFill(s.acc.pos, f)
    BY <1>5, FillKeeps DEF AccountTold
  <1>7. AfterFill(s.acc.pos, f).qty = 0
    BY <1>2, <1>3, <1>4 DEF AfterFill, NoPosition
  <1> QED
    BY <1>5, <1>6, <1>7, FilledKeeps DEF Flattened, f

-----------------------------------------------------------------------------
(* Orders                                                                  *)

\* No order is matched as it is, one is filled at the open
LEMMA MatchedIs ==
    ASSUME NEW s, NEW open
    PROVE  /\ orders = <<>> => Matched(s, open) = s
           /\ \A o \in OrderRec : orders = <<o>> => Matched(s, open) = Filled(s, FillOf(o.side, o.qty, open))
  <1> DEFINE R(g) == g = [n \in 0..Len(orders) |->
                     IF n = 0 THEN s ELSE Filled(g[n - 1], FillOf(orders[n].side, orders[n].qty, open))]
             after == CHOOSE g : R(g)
  <1>1. Matched(s, open) = after[Len(orders)]
    BY DEF Matched
  <1>2. ASSUME orders = <<>> PROVE Matched(s, open) = s
    <2>1. Len(orders) = 0 /\ 0..0 = {0}
      BY <1>2
    <2>2. R([n \in 0..0 |-> s])
      BY <2>1
    <2>3. R(after)
      BY <2>2
    <2> HIDE DEF after
    <2>4. after[0] = s
      BY <2>1, <2>3
    <2> QED
      BY <1>1, <2>1, <2>4
  <1>3. ASSUME NEW o \in OrderRec, orders = <<o>>
        PROVE  Matched(s, open) = Filled(s, FillOf(o.side, o.qty, open))
    <2> DEFINE r == Filled(s, FillOf(o.side, o.qty, open))
               w == [n \in 0..1 |-> IF n = 0 THEN s ELSE r]
    <2>1. Len(orders) = 1 /\ 0..1 = {0, 1} /\ orders[1] = o
      BY <1>3
    <2>2. w[0] = s
      OBVIOUS
    <2>3. R(w)
      <3>1. \A n \in 0..1 : w[n] = IF n = 0 THEN s
                                   ELSE Filled(w[n - 1], FillOf(orders[n].side, orders[n].qty, open))
        <4> SUFFICES ASSUME NEW n \in 0..1, n # 0
                     PROVE  r = Filled(w[n - 1], FillOf(orders[n].side, orders[n].qty, open))
          BY DEF w
        <4>1. n = 1 /\ n - 1 = 0 /\ orders[n] = o
          BY <2>1
        <4> QED
          BY <4>1, <2>2
      <3> HIDE DEF w
      <3>2. w = [n \in 0..1 |-> w[n]]
        BY DEF w
      <3>3. w = [n \in 0..1 |-> IF n = 0 THEN s
                                ELSE Filled(w[n - 1], FillOf(orders[n].side, orders[n].qty, open))]
        BY <3>1, <3>2
      <3> QED
        BY <2>1, <3>3
    <2>4. R(after)
      BY <2>3
    <2> HIDE DEF after
    <2>5. /\ after[0] = s
          /\ after[1] = Filled(after[1 - 1], FillOf(orders[1].side, orders[1].qty, open))
      BY <2>1, <2>4
    <2>6. after[1] = r
      BY <2>1, <2>5
    <2> QED
      BY <1>1, <2>1, <2>6
  <1> QED
    BY <1>2, <1>3

LEMMA MatchedKeeps ==
    ASSUME NEW s, AccountTold(s), Pending(orders, s.acc.pos), NEW open \in Prices
    PROVE  AccountTold(Matched(s, open))
  <1>1. CASE orders = <<>>
    BY <1>1, MatchedIs
  <1>2. ASSUME NEW o \in OrderRec, orders = <<o>>, Suits(o, s.acc.pos) PROVE AccountTold(Matched(s, open))
    <2> DEFINE f == FillOf(o.side, o.qty, open)
    <2>1. o.side \in Sides /\ o.qty \in Nat \ {0} /\ o.opens \in BOOLEAN
      BY DEF OrderRec
    <2>2. s.acc.pos.qty \in Nat /\ s.acc.pos.side \in Sides
      BY AccountParts DEF AccountTold, AccountOK
    <2>3. f \in FillRec /\ f.side = o.side /\ f.qty = o.qty /\ f.fee = FeePerSide * o.qty
      BY <2>1, FillShape
    <2> HIDE DEF f
    <2>4. FillFits(s.acc.pos, f)
      BY <1>2, <2>1, <2>2, <2>3 DEF Suits, FillFits
    <2> QED
      BY <1>2, <2>4, MatchedIs, FilledKeeps DEF f
  <1> QED
    BY <1>1, <1>2 DEF Pending

LEMMA AddableFits ==
    ASSUME NEW a, a \in AccountRec
    PROVE  Addable(a) \in Nat /\ (Addable(a) > 0 => a.pos.qty + Addable(a) <= MaxContracts)
  <1> DEFINE capital == Floor0(Equity(a))
             budget == (capital * 60) \div 100
             stress == ((capital * 20) \div 100) \div (StressPoints * PointValue)
             risk == ((capital * 2) \div 100) \div (StopPoints * PointValue)
             suggested == Least({budget \div InitialMargin, stress, risk, MaxContracts})
             x1 == Floor0(budget - MarginUsed(a)) \div InitialMargin
             x2 == stress - a.pos.qty
             x4 == MaxContracts - a.pos.qty
             x5 == suggested - a.pos.qty
             l == Least({x1, x2, risk, x4, x5})
  <1>1. a.pos.qty \in Nat /\ MaxContracts \in Nat /\ InitialMargin \in Nat \ {0}
        /\ StressPoints * PointValue \in Nat \ {0} /\ StopPoints * PointValue \in Nat \ {0}
    BY AccountParts, Constants, Scaled
  <1>2. capital \in Int
    BY EquityInt DEF Floor0
  <1> HIDE DEF capital
  <1>3. \A c \in Int : \A d \in Nat \ {0} : c \div d \in Int
    OBVIOUS
  <1>4. budget \in Int /\ (capital * 20) \div 100 \in Int /\ (capital * 2) \div 100 \in Int
    BY <1>2
  <1>5. stress \in Int /\ risk \in Int /\ budget \div InitialMargin \in Int
    BY <1>1, <1>3, <1>4
  <1>6. x1 \in Int
    <2>1. MarginUsed(a) \in Int
      BY <1>1 DEF MarginUsed
    <2> HIDE DEF budget
    <2>2. Floor0(budget - MarginUsed(a)) \in Int
      BY <1>4, <2>1 DEF Floor0
    <2> QED
      BY <1>1, <1>3, <2>2
  <1>7. suggested \in Int
    <2> DEFINE m == budget \div InitialMargin
    <2>1. m \in Int /\ MaxContracts \in Int
      BY <1>1, <1>5
    <2> HIDE DEF m, stress, risk
    <2>2. Least({m, stress, risk, MaxContracts, MaxContracts}) \in Int
      BY <1>1, <1>5, <2>1, LeastOfFive
    <2> USE DEF m
    <2>3. {m, stress, risk, MaxContracts} = {m, stress, risk, MaxContracts, MaxContracts}
      BY Zenon
    <2>4. suggested = Least({m, stress, risk, MaxContracts, MaxContracts})
      BY <2>3, Zenon DEF suggested
    <2> QED
      BY <2>2, <2>4
  <1> HIDE DEF suggested, stress, risk
  <1>8. x2 \in Int /\ x4 \in Int /\ x5 \in Int
    BY <1>1, <1>5, <1>7
  <1> HIDE DEF x1, x2, x5
  <1>9. l \in Int /\ l <= x4
    <2> HIDE DEF x4
    <2> QED
      BY <1>5, <1>6, <1>8, LeastOfFive
  <1>10. Addable(a) = Floor0(l)
    BY DEF Addable, capital, stress, risk, suggested, x1, x2, x5
  <1> HIDE DEF l
  <1> QED
    BY <1>1, <1>9, <1>10 DEF Floor0

\* Whatever the strategy signals, the order it becomes suits the position
LEMMA OrdersSuit ==
    ASSUME NEW a, a \in AccountRec, NEW sig \in Signals(a), NEW mins
    PROVE  Pending(OrdersFor(a, sig, mins), a.pos)
  <1> DEFINE n == a.pos.qty
  <1>1. n \in Nat /\ a.pos.side \in Sides
    BY AccountParts
  <1>2. ASSUME sig.act = "close", n > 0 PROVE Pending(OrdersFor(a, sig, mins), a.pos)
    <2>1. sig.side = a.pos.side /\ sig.qty \in Nat \ {0} /\ sig.qty <= n
      BY <1>1, <1>2 DEF Signals, Signal, HasPosition
    <2>2. Least({sig.qty, n}) = sig.qty
      BY <1>1, <2>1, LeastOfTwo
    <2> DEFINE o == [side |-> Opposite(sig.side), qty |-> sig.qty, opens |-> FALSE]
    <2>3. OrdersFor(a, sig, mins) = <<o>>
      BY <1>2, <2>2 DEF OrdersFor, HasPosition
    <2>4. o \in OrderRec /\ o.opens = FALSE /\ o.qty = sig.qty /\ o.side = Opposite(sig.side)
      BY <1>1, <2>1 DEF OrderRec, Opposite, Sides
    <2> HIDE DEF o
    <2>5. Suits(o, a.pos)
      BY <1>1, <2>1, <2>4 DEF Suits, Opposite, Sides
    <2> QED
      BY <2>3, <2>4, <2>5 DEF Pending
  <1>3. ASSUME sig.act = "open", CanOpen(a, mins), OrderQty(a, sig) > 0
        PROVE  Pending(OrdersFor(a, sig, mins), a.pos)
    <2>1. sig.side \in Sides /\ sig.qty = 1 /\ (n > 0 => sig.side = a.pos.side)
      BY <1>1, <1>3 DEF Signals, Signal, HasPosition, Sides
    <2>2. RemainingProfile(a) = Floor0(ProfileQty - n) /\ ProfileQty \in Nat /\ MaxContracts \in Nat
      BY Constants DEF RemainingProfile
    <2>3. RemainingProfile(a) \in Nat /\ (RemainingProfile(a) > 0 => n + RemainingProfile(a) <= ProfileQty)
      BY <1>1, <2>2 DEF Floor0
    <2>4. Addable(a) \in Nat /\ (Addable(a) > 0 => n + Addable(a) <= MaxContracts)
      BY AddableFits
    <2>5. OrderQty(a, sig) \in Nat \ {0} /\ OrderQty(a, sig) <= Addable(a) /\ OrderQty(a, sig) <= RemainingProfile(a)
      <3>1. CASE mode.strategy = "v1"
        <4>1. OrderQty(a, sig) = Least({Addable(a), RemainingProfile(a)})
          BY <3>1 DEF OrderQty
        <4> QED
          BY <1>3, <2>3, <2>4, <4>1, LeastOfTwo
      <3>2. CASE mode.strategy # "v1"
        BY <1>3, <2>1, <3>2, <2>3, <2>4 DEF OrderQty
      <3> QED
        BY <3>1, <3>2
    <2>6. n + OrderQty(a, sig) <= ProfileQty /\ n + OrderQty(a, sig) <= MaxContracts
      BY <1>1, <2>2, <2>3, <2>4, <2>5
    <2> DEFINE o == [side |-> sig.side, qty |-> OrderQty(a, sig), opens |-> TRUE]
    <2>7. OrdersFor(a, sig, mins) = <<o>>
      BY <1>3 DEF OrdersFor
    <2>8. o \in OrderRec /\ o.opens = TRUE /\ o.qty = OrderQty(a, sig) /\ o.side = sig.side
      BY <2>1, <2>5 DEF OrderRec
    <2> HIDE DEF o
    <2>9. Suits(o, a.pos)
      BY <1>1, <2>1, <2>6, <2>8 DEF Suits
    <2> QED
      BY <2>7, <2>8, <2>9 DEF Pending
  <1>4. ASSUME ~(sig.act = "close" /\ n > 0), ~(sig.act = "open" /\ CanOpen(a, mins) /\ OrderQty(a, sig) > 0)
        PROVE  OrdersFor(a, sig, mins) = <<>>
    BY <1>4 DEF OrdersFor, HasPosition
  <1> QED
    BY <1>2, <1>3, <1>4 DEF Pending

\* Without a position nothing is ordered once the session is about to close
LEMMA LateOrdersNothing ==
    ASSUME NEW a, a \in AccountRec, a.pos.qty = 0, NEW sig \in Signals(a), NEW mins \in Nat, mins <= FlattenMinutes
    PROVE  OrdersFor(a, sig, mins) = <<>>
  <1>1. ~CanOpen(a, mins)
    BY Constants DEF CanOpen, InTime
  <1>2. ~HasPosition(a)
    BY DEF HasPosition
  <1> QED
    BY <1>1, <1>2 DEF OrdersFor

-----------------------------------------------------------------------------
(* Every step keeps the invariant                                          *)

LEMMA PtInvInit == PtInit => PtInv
  <1> SUFFICES ASSUME PtInit PROVE PtInv
    OBVIOUS
  <1>1. PICK p \in Prices :
           account = [cash |-> StartingEquity, realized |-> 0, daily |-> 0, entryFee |-> 0,
                      peak |-> StartingEquity, drop |-> 0, cooldown |-> 0, mark |-> p, flow |-> 0,
                      pos |-> NoPosition]
    BY DEF PtInit
  <1>2. NoPosition \in PosRec /\ NoPosition.qty = 0 /\ NoPosition.cost = 0 /\ NoPosition.side = "buy"
    BY DEF NoPosition, PosRec, Sides
  <1>3. account \in AccountRec /\ account.pos = NoPosition
    BY <1>1, <1>2, Constants DEF AccountRec
  <1>4. AccountOK(account)
    <2>1. Sign("buy") * 0 * PointValue = 0 /\ FeePerSide * 0 = 0
      BY SignIs, Constants, Nothing DEF Sides
    <2>2. account.cash = StartingEquity /\ account.realized = 0 /\ account.entryFee = 0
          /\ account.peak = StartingEquity /\ account.drop = 0 /\ account.flow = 0
      BY <1>1
    <2> QED
      BY <1>2, <1>3, <2>1, <2>2, Constants DEF AccountOK, Booked, FeesOpen, Explained, EmptyIsFree, Marked
  <1>5. AtMostOne(orders) /\ Pending(orders, account.pos) /\ believed = SideOf(account.pos)
    BY <1>2, <1>3 DEF PtInit, AtMostOne, Pending, SideOf
  <1>6. mode \in ModeRec /\ clock \in [session : Nat, mins : Nat, bars : Nat]
    BY Constants DEF PtInit, ModeRec
  <1>7. FlatBeforeClose
    BY <1>2, <1>3 DEF FlatBeforeClose, HasPosition, PtInit
  <1> QED
    BY <1>4, <1>5, <1>6, <1>7 DEF PtInv

WithinLimits == ~(HasPosition(account) /\ (DailyLossReached(account) \/ DrawdownReached(account)))

\* What a decision over a settled pair leaves
LEMMA DecideKeeps ==
    ASSUME NEW s, AccountTold(s), NEW close \in Prices, NEW mins \in Nat, Decide(s, close, mins), UNCHANGED mode
    PROVE  /\ AccountOK(account') /\ Pending(orders', account'.pos) /\ believed' = SideOf(account'.pos)
           /\ mode.policy = "day_only" /\ mins <= FlattenMinutes => ~HasPosition(account') /\ orders' = <<>>
           /\ WithinLimits'
  <1>1. s.acc \in AccountRec /\ s.acc.pos.qty \in Nat
    BY AccountParts DEF AccountTold, AccountOK
  <1>2. CASE HasPosition(s.acc) /\ MustClose(s.acc, mins)
    <2> DEFINE f == Flattened(s, close)
    <2>1. account' = f.acc /\ believed' = f.bel /\ orders' = <<>>
      BY <1>2 DEF Decide
    <2>2. AccountTold(f) /\ f.acc.pos.qty = 0
      BY <1>2, FlattenedIsFlat DEF HasPosition
    <2> HIDE DEF f
    <2>3. AccountOK(account') /\ believed' = SideOf(account'.pos) /\ ~HasPosition(account')
      BY <2>1, <2>2 DEF AccountTold, HasPosition
    <2> QED
      BY <2>1, <2>3 DEF Pending, WithinLimits
  <1>3. CASE ~(HasPosition(s.acc) /\ MustClose(s.acc, mins))
    <2>1. PICK sig \in Signals(s.acc) : orders' = OrdersFor(s.acc, sig, mins)
      BY <1>3 DEF Decide
    <2>2. account' = s.acc /\ believed' = s.bel
      BY <1>3 DEF Decide
    <2>3. Pending(orders', account'.pos)
      BY <1>1, <2>1, <2>2, OrdersSuit
    <2>4. ASSUME mode.policy = "day_only", mins <= FlattenMinutes
          PROVE  ~HasPosition(account') /\ orders' = <<>>
      <3>1. ~HasPosition(s.acc)
        BY <1>3, <2>4 DEF MustClose
      <3>2. s.acc.pos.qty = 0
        BY <1>1, <3>1 DEF HasPosition
      <3> QED
        BY <1>1, <2>1, <2>2, <2>4, <3>1, <3>2, LateOrdersNothing
    <2>5. WithinLimits'
      BY <1>3, <2>2 DEF MustClose, WithinLimits
    <2> QED
      BY <2>2, <2>3, <2>4, <2>5 DEF AccountTold
  <1> QED
    BY <1>2, <1>3

LEMMA BarKeeps ==
    ASSUME PtInv, NEW open \in Prices, NEW close \in Prices, Bar(open, close)
    PROVE  PtInv' /\ WithinLimits'
  <1>1. mode.via # "ended" /\ UNCHANGED mode
    BY DEF Bar
  <1>2. PICK session \in clock.session..MaxSessions, mins \in 0..SessionMinutes, today \in BOOLEAN :
           /\ clock' = [session |-> session, mins |-> mins, bars |-> clock.bars + 1]
           /\ LET s == Matched([acc |-> IF today THEN account ELSE ResetDaily(account),
                                bel |-> believed], open)
              IN Decide([s EXCEPT !.acc = OnBar(s.acc, close, TRUE)], close, mins)
    BY DEF Bar
  <1> DEFINE s0 == [acc |-> IF today THEN account ELSE ResetDaily(account), bel |-> believed]
             s == Matched(s0, open)
             t == [s EXCEPT !.acc = OnBar(s.acc, close, TRUE)]
  <1>3. Decide(t, close, mins)
    BY <1>2
  <1>4. AccountTold(s0) /\ s0.acc.pos = account.pos
    <2>1. AccountOK(ResetDaily(account)) /\ ResetDaily(account).pos = account.pos
      BY ResetKeeps DEF PtInv
    <2> HIDE DEF ResetDaily
    <2> QED
      BY <2>1 DEF AccountTold, PtInv
  <1> HIDE DEF s0
  <1>5. AccountTold(s)
    BY <1>1, <1>4, MatchedKeeps DEF PtInv
  <1> HIDE DEF s
  <1>6. AccountTold(t)
    <2>1. AccountOK(OnBar(s.acc, close, TRUE)) /\ OnBar(s.acc, close, TRUE).pos = s.acc.pos
      BY <1>5, MarkKeeps DEF AccountTold
    <2> DEFINE a == OnBar(s.acc, close, TRUE)
    <2> HIDE DEF a
    <2>2. t = [acc |-> a, bel |-> s.bel]
      <3>1. PICK x, y : s = [acc |-> x, bel |-> y]
        BY <1>5 DEF AccountTold
      <3>2. s.bel = y
        BY <3>1
      <3>3. t = [s EXCEPT !.acc = a]
        BY DEF a
      <3> QED
        BY <3>1, <3>2, <3>3
    <2>3. t.acc = a /\ t.bel = s.bel
      BY <2>2
    <2> HIDE DEF t
    <2> QED
      BY <1>5, <2>1, <2>2, <2>3 DEF AccountTold, a
  <1> HIDE DEF t
  <1>7. clock \in [session : Nat, mins : Nat, bars : Nat] /\ mode \in ModeRec
    BY DEF PtInv
  <1>8. mins \in Nat /\ session \in Nat
    BY <1>7, Constants
  <1>9. clock' \in [session : Nat, mins : Nat, bars : Nat] /\ clock'.mins = mins
    BY <1>2, <1>7, <1>8
  <1>10. /\ AccountOK(account') /\ Pending(orders', account'.pos) /\ believed' = SideOf(account'.pos)
         /\ mode.policy = "day_only" /\ mins <= FlattenMinutes => ~HasPosition(account') /\ orders' = <<>>
         /\ WithinLimits'
    BY <1>1, <1>3, <1>6, <1>8, DecideKeeps
  <1>11. AtMostOne(orders')
    BY <1>10 DEF Pending, AtMostOne
  <1>12. FlatBeforeClose'
    BY <1>1, <1>9, <1>10 DEF FlatBeforeClose
  <1> QED
    BY <1>1, <1>7, <1>9, <1>10, <1>11, <1>12 DEF PtInv

LEMMA PartialBarKeeps ==
    ASSUME PtInv, NEW close \in Prices, PartialBar(close) PROVE PtInv'
  <1>1. account' = OnBar(account, close, FALSE) /\ UNCHANGED <<mode, orders, believed, clock>>
    BY DEF PartialBar
  <1>2. AccountOK(account') /\ account'.pos = account.pos
    BY <1>1, MarkKeeps DEF PtInv
  <1> QED
    BY <1>1, <1>2 DEF PtInv, FlatBeforeClose, HasPosition

LEMMA ReplayEndKeeps ==
    ASSUME PtInv, NEW close \in Prices, ReplayEnd(close) PROVE PtInv'
  <1>1. mode' = [mode EXCEPT !.via = "ended"] /\ UNCHANGED <<orders, clock>> /\ mode \in ModeRec
    BY DEF ReplayEnd, PtInv
  <1>2. mode' \in ModeRec /\ mode'.via = "ended" /\ mode'.policy = mode.policy
    BY <1>1 DEF ModeRec
  <1>3. AccountOK(account') /\ believed' = SideOf(account'.pos) /\ (~HasPosition(account) => ~HasPosition(account'))
    <2>1. CASE HasPosition(account) /\ mode.policy = "day_only"
      <3> DEFINE s == [acc |-> account, bel |-> believed]
                 f == Flattened(s, close)
      <3>1. account' = f.acc /\ believed' = f.bel
        BY <2>1 DEF ReplayEnd
      <3>2. AccountTold(s) /\ s.acc.pos.qty > 0
        BY <2>1 DEF AccountTold, PtInv, HasPosition
      <3> HIDE DEF s
      <3>3. AccountTold(f)
        BY <3>2, FlattenedIsFlat
      <3> HIDE DEF f
      <3> QED
        BY <2>1, <3>1, <3>3 DEF AccountTold
    <2>2. CASE ~(HasPosition(account) /\ mode.policy = "day_only")
      BY <2>2 DEF ReplayEnd, PtInv
    <2> QED
      BY <2>1, <2>2
  <1>4. FlatBeforeClose'
    BY <1>1, <1>2, <1>3 DEF PtInv, FlatBeforeClose
  <1> QED
    BY <1>1, <1>2, <1>3, <1>4 DEF PtInv

LEMMA PtInvNext == PtInv /\ [PtNext]_ptVars => PtInv'
  <1> SUFFICES ASSUME PtInv, [PtNext]_ptVars PROVE PtInv'
    OBVIOUS
  <1>1. CASE \E open, close \in Prices : Bar(open, close)
    BY <1>1, BarKeeps
  <1>2. CASE \E close \in Prices : PartialBar(close)
    BY <1>2, PartialBarKeeps
  <1>3. CASE \E close \in Prices : ReplayEnd(close)
    BY <1>3, ReplayEndKeeps
  <1>4. CASE UNCHANGED ptVars
    BY <1>4 DEF ptVars, PtInv, FlatBeforeClose, HasPosition
  <1> QED
    BY <1>1, <1>2, <1>3, <1>4 DEF PtNext

\* With the books in order, equity is what the fills and the last price make it
LEMMA BooksGiveEquity ==
    ASSUME NEW a, AccountOK(a)
    PROVE  Equity(a) = StartingEquity + a.flow + Sign(a.pos.side) * a.mark * a.pos.qty * PointValue
  <1> DEFINE s == Sign(a.pos.side)
  <1>1. a \in AccountRec
    BY DEF AccountOK
  <1>2. s \in {1, -1} /\ a.cash \in Int /\ a.flow \in Int /\ a.mark \in Int /\ a.pos.cost \in Int
        /\ a.pos.qty \in Nat /\ PointValue \in Int /\ StartingEquity \in Int
    BY <1>1, AccountParts, Constants
  <1>3. a.cash = StartingEquity + a.flow + s * a.pos.cost * PointValue
    BY DEF AccountOK, Booked
  <1>4. CASE a.pos.qty > 0
    <2>1. Equity(a) = a.cash + s * (a.mark * a.pos.qty - a.pos.cost) * PointValue
      BY <1>4 DEF Equity, HasPosition, Unrealized
    <2>2. \A z \in {1, -1} : \A m, q, c, v \in Int :
             z * (m * q - c) * v = z * m * q * v - z * c * v /\ z * m * q * v \in Int /\ z * c * v \in Int
      OBVIOUS
    <2> DEFINE y == s * a.pos.cost * PointValue
               x == s * a.mark * a.pos.qty * PointValue
               u == s * (a.mark * a.pos.qty - a.pos.cost) * PointValue
    <2>3. u = x - y /\ x \in Int /\ y \in Int
      BY <1>2, <2>2
    <2> HIDE DEF s, x, y, u
    <2>4. Equity(a) = a.cash + u /\ a.cash = StartingEquity + a.flow + y
      BY <1>3, <2>1 DEF u, y
    <2>5. Equity(a) = StartingEquity + a.flow + x
      BY <1>2, <2>3, <2>4
    <2> QED
      BY <2>5 DEF x, s
  <1>5. CASE a.pos.qty = 0
    <2>1. Equity(a) = a.cash
      BY <1>2, <1>5 DEF Equity, HasPosition
    <2>2. a.pos.cost = 0
      BY <1>5 DEF AccountOK, EmptyIsFree
    <2>3. \A z \in {1, -1} : \A m, v \in Int : z * m * 0 * v = 0 /\ z * 0 * v = 0
      OBVIOUS
    <2>4. s * a.mark * a.pos.qty * PointValue = 0 /\ s * a.pos.cost * PointValue = 0
      BY <1>2, <1>5, <2>2, <2>3
    <2> HIDE DEF s
    <2>5. Equity(a) = StartingEquity + a.flow + s * a.mark * a.pos.qty * PointValue
      BY <1>2, <1>3, <2>1, <2>4
    <2> QED
      BY <2>5 DEF s
  <1> QED
    BY <1>2, <1>4, <1>5

LEMMA PtInvImplies == PtInv => TradingSound
  <1> SUFFICES ASSUME PtInv PROVE TradingSound
    OBVIOUS
  <1>1. AccountOK(account) /\ account \in AccountRec
    BY DEF PtInv, AccountOK
  <1>2. ASSUME NEW o \in OrderRec
        PROVE  /\ <<o>> \in Seq(OrderRec) /\ Len(<<o>>) = 1 /\ DOMAIN <<o>> = {1} /\ <<o>>[1] = o
    OBVIOUS
  <1>3. orders \in Seq(OrderRec) /\ Len(orders) <= 1
    <2>1. CASE orders = <<>>
      BY <2>1
    <2>2. CASE \E o \in OrderRec : orders = <<o>>
      BY <1>2, <2>2
    <2> QED
      BY <2>1, <2>2 DEF PtInv, AtMostOne
  <1>4. PtTypeOK
    <2>1. /\ account.pos.side \in Sides /\ account.pos.qty \in Nat /\ account.cooldown \in 0..CooldownBars
          /\ account.mark \in Prices
      BY <1>1, AccountParts
    <2>2. account.peak >= StartingEquity /\ account.drop >= 0
      BY <1>1 DEF AccountOK, Marked
    <2>3. believed \in Sides \cup {"none"}
      BY <2>1 DEF PtInv, SideOf
    <2> QED
      BY <1>3, <2>1, <2>2, <2>3 DEF PtTypeOK, PtInv, ModeRec, OrderRec
  <1>5. LedgerAgrees
    BY <1>1, BooksGiveEquity DEF LedgerAgrees
  <1>6. CashExplained
    BY <1>1 DEF AccountOK, Explained, CashExplained
  <1>7. OrdersSuitPosition
    <2> SUFFICES ASSUME mode.via # "ended", NEW i \in DOMAIN orders, NEW o, o = orders[i]
                 PROVE  IF o.opens
                        THEN /\ HasPosition(account) => account.pos.side = o.side
                             /\ account.pos.qty + o.qty <= ProfileQty /\ account.pos.qty + o.qty <= MaxContracts
                        ELSE account.pos.side = Opposite(o.side) /\ o.qty <= account.pos.qty
      BY DEF OrdersSuitPosition
    <2>1. orders # <<>>
      OBVIOUS
    <2>2. PICK p \in OrderRec : orders = <<p>> /\ Suits(p, account.pos)
      BY <2>1 DEF PtInv, Pending
    <2>3. o = p
      BY <1>2, <2>2
    <2> QED
      BY <2>2, <2>3 DEF Suits, HasPosition
  <1>8. StrategyAgrees
    BY DEF PtInv, StrategyAgrees, SideOf, HasPosition
  <1>9. FlatBeforeClose
    BY DEF PtInv
  <1> QED
    BY <1>4, <1>5, <1>6, <1>7, <1>8, <1>9 DEF TradingSound

LEMMA PtInvHolds == PtSpec => []PtInv
  BY PtInvInit, PtInvNext, PTL DEF PtSpec

\* A paper trading run keeps exact books at any time: equity is what the fills paid and received
\* plus the open contracts at the last price, the cash is explained by the realised result and the
\* fees still open, a pending order suits the position it will meet, the strategy knows it, and a
\* day-only run goes into the close flat.
THEOREM TradingCorrect == PtSpec => []TradingSound
  BY PtInvHolds, PtInvImplies, PTL

\* No position outlives the complete bar at which a loss limit is reached.
THEOREM LimitsCorrect == PtSpec => LimitsEnforced
  <1>1. ASSUME PtInv, [PtNext]_ptVars
        PROVE  [clock'.bars # clock.bars =>
                  ~(HasPosition(account') /\ (DailyLossReached(account') \/ DrawdownReached(account')))]_ptVars
    <2>1. CASE \E open, close \in Prices : Bar(open, close)
      <3>1. WithinLimits'
        BY <1>1, <2>1, BarKeeps
      <3> QED
        BY <3>1 DEF WithinLimits
    <2>2. CASE \E close \in Prices : PartialBar(close) \/ ReplayEnd(close)
      BY <2>2 DEF PartialBar, ReplayEnd
    <2>3. CASE UNCHANGED ptVars
      BY <2>3
    <2> QED
      BY <1>1, <2>1, <2>2, <2>3 DEF PtNext
  <1> QED
    BY <1>1, PtInvHolds, PTL DEF PtSpec, LimitsEnforced

-----------------------------------------------------------------------------
(* The log of the syncs and its summary                                    *)

\* A set of naturals has a smallest
LEMMA SmallestExists ==
    ASSUME NEW S \in SUBSET Nat, S # {}
    PROVE  \E m \in S : \A n \in S : m <= n
<1>1. PICK m \in S : \A n \in S : ~ (<<n, m>> \in OpToRel(<, Nat))
  BY WFMin, NatLessThanWellFounded
<1>2. ASSUME NEW n \in S, n < m  PROVE FALSE
  BY <1>1, <1>2 DEF OpToRel
<1> QED
  <2>1. ASSUME NEW n \in S PROVE m <= n
    <3>1. m \in Nat /\ n \in Nat /\ ~(n < m)
      BY <1>2
    <3> QED  BY <3>1
  <2> QED  BY <2>1

-----------------------------------------------------------------------------
(* Entries and counts                                                      *)

Entry == [id : Nat, kind : Kinds]
Pairs(count) == UNION {{k} \X (1..count[k]) : k \in Kinds}
Counts(entries) == [k \in Kinds |-> OfKind(entries, k)]

\* A pair stands for one that was counted
LEMMA PairIn ==
    ASSUME NEW count, NEW x
    PROVE  x \in Pairs(count) <=> \E k \in Kinds : \E i \in 1..count[k] : x = <<k, i>>
  BY DEF Pairs

\* The counts of finitely many kinds have finitely many pairs
LEMMA PairsFinite ==
    ASSUME NEW count \in [Kinds -> Nat]
    PROVE  IsFiniteSet(Pairs(count)) /\ CountOf(count) \in Nat
<1> DEFINE f == [k \in Kinds |-> {k} \X (1..count[k])]
           parts == {{k} \X (1..count[k]) : k \in Kinds}
<1>1. f \in Surjection(Kinds, parts)
  BY DEF Surjection
<1>2. IsFiniteSet(parts)
  BY <1>1, FS_Surjection, SyncLogAssumption
<1>3. ASSUME NEW P \in parts PROVE IsFiniteSet(P)
  <2>1. PICK k \in Kinds : P = {k} \X (1..count[k])
    BY <1>3
  <2>2. IsFiniteSet({k}) /\ IsFiniteSet(1..count[k])
    <3>1. 1 \in Int /\ count[k] \in Int
      BY <2>1
    <3> QED  BY <3>1, FS_Singleton, FS_Interval
  <2> QED  BY <2>1, <2>2, FS_Product
<1>4. IsFiniteSet(UNION parts)
  BY <1>2, <1>3, FS_UNION
<1> QED  BY <1>4, FS_CardinalityType DEF Pairs, CountOf

\* A sum of counts is above zero if one of them is
LEMMA CountAboveZero ==
    ASSUME NEW count \in [Kinds -> Nat]
    PROVE  CountOf(count) > 0 <=> \E k \in Kinds : count[k] > 0
<1>1. IsFiniteSet(Pairs(count)) /\ CountOf(count) \in Nat /\ CountOf(count) = Cardinality(Pairs(count))
  BY PairsFinite DEF Pairs, CountOf
<1>2. CountOf(count) > 0 <=> Pairs(count) # {}
  BY <1>1, FS_EmptySet
<1>3. ASSUME NEW k \in Kinds, count[k] > 0  PROVE Pairs(count) # {}
  <2>1. 1 \in 1..count[k]
    BY <1>3
  <2> QED  BY <2>1, PairIn
<1>4. ASSUME NEW x \in Pairs(count)  PROVE \E k \in Kinds : count[k] > 0
  <2>0. PICK k \in Kinds : \E i \in 1..count[k] : x = <<k, i>>
    BY PairIn
  <2>1. PICK i \in 1..count[k] : x = <<k, i>>
    BY <2>0
  <2> QED  BY <2>1
<1> QED  BY <1>2, <1>3, <1>4

\* Counts that are nowhere below others and have the same sum are the same
LEMMA SameSum ==
    ASSUME NEW f \in [Kinds -> Nat], NEW g \in [Kinds -> Nat], \A k \in Kinds : g[k] <= f[k],
           CountOf(f) = CountOf(g)
    PROVE  f = g
<1>1. Pairs(g) \in SUBSET Pairs(f)
  <2> SUFFICES ASSUME NEW x \in Pairs(g) PROVE x \in Pairs(f)
    OBVIOUS
  <2>0. PICK k \in Kinds : \E i \in 1..g[k] : x = <<k, i>>
    BY PairIn
  <2>1. PICK i \in 1..g[k] : x = <<k, i>>
    BY <2>0
  <2>2. i \in 1..f[k]
    BY <2>1
  <2> QED  BY <2>1, <2>2, PairIn
<1>2. Pairs(f) = Pairs(g)
  BY <1>1, PairsFinite, FS_Subset DEF CountOf, Pairs
<1>3. ASSUME NEW k \in Kinds PROVE f[k] = g[k]
  <2> SUFFICES ASSUME g[k] < f[k] PROVE FALSE
    OBVIOUS
  <2>1. <<k, f[k]>> \in Pairs(f)
    <3>1. f[k] \in 1..f[k]
      OBVIOUS
    <3> QED  BY <3>1, PairIn
  <2>2a. PICK l \in Kinds : \E i \in 1..g[l] : <<k, f[k]>> = <<l, i>>
    BY <1>2, <2>1, PairIn
  <2>2. PICK i \in 1..g[l] : <<k, f[k]>> = <<l, i>>
    BY <2>2a
  <2> QED  BY <2>2
<1> QED  BY <1>3

\* Of finitely many entries some are of a kind, and one more is of its kind only
LEMMA OfKindFinite ==
    ASSUME NEW E \in SUBSET Entry, IsFiniteSet(E), NEW k
    PROVE  IsFiniteSet({e \in E : e.kind = k}) /\ OfKind(E, k) \in Nat
  BY FS_Subset, FS_CardinalityType DEF OfKind

LEMMA OneMoreOfKind ==
    ASSUME NEW E \in SUBSET Entry, IsFiniteSet(E), NEW x \in Entry \ E
    PROVE  \A k \in Kinds : OfKind(E \cup {x}, k) = IF k = x.kind THEN OfKind(E, k) + 1 ELSE OfKind(E, k)
<1> SUFFICES ASSUME NEW k \in Kinds
             PROVE  OfKind(E \cup {x}, k) = IF k = x.kind THEN OfKind(E, k) + 1 ELSE OfKind(E, k)
  OBVIOUS
<1> DEFINE S == {e \in E : e.kind = k}
<1>1. IsFiniteSet(S) /\ x \notin S
  BY OfKindFinite
<1>2. CASE k = x.kind
  <2>1. {e \in E \cup {x} : e.kind = k} = S \cup {x}
    BY <1>2
  <2> QED  BY <1>1, <1>2, <2>1, FS_AddElement DEF OfKind
<1>3. CASE k # x.kind
  <2>1. {e \in E \cup {x} : e.kind = k} = S
    BY <1>3
  <2> QED  BY <1>3, <2>1 DEF OfKind
<1> QED  BY <1>2, <1>3

\* Every entry is counted by its kind
LEMMA EntriesCounted ==
    ASSUME NEW E \in SUBSET Entry, IsFiniteSet(E)
    PROVE  Counts(E) \in [Kinds -> Nat] /\ CountOf(Counts(E)) = Cardinality(E)
<1>1. \A T \in SUBSET Entry : IsFiniteSet(T) => Counts(T) \in [Kinds -> Nat]
  BY OfKindFinite DEF Counts
<1> DEFINE Wrong(T) == IsFiniteSet(T) /\ CountOf(Counts(T)) # Cardinality(T)
           N == {n \in Nat : \E T \in SUBSET Entry : Wrong(T) /\ Cardinality(T) = n}
<1>2. ASSUME Wrong(E) PROVE FALSE
  <2>1. N \in SUBSET Nat /\ N # {}
    BY <1>2, FS_CardinalityType
  <2>2. PICK n \in N : \A m \in N : n <= m
    BY <2>1, SmallestExists
  <2>3. PICK T \in SUBSET Entry : Wrong(T) /\ Cardinality(T) = n
    BY <2>2
  <2>4. CASE T = {}
    <3>1. \A k \in Kinds : OfKind({}, k) = 0
      BY FS_EmptySet DEF OfKind
    <3>2. Counts({}) \in [Kinds -> Nat] /\ \A k \in Kinds : Counts({})[k] = 0
      BY <3>1 DEF Counts
    <3>3. CountOf(Counts({})) \in Nat /\ ~(CountOf(Counts({})) > 0)
      BY <3>2, PairsFinite, CountAboveZero
    <3> QED  BY <2>3, <2>4, <3>3, FS_EmptySet
  <2>5. CASE T # {}
    <3>1. PICK x \in T : TRUE
      BY <2>5
    <3> DEFINE U == T \ {x}
    <3>2. U \in SUBSET Entry /\ IsFiniteSet(U) /\ Cardinality(U) = n - 1 /\ n \in Nat /\ x \in Entry \ U
          /\ Cardinality(U) \in Nat /\ T = U \cup {x}
      BY <2>3, <3>1, FS_RemoveElement, FS_CardinalityType
    <3>3. CountOf(Counts(U)) = n - 1
      <4>1. n - 1 \notin N
        BY <2>2, <3>2
      <4> QED  BY <3>2, <4>1
    <3>4. Counts(U) \in [Kinds -> Nat] /\ Counts(T) \in [Kinds -> Nat]
          /\ x.kind \in Kinds /\ Counts(T)[x.kind] = Counts(U)[x.kind] + 1
          /\ \A k \in Kinds \ {x.kind} : Counts(T)[k] = Counts(U)[k]
      <4> HIDE DEF U
      <4>1. Counts(U) \in [Kinds -> Nat] /\ Counts(T) \in [Kinds -> Nat] /\ x.kind \in Kinds
        BY <1>1, <2>3, <3>2 DEF Entry
      <4>2. \A k \in Kinds : OfKind(T, k) = IF k = x.kind THEN OfKind(U, k) + 1 ELSE OfKind(U, k)
        BY <3>2, OneMoreOfKind
      <4>3. \A k \in Kinds : Counts(T)[k] = OfKind(T, k) /\ Counts(U)[k] = OfKind(U, k)
        BY DEF Counts
      <4> QED  BY <4>1, <4>2, <4>3
    <3> HIDE DEF U
    <3>5. PICK y : y = <<x.kind, Counts(T)[x.kind]>>
      OBVIOUS
    <3>6. Pairs(Counts(T)) = Pairs(Counts(U)) \cup {y}
      <4>1. ASSUME NEW z \in Pairs(Counts(T)) PROVE z \in Pairs(Counts(U)) \cup {y}
        <5>0. PICK k \in Kinds : \E i \in 1..Counts(T)[k] : z = <<k, i>>
          BY PairIn
        <5>1. PICK i \in 1..Counts(T)[k] : z = <<k, i>>
          BY <5>0
        <5>2. CASE k = x.kind /\ i = Counts(T)[x.kind]
          BY <3>5, <5>1, <5>2
        <5>3. CASE ~(k = x.kind /\ i = Counts(T)[x.kind])
          <6>1. i \in 1..Counts(U)[k]
            BY <3>4, <5>1, <5>3
          <6> QED  BY <5>1, <6>1, PairIn
        <5> QED  BY <5>2, <5>3
      <4>2. ASSUME NEW z \in Pairs(Counts(U)) PROVE z \in Pairs(Counts(T))
        <5>0. PICK k \in Kinds : \E i \in 1..Counts(U)[k] : z = <<k, i>>
          BY PairIn
        <5>1. PICK i \in 1..Counts(U)[k] : z = <<k, i>>
          BY <5>0
        <5>2. i \in 1..Counts(T)[k]
          BY <3>4, <5>1
        <5> QED  BY <5>1, <5>2, PairIn
      <4>3. y \in Pairs(Counts(T))
        <5>1. Counts(T)[x.kind] \in 1..Counts(T)[x.kind]
          BY <3>4
        <5> QED  BY <3>4, <3>5, <5>1, PairIn
      <4> QED  BY <4>1, <4>2, <4>3
    <3>7. y \notin Pairs(Counts(U))
      <4> SUFFICES ASSUME y \in Pairs(Counts(U)) PROVE FALSE
        OBVIOUS
      <4>0. PICK k \in Kinds : \E i \in 1..Counts(U)[k] : y = <<k, i>>
        BY PairIn
      <4>1. PICK i \in 1..Counts(U)[k] : y = <<k, i>>
        BY <4>0
      <4> QED  BY <3>4, <3>5, <4>1
    <3>8. Cardinality(Pairs(Counts(T))) = Cardinality(Pairs(Counts(U))) + 1
      <4>1. IsFiniteSet(Pairs(Counts(U)))
        BY <3>4, PairsFinite
      <4>2. PICK P : P = Pairs(Counts(U))
        OBVIOUS
      <4>3. Cardinality(P \cup {y}) = Cardinality(P) + 1
        BY <4>1, <4>2, <3>7, FS_AddElement
      <4> QED  BY <3>6, <4>2, <4>3
    <3>9. CountOf(Counts(T)) = CountOf(Counts(U)) + 1
      BY <3>8 DEF CountOf, Pairs
    <3> QED  BY <2>3, <3>2, <3>3, <3>9
  <2> QED  BY <2>4, <2>5
<1> QED  BY <1>1, <1>2

\* What a batch takes of a kind and what it leaves
LEMMA BatchTakes ==
    ASSUME NEW E \in SUBSET Entry, IsFiniteSet(E), NEW B \in SUBSET E
    PROVE  /\ IsFiniteSet(B) /\ IsFiniteSet(E \ B)
           /\ \A k \in Kinds : OfKind(E, k) = OfKind(B, k) + OfKind(E \ B, k)
                               /\ OfKind(B, k) \in Nat /\ OfKind(E \ B, k) \in Nat
<1>1. IsFiniteSet(B) /\ IsFiniteSet(E \ B)
  BY FS_Subset
<1>2. ASSUME NEW k \in Kinds
      PROVE  OfKind(E, k) = OfKind(B, k) + OfKind(E \ B, k) /\ OfKind(B, k) \in Nat /\ OfKind(E \ B, k) \in Nat
  <2> DEFINE S == {e \in E : e.kind = k}
             T == {e \in B : e.kind = k}
             U == {e \in E \ B : e.kind = k}
  <2>1. IsFiniteSet(S) /\ IsFiniteSet(T) /\ IsFiniteSet(U) /\ S \ T = U /\ S \cap T = T
    BY <1>1, FS_Subset
  <2> HIDE DEF S, T, U
  <2>2. Cardinality(U) = Cardinality(S) - Cardinality(T)
    <3>1. Cardinality(S \ T) = Cardinality(S) - Cardinality(S \cap T)
      BY <2>1, FS_Difference
    <3> QED  BY <2>1, <3>1
  <2>3. Cardinality(S) \in Nat /\ Cardinality(T) \in Nat /\ Cardinality(U) \in Nat
    BY <2>1, FS_CardinalityType
  <2>4. Cardinality(S) = Cardinality(T) + Cardinality(U)
    BY <2>2, <2>3
  <2> QED  BY <2>3, <2>4 DEF OfKind, S, T, U
<1> QED  BY <1>1, <1>2

\* A batch has one entry at least
LEMMA BatchNotEmpty ==
    ASSUME NEW E \in SUBSET Entry, E # {}
    PROVE  FirstEntries(E) # {}
<1> DEFINE numbers == {e.id : e \in E}
<1>1. numbers \in SUBSET Nat /\ numbers # {}
  BY DEF Entry
<1>2. PICK n \in numbers : \A m \in numbers : n <= m
  BY <1>1, SmallestExists
<1>3. PICK e \in E : e.id = n
  BY <1>2
<1>4. {f \in E : f.id < e.id} = {}
  <2> SUFFICES ASSUME NEW f \in E, f.id < e.id PROVE FALSE
    OBVIOUS
  <2>1. f.id \in Nat /\ e.id \in Nat /\ e.id <= f.id
    BY <1>2, <1>3 DEF Entry
  <2> QED  BY <2>1
<1>5. Cardinality({f \in E : f.id < e.id}) < BatchSize
  <2>1. BatchSize \in Nat /\ 0 < BatchSize
    BY SyncLogAssumption
  <2>2. Cardinality({f \in E : f.id < e.id}) = 0
    BY <1>4, FS_EmptySet
  <2> QED  BY <2>1, <2>2
<1> QED  BY <1>3, <1>5 DEF FirstEntries

-----------------------------------------------------------------------------
(* The log: the invariant                                                  *)

CleanPcs == {"starting", "recounting", "deleting", "recording"}
RunRec == [pc : {"idle", "summing"} \cup CleanPcs, day : Nat, first : BOOLEAN]
CountRec == [Kinds -> Nat]

Gone(d) == CountOf(deleted[d]) > 0
Accounted(d) == \A k \in Kinds : summary[d][k] = deleted[d][k] + Logged(d, k)

SlTyped ==
    /\ date \in 1..MaxLogDay /\ lastId \in 0..MaxLogged
    /\ syncLog \in [Dates -> SUBSET [id : 1..lastId, kind : Kinds]]
    /\ \A d \in Dates : IsFiniteSet(syncLog[d])
    /\ summary \in [Dates -> CountRec] /\ deleted \in [Dates -> CountRec]
    /\ stamped \in [Dates -> 0..MaxLogDay]
    /\ executed \subseteq Dates /\ recounted \subseteq Dates
    /\ run \in [LogOperators -> RunRec]

\* Entries are of no later day, and none goes before its day is over; a summary is of its day or
\* later; and a clean-up that is recorded has deleted something
DayInv(d) ==
    /\ syncLog[d] # {} => d <= date
    /\ Gone(d) => d < date /\ (d \in recounted \/ Accounted(d))
    /\ stamped[d] > 0 => d <= stamped[d]
    /\ d \in executed => Gone(d)

\* Who is about to delete has entries that the summary counts, or the day was summarised again
RunInv(r) ==
    /\ r.pc = "summing" => r.day \in Dates /\ r.day <= date
    /\ r.pc \in CleanPcs => r.day \in Dates /\ r.day < date /\ (syncLog[r.day] # {} \/ Gone(r.day))
    /\ r.pc = "recounting" => r.first
    /\ r.pc = "deleting" => r.day \in recounted \/ Accounted(r.day)
    /\ r.pc = "recording" => Gone(r.day)

SlInv ==
    /\ SlTyped
    /\ \A d \in Dates : DayInv(d)
    /\ \A o \in LogOperators : RunInv(run[o])

-----------------------------------------------------------------------------
(* What a day's entries are                                                *)

\* What is known of the entries and the counts of a day
LEMMA OfDay ==
    ASSUME SlTyped, NEW d \in Dates
    PROVE  /\ syncLog[d] \in SUBSET Entry /\ IsFiniteSet(syncLog[d]) /\ LoggedOn(d) \in Nat
           /\ LoggedOn(d) > 0 <=> syncLog[d] # {}
           /\ summary[d] \in CountRec /\ deleted[d] \in CountRec
           /\ \A k \in Kinds : Logged(d, k) \in Nat /\ summary[d][k] \in Nat /\ deleted[d][k] \in Nat
<1>1. syncLog[d] \in SUBSET Entry /\ IsFiniteSet(syncLog[d])
  <2> SUFFICES ASSUME NEW e \in syncLog[d] PROVE e \in Entry
    BY DEF SlTyped
  <2>1. e \in [id : 1..lastId, kind : Kinds]
    BY DEF SlTyped
  <2>2. PICK i \in 1..lastId : \E k \in Kinds : e = [id |-> i, kind |-> k]
    BY <2>1
  <2>3. PICK k \in Kinds : e = [id |-> i, kind |-> k]
    BY <2>2
  <2>4. i \in Nat
    BY DEF SlTyped
  <2> QED  BY <2>3, <2>4 DEF Entry
<1>2. LoggedOn(d) \in Nat /\ (LoggedOn(d) > 0 <=> syncLog[d] # {})
  BY <1>1, FS_CardinalityType, FS_EmptySet DEF LoggedOn
<1>3. \A k \in Kinds : Logged(d, k) \in Nat
  BY <1>1, OfKindFinite DEF Logged
<1> QED  BY <1>1, <1>2, <1>3 DEF SlTyped, CountRec

\* Nothing is gone of a day when nothing of it was deleted
LEMMA NothingGone ==
    ASSUME SlTyped, NEW d \in Dates
    PROVE  Gone(d) <=> \E k \in Kinds : deleted[d][k] > 0
  BY OfDay, CountAboveZero DEF Gone, CountRec

\* A summary that agrees with the entries counts them, kind by kind
LEMMA AgreesIsLogged ==
    ASSUME SlTyped, NEW d \in Dates
    PROVE  /\ Summed(d) \in CountRec
           /\ Agrees(d) => \A k \in Kinds : Summed(d)[k] = Logged(d, k)
           /\ (~Gone(d) /\ Accounted(d)) => Summed(d) = summary[d]
<1>1. Summed(d) \in CountRec
  BY OfDay DEF Summed, CountRec
<1>2. ASSUME Agrees(d) PROVE \A k \in Kinds : Summed(d)[k] = Logged(d, k)
  <2> DEFINE c == Counts(syncLog[d])
  <2>1. c \in [Kinds -> Nat] /\ CountOf(c) = LoggedOn(d) /\ \A k \in Kinds : c[k] = Logged(d, k)
    BY OfDay, EntriesCounted DEF Counts, Logged, LoggedOn
  <2>2. \A k \in Kinds : c[k] <= Summed(d)[k]
    BY <2>1, OfDay DEF Summed
  <2>3. CountOf(Summed(d)) = CountOf(c)
    BY <1>2, <2>1 DEF Agrees
  <2> HIDE DEF c
  <2>4. Summed(d) = c
    BY <1>1, <2>1, <2>2, <2>3, SameSum DEF CountRec
  <2> QED  BY <2>1, <2>4
<1>3. ASSUME ~Gone(d), Accounted(d) PROVE Summed(d) = summary[d]
  <2>1. ASSUME NEW k \in Kinds PROVE Summed(d)[k] = summary[d][k]
    BY <1>3, OfDay, NothingGone DEF Summed, Accounted
  <2> QED  BY <1>1, <2>1, OfDay DEF CountRec
<1> QED  BY <1>1, <1>2, <1>3

-----------------------------------------------------------------------------
(* The log: the actions                                                    *)

\* Counts that are stored leave the other days alone; of the day itself they count what there is,
\* unless they count the same as before or something is gone
LEMMA StoresKeeps ==
    ASSUME SlInv, NEW d \in Dates, d <= date, StoresCounts(d), UNCHANGED <<date, syncLog, deleted, executed>>,
           recounted \subseteq recounted', Gone(d) => d \in recounted'
    PROVE  /\ summary' \in [Dates -> CountRec] /\ stamped' \in [Dates -> 0..MaxLogDay]
           /\ \A c \in Dates : DayInv(c)'
           /\ \A c \in Dates : (c \in recounted \/ Accounted(c)) => (c \in recounted' \/ Accounted(c)')
           /\ Agrees(d) => (d \in recounted' \/ Accounted(d)')
<1>0. SlTyped /\ \A c \in Dates : DayInv(c)
  BY DEF SlInv
<1>1. PICK s : s = Summed(d)
  OBVIOUS
<1>2. s \in CountRec /\ (Agrees(d) => \A k \in Kinds : s[k] = Logged(d, k))
      /\ ((~Gone(d) /\ Accounted(d)) => s = summary[d])
  BY <1>0, <1>1, AgreesIsLogged
<1>3. summary' = [summary EXCEPT ![d] = s]
      /\ stamped' = IF s = summary[d] THEN stamped ELSE [stamped EXCEPT ![d] = date]
  BY <1>1 DEF StoresCounts
<1>4. summary' \in [Dates -> CountRec] /\ summary'[d] = s /\ \A c \in Dates \ {d} : summary'[c] = summary[c]
  BY <1>0, <1>2, <1>3 DEF SlTyped
<1>5. stamped' \in [Dates -> 0..MaxLogDay] /\ \A c \in Dates : stamped'[c] = stamped[c] \/ (c = d /\ stamped'[c] = date)
  <2>1. date \in 0..MaxLogDay
    BY <1>0, SyncLogAssumption DEF SlTyped
  <2> QED  BY <1>0, <1>3, <2>1 DEF SlTyped
<1>6. \A c \in Dates : (Gone(c)' <=> Gone(c)) /\ \A k \in Kinds : Logged(c, k)' = Logged(c, k)
  BY DEF Gone, Logged
<1>7. \A c \in Dates \ {d} : Accounted(c) => Accounted(c)'
  BY <1>4, <1>6 DEF Accounted
<1>8. ~Gone(d) => \A k \in Kinds : deleted[d][k] = 0
  BY <1>0, NothingGone, OfDay
<1>9. (d \in recounted \/ Accounted(d)) => (d \in recounted' \/ Accounted(d)')
  <2>1. ASSUME ~Gone(d), Accounted(d) PROVE Accounted(d)'
    <3>1. summary'[d] = summary[d]
      BY <1>2, <1>4, <2>1
    <3> QED  BY <1>6, <2>1, <3>1 DEF Accounted
  <2> QED  BY <2>1
<1>10. Agrees(d) => (d \in recounted' \/ Accounted(d)')
  <2>1. ASSUME ~Gone(d), Agrees(d) PROVE Accounted(d)'
    <3>1. \A k \in Kinds : summary'[d][k] = Logged(d, k) /\ Logged(d, k) \in Nat /\ deleted[d][k] = 0
      BY <1>0, <1>2, <1>4, <1>8, <2>1, OfDay
    <3> QED  BY <1>6, <3>1 DEF Accounted
  <2> QED  BY <2>1
<1>11. ASSUME NEW c \in Dates PROVE DayInv(c)'
  <2>1. c \in recounted \/ Accounted(c) => c \in recounted' \/ Accounted(c)'
    BY <1>7, <1>9
  <2>2. stamped'[c] > 0 => c <= stamped'[c]
    BY <1>0, <1>5 DEF DayInv
  <2> QED  BY <1>0, <1>6, <2>1, <2>2 DEF DayInv
<1> QED  BY <1>4, <1>5, <1>7, <1>9, <1>10, <1>11

\* A call goes on to what the invariant allows, and nothing else changes but who is recorded
LEMMA RunGoesOn ==
    ASSUME SlInv, NEW o \in LogOperators, NEW r \in RunRec, Runs(o, r), RunInv(r),
           UNCHANGED <<date, syncLog, lastId, summary, stamped, deleted, recounted>>,
           executed' \subseteq Dates, \A d \in executed' : Gone(d)
    PROVE  SlInv'
<1>1. SlTyped'
  BY DEF SlInv, SlTyped, Runs
<1>2. \A d \in Dates : DayInv(d)'
  BY DEF SlInv, DayInv, Gone, Accounted, Logged
<1>3. \A c : RunInv(c) => RunInv(c)'
  BY DEF RunInv, Gone, Accounted, Logged
<1>4. ASSUME NEW p \in LogOperators PROVE RunInv(run[p])'
  <2>1. run'[p] = r \/ run'[p] = run[p]
    BY DEF Runs, SlInv, SlTyped
  <2>2. RunInv(run[p])
    BY DEF SlInv
  <2> QED  BY <1>3, <2>1, <2>2
<1> QED  BY <1>1, <1>2, <1>4 DEF SlInv

\* The least of some days is one of them
LEMMA LeastDay ==
    ASSUME NEW S \in SUBSET Dates, S # {}
    PROVE  Least(S) \in S
<1>1. S \in SUBSET Nat
  BY DEF Dates
<1> QED  BY <1>1, SmallestExists DEF Least

\* A call begins, looks up what was recorded, records its batch, or dies
LEMMA CallsKeep ==
    ASSUME SlInv, NEW o \in LogOperators,
           StartSummary(o) \/ StartBatch(o) \/ LookUpExecution(o) \/ RecordRun(o) \/ RunDies(o)
    PROVE  SlInv'
<1>0. SlTyped /\ (\A d \in Dates : DayInv(d)) /\ RunInv(run[o]) /\ run[o] \in RunRec
  BY DEF SlInv, SlTyped
<1>1. NoRun \in RunRec /\ RunInv(NoRun)
  BY DEF NoRun, RunRec, RunInv, CleanPcs
<1>2. executed \subseteq Dates /\ \A d \in executed : Gone(d)
  BY <1>0 DEF SlTyped, DayInv
<1>3. CASE StartSummary(o)
  <2>1. PICK d : d = Least(ToSummarize)
    OBVIOUS
  <2>2. d \in ToSummarize
    BY <1>3, <2>1, LeastDay DEF StartSummary, ToSummarize
  <2>3. d \in Dates /\ d \in Nat /\ syncLog[d] # {} /\ d <= date
    BY <1>0, <2>2, OfDay DEF ToSummarize, DayInv, Dates
  <2>4. PICK r : r = [NoRun EXCEPT !.pc = "summing", !.day = d]
    OBVIOUS
  <2>5. r \in RunRec /\ RunInv(r)
    BY <2>3, <2>4 DEF NoRun, RunRec, RunInv, CleanPcs
  <2> QED  BY <1>2, <1>3, <2>1, <2>4, <2>5, RunGoesOn DEF StartSummary
<1>4. CASE StartBatch(o)
  <2>1. PICK d : d = Least(ToClean)
    OBVIOUS
  <2>2. d \in ToClean
    BY <1>4, <2>1, LeastDay DEF StartBatch, ToClean
  <2>3. d \in Dates /\ d \in Nat /\ syncLog[d] # {} /\ d < date
    <3>1. d \in Dates /\ d \in Nat /\ LoggedOn(d) > 0 /\ stamped[d] > 0 /\ stamped[d] + LogGrace <= date
      BY <2>2 DEF ToClean, Dates
    <3>2. d <= stamped[d] /\ syncLog[d] # {}
      BY <1>0, <3>1, OfDay DEF DayInv
    <3>3. stamped[d] \in Nat /\ LogGrace \in Nat /\ LogGrace > 0 /\ date \in Nat
      BY <1>0, <3>1, SyncLogAssumption DEF SlTyped
    <3> QED  BY <3>1, <3>2, <3>3
  <2>4. PICK r : r = [NoRun EXCEPT !.pc = "starting", !.day = d]
    OBVIOUS
  <2>5. r \in RunRec /\ RunInv(r)
    BY <2>3, <2>4 DEF NoRun, RunRec, RunInv, CleanPcs
  <2> QED  BY <1>2, <1>4, <2>1, <2>4, <2>5, RunGoesOn DEF StartBatch
<1>5. CASE LookUpExecution(o)
  <2>1. PICK first \in BOOLEAN : first = (run[o].day \notin executed)
    OBVIOUS
  <2>2. PICK r : r = [run[o] EXCEPT !.pc = IF HasExecution(run[o].day) THEN "deleting" ELSE "recounting",
                                   !.first = first]
    OBVIOUS
  <2>3. Runs(o, r)
    BY <1>5, <2>1, <2>2 DEF LookUpExecution
  <2>4. /\ run[o].pc = "starting" /\ r.day = run[o].day /\ r.first = first
        /\ r.pc = IF HasExecution(run[o].day) THEN "deleting" ELSE "recounting"
        /\ r \in RunRec
    BY <1>0, <1>5, <2>2 DEF LookUpExecution, RunRec, CleanPcs
  <2>5. RunInv(r)
    BY <1>0, <1>2, <2>1, <2>4 DEF RunInv, CleanPcs, HasExecution, DayInv
  <2> QED  BY <1>2, <1>5, <2>3, <2>4, <2>5, RunGoesOn DEF LookUpExecution
<1>6. CASE RecordRun(o)
  <2>1. run[o].day \in Dates /\ Gone(run[o].day)
    BY <1>0, <1>6 DEF RecordRun, RunInv, CleanPcs
  <2> QED  BY <1>1, <1>2, <1>6, <2>1, RunGoesOn DEF RecordRun
<1>7. CASE RunDies(o)
  BY <1>1, <1>2, <1>7, RunGoesOn DEF RunDies
<1> QED  BY <1>3, <1>4, <1>5, <1>6, <1>7

\* A day is summarised, by a summary or by a clean-up
LEMMA SummariesKeep ==
    ASSUME SlInv, NEW o \in LogOperators, Summarize(o) \/ Recount(o)
    PROVE  SlInv'
<1>0. SlTyped /\ (\A d \in Dates : DayInv(d)) /\ RunInv(run[o]) /\ run[o] \in RunRec
  BY DEF SlInv, SlTyped
<1>1. NoRun \in RunRec /\ RunInv(NoRun) /\ RunInv(NoRun)'
  BY DEF NoRun, RunRec, RunInv, CleanPcs
<1>2. PICK d : d = run[o].day
  OBVIOUS
<1>3. d \in Dates /\ d <= date
  BY <1>0, <1>2 DEF Summarize, Recount, RunInv, CleanPcs, SlTyped, Dates
<1>4. CASE Summarize(o) /\ ~Agrees(d)
  <2>1. UNCHANGED <<summary, stamped, recounted>> /\ Runs(o, NoRun)
    BY <1>2, <1>4 DEF Summarize
  <2>2. executed' = executed /\ executed \subseteq Dates /\ \A c \in executed : Gone(c)
    BY <1>0, <1>4 DEF Summarize, SlTyped, DayInv
  <2> QED  BY <1>1, <1>4, <2>1, <2>2, RunGoesOn DEF Summarize
<1>5. CASE Recount(o) \/ Agrees(d)
  <2>1. StoresCounts(d) /\ UNCHANGED <<date, syncLog, lastId, deleted, dryRuns, executed>>
    BY <1>2, <1>5 DEF Summarize, Recount
  <2>2. recounted' \subseteq Dates /\ recounted \subseteq recounted' /\ (Gone(d) => d \in recounted')
    BY <1>0, <1>2, <1>3, <1>5 DEF Summarize, Recount, RunInv, Gone, SlTyped
  <2>3. /\ summary' \in [Dates -> CountRec] /\ stamped' \in [Dates -> 0..MaxLogDay]
        /\ \A c \in Dates : DayInv(c)'
        /\ \A c \in Dates : (c \in recounted \/ Accounted(c)) => (c \in recounted' \/ Accounted(c)')
        /\ Agrees(d) => (d \in recounted' \/ Accounted(d)')
    BY <1>3, <2>1, <2>2, StoresKeeps
  <2>4. \A r : RunInv(r) => RunInv(r)'
    BY <2>1, <2>3 DEF RunInv, Gone, CleanPcs
  <2>5. PICK r \in RunRec : Runs(o, r) /\ RunInv(r)'
    <3>1. CASE Runs(o, NoRun)
      BY <1>1, <3>1
    <3>2. CASE ~Runs(o, NoRun)
      <4>1. run[o].pc = "recounting" /\ Agrees(d) /\ Runs(o, [run[o] EXCEPT !.pc = "deleting"])
        BY <1>2, <3>2 DEF Summarize, Recount
      <4>2. PICK r : r = [run[o] EXCEPT !.pc = "deleting"]
        OBVIOUS
      <4>3. r \in RunRec /\ r.pc = "deleting" /\ r.day = d
        BY <1>0, <1>2, <4>2 DEF RunRec, CleanPcs
      <4>4. RunInv(r)'
        <5>1. d < date /\ (syncLog[d] # {} \/ Gone(d))
          BY <1>0, <1>2, <4>1 DEF RunInv, CleanPcs
        <5> QED  BY <1>3, <2>1, <2>3, <4>1, <4>3, <5>1 DEF RunInv, CleanPcs, Gone
      <4> QED  BY <4>1, <4>2, <4>3, <4>4
    <3> QED  BY <3>1, <3>2
  <2>6. SlTyped'
    BY <1>0, <2>1, <2>2, <2>3, <2>5 DEF SlTyped, Runs
  <2>7. ASSUME NEW p \in LogOperators PROVE RunInv(run[p])'
    <3>1. run'[p] = r \/ run'[p] = run[p]
      BY <1>0, <2>5 DEF Runs, SlTyped
    <3>2. RunInv(run[p])
      BY DEF SlInv
    <3> QED  BY <2>4, <2>5, <3>1, <3>2
  <2> QED  BY <2>3, <2>6, <2>7 DEF SlInv
<1> QED  BY <1>4, <1>5

\* A batch is deleted
LEMMA DeleteKeeps ==
    ASSUME SlInv, NEW o \in LogOperators, DeleteBatch(o)
    PROVE  SlInv'
<1>0. SlTyped /\ (\A d \in Dates : DayInv(d)) /\ RunInv(run[o]) /\ run[o] \in RunRec
  BY DEF SlInv, SlTyped
<1>1. PICK d : d = run[o].day
  OBVIOUS
<1>2. d \in Dates /\ d < date /\ (syncLog[d] # {} \/ Gone(d)) /\ (d \in recounted \/ Accounted(d))
  BY <1>0, <1>1 DEF DeleteBatch, RunInv, CleanPcs
<1>3. PICK batch : batch = FirstEntries(syncLog[d])
  OBVIOUS
<1>4. PICK taken : taken = [k \in Kinds |-> OfKind(batch, k)]
  OBVIOUS
<1>5. batch \in SUBSET syncLog[d] /\ (syncLog[d] # {} => batch # {})
  BY <1>0, <1>2, <1>3, OfDay, BatchNotEmpty DEF FirstEntries
<1>6. /\ IsFiniteSet(batch) /\ IsFiniteSet(syncLog[d] \ batch) /\ taken \in CountRec
      /\ \A k \in Kinds : /\ Logged(d, k) = taken[k] + OfKind(syncLog[d] \ batch, k)
                           /\ OfKind(syncLog[d] \ batch, k) \in Nat /\ taken[k] \in Nat
  <2>1. PICK E : E = syncLog[d]
    OBVIOUS
  <2>2. E \in SUBSET Entry /\ IsFiniteSet(E) /\ batch \in SUBSET E
    BY <1>0, <1>2, <1>5, <2>1, OfDay
  <2>3. /\ IsFiniteSet(batch) /\ IsFiniteSet(E \ batch)
        /\ \A k \in Kinds : /\ OfKind(E, k) = OfKind(batch, k) + OfKind(E \ batch, k)
                             /\ OfKind(batch, k) \in Nat /\ OfKind(E \ batch, k) \in Nat
    BY <2>2, BatchTakes
  <2>4. taken \in CountRec /\ \A k \in Kinds : taken[k] = OfKind(batch, k) /\ Logged(d, k) = OfKind(E, k)
    BY <1>4, <2>1, <2>3 DEF CountRec, Logged
  <2> QED  BY <2>1, <2>3, <2>4
<1>7. /\ syncLog' = [syncLog EXCEPT ![d] = syncLog[d] \ batch]
      /\ UNCHANGED <<date, lastId, summary, stamped, dryRuns, executed, recounted>>
  BY <1>1, <1>3 DEF DeleteBatch
<1>8. deleted' = [deleted EXCEPT ![d] = [k \in Kinds |-> deleted[d][k] + taken[k]]]
  BY <1>1, <1>3, <1>4 DEF DeleteBatch
<1>9. /\ deleted' \in [Dates -> CountRec] /\ \A c \in Dates \ {d} : deleted'[c] = deleted[c]
      /\ \A k \in Kinds : deleted'[d][k] = deleted[d][k] + taken[k]
  <2>1. PICK gone : gone = [k \in Kinds |-> deleted[d][k] + taken[k]]
    OBVIOUS
  <2>2. gone \in CountRec /\ \A k \in Kinds : gone[k] = deleted[d][k] + taken[k]
    BY <1>0, <1>2, <1>6, <2>1, OfDay DEF CountRec
  <2> QED  BY <1>0, <1>2, <1>8, <2>1, <2>2 DEF SlTyped
<1>10. /\ syncLog' \in [Dates -> SUBSET [id : 1..lastId, kind : Kinds]]
       /\ \A c \in Dates \ {d} : syncLog'[c] = syncLog[c]
       /\ syncLog'[d] = syncLog[d] \ batch /\ \A c \in Dates : IsFiniteSet(syncLog'[c])
  BY <1>0, <1>2, <1>6, <1>7 DEF SlTyped
<1>11. \E r \in RunRec : Runs(o, r) /\ r.pc = "recording" /\ r.day = d
  <2>1. PICK r : r = [run[o] EXCEPT !.pc = "recording"]
    OBVIOUS
  <2> QED  BY <1>0, <1>1, <2>1 DEF DeleteBatch, RunRec, CleanPcs
<1>12. PICK r \in RunRec : Runs(o, r) /\ r.pc = "recording" /\ r.day = d
  BY <1>11
<1>13. SlTyped'
  BY <1>0, <1>7, <1>9, <1>10, <1>12 DEF SlTyped, Runs
<1>14. \A c \in Dates : Accounted(c) => Accounted(c)'
  <2>1. ASSUME NEW c \in Dates \ {d}, Accounted(c) PROVE Accounted(c)'
    BY <1>7, <1>9, <1>10, <2>1 DEF Accounted, Logged
  <2>2. ASSUME Accounted(d) PROVE Accounted(d)'
    <3>1. ASSUME NEW k \in Kinds PROVE summary[d][k] = deleted'[d][k] + OfKind(syncLog'[d], k)
      <4>1. summary[d][k] = deleted[d][k] + Logged(d, k) /\ summary[d][k] \in Nat /\ deleted[d][k] \in Nat
        BY <1>0, <1>2, <2>2, OfDay DEF Accounted
      <4>2. Logged(d, k) = taken[k] + OfKind(syncLog'[d], k) /\ OfKind(syncLog'[d], k) \in Nat /\ taken[k] \in Nat
        BY <1>6, <1>10
      <4>3. deleted'[d][k] = deleted[d][k] + taken[k]
        BY <1>9
      <4> QED  BY <4>1, <4>2, <4>3
    <3> QED  BY <1>7, <3>1 DEF Accounted, Logged
  <2> QED  BY <2>1, <2>2
<1>15. \A c \in Dates \ {d} : Gone(c)' <=> Gone(c)
  BY <1>9 DEF Gone
<1>16. Gone(d)'
  <2>0. deleted'[d] \in CountRec /\ (Gone(d)' <=> \E k \in Kinds : deleted'[d][k] > 0)
    BY <1>2, <1>9, CountAboveZero DEF Gone, CountRec
  <2>1. CASE Gone(d)
    <3>1. PICK k \in Kinds : deleted[d][k] > 0
      BY <1>0, <1>2, <2>1, NothingGone
    <3>2. deleted'[d][k] > 0
      BY <1>0, <1>2, <1>6, <1>9, <3>1, OfDay
    <3> QED  BY <2>0, <3>2
  <2>2. CASE ~Gone(d)
    <3>1. PICK e \in batch : e.kind \in Kinds
      BY <1>0, <1>2, <1>5, <2>2, OfDay DEF Entry
    <3>2. IsFiniteSet({f \in batch : f.kind = e.kind}) /\ {f \in batch : f.kind = e.kind} # {}
      BY <1>6, <3>1, FS_Subset
    <3>3. taken[e.kind] > 0
      <4>1. taken[e.kind] = Cardinality({f \in batch : f.kind = e.kind})
        BY <1>4, <3>1 DEF OfKind
      <4>2. taken[e.kind] \in Nat /\ taken[e.kind] # 0
        BY <3>2, <4>1, FS_EmptySet, FS_CardinalityType
      <4> QED  BY <4>2
    <3>4. deleted'[d][e.kind] > 0
      BY <1>0, <1>2, <1>6, <1>9, <3>1, <3>3, OfDay
    <3> QED  BY <2>0, <3>1, <3>4
  <2> QED  BY <2>1, <2>2
<1>17. ASSUME NEW c \in Dates PROVE DayInv(c)'
  <2>1. DayInv(c)
    BY <1>0
  <2>2. CASE c = d
    BY <1>2, <1>7, <1>10, <1>14, <1>16, <2>1, <2>2 DEF DayInv
  <2>3. CASE c # d
    BY <1>7, <1>10, <1>14, <1>15, <2>1, <2>3 DEF DayInv
  <2> QED  BY <2>2, <2>3
<1>18. \A c \in Dates : Gone(c) => Gone(c)'
  BY <1>15, <1>16
<1>19. ASSUME NEW p \in LogOperators PROVE RunInv(run[p])'
  <2>1. CASE p = o
    <3>1. run'[p] = r
      BY <1>0, <1>12, <2>1 DEF Runs, SlTyped
    <3> QED  BY <1>2, <1>7, <1>12, <1>16, <3>1 DEF RunInv, CleanPcs
  <2>2. CASE p # o
    <3>1. run'[p] = run[p] /\ RunInv(run[p])
      BY <1>0, <1>12, <2>2 DEF Runs, SlTyped, SlInv
    <3>2. PICK q : q = run[p]
      OBVIOUS
    <3>3. q.pc \in CleanPcs => syncLog'[q.day] # {} \/ Gone(q.day)'
      BY <1>10, <1>15, <1>16, <3>1, <3>2 DEF RunInv
    <3> QED  BY <1>7, <1>14, <1>18, <3>1, <3>2, <3>3 DEF RunInv, CleanPcs
  <2> QED  BY <2>1, <2>2
<1> QED  BY <1>13, <1>17, <1>19 DEF SlInv

\* An entry comes
LEMMA LogSyncKeeps ==
    ASSUME SlInv, NEW k \in Kinds, LogSync(k)
    PROVE  SlInv'
<1>0. SlTyped /\ (\A d \in Dates : DayInv(d)) /\ date \in Dates
  BY SyncLogAssumption DEF SlInv, SlTyped, LogSync, Dates
<1>1. PICK e : e = [id |-> lastId + 1, kind |-> k]
  OBVIOUS
<1>2. /\ syncLog' = [syncLog EXCEPT ![date] = syncLog[date] \cup {e}] /\ lastId' = lastId + 1 /\ lastId' \in 0..MaxLogged
      /\ UNCHANGED <<date, summary, stamped, dryRuns, executed, run, deleted, recounted>>
  BY <1>0, <1>1, SyncLogAssumption DEF LogSync, SlTyped
<1>3. /\ syncLog'[date] = syncLog[date] \cup {e} /\ \A d \in Dates \ {date} : syncLog'[d] = syncLog[d]
      /\ DOMAIN syncLog' = Dates /\ syncLog' = [d \in Dates |-> syncLog'[d]]
  BY <1>0, <1>2 DEF SlTyped
<1>4. \A d \in Dates : syncLog'[d] \in SUBSET [id : 1..lastId', kind : Kinds] /\ IsFiniteSet(syncLog'[d])
  <2>1. e \in [id : 1..lastId', kind : Kinds]
    BY <1>0, <1>1, <1>2 DEF SlTyped
  <2>2. [id : 1..lastId, kind : Kinds] \subseteq [id : 1..lastId', kind : Kinds]
    <3>1. 1..lastId \subseteq 1..lastId'
      BY <1>0, <1>2 DEF SlTyped
    <3> QED  BY <3>1
  <2>3. IsFiniteSet(syncLog[date] \cup {e})
    BY <1>0, FS_AddElement DEF SlTyped
  <2>4. syncLog[date] \subseteq [id : 1..lastId', kind : Kinds]
    BY <1>0, <2>2 DEF SlTyped
  <2>5. ASSUME NEW d \in Dates \ {date}
        PROVE  syncLog'[d] \in SUBSET [id : 1..lastId', kind : Kinds] /\ IsFiniteSet(syncLog'[d])
    <3>1. syncLog'[d] = syncLog[d] /\ syncLog[d] \subseteq [id : 1..lastId, kind : Kinds] /\ IsFiniteSet(syncLog[d])
      BY <1>0, <1>3 DEF SlTyped
    <3> QED  BY <2>2, <3>1
  <2> QED  BY <1>3, <2>1, <2>3, <2>4, <2>5
<1>5. SlTyped'
  BY <1>0, <1>2, <1>3, <1>4 DEF SlTyped
<1>6. \A d \in Dates : (Gone(d)' <=> Gone(d)) /\ ((Accounted(d) /\ d < date) => Accounted(d)')
  <2> SUFFICES ASSUME NEW d \in Dates PROVE (Gone(d)' <=> Gone(d)) /\ ((Accounted(d) /\ d < date) => Accounted(d)')
    OBVIOUS
  <2>1. Gone(d)' <=> Gone(d)
    BY <1>2 DEF Gone
  <2>2. ASSUME Accounted(d), d < date PROVE Accounted(d)'
    <3>1. syncLog'[d] = syncLog[d]
      BY <1>0, <1>3, <2>2 DEF SlTyped
    <3> QED  BY <1>2, <2>2, <3>1 DEF Accounted, Logged
  <2> QED  BY <2>1, <2>2
<1>7. ASSUME NEW d \in Dates PROVE DayInv(d)'
  BY <1>0, <1>2, <1>3, <1>6 DEF DayInv, SlTyped
<1>8. ASSUME NEW p \in LogOperators PROVE RunInv(run[p])'
  <2>1. RunInv(run[p])
    BY DEF SlInv
  <2> QED  BY <1>2, <1>3, <1>6, <2>1 DEF RunInv, CleanPcs
<1> QED  BY <1>5, <1>7, <1>8 DEF SlInv

\* The next day
LEMMA TomorrowKeeps ==
    ASSUME SlInv, Tomorrow
    PROVE  SlInv'
<1>0. SlTyped /\ (\A d \in Dates : DayInv(d)) /\ date' = date + 1 /\ date < MaxLogDay
      /\ UNCHANGED <<syncLog, lastId, summary, stamped, dryRuns, executed, run, deleted, recounted>>
  BY DEF SlInv, Tomorrow
<1>1. SlTyped'
  BY <1>0, SyncLogAssumption DEF SlTyped
<1>2. \A d \in Dates : (Gone(d)' <=> Gone(d)) /\ (Accounted(d)' <=> Accounted(d))
  BY <1>0 DEF Gone, Accounted, Logged
<1>3. \A d \in Dates : DayInv(d)'
  BY <1>0, <1>2 DEF DayInv, SlTyped, Dates
<1>4. ASSUME NEW p \in LogOperators PROVE RunInv(run[p])'
  BY <1>0 DEF Tomorrow, RunInv, CleanPcs
<1> QED  BY <1>1, <1>3, <1>4 DEF SlInv

\* At first
LEMMA LogStarts == SlInit => SlInv
<1> SUFFICES ASSUME SlInit PROVE SlInv
  OBVIOUS
<1>1. NoCount \in [Dates -> CountRec] /\ \A d \in Dates, k \in Kinds : NoCount[d][k] = 0
  BY DEF NoCount, CountRec
<1>2. SlTyped
  <2>1. run \in [LogOperators -> RunRec]
    BY DEF SlInit, NoRun, RunRec, CleanPcs
  <2> QED  BY <1>1, <2>1, FS_EmptySet, SyncLogAssumption DEF SlInit, SlTyped
<1>3. \A d \in Dates : ~Gone(d)
  BY <1>1, <1>2, NothingGone DEF SlInit
<1>4. \A d \in Dates : DayInv(d)
  BY <1>3 DEF SlInit, DayInv
<1>5. \A o \in LogOperators : RunInv(run[o])
  BY DEF SlInit, NoRun, RunInv, CleanPcs
<1> QED  BY <1>2, <1>4, <1>5 DEF SlInv

\* Every step keeps the invariant
LEMMA LogSteps == SlInv /\ [SlNext]_slVars => SlInv'
<1> SUFFICES ASSUME SlInv, [SlNext]_slVars PROVE SlInv'
  OBVIOUS
<1>1. CASE UNCHANGED <<date, syncLog, lastId, summary, stamped, executed, run, deleted, recounted>>
  <2>1. SlTyped'
    BY <1>1 DEF SlInv, SlTyped
  <2>2. \A d \in Dates : DayInv(d)'
    BY <1>1 DEF SlInv, DayInv, Gone, Accounted, Logged
  <2>3. \A o \in LogOperators : RunInv(run[o])'
    BY <1>1 DEF SlInv, RunInv, Gone, Accounted, Logged
  <2> QED  BY <2>1, <2>2, <2>3 DEF SlInv
<1>2. CASE UNCHANGED slVars
  BY <1>1, <1>2 DEF slVars
<1>3. CASE \E action \in {"summarize", "cleanup"} : Rehearse(action)
  BY <1>1, <1>3 DEF Rehearse
<1>4. CASE \E o \in LogOperators : \/ StartSummary(o) \/ Summarize(o) \/ RunDies(o) \/ StartBatch(o)
                                  \/ LookUpExecution(o) \/ Recount(o) \/ DeleteBatch(o) \/ RecordRun(o)
  BY <1>4, CallsKeep, SummariesKeep, DeleteKeeps
<1>5. CASE \E k \in Kinds : LogSync(k)
  BY <1>5, LogSyncKeeps
<1>6. CASE Tomorrow
  BY <1>6, TomorrowKeeps
<1> QED  BY <1>2, <1>3, <1>4, <1>5, <1>6 DEF SlNext

\* Whatever comes late, dies or runs at the same time, for every number of operators, entries and
\* kinds and every size of a batch: the summary of a day counts every entry that was deleted, unless
\* the day was summarised again after a batch
THEOREM LogCorrect == SlSpec => []LogSound
<1>1. SlInv => LogSound
  <2> SUFFICES ASSUME SlInv PROVE LogSound
    OBVIOUS
  <2>1. SlTypeOK
    <3>1. lastId <= MaxLogged /\ summary \in [Dates -> [Kinds -> Nat]] /\ executed \cup recounted \subseteq Dates
      BY SyncLogAssumption DEF SlInv, SlTyped, CountRec
    <3> QED  BY <3>1 DEF SlInv, SlTyped, SlTypeOK
  <2>2. DeletedIsSummarized
    BY DEF SlInv, DayInv, Gone, Accounted, DeletedIsSummarized
  <2> QED  BY <2>1, <2>2 DEF LogSound
<1> QED  BY <1>1, LogStarts, LogSteps, PTL DEF SlSpec

-----------------------------------------------------------------------------
(* The schema: the registry                                                *)

AllVersions == {0} \cup Versions

\* There are five versions
LEMMA FiveVersions == Versions = 1..5 /\ AllVersions = 0..5
  BY DEF Versions, Additions, AllVersions

\* The registry of each version
LEMMA Registries ==
    /\ Registry(0) = <<MigrationTable>> /\ Registry(1) = Baseline /\ Registry(2) = AssetImportDedupe
    /\ Registry(3) = AssetImportBatch /\ Registry(4) = PaperMarginResilience /\ Registry(5) = StorageLifecycle
  BY DEF Registry, Additions

\* The places of each registry
LEMMA Places ==
    /\ DOMAIN Registry(0) = 1..1 /\ DOMAIN Registry(1) = 1..7 /\ DOMAIN Registry(2) = 1..4
    /\ DOMAIN Registry(3) = 1..5 /\ DOMAIN Registry(4) = 1..5 /\ DOMAIN Registry(5) = 1..8
  BY Registries DEF Baseline, AssetImportDedupe, AssetImportBatch, PaperMarginResilience, StorageLifecycle

LEMMA Lengths ==
    /\ Len(Registry(0)) = 1 /\ Len(Registry(1)) = 7 /\ Len(Registry(2)) = 4
    /\ Len(Registry(3)) = 5 /\ Len(Registry(4)) = 5 /\ Len(Registry(5)) = 8
  BY Registries DEF Baseline, AssetImportDedupe, AssetImportBatch, PaperMarginResilience, StorageLifecycle

\* The objects of each version
LEMMA ObjectsOfEach ==
    /\ Objects(0) = {MigrationTable}
    /\ Objects(1) =
         {<<"asset_cash_ledger">>, <<"asset_trade_ledger">>, <<"news_articles">>, <<"paper_trading_accounts">>,
          <<"asset_cash_ledger", "source">>, <<"paper_trading_accounts", "margin_sync_error">>,
          <<"asset_cash_ledger", "idx_linked_trade">>}
    /\ Objects(2) =
         {<<"asset_trade_ledger", "import_key">>, <<"asset_trade_ledger", "uq_import_key">>,
          <<"asset_cash_ledger", "import_key">>, <<"asset_cash_ledger", "uq_import_key">>}
    /\ Objects(3) =
         {<<"asset_import_batches">>,
          <<"asset_trade_ledger", "import_batch_id">>, <<"asset_trade_ledger", "idx_import_batch">>,
          <<"asset_cash_ledger", "import_batch_id">>, <<"asset_cash_ledger", "idx_import_batch">>}
    /\ Objects(4) =
         {<<"paper_trading_accounts", "margin_last_attempt_at">>,
          <<"paper_trading_accounts", "margin_last_success_at">>,
          <<"paper_trading_accounts", "margin_last_error">>, <<"paper_trading_accounts", "margin_error_category">>,
          <<"paper_trading_accounts", "margin_next_retry_at">>}
    /\ Objects(5) =
         {<<"taiwan_chip_branch_archives">>, <<"sync_log_daily_summary">>, <<"market_payload_archives">>,
          <<"storage_maintenance_runs">>,
          <<"news_articles", "canonical_url_hash">>, <<"news_articles", "provider_id">>,
          <<"news_articles", "uq_ticker_canonical">>, <<"news_articles", "idx_source_provider">>}
<1>1. Objects(0) = {MigrationTable}
  BY Registries DEF Objects, Range
<1>2. Objects(1) =
         {<<"asset_cash_ledger">>, <<"asset_trade_ledger">>, <<"news_articles">>, <<"paper_trading_accounts">>,
          <<"asset_cash_ledger", "source">>, <<"paper_trading_accounts", "margin_sync_error">>,
          <<"asset_cash_ledger", "idx_linked_trade">>}
  BY Registries DEF Objects, Range, Baseline
<1>3. Objects(2) =
         {<<"asset_trade_ledger", "import_key">>, <<"asset_trade_ledger", "uq_import_key">>,
          <<"asset_cash_ledger", "import_key">>, <<"asset_cash_ledger", "uq_import_key">>}
  BY Registries DEF Objects, Range, AssetImportDedupe
<1>4. Objects(3) =
         {<<"asset_import_batches">>,
          <<"asset_trade_ledger", "import_batch_id">>, <<"asset_trade_ledger", "idx_import_batch">>,
          <<"asset_cash_ledger", "import_batch_id">>, <<"asset_cash_ledger", "idx_import_batch">>}
  BY Registries DEF Objects, Range, AssetImportBatch
<1>5. Objects(4) =
         {<<"paper_trading_accounts", "margin_last_attempt_at">>,
          <<"paper_trading_accounts", "margin_last_success_at">>,
          <<"paper_trading_accounts", "margin_last_error">>, <<"paper_trading_accounts", "margin_error_category">>,
          <<"paper_trading_accounts", "margin_next_retry_at">>}
  BY Registries DEF Objects, Range, PaperMarginResilience
<1>6. Objects(5) =
         {<<"taiwan_chip_branch_archives">>, <<"sync_log_daily_summary">>, <<"market_payload_archives">>,
          <<"storage_maintenance_runs">>,
          <<"news_articles", "canonical_url_hash">>, <<"news_articles", "provider_id">>,
          <<"news_articles", "uq_ticker_canonical">>, <<"news_articles", "idx_source_provider">>}
  BY Registries DEF Objects, Range, StorageLifecycle
<1> QED  BY <1>1, <1>2, <1>3, <1>4, <1>5, <1>6

\* No object is of two versions
LEMMA Apart ==
    ASSUME NEW v \in 0..5, NEW w \in 0..5, v < w
    PROVE  Objects(v) \cap Objects(w) = {}
<1> USE ObjectsOfEach DEF MigrationTable
<1>0. CASE v = 0
  BY <1>0
<1>1. CASE v = 1
  BY <1>1
<1>2. CASE v = 2
  BY <1>2
<1>3. CASE v = 3
  BY <1>3
<1>4. CASE v = 4
  BY <1>4
<1> QED  BY <1>0, <1>1, <1>2, <1>3, <1>4

\* No object is at two places of a version
LEMMA OncePerVersion ==
    ASSUME NEW v \in 0..5, NEW i \in DOMAIN Registry(v), NEW j \in DOMAIN Registry(v),
           Registry(v)[i] = Registry(v)[j]
    PROVE  i = j
<1> USE Registries, Places
<1>0. CASE v = 0
  BY <1>0
<1>1. CASE v = 1
  BY <1>1 DEF Baseline
<1>2. CASE v = 2
  BY <1>2 DEF AssetImportDedupe
<1>3. CASE v = 3
  BY <1>3 DEF AssetImportBatch
<1>4. CASE v = 4
  BY <1>4 DEF PaperMarginResilience
<1>5. CASE v = 5
  BY <1>5 DEF StorageLifecycle
<1> QED  BY <1>0, <1>1, <1>2, <1>3, <1>4, <1>5

\* An object is at one place of one version
LEMMA EachOnce ==
    ASSUME NEW v \in AllVersions, NEW w \in AllVersions,
           NEW i \in DOMAIN Registry(v), NEW j \in DOMAIN Registry(w), Registry(v)[i] = Registry(w)[j]
    PROVE  v = w /\ i = j
<1>1. Registry(v)[i] \in Objects(v) /\ Registry(w)[j] \in Objects(w)
  BY DEF Objects, Range
<1>2. v = w
  BY <1>1, Apart, FiveVersions
<1> QED  BY <1>2, OncePerVersion, FiveVersions

\* The tables of the baseline
LEMMA TablesOfBaseline ==
    BaselineTables =
      {<<"asset_cash_ledger">>, <<"asset_trade_ledger">>, <<"news_articles">>, <<"paper_trading_accounts">>}
  BY DEF BaselineTables, Baseline, Range

\* What is known are the objects of the versions
LEMMA KnownObjects ==
    Known = {MigrationTable} \cup Objects(1) \cup Objects(2) \cup Objects(3) \cup Objects(4) \cup Objects(5)
  BY FiveVersions DEF Known

\* What a column or index of the baseline needs is its table
LEMMA NeedsOfBaseline ==
    ASSUME NEW o \in Objects(1)
    PROVE  /\ o \in BaselineTables => Needs(o) = {}
           /\ o \notin BaselineTables => Needs(o) = {TableOf(o)} /\ TableOf(o) \in BaselineTables
  BY Registries, TablesOfBaseline DEF Objects, Range, Baseline, Needs, Follows, TableOf, MigrationTable

\* What a column or index needs: its table, and what it follows
LEMMA NeedsOf ==
    ASSUME NEW t, NEW c, NEW o \in Needs(<<t, c>>)
    PROVE  o = <<t>> \/ (c \in DOMAIN Follows /\ o = <<t, Follows[c]>> /\ o \in Known)
  BY DEF Needs, TableOf

\* What each column or index follows
LEMMA FollowsWhat ==
    /\ DOMAIN Follows =
         {"import_key", "uq_import_key", "import_batch_id", "idx_import_batch", "margin_last_attempt_at",
          "margin_last_success_at", "margin_last_error", "margin_error_category", "margin_next_retry_at",
          "uq_ticker_canonical", "idx_source_provider"}
    /\ Follows["import_key"] = "source" /\ Follows["uq_import_key"] = "import_key"
    /\ Follows["import_batch_id"] = "import_key" /\ Follows["idx_import_batch"] = "import_batch_id"
    /\ Follows["margin_last_attempt_at"] = "margin_sync_error"
    /\ Follows["margin_last_success_at"] = "margin_last_attempt_at"
    /\ Follows["margin_last_error"] = "margin_last_success_at"
    /\ Follows["margin_error_category"] = "margin_last_error"
    /\ Follows["margin_next_retry_at"] = "margin_error_category"
    /\ Follows["uq_ticker_canonical"] = "canonical_url_hash" /\ Follows["idx_source_provider"] = "provider_id"
  BY DEF Follows

\* The ledger of trades has no column that says its source
LEMMA NoSourceOfTrades == <<"asset_trade_ledger", "source">> \notin Known
  BY KnownObjects, ObjectsOfEach DEF MigrationTable

\* What an addition needs is of an earlier version, or before it in its own
LEMMA NeedsOfAddition ==
    ASSUME NEW v \in 2..5, NEW i \in DOMAIN Registry(v), NEW o \in Needs(Registry(v)[i])
    PROVE  \/ \E u \in 1..v - 1 : o \in Objects(u)
           \/ \E j \in DOMAIN Registry(v) : j < i /\ o = Registry(v)[j]
<1>0. Len(Registry(v)[i]) # 1 /\ Registry(v)[i] \in Objects(v)
  BY DEF Needs, Objects, Range
<1>1. PICK t, c : Registry(v)[i] = <<t, c>>
  <2>2. CASE v = 2
    BY <1>0, <2>2, ObjectsOfEach
  <2>3. CASE v = 3
    BY <1>0, <2>3, ObjectsOfEach
  <2>4. CASE v = 4
    BY <1>0, <2>4, ObjectsOfEach
  <2>5. CASE v = 5
    BY <1>0, <2>5, ObjectsOfEach
  <2> QED  BY <2>2, <2>3, <2>4, <2>5
<1>2. <<t, c>> \in Objects(v)
  BY <1>0, <1>1
<1>3. CASE o = <<t>>
  <2>2. CASE v = 2
    BY <1>2, <1>3, <2>2, ObjectsOfEach
  <2>3. CASE v = 3
    BY <1>2, <1>3, <2>3, ObjectsOfEach
  <2>4. CASE v = 4
    BY <1>2, <1>3, <2>4, ObjectsOfEach
  <2>5. CASE v = 5
    BY <1>2, <1>3, <2>5, ObjectsOfEach
  <2> QED  BY <2>2, <2>3, <2>4, <2>5
<1>4. CASE c \in DOMAIN Follows /\ o = <<t, Follows[c]>> /\ o \in Known
  <2>2. CASE v = 2
    <3>1. CASE c = "import_key"
      BY <1>2, <1>4, <2>2, <3>1, FollowsWhat, NoSourceOfTrades, ObjectsOfEach
    <3>2. CASE c = "uq_import_key"
      BY <1>1, <1>2, <1>4, <2>2, <3>2, FollowsWhat, Registries, Places, ObjectsOfEach DEF AssetImportDedupe
    <3> QED  BY <1>2, <2>2, <3>1, <3>2, ObjectsOfEach
  <2>3. CASE v = 3
    <3>1. CASE c = "import_batch_id"
      BY <1>2, <1>4, <2>3, <3>1, FollowsWhat, ObjectsOfEach
    <3>2. CASE c = "idx_import_batch"
      BY <1>1, <1>2, <1>4, <2>3, <3>2, FollowsWhat, Registries, Places, ObjectsOfEach DEF AssetImportBatch
    <3> QED  BY <1>2, <2>3, <3>1, <3>2, ObjectsOfEach
  <2>4. CASE v = 4
    <3>1. CASE c = "margin_last_attempt_at"
      BY <1>2, <1>4, <2>4, <3>1, FollowsWhat, ObjectsOfEach
    <3>2. CASE c # "margin_last_attempt_at"
      BY <1>1, <1>2, <1>4, <2>4, <3>2, FollowsWhat, Registries, Places, ObjectsOfEach DEF PaperMarginResilience
    <3> QED  BY <3>1, <3>2
  <2>5. CASE v = 5
    BY <1>1, <1>2, <1>4, <2>5, FollowsWhat, Registries, Places, ObjectsOfEach DEF StorageLifecycle
  <2> QED  BY <2>2, <2>3, <2>4, <2>5
<1> QED  BY <1>1, <1>3, <1>4, NeedsOf

\* The tables the baseline creates, and their columns and indexes
LEMMA CreatesSome ==
    ASSUME NEW o \in Known
    PROVE  /\ o \in Creates(o) /\ Creates(o) \subseteq Known
           /\ o \notin BaselineTables => Creates(o) = {o}
           /\ o \in BaselineTables => Creates(o) = {o} \cup {c \in Objects(1) : TableOf(c) = o}
  BY KnownObjects DEF Creates

\* A place of a registry holds an object of its version
LEMMA ObjectAtPlace ==
    ASSUME NEW v \in AllVersions, NEW i \in DOMAIN Registry(v)
    PROVE  Registry(v)[i] \in Objects(v) /\ Registry(v)[i] \in Known
<1>1. Registry(v)[i] \in Objects(v)
  BY DEF Objects, Range
<1>2. Objects(0) \subseteq Known
  BY ObjectsOfEach, KnownObjects
<1>3. Objects(v) \subseteq Known
  BY <1>2 DEF AllVersions, Known
<1> QED  BY <1>1, <1>3

\* The tables of the baseline are objects of it, and no others
LEMMA BaselineObjects ==
    BaselineTables \subseteq Objects(1) /\ MigrationTable \notin BaselineTables /\ IfNotExists(MigrationTable)
  BY TablesOfBaseline, ObjectsOfEach DEF MigrationTable, IfNotExists

-----------------------------------------------------------------------------
(* Statements                                                              *)

Steps == {s \in [version : AllVersions, place : Nat] : s.place \in 1..Len(Registry(s.version)) + 1}

\* Every version has a registry of some length
LEMMA RegistryLength ==
    ASSUME NEW v \in AllVersions
    PROVE  Len(Registry(v)) \in Nat /\ DOMAIN Registry(v) = 1..Len(Registry(v)) /\ Len(Registry(v)) > 0
<1>0. v \in 0..5
  BY FiveVersions
<1>1. CASE v = 0
  <2>1. Len(Registry(0)) = 1 /\ DOMAIN Registry(0) = 1..1
    BY Lengths, Places
  <2>2. Len(Registry(v)) = 1 /\ DOMAIN Registry(v) = 1..1
    BY <1>1, <2>1
  <2> QED  BY <2>2
<1>2. CASE v = 1
  <2>1. Len(Registry(1)) = 7 /\ DOMAIN Registry(1) = 1..7
    BY Lengths, Places
  <2>2. Len(Registry(v)) = 7 /\ DOMAIN Registry(v) = 1..7
    BY <1>2, <2>1
  <2> QED  BY <2>2
<1>3. CASE v = 2
  <2>1. Len(Registry(2)) = 4 /\ DOMAIN Registry(2) = 1..4
    BY Lengths, Places
  <2>2. Len(Registry(v)) = 4 /\ DOMAIN Registry(v) = 1..4
    BY <1>3, <2>1
  <2> QED  BY <2>2
<1>4. CASE v = 3
  <2>1. Len(Registry(3)) = 5 /\ DOMAIN Registry(3) = 1..5
    BY Lengths, Places
  <2>2. Len(Registry(v)) = 5 /\ DOMAIN Registry(v) = 1..5
    BY <1>4, <2>1
  <2> QED  BY <2>2
<1>5. CASE v = 4
  <2>1. Len(Registry(4)) = 5 /\ DOMAIN Registry(4) = 1..5
    BY Lengths, Places
  <2>2. Len(Registry(v)) = 5 /\ DOMAIN Registry(v) = 1..5
    BY <1>5, <2>1
  <2> QED  BY <2>2
<1>6. CASE v = 5
  <2>1. Len(Registry(5)) = 8 /\ DOMAIN Registry(5) = 1..8
    BY Lengths, Places
  <2>2. Len(Registry(v)) = 8 /\ DOMAIN Registry(v) = 1..8
    BY <1>6, <2>1
  <2> QED  BY <2>2
<1> QED  BY <1>0, <1>1, <1>2, <1>3, <1>4, <1>5, <1>6

\* The last place records the version, and the others have an object
LEMMA RecordsLast ==
    ASSUME NEW s \in Steps
    PROVE  /\ s.version \in AllVersions /\ s.place \in Nat /\ s = AtPlace(s.version, s.place)
           /\ Records(s) <=> s.place = Len(Registry(s.version)) + 1
           /\ ~Records(s) => s.place \in DOMAIN Registry(s.version) /\ ObjectOf(s) \in Objects(s.version) /\ ObjectOf(s) \in Known
<1>1. s.version \in AllVersions /\ s.place \in Nat /\ s = AtPlace(s.version, s.place)
      /\ s.place \in 1..Len(Registry(s.version)) + 1
  BY DEF Steps, AtPlace
<1>2. Records(s) <=> s.place = Len(Registry(s.version)) + 1
  BY <1>1 DEF Records, Recording, AtPlace
<1>3. ASSUME ~Records(s) PROVE s.place \in DOMAIN Registry(s.version)
  BY <1>1, <1>2, <1>3, RegistryLength
<1> QED  BY <1>1, <1>2, <1>3, ObjectAtPlace DEF ObjectOf

\* A place of a registry is a step that does not record, and the step that records does
LEMMA StepsOf ==
    ASSUME NEW v \in AllVersions
    PROVE  /\ Recording(v) \in Steps /\ Records(Recording(v)) /\ Recording(v).version = v
           /\ \A i \in DOMAIN Registry(v) :
                 /\ AtPlace(v, i) \in Steps /\ ~Records(AtPlace(v, i)) /\ AtPlace(v, i).version = v
                 /\ AtPlace(v, i).place = i /\ ObjectOf(AtPlace(v, i)) = Registry(v)[i]
<1>1. /\ Len(Registry(v)) \in Nat /\ DOMAIN Registry(v) = 1..Len(Registry(v))
      /\ \A i \in 1..Len(Registry(v)) + 1 :
            AtPlace(v, i) \in Steps /\ AtPlace(v, i).version = v /\ AtPlace(v, i).place = i
  BY RegistryLength DEF Steps, AtPlace
<1>2. Recording(v) \in Steps /\ Recording(v).version = v /\ Recording(v).place = Len(Registry(v)) + 1
  BY <1>1 DEF Recording
<1>3. Records(Recording(v))
  BY <1>2 DEF Records
<1>4. ASSUME NEW i \in DOMAIN Registry(v)
      PROVE  ~Records(AtPlace(v, i)) /\ ObjectOf(AtPlace(v, i)) = Registry(v)[i]
  BY <1>1, RecordsLast DEF ObjectOf
<1> QED  BY <1>1, <1>2, <1>3, <1>4

\* Some statement of a plan comes before the others
LEMMA FirstExists ==
    ASSUME NEW T \in SUBSET Steps, T # {}
    PROVE  \E s \in T : \A t \in T \ {s} : Before(s, t)
<1> DEFINE VS == {s.version : s \in T}
<1>0. \A s \in T : s.version \in Nat /\ s.place \in Nat /\ s = AtPlace(s.version, s.place)
  BY RecordsLast, FiveVersions
<1>1. PICK v \in VS : \A w \in VS : v <= w
  <2>1. VS \in SUBSET Nat /\ VS # {}
    BY <1>0
  <2> QED  BY <2>1, SmallestExists
<1> DEFINE PS == {s.place : s \in {t \in T : t.version = v}}
<1>2. PICK i \in PS : \A j \in PS : i <= j
  <2>1. PS \in SUBSET Nat /\ PS # {}
    BY <1>0, <1>1
  <2> QED  BY <2>1, SmallestExists
<1>3. PICK s \in T : s.version = v /\ s.place = i
  BY <1>2
<1>4. ASSUME NEW t \in T \ {s} PROVE Before(s, t)
  <2>1. v <= t.version
    BY <1>1
  <2>2. CASE v < t.version
    BY <2>2, <1>3 DEF Before
  <2>3. CASE v = t.version
    <3>1. i <= t.place
      BY <1>2, <2>3
    <3>2. i # t.place
      BY <1>0, <1>3, <2>3
    <3> QED  BY <3>1, <3>2, <1>0, <1>3, <2>3 DEF Before
  <2> QED  BY <2>1, <2>2, <2>3, <1>0, <1>3
<1> QED  BY <1>4

\* Of two statements one comes before the other at most
LEMMA BeforeOnce ==
    ASSUME NEW s \in Steps, NEW t \in Steps, Before(s, t)
    PROVE  ~Before(t, s) /\ s.version <= t.version
  BY RecordsLast, FiveVersions DEF Before

-----------------------------------------------------------------------------
(* The schema: the invariant                                               *)

MigratorPcs == {"inspecting", "applying", "done", "failed", "refused", "died"}
MigratorRec == [pc : MigratorPcs, seen : SUBSET Known, todo : SUBSET Steps, alone : BOOLEAN]
CodeRec == [knows : Versions, edited : SUBSET Versions, auto : BOOLEAN]

\* What there is of the schema and of the plans
MgTyped ==
    /\ schema \subseteq Known
    /\ recorded \subseteq [version : Versions, edited : BOOLEAN]
    /\ release \in [Migrators -> Releases] /\ migrations \in 0..MaxRuns
    /\ migrator \in [Migrators -> MigratorRec]

\* A version is recorded, and as a code has it
IsRecorded(rows, v) == \E r \in rows : r.version = v
AsOf(code, rows, v) == \E r \in rows : r.version = v /\ (r.edited <=> v \in code.edited)

\* A statement still to come makes an object
Makes(t, object) == ~Records(t) /\ object \in Creates(ObjectOf(t))

\* A version that a plan will record is one its code knows; its objects are there or will be made
\* before; and the versions before it are recorded or will be
Owed(code, todo, there, rows) ==
    \A s \in todo : Records(s) =>
        /\ s.version \in 1..code.knows
        /\ \A o \in Objects(s.version) : o \in there \/ \E t \in todo : t.version = s.version /\ Makes(t, o)
        /\ \A u \in 1..s.version - 1 : IsRecorded(rows, u) \/ Recording(u) \in todo

\* The table of the versions comes first, and a plan covers the versions of its code
Covers(code, todo, there, rows) ==
    /\ todo = {} \/ MigrationTable \in there \/ AtPlace(0, 1) \in todo
    /\ \A v \in 1..code.knows : AsOf(code, rows, v) \/ Recording(v) \in todo

\* A plan that nobody else works at: what it makes is not there and made once, what it needs is
\* there or made before, and what it records is not recorded
RunsAlone(todo, there, rows) ==
    /\ \A t \in todo : ~Records(t) =>
          /\ ObjectOf(t) \notin there \/ IfNotExists(ObjectOf(t))
          /\ \A o \in Needs(ObjectOf(t)) : o \in there \/ \E u \in todo : Before(u, t) /\ Makes(u, o)
          /\ \A u \in todo \ {t} : ~Records(u) => ~Makes(u, ObjectOf(t))
    /\ \A t \in todo : Records(t) => ~IsRecorded(rows, t.version)

PlanInv(m, code, there, rows) ==
    /\ m.seen \subseteq there
    /\ m.pc = "applying" => Owed(code, m.todo, there, rows) /\ Covers(code, m.todo, there, rows)
    /\ m.pc = "done" => \A v \in 1..code.knows : AsOf(code, rows, v)

AloneInv(m, there, rows) ==
    m.alone =>
        /\ m.pc # "failed"
        /\ m.pc = "inspecting" => m.seen = there
        /\ m.pc = "applying" => RunsAlone(m.todo, there, rows)

MgInv ==
    /\ MgTyped
    /\ RecordedIsThere
    /\ MigrationTable \in schema \/ recorded = {}
    /\ \A p \in Migrators :
          /\ PlanInv(migrator[p], release[p], schema, recorded)
          /\ AloneInv(migrator[p], schema, recorded)
          /\ (migrator[p].alone /\ Busy(p)) => \A q \in Migrators \ {p} : ~Busy(q)

-----------------------------------------------------------------------------
(* The plan                                                                *)

\* A step of a plan is one of a pending version, or the first of all
LEMMA StepsOfPlan ==
    ASSUME NEW code \in CodeRec, NEW seen \in SUBSET Known, NEW applied \in SUBSET [version : Versions, edited : BOOLEAN],
           NEW s \in PlanOf(code, seen, applied)
    PROVE  /\ s \in Steps
           /\ Records(s) => s.version \in PendingVersions(code, applied) /\ s = Recording(s.version)
           /\ ~Records(s) =>
                \/ s = AtPlace(0, 1) /\ ObjectOf(s) = MigrationTable
                \/ /\ s.version \in PendingVersions(code, applied) /\ s.place \in DOMAIN Registry(s.version)
                   /\ s = AtPlace(s.version, s.place)
                   /\ ObjectOf(s) = Registry(s.version)[s.place] /\ Lacks(s.version, seen, ObjectOf(s))
<1> DEFINE pending == PendingVersions(code, applied)
<1>0. pending \subseteq Versions /\ pending \subseteq AllVersions
  BY FiveVersions DEF PendingVersions, CodeRec, AllVersions
<1>1. s = AtPlace(0, 1) \/ \E v \in pending : s \in Statements(v, seen)
  BY DEF PlanOf
<1>2. CASE s = AtPlace(0, 1)
  <2>1. 0 \in AllVersions /\ 1 \in DOMAIN Registry(0) /\ Registry(0)[1] = MigrationTable
    BY Registries, Places DEF AllVersions
  <2> QED  BY <1>2, <2>1, StepsOf
<1>3. ASSUME NEW v \in pending, s = Recording(v)  PROVE s \in Steps /\ Records(s) /\ s.version = v
  BY <1>0, <1>3, StepsOf
<1>4. ASSUME NEW v \in pending, NEW i \in DOMAIN Registry(v), Lacks(v, seen, Registry(v)[i]), s = AtPlace(v, i)
      PROVE  /\ s \in Steps /\ ~Records(s) /\ s.version = v /\ s.place = i /\ ObjectOf(s) = Registry(v)[i]
  BY <1>0, <1>4, StepsOf
<1>5. ASSUME NEW v \in pending, s \in Statements(v, seen)
      PROVE  s = Recording(v) \/ \E i \in DOMAIN Registry(v) : Lacks(v, seen, Registry(v)[i]) /\ s = AtPlace(v, i)
  BY <1>5 DEF Statements
<1> HIDE DEF pending
<1>6. CASE \E v \in pending : s = Recording(v)
  BY <1>3, <1>6 DEF pending
<1>7. CASE \E v \in pending : \E i \in DOMAIN Registry(v) : Lacks(v, seen, Registry(v)[i]) /\ s = AtPlace(v, i)
  BY <1>4, <1>7 DEF pending
<1> QED  BY <1>1, <1>2, <1>5, <1>6, <1>7

\* What a plan has of a pending version: its record, and the objects it lacks
LEMMA PlanHas ==
    ASSUME NEW code \in CodeRec, NEW seen \in SUBSET Known, NEW applied \in SUBSET [version : Versions, edited : BOOLEAN],
           NEW v \in PendingVersions(code, applied)
    PROVE  /\ AtPlace(0, 1) \in PlanOf(code, seen, applied) /\ Recording(v) \in PlanOf(code, seen, applied)
           /\ \A i \in DOMAIN Registry(v) :
                 Lacks(v, seen, Registry(v)[i]) => AtPlace(v, i) \in PlanOf(code, seen, applied)
<1>1. Statements(v, seen) \subseteq PlanOf(code, seen, applied) /\ AtPlace(0, 1) \in PlanOf(code, seen, applied)
  BY DEF PlanOf
<1>2. Recording(v) \in Statements(v, seen)
      /\ \A i \in DOMAIN Registry(v) : Lacks(v, seen, Registry(v)[i]) => AtPlace(v, i) \in Statements(v, seen)
  BY DEF Statements
<1> QED  BY <1>1, <1>2

\* An object of a pending version was seen, or a statement of the version makes it
LEMMA PlanMakes ==
    ASSUME NEW code \in CodeRec, NEW seen \in SUBSET Known, NEW applied \in SUBSET [version : Versions, edited : BOOLEAN],
           NEW v \in PendingVersions(code, applied), NEW o \in Objects(v)
    PROVE  o \in seen \/ \E t \in PlanOf(code, seen, applied) : t.version = v /\ Makes(t, o)
<1> DEFINE plan == PlanOf(code, seen, applied)
<1>0. v \in Versions /\ v \in AllVersions
  BY FiveVersions DEF PendingVersions, CodeRec, AllVersions
<1>1. ASSUME NEW i \in DOMAIN Registry(v), Lacks(v, seen, Registry(v)[i]), NEW c, c \in Creates(Registry(v)[i])
      PROVE  \E t \in plan : t.version = v /\ Makes(t, c)
  BY <1>0, <1>1, PlanHas, StepsOf DEF Makes
<1>2. PICK n \in DOMAIN Registry(v) : o = Registry(v)[n]
  BY DEF Objects, Range
<1>3. o \in Known /\ o \in Creates(o)
  BY <1>0, <1>2, ObjectAtPlace, CreatesSome
<1> SUFFICES ASSUME o \notin seen PROVE \E t \in plan : t.version = v /\ Makes(t, o)
  OBVIOUS
<1>4. CASE v # 1 \/ o \in BaselineTables \/ TableOf(o) \in seen
  <2>1. Lacks(v, seen, o)
    BY <1>4 DEF Lacks, BaselineLacks, AdditionLacks
  <2> QED  BY <1>1, <1>2, <1>3, <2>1
<1>5. CASE v = 1 /\ o \notin BaselineTables /\ TableOf(o) \notin seen
  <2>1. TableOf(o) \in BaselineTables /\ TableOf(o) \in Objects(1) /\ TableOf(o) \in Known
    BY <1>5, NeedsOfBaseline, BaselineObjects, KnownObjects
  <2>2. PICK m \in DOMAIN Registry(1) : TableOf(o) = Registry(1)[m]
    BY <2>1 DEF Objects, Range
  <2>3. Lacks(1, seen, TableOf(o))
    BY <1>5, <2>1 DEF Lacks, BaselineLacks
  <2>4. o \in Creates(TableOf(o))
    BY <1>5, <2>1, CreatesSome
  <2> QED  BY <1>1, <1>5, <2>2, <2>3, <2>4
<1> QED  BY <1>4, <1>5

\* A plan owes what its versions say
LEMMA PlanOwed ==
    ASSUME NEW code \in CodeRec, NEW seen \in SUBSET Known, NEW there, seen \subseteq there,
           NEW applied \in SUBSET [version : Versions, edited : BOOLEAN], NEW rows, applied \subseteq rows
    PROVE  Owed(code, PlanOf(code, seen, applied), there, rows)
<1> DEFINE plan == PlanOf(code, seen, applied)
<1> SUFFICES ASSUME NEW s \in plan, Records(s)
             PROVE  /\ s.version \in 1..code.knows
                    /\ \A o \in Objects(s.version) : o \in there \/ \E t \in plan : t.version = s.version /\ Makes(t, o)
                    /\ \A u \in 1..s.version - 1 : IsRecorded(rows, u) \/ Recording(u) \in plan
  BY DEF Owed
<1>1. s.version \in PendingVersions(code, applied)
  BY StepsOfPlan
<1>2. s.version \in 1..code.knows /\ code.knows \in 1..5
  BY <1>1, FiveVersions DEF PendingVersions, CodeRec
<1>3. ASSUME NEW o \in Objects(s.version)
      PROVE  o \in there \/ \E t \in plan : t.version = s.version /\ Makes(t, o)
  BY <1>1, PlanMakes
<1>4. ASSUME NEW u \in 1..s.version - 1  PROVE IsRecorded(rows, u) \/ Recording(u) \in plan
  <2>1. u \in 1..code.knows
    BY <1>2
  <2>2. CASE u \in PendingVersions(code, applied)
    BY <2>2, PlanHas
  <2>3. CASE u \notin PendingVersions(code, applied)
    BY <2>1, <2>3 DEF PendingVersions, IsRecorded
  <2> QED  BY <2>2, <2>3
<1> QED  BY <1>2, <1>3, <1>4

\* The plan of a release that has not drifted covers its versions
LEMMA PlanCovers ==
    ASSUME NEW code \in CodeRec, NEW seen \in SUBSET Known, NEW there,
           NEW applied \in SUBSET [version : Versions, edited : BOOLEAN], NEW rows, applied \subseteq rows,
           ~Drifted(code, applied)
    PROVE  Covers(code, PlanOf(code, seen, applied), there, rows)
<1> DEFINE plan == PlanOf(code, seen, applied)
<1>1. plan = {} \/ AtPlace(0, 1) \in plan
  BY DEF PlanOf
<1>2. ASSUME NEW v \in 1..code.knows  PROVE AsOf(code, rows, v) \/ Recording(v) \in plan
  <2>1. CASE v \in PendingVersions(code, applied)
    BY <2>1, PlanHas
  <2>2. CASE v \notin PendingVersions(code, applied)
    <3>1. PICK r \in applied : r.version = v
      BY <2>2 DEF PendingVersions
    <3>2. r.version <= code.knows /\ r.edited \in BOOLEAN
      BY <3>1, FiveVersions DEF CodeRec
    <3>3. r.edited = (v \in code.edited)
      BY <3>1, <3>2 DEF Drifted
    <3> QED  BY <3>1, <3>3 DEF AsOf
  <2> QED  BY <2>1, <2>2
<1> QED  BY <1>1, <1>2 DEF Covers

\* What is executed is of one statement only
LEMMA ObjectOnce ==
    ASSUME NEW s \in Steps, NEW t \in Steps, ~Records(s), ~Records(t), ObjectOf(s) = ObjectOf(t)
    PROVE  s = t
  BY RecordsLast, EachOnce DEF ObjectOf

\* A table of the baseline is its own table
LEMMA OwnTable == \A o \in BaselineTables : TableOf(o) = o
  BY TablesOfBaseline DEF TableOf

\* A plan of who saw the schema and the versions as they are will run undisturbed
LEMMA PlanRunsAlone ==
    ASSUME NEW code \in CodeRec, NEW seen \in SUBSET Known,
           NEW rows \in SUBSET [version : Versions, edited : BOOLEAN],
           \A r \in rows : Objects(r.version) \subseteq seen
    PROVE  RunsAlone(PlanOf(code, seen, rows), seen, rows)
<1> DEFINE plan == PlanOf(code, seen, rows)
           pending == PendingVersions(code, rows)
<1>0. pending \subseteq Versions /\ pending \subseteq AllVersions /\ pending \subseteq 1..5 /\ code.knows \in 1..5
      /\ pending \subseteq 1..code.knows
  BY FiveVersions DEF PendingVersions, CodeRec, AllVersions
<1>1. ASSUME NEW t \in plan, ~Records(t)
      PROVE  ObjectOf(t) \notin seen \/ IfNotExists(ObjectOf(t))
  BY <1>1, StepsOfPlan, BaselineObjects DEF Lacks, BaselineLacks, AdditionLacks
<1>2. ASSUME NEW t \in plan, ~Records(t), NEW o \in Needs(ObjectOf(t))
      PROVE  o \in seen \/ \E u \in plan : Before(u, t) /\ Makes(u, o)
  <2>1. CASE t = AtPlace(0, 1) /\ ObjectOf(t) = MigrationTable
    BY <2>1, <1>2 DEF Needs, MigrationTable
  <2>2. CASE t.version \in pending /\ t.place \in DOMAIN Registry(t.version) /\ t = AtPlace(t.version, t.place)
             /\ ObjectOf(t) = Registry(t.version)[t.place] /\ Lacks(t.version, seen, ObjectOf(t))
    <3>1. ObjectOf(t) \in Objects(t.version)
      BY <2>2, <1>0, ObjectAtPlace
    <3>2. CASE t.version = 1
      BY <1>2, <2>2, <3>1, <3>2, NeedsOfBaseline DEF Lacks, BaselineLacks
    <3>3. CASE t.version # 1
      <4>0. t.version \in 2..5 /\ t.version \in AllVersions
        BY <1>0, <2>2, <3>3
      <4>1. CASE \E u \in 1..t.version - 1 : o \in Objects(u)
        <5>1. PICK u \in 1..t.version - 1 : o \in Objects(u)
          BY <4>1
        <5>2. u \in 1..code.knows /\ u < t.version
          BY <1>0, <2>2, <4>0
        <5>3. CASE u \in pending
          <6>1. o \in seen \/ \E s \in plan : s.version = u /\ Makes(s, o)
            BY <5>1, <5>3, PlanMakes
          <6> QED  BY <5>2, <6>1 DEF Before
        <5>4. CASE u \notin pending
          BY <5>1, <5>2, <5>4 DEF PendingVersions
        <5> QED  BY <5>3, <5>4
      <4>2. CASE \E j \in DOMAIN Registry(t.version) : j < t.place /\ o = Registry(t.version)[j]
        <5>1. PICK j \in DOMAIN Registry(t.version) : j < t.place /\ o = Registry(t.version)[j]
          BY <4>2
        <5>2. CASE o \notin seen
          <6>1. AtPlace(t.version, j) \in plan
            BY <2>2, <3>3, <5>1, <5>2, PlanHas DEF Lacks, AdditionLacks
          <6>2. Makes(AtPlace(t.version, j), o)
            BY <4>0, <5>1, StepsOf, ObjectAtPlace, CreatesSome DEF Makes
          <6>3. Before(AtPlace(t.version, j), t)
            BY <4>0, <5>1, StepsOf DEF Before
          <6> QED  BY <6>1, <6>2, <6>3
        <5> QED  BY <5>2
      <4> QED  BY <1>2, <2>2, <4>0, <4>1, <4>2, NeedsOfAddition
    <3> QED  BY <3>2, <3>3
  <2> QED  BY <1>2, <2>1, <2>2, StepsOfPlan
<1>3. ASSUME NEW t \in plan, ~Records(t), NEW u \in plan \ {t}, ~Records(u)
      PROVE  ~Makes(u, ObjectOf(t))
  <2> SUFFICES ASSUME ObjectOf(t) \in Creates(ObjectOf(u)) PROVE FALSE
    BY DEF Makes
  <2>1. t \in Steps /\ u \in Steps
    BY StepsOfPlan
  <2>2. ObjectOf(t) # ObjectOf(u)
    BY <1>3, <2>1, ObjectOnce
  <2>3. ObjectOf(u) \in Known /\ ObjectOf(t) \in Objects(t.version) /\ ObjectOf(u) \in Objects(u.version)
        /\ t.version \in 0..5 /\ u.version \in 0..5
    BY <1>3, <2>1, RecordsLast, FiveVersions
  <2>4. ObjectOf(u) \in BaselineTables /\ ObjectOf(t) \in Objects(1) /\ TableOf(ObjectOf(t)) = ObjectOf(u)
    BY <2>2, <2>3, CreatesSome
  <2>5. t.version = 1 /\ u.version = 1
    BY <2>3, <2>4, BaselineObjects, Apart
  <2>6. t # AtPlace(0, 1) /\ u # AtPlace(0, 1)
    BY <2>5 DEF AtPlace
  <2>7. Lacks(1, seen, ObjectOf(t)) /\ Lacks(1, seen, ObjectOf(u))
    BY <1>3, <2>5, <2>6, StepsOfPlan
  <2> QED  BY <2>2, <2>4, <2>7, OwnTable DEF Lacks, BaselineLacks
<1>4. ASSUME NEW t \in plan, Records(t)  PROVE ~IsRecorded(rows, t.version)
  BY <1>4, StepsOfPlan DEF PendingVersions, IsRecorded
<1> QED  BY <1>1, <1>2, <1>3, <1>4 DEF RunsAlone

-----------------------------------------------------------------------------
(* The statements, one after the other                                     *)

\* What a plan owes and covers stays so as more is there and more is recorded
LEMMA PlanKeeps ==
    ASSUME NEW m, NEW code, NEW there, NEW more, there \subseteq more, NEW rows, NEW later, rows \subseteq later,
           PlanInv(m, code, there, rows)
    PROVE  PlanInv(m, code, more, later)
<1>1. \A v : (AsOf(code, rows, v) => AsOf(code, later, v)) /\ (IsRecorded(rows, v) => IsRecorded(later, v))
  BY DEF AsOf, IsRecorded
<1>2. Owed(code, m.todo, there, rows) => Owed(code, m.todo, more, later)
  BY <1>1 DEF Owed
<1>3. Covers(code, m.todo, there, rows) => Covers(code, m.todo, more, later)
  BY <1>1 DEF Covers
<1> QED  BY <1>1, <1>2, <1>3 DEF PlanInv

\* The first statement of a plan
LEMMA StatementIsFirst ==
    ASSUME NEW p \in Migrators, migrator[p].todo \in SUBSET Steps, migrator[p].todo # {}
    PROVE  Statement(p) \in migrator[p].todo /\ \A t \in migrator[p].todo \ {Statement(p)} : Before(Statement(p), t)
  BY FirstExists DEF Statement

\* A plan after its first statement was executed
LEMMA AfterExecute ==
    ASSUME NEW code, NEW todo \in SUBSET Steps, NEW s \in todo, ~Records(s), \A t \in todo \ {s} : Before(s, t),
           NEW there, NEW rows
    PROVE  LET rest == todo \ {s}
               more == there \cup Creates(ObjectOf(s))
           IN  /\ Owed(code, todo, there, rows) => Owed(code, rest, more, rows)
               /\ Covers(code, todo, there, rows) => Covers(code, rest, more, rows)
               /\ RunsAlone(todo, there, rows) => RunsAlone(rest, more, rows)
<1> DEFINE rest == todo \ {s}
           more == there \cup Creates(ObjectOf(s))
<1>0. \A t \in todo \ {s} : ~Before(t, s) /\ t # s
  BY BeforeOnce
<1>1. \A o : Makes(s, o) => o \in more
  BY DEF Makes
<1>2. \A u : Recording(u) # s
  BY DEF Records, Recording, AtPlace
<1>3. ASSUME Owed(code, todo, there, rows)  PROVE Owed(code, rest, more, rows)
  BY <1>1, <1>2, <1>3 DEF Owed
<1>4. ASSUME Covers(code, todo, there, rows)  PROVE Covers(code, rest, more, rows)
  <2>1. s = AtPlace(0, 1) => MigrationTable \in more
    <3>1. ObjectOf(AtPlace(0, 1)) = MigrationTable
      BY Registries DEF ObjectOf, AtPlace
    <3> QED  BY <3>1 DEF Creates
  <2> QED  BY <1>2, <1>4, <2>1 DEF Covers
<1>5. ASSUME RunsAlone(todo, there, rows)  PROVE RunsAlone(rest, more, rows)
  <2>1. ASSUME NEW t \in rest, ~Records(t)
        PROVE  ObjectOf(t) \notin more \/ IfNotExists(ObjectOf(t))
    BY <1>5, <2>1 DEF RunsAlone, Makes
  <2>2. ASSUME NEW t \in rest, ~Records(t), NEW o \in Needs(ObjectOf(t))
        PROVE  o \in more \/ \E u \in rest : Before(u, t) /\ Makes(u, o)
    BY <1>1, <1>5, <2>2 DEF RunsAlone
  <2> QED  BY <1>5, <2>1, <2>2 DEF RunsAlone
<1> QED  BY <1>3, <1>4, <1>5

\* A plan after its first statement has recorded a version
LEMMA AfterRecord ==
    ASSUME NEW code, NEW todo \in SUBSET Steps, NEW s \in todo, Records(s), \A t \in todo \ {s} : Before(s, t),
           NEW there, NEW rows
    PROVE  LET rest == todo \ {s}
               later == rows \cup {[version |-> s.version, edited |-> s.version \in code.edited]}
           IN  /\ Owed(code, todo, there, rows) => Owed(code, rest, there, later)
               /\ Covers(code, todo, there, rows) => Covers(code, rest, there, later)
               /\ RunsAlone(todo, there, rows) => RunsAlone(rest, there, later)
<1> DEFINE rest == todo \ {s}
           later == rows \cup {[version |-> s.version, edited |-> s.version \in code.edited]}
<1>1. \A t, o : Makes(t, o) => t # s
  BY DEF Makes
<1>2. \A u : Recording(u) = s => IsRecorded(later, u) /\ AsOf(code, later, u)
  <2> DEFINE row == [version |-> s.version, edited |-> s.version \in code.edited]
  <2>1. \A u : Recording(u) = s => s.version = u
    BY DEF Recording, AtPlace
  <2>2. row \in later /\ row.version = s.version /\ (row.edited <=> s.version \in code.edited)
    BY Zenon
  <2> QED  BY <2>1, <2>2, Zenon DEF IsRecorded, AsOf
<1>3. \A u : (IsRecorded(rows, u) => IsRecorded(later, u)) /\ (AsOf(code, rows, u) => AsOf(code, later, u))
  BY DEF IsRecorded, AsOf
<1>4. ASSUME Owed(code, todo, there, rows)  PROVE Owed(code, rest, there, later)
  <2> SUFFICES ASSUME NEW t \in rest, Records(t)
               PROVE  /\ t.version \in 1..code.knows
                      /\ \A o \in Objects(t.version) : o \in there \/ \E c \in rest : c.version = t.version /\ Makes(c, o)
                      /\ \A u \in 1..t.version - 1 : IsRecorded(later, u) \/ Recording(u) \in rest
    BY DEF Owed
  <2> QED  BY <1>1, <1>2, <1>3, <1>4 DEF Owed
<1>5. ASSUME Covers(code, todo, there, rows)  PROVE Covers(code, rest, there, later)
  <2>1. s # AtPlace(0, 1)
    <3>1. 0 \in AllVersions /\ 1 \in DOMAIN Registry(0)
      BY Places DEF AllVersions
    <3> QED  BY <3>1, StepsOf
  <2> QED  BY <1>2, <1>3, <1>5, <2>1 DEF Covers
<1>6. ASSUME RunsAlone(todo, there, rows)  PROVE RunsAlone(rest, there, later)
  <2>1. ASSUME NEW t \in rest, Records(t)  PROVE ~IsRecorded(later, t.version)
    <3>1. t.version # s.version
      BY <2>1 DEF Records
    <3> QED  BY <1>6, <2>1, <3>1 DEF RunsAlone, IsRecorded
  <2>2. ASSUME NEW t \in rest, ~Records(t)
        PROVE  /\ ObjectOf(t) \notin there \/ IfNotExists(ObjectOf(t))
               /\ \A o \in Needs(ObjectOf(t)) : o \in there \/ \E u \in rest : Before(u, t) /\ Makes(u, o)
               /\ \A u \in rest \ {t} : ~Records(u) => ~Makes(u, ObjectOf(t))
    BY <1>1, <1>6, <2>2 DEF RunsAlone
  <2> QED  BY <2>1, <2>2 DEF RunsAlone
<1> QED  BY <1>4, <1>5, <1>6

\* When the first statement of a plan records a version, what the plan owes for it is there, the
\* versions before it are recorded, and so is the table of the versions
LEMMA RecordsWhatIsThere ==
    ASSUME NEW code, NEW todo \in SUBSET Steps, NEW s \in todo, Records(s), \A t \in todo \ {s} : Before(s, t),
           NEW there, NEW rows, Owed(code, todo, there, rows), Covers(code, todo, there, rows)
    PROVE  /\ Objects(s.version) \subseteq there /\ MigrationTable \in there
           /\ \A u \in 1..s.version - 1 : IsRecorded(rows, u)
           /\ s.version \in 1..code.knows
<1>1. s.version \in AllVersions /\ s.version \in 0..5 /\ s.place = Len(Registry(s.version)) + 1
      /\ Len(Registry(s.version)) \in Nat
  BY RecordsLast, FiveVersions, RegistryLength
<1>2. ASSUME NEW t \in todo, t.version = s.version  PROVE Records(t)
  <2>1. t.place \in 1..Len(Registry(s.version)) + 1
    BY <1>2 DEF Steps
  <2>2. CASE t # s
    BY <1>1, <1>2, <2>1, <2>2 DEF Before
  <2> QED  BY <2>2
<1>3. Objects(s.version) \subseteq there
  BY <1>2 DEF Owed, Makes
<1>4. ASSUME NEW u \in 1..s.version - 1  PROVE IsRecorded(rows, u)
  <2>1. u < s.version /\ Recording(u).version = u /\ u \in AllVersions
    BY <1>1, FiveVersions DEF Recording, AtPlace
  <2>2. Recording(u) \notin todo
    BY <1>1, <2>1 DEF Before
  <2> QED  BY <2>2 DEF Owed
<1>5. MigrationTable \in there
  <2>1. s # AtPlace(0, 1) /\ AtPlace(0, 1).version = 0 /\ s.version \in 1..code.knows
    <3>1. 0 \in AllVersions /\ 1 \in DOMAIN Registry(0)
      BY Places DEF AllVersions
    <3> QED  BY <3>1, StepsOf DEF Owed
  <2>2. AtPlace(0, 1) \notin todo
    BY <1>1, <2>1 DEF Before
  <2> QED  BY <2>2 DEF Covers
<1> QED  BY <1>3, <1>4, <1>5 DEF Owed

\* A statement that nobody disturbs does not fail
LEMMA FirstSucceeds ==
    ASSUME NEW todo \in SUBSET Steps, NEW s \in todo, \A t \in todo \ {s} : Before(s, t),
           NEW there, NEW rows, RunsAlone(todo, there, rows)
    PROVE  /\ ~Records(s) => /\ ObjectOf(s) \in there => IfNotExists(ObjectOf(s))
                             /\ Needs(ObjectOf(s)) \subseteq there
           /\ Records(s) => ~IsRecorded(rows, s.version)
<1>1. \A t \in todo : ~Before(t, s)
  <2>1. \A t \in todo \ {s} : ~Before(t, s)
    BY BeforeOnce
  <2>2. ~Before(s, s)
    BY RecordsLast, FiveVersions DEF Before
  <2> QED  BY <2>1, <2>2
<1> QED  BY <1>1 DEF RunsAlone

-----------------------------------------------------------------------------
(* The schema: the actions                                                 *)

\* A release is a code
LEMMA CodeOf == MgTyped => \A p \in Migrators : release[p] \in CodeRec
  BY MigrationAssumption DEF MgTyped, CodeRec

\* A step of who is at work keeps the invariant if it keeps what concerns its own plan and the
\* versions that are recorded
LEMMA StepKeeps ==
    ASSUME MgInv, NEW p \in Migrators, Busy(p),
           migrator' \in [Migrators -> MigratorRec], \A q \in Migrators \ {p} : migrator'[q] = migrator[q],
           migrator'[p].alone = migrator[p].alone,
           schema \subseteq schema', schema' \subseteq Known,
           recorded \subseteq recorded', recorded' \subseteq [version : Versions, edited : BOOLEAN],
           release' = release, migrations' = migrations,
           PlanInv(migrator'[p], release[p], schema', recorded'), AloneInv(migrator'[p], schema', recorded'),
           RecordedIsThere', MigrationTable \in schema' \/ recorded' = {}
    PROVE  MgInv'
<1>1. MgTyped'
  BY DEF MgInv, MgTyped
<1>2. ASSUME NEW q \in Migrators \ {p}
      PROVE  /\ PlanInv(migrator[q], release[q], schema', recorded')
             /\ AloneInv(migrator[q], schema', recorded')
  <2>1. PlanInv(migrator[q], release[q], schema', recorded')
    <3>1. PlanInv(migrator[q], release[q], schema, recorded)
      BY DEF MgInv
    <3> QED  BY <3>1, PlanKeeps
  <2>2. AloneInv(migrator[q], schema', recorded')
    BY DEF MgInv, AloneInv, Busy
  <2> QED  BY <2>1, <2>2
<1>3. ASSUME NEW q \in Migrators
      PROVE  PlanInv(migrator'[q], release'[q], schema', recorded') /\ AloneInv(migrator'[q], schema', recorded')
  BY <1>2
<1>4. ASSUME NEW q \in Migrators, migrator'[q].alone, Busy(q)', NEW r \in Migrators \ {q}
      PROVE  ~Busy(r)'
  <2>1. migrator[q].alone /\ Busy(q)
    BY <1>4 DEF Busy
  <2>2. ~Busy(r) /\ r # p
    BY <2>1 DEF MgInv
  <2> QED  BY <2>2 DEF Busy
<1> QED  BY <1>1, <1>3, <1>4 DEF MgInv

\* At first
LEMMA MigrationsStart == MgInit => MgInv
<1> SUFFICES ASSUME MgInit PROVE MgInv
  OBVIOUS
<1>1. PICK d \in Databases :
        schema = d.objects /\ recorded = {[version |-> v, edited |-> FALSE] : v \in 1..d.versions}
  BY DEF MgInit
<1>2. d.objects \subseteq Known /\ d.versions \in 0..5
      /\ \A v \in 1..d.versions : Objects(v) \subseteq d.objects /\ MigrationTable \in d.objects
  BY MigrationAssumption, FiveVersions
<1>3. \A r \in recorded : r.version \in 1..d.versions /\ r = [version |-> r.version, edited |-> FALSE]
  <2> SUFFICES ASSUME NEW r \in recorded
               PROVE  r.version \in 1..d.versions /\ r = [version |-> r.version, edited |-> FALSE]
    OBVIOUS
  <2>1. \E v \in 1..d.versions : r = [version |-> v, edited |-> FALSE]
    BY <1>1, Zenon
  <2>2. PICK v \in 1..d.versions : r = [version |-> v, edited |-> FALSE]
    BY <2>1
  <2> QED  BY <2>2
<1>4. \A v \in 1..d.versions : \E r \in recorded : r.version = v
  <2> SUFFICES ASSUME NEW v \in 1..d.versions PROVE \E r \in recorded : r.version = v
    OBVIOUS
  <2>1. [version |-> v, edited |-> FALSE] \in recorded
    BY <1>1, Zenon
  <2> QED  BY <2>1
<1>5. MgTyped
  <2>1. recorded \subseteq [version : Versions, edited : BOOLEAN]
    <3> SUFFICES ASSUME NEW r \in recorded PROVE r \in [version : Versions, edited : BOOLEAN]
      OBVIOUS
    <3>1. r.version \in Versions
      BY <1>2, <1>3, FiveVersions
    <3>2. PICK v \in Versions : r = [version |-> v, edited |-> FALSE]
      BY <1>3, <3>1
    <3> QED  BY <3>2
  <2>2. migrator \in [Migrators -> MigratorRec]
    BY DEF MgInit, MigratorRec, MigratorPcs
  <2> QED  BY <1>1, <1>2, <2>1, <2>2, MigrationAssumption DEF MgInit, MgTyped
<1>6. RecordedIsThere
  <2> SUFFICES ASSUME NEW r \in recorded
               PROVE  /\ Objects(r.version) \subseteq schema
                      /\ \A v \in 1..r.version - 1 : \E q \in recorded : q.version = v
                      /\ \A q \in recorded : q.version = r.version => q = r
    BY DEF RecordedIsThere
  <2>1. r.version \in 1..d.versions /\ d.versions \in 0..5
    BY <1>2, <1>3
  <2>2. \A v \in 1..r.version - 1 : v \in 1..d.versions
    BY <2>1
  <2>3. \A q \in recorded : q.version = r.version => q = r
    BY <1>3
  <2> QED  BY <1>1, <1>2, <1>4, <2>1, <2>2, <2>3
<1>7. MigrationTable \in schema \/ recorded = {}
  BY <1>1, <1>2, <1>3
<1>8. ASSUME NEW p \in Migrators
      PROVE  /\ PlanInv(migrator[p], release[p], schema, recorded)
             /\ AloneInv(migrator[p], schema, recorded)
             /\ ~Busy(p)
  BY DEF MgInit, PlanInv, AloneInv, Busy
<1> QED  BY <1>5, <1>6, <1>7, <1>8 DEF MgInv

\* A run begins
LEMMA InspectKeeps ==
    ASSUME MgInv, NEW p \in Migrators, Inspect(p)
    PROVE  MgInv'
<1>0. MgTyped /\ RecordedIsThere /\ (MigrationTable \in schema \/ recorded = {})
  BY DEF MgInv
<1>1. /\ migrator'[p] = [pc |-> "inspecting", seen |-> schema, todo |-> {}, alone |-> \A o \in Migrators : ~Busy(o)]
      /\ \A q \in Migrators \ {p} : migrator'[q] = [migrator[q] EXCEPT !.alone = FALSE]
      /\ schema' = schema /\ recorded' = recorded /\ release' = release
  BY DEF Inspect
<1>2. \A q \in Migrators \ {p} :
         /\ migrator'[q].pc = migrator[q].pc /\ migrator'[q].seen = migrator[q].seen
         /\ migrator'[q].todo = migrator[q].todo /\ migrator'[q].alone = FALSE
         /\ migrator'[q] \in MigratorRec
  BY <1>0, <1>1 DEF MgTyped, MigratorRec
<1>3. /\ migrator'[p].pc = "inspecting" /\ migrator'[p].seen = schema /\ migrator'[p].todo = {}
      /\ (migrator'[p].alone => \A o \in Migrators : ~Busy(o)) /\ migrator'[p] \in MigratorRec
  <2> DEFINE nobody == \A o \in Migrators : ~Busy(o)
  <2>1. nobody \in BOOLEAN
    BY Zenon
  <2> HIDE DEF nobody
  <2>2. migrator'[p] = [pc |-> "inspecting", seen |-> schema, todo |-> {}, alone |-> nobody]
    BY <1>1 DEF nobody
  <2>3. migrator'[p].alone <=> nobody
    BY <2>1, <2>2
  <2>4. /\ migrator'[p].pc = "inspecting" /\ migrator'[p].seen = schema /\ migrator'[p].todo = {}
        /\ migrator'[p] \in MigratorRec
    BY <1>0, <2>1, <2>2 DEF MgTyped, MigratorRec, MigratorPcs
  <2> QED  BY <2>3, <2>4 DEF nobody
<1>4. MgTyped'
  <2>1. migrator' \in [Migrators -> MigratorRec]
    BY <1>2, <1>3 DEF Inspect
  <2>2. migrations' \in 0..MaxRuns
    BY <1>0, MigrationAssumption DEF Inspect, MgTyped
  <2> QED  BY <1>0, <1>1, <2>1, <2>2 DEF MgTyped
<1>5. RecordedIsThere'
  BY <1>0, <1>1 DEF RecordedIsThere
<1>6. ASSUME NEW q \in Migrators
      PROVE  /\ PlanInv(migrator'[q], release'[q], schema', recorded')
             /\ AloneInv(migrator'[q], schema', recorded')
  <2>1. CASE q = p
    BY <1>1, <1>3, <2>1 DEF PlanInv, AloneInv
  <2>2. CASE q # p
    BY <1>1, <1>2, <2>2 DEF MgInv, PlanInv, AloneInv
  <2> QED  BY <2>1, <2>2
<1>7. ASSUME NEW q \in Migrators, migrator'[q].alone, NEW r \in Migrators \ {q}
      PROVE  ~Busy(r)'
  <2>1. q = p
    BY <1>2, <1>7
  <2> QED  BY <1>2, <1>3, <1>7, <2>1 DEF Busy
<1> QED  BY <1>0, <1>1, <1>4, <1>5, <1>6, <1>7 DEF MgInv

\* A run ends without a failure, and leaves the schema and the versions as they are
LEMMA EndKeeps ==
    ASSUME MgInv, NEW p \in Migrators, Busy(p), NEW pc \in {"done", "refused", "died"}, MigrationEnds(p, pc),
           UNCHANGED <<schema, recorded, release, migrations>>,
           pc = "done" => \A v \in 1..release[p].knows : AsOf(release[p], recorded, v)
    PROVE  MgInv'
<1>0. MgTyped /\ RecordedIsThere /\ (MigrationTable \in schema \/ recorded = {})
  BY DEF MgInv
<1>1. /\ migrator' \in [Migrators -> MigratorRec] /\ \A q \in Migrators \ {p} : migrator'[q] = migrator[q]
      /\ migrator'[p].pc = pc /\ migrator'[p].seen = {} /\ migrator'[p].todo = {}
      /\ migrator'[p].alone = migrator[p].alone
  BY <1>0 DEF MigrationEnds, MgTyped, MigratorRec, MigratorPcs
<1>2. PlanInv(migrator'[p], release[p], schema', recorded') /\ AloneInv(migrator'[p], schema', recorded')
  BY <1>1 DEF PlanInv, AloneInv
<1>3. RecordedIsThere'
  BY <1>0 DEF RecordedIsThere
<1> QED  BY <1>0, <1>1, <1>2, <1>3, StepKeeps DEF MgTyped

\* A plan is made
LEMMA MakesPlanKeeps ==
    ASSUME MgInv, NEW p \in Migrators, MakesPlan(p)
    PROVE  MgInv'
<1> DEFINE code == release[p]
           seen == migrator[p].seen
<1>0. MgTyped /\ RecordedIsThere /\ (MigrationTable \in schema \/ recorded = {}) /\ Busy(p)
      /\ migrator[p].pc = "inspecting" /\ code \in CodeRec /\ seen \in SUBSET Known /\ seen \subseteq schema
      /\ Applied(p) \subseteq recorded /\ Applied(p) \in SUBSET [version : Versions, edited : BOOLEAN]
  BY CodeOf DEF MgInv, MgTyped, MakesPlan, Busy, PlanInv, Applied, MigratorRec
<1>1. CASE MigrationEnds(p, "refused") /\ UNCHANGED <<schema, recorded, release, migrations>>
  BY <1>0, <1>1, EndKeeps
<1>2. CASE /\ ~Drifted(code, Applied(p)) /\ UNCHANGED <<schema, recorded, release, migrations>>
           /\ migrator' = [migrator EXCEPT ![p].pc = "applying", ![p].todo = PlanOf(code, seen, Applied(p))]
  <2> DEFINE plan == PlanOf(code, seen, Applied(p))
  <2>1. plan \in SUBSET Steps
    BY <1>0, StepsOfPlan
  <2>2. Owed(code, plan, schema, recorded) /\ Covers(code, plan, schema, recorded)
    BY <1>0, <1>2, PlanOwed, PlanCovers
  <2>3. ASSUME migrator[p].alone  PROVE RunsAlone(plan, schema, recorded)
    <3>1. seen = schema
      BY <1>0, <2>3 DEF MgInv, AloneInv
    <3>2. Applied(p) = recorded
      BY <1>0, <3>1 DEF Applied
    <3>3. \A r \in recorded : Objects(r.version) \subseteq seen
      BY <1>0, <3>1 DEF RecordedIsThere
    <3> QED  BY <1>0, <3>1, <3>2, <3>3, PlanRunsAlone
  <2> HIDE DEF plan
  <2>4. /\ migrator' \in [Migrators -> MigratorRec] /\ \A q \in Migrators \ {p} : migrator'[q] = migrator[q]
        /\ migrator'[p].pc = "applying" /\ migrator'[p].seen = seen /\ migrator'[p].todo = plan
        /\ migrator'[p].alone = migrator[p].alone
    <3>1. migrator' = [migrator EXCEPT ![p].pc = "applying", ![p].todo = plan]
      BY <1>2 DEF plan
    <3> QED  BY <1>0, <2>1, <3>1 DEF MgTyped, MigratorRec, MigratorPcs
  <2>5. PlanInv(migrator'[p], code, schema', recorded') /\ AloneInv(migrator'[p], schema', recorded')
    BY <1>0, <1>2, <2>2, <2>3, <2>4 DEF PlanInv, AloneInv
  <2>6. RecordedIsThere'
    BY <1>0, <1>2 DEF RecordedIsThere
  <2> QED  BY <1>0, <1>2, <2>4, <2>5, <2>6, StepKeeps DEF MgTyped
<1> QED  BY <1>1, <1>2 DEF MakesPlan

\* A failure of who was not alone changes nothing else
LEMMA FailKeeps ==
    ASSUME MgInv, NEW p \in Migrators, Busy(p), MigrationEnds(p, "failed"), ~migrator[p].alone,
           UNCHANGED <<schema, recorded, release, migrations>>
    PROVE  MgInv'
<1>0. MgTyped /\ RecordedIsThere /\ (MigrationTable \in schema \/ recorded = {})
  BY DEF MgInv
<1>1. /\ migrator' \in [Migrators -> MigratorRec] /\ \A q \in Migrators \ {p} : migrator'[q] = migrator[q]
      /\ migrator'[p].pc = "failed" /\ migrator'[p].seen = {} /\ migrator'[p].todo = {}
      /\ migrator'[p].alone = migrator[p].alone
  BY <1>0 DEF MigrationEnds, MgTyped, MigratorRec, MigratorPcs
<1>2. PlanInv(migrator'[p], release[p], schema', recorded') /\ AloneInv(migrator'[p], schema', recorded')
  BY <1>1 DEF PlanInv, AloneInv
<1>3. RecordedIsThere'
  BY <1>0 DEF RecordedIsThere
<1> QED  BY <1>0, <1>1, <1>2, <1>3, StepKeeps DEF MgTyped

\* What is known of the first statement of who works at a plan
LEMMA WorksAt ==
    ASSUME MgInv, NEW p \in Migrators, Works(p)
    PROVE  /\ Busy(p) /\ migrator[p].todo \in SUBSET Steps /\ migrator[p].seen \subseteq schema
           /\ Statement(p) \in migrator[p].todo
           /\ \A t \in migrator[p].todo \ {Statement(p)} : Before(Statement(p), t)
           /\ Owed(release[p], migrator[p].todo, schema, recorded)
           /\ Covers(release[p], migrator[p].todo, schema, recorded)
           /\ migrator[p].alone => RunsAlone(migrator[p].todo, schema, recorded)
<1>1. Busy(p) /\ migrator[p].todo \in SUBSET Steps /\ migrator[p].todo # {} /\ migrator[p].pc = "applying"
  BY DEF Works, Busy, MgInv, MgTyped, MigratorRec
<1>2. PlanInv(migrator[p], release[p], schema, recorded) /\ AloneInv(migrator[p], schema, recorded)
  BY DEF MgInv
<1> QED  BY <1>1, <1>2, StatementIsFirst DEF PlanInv, AloneInv

\* What is done with a statement
LEMMA StepDoneGives ==
    ASSUME MgTyped, NEW p \in Migrators, StepDone(p)
    PROVE  /\ migrator' \in [Migrators -> MigratorRec] /\ \A q \in Migrators \ {p} : migrator'[q] = migrator[q]
           /\ migrator'[p].pc = migrator[p].pc /\ migrator'[p].seen = migrator[p].seen
           /\ migrator'[p].todo = migrator[p].todo \ {Statement(p)} /\ migrator'[p].alone = migrator[p].alone
<1>1. PICK s : s = Statement(p)
  OBVIOUS
<1>2. migrator' = [migrator EXCEPT ![p].todo = @ \ {s}]
  BY <1>1 DEF StepDone
<1> QED  BY <1>1, <1>2 DEF MgTyped, MigratorRec

\* A statement is executed
LEMMA ExecuteKeeps ==
    ASSUME MgInv, NEW p \in Migrators, Execute(p)
    PROVE  MgInv'
<1>0. MgTyped /\ RecordedIsThere /\ (MigrationTable \in schema \/ recorded = {})
  BY DEF MgInv
<1>1. PICK s : s = Statement(p)
  OBVIOUS
<1>2. PICK m : m = migrator[p]
  OBVIOUS
<1>3. /\ Busy(p) /\ m.todo \in SUBSET Steps /\ m.seen \subseteq schema /\ s \in m.todo /\ ~Records(s)
      /\ \A t \in m.todo \ {s} : Before(s, t)
      /\ Owed(release[p], m.todo, schema, recorded) /\ Covers(release[p], m.todo, schema, recorded)
      /\ m.alone => RunsAlone(m.todo, schema, recorded)
      /\ m.pc = "applying" /\ UNCHANGED <<recorded, release, migrations>>
  BY <1>1, <1>2, WorksAt DEF Execute, Works
<1>4. CASE (ObjectOf(s) \in schema /\ ~IfNotExists(ObjectOf(s))) \/ ~(Needs(ObjectOf(s)) \subseteq schema)
  <2>1. MigrationEnds(p, "failed") /\ UNCHANGED schema
    BY <1>1, <1>4 DEF Execute
  <2>2. ~m.alone
    BY <1>3, <1>4, FirstSucceeds
  <2> QED  BY <1>2, <1>3, <2>1, <2>2, FailKeeps
<1>5. CASE ~((ObjectOf(s) \in schema /\ ~IfNotExists(ObjectOf(s))) \/ ~(Needs(ObjectOf(s)) \subseteq schema))
  <2>1. StepDone(p) /\ schema' = schema \cup Creates(ObjectOf(s))
    BY <1>1, <1>5 DEF Execute
  <2>2. Creates(ObjectOf(s)) \subseteq Known
    BY <1>3, RecordsLast, CreatesSome
  <2>3. /\ migrator' \in [Migrators -> MigratorRec] /\ \A q \in Migrators \ {p} : migrator'[q] = migrator[q]
        /\ migrator'[p].pc = "applying" /\ migrator'[p].seen = m.seen
        /\ migrator'[p].todo = m.todo \ {s} /\ migrator'[p].alone = m.alone
    BY <1>0, <1>1, <1>2, <1>3, <2>1, StepDoneGives
  <2>4. /\ Owed(release[p], m.todo \ {s}, schema', recorded)
        /\ Covers(release[p], m.todo \ {s}, schema', recorded)
        /\ m.alone => RunsAlone(m.todo \ {s}, schema', recorded)
    BY <1>3, <2>1, AfterExecute
  <2>5. PlanInv(migrator'[p], release[p], schema', recorded') /\ AloneInv(migrator'[p], schema', recorded')
    BY <1>3, <2>1, <2>3, <2>4 DEF PlanInv, AloneInv
  <2>6. RecordedIsThere'
    BY <1>0, <1>3, <2>1 DEF RecordedIsThere
  <2> QED  BY <1>0, <1>2, <1>3, <2>1, <2>2, <2>3, <2>5, <2>6, StepKeeps DEF MgTyped
<1> QED  BY <1>4, <1>5

\* A version is recorded
LEMMA RecordKeeps ==
    ASSUME MgInv, NEW p \in Migrators, Record(p)
    PROVE  MgInv'
<1>0. MgTyped /\ RecordedIsThere /\ (MigrationTable \in schema \/ recorded = {}) /\ release[p] \in CodeRec
  BY CodeOf DEF MgInv
<1>1. PICK s : s = Statement(p)
  OBVIOUS
<1>2. PICK m : m = migrator[p]
  OBVIOUS
<1>3. /\ Busy(p) /\ m.todo \in SUBSET Steps /\ m.seen \subseteq schema /\ s \in m.todo /\ Records(s)
      /\ \A t \in m.todo \ {s} : Before(s, t)
      /\ Owed(release[p], m.todo, schema, recorded) /\ Covers(release[p], m.todo, schema, recorded)
      /\ m.alone => RunsAlone(m.todo, schema, recorded)
      /\ m.pc = "applying" /\ UNCHANGED <<schema, release, migrations>>
  BY <1>1, <1>2, WorksAt DEF Record, Works
<1>4. CASE \E r \in recorded : r.version = s.version
  <2>1. MigrationEnds(p, "failed") /\ UNCHANGED recorded
    BY <1>1, <1>4 DEF Record
  <2>2. ~m.alone
    BY <1>3, <1>4, FirstSucceeds DEF IsRecorded
  <2> QED  BY <1>2, <1>3, <2>1, <2>2, FailKeeps
<1>5. CASE ~\E r \in recorded : r.version = s.version
  <2> DEFINE altered == s.version \in release[p].edited
  <2>0. altered \in BOOLEAN
    OBVIOUS
  <2>1. StepDone(p) /\ recorded' = recorded \cup {[version |-> s.version, edited |-> altered]}
    BY <1>1, <1>5 DEF Record
  <2>2. /\ Objects(s.version) \subseteq schema /\ MigrationTable \in schema /\ s.version \in 1..release[p].knows
        /\ \A u \in 1..s.version - 1 : IsRecorded(recorded, u)
    BY <1>3, RecordsWhatIsThere
  <2>3. s.version \in Versions
    BY <1>0, <2>2, FiveVersions DEF CodeRec
  <2>4. /\ migrator' \in [Migrators -> MigratorRec] /\ \A q \in Migrators \ {p} : migrator'[q] = migrator[q]
        /\ migrator'[p].pc = "applying" /\ migrator'[p].seen = m.seen
        /\ migrator'[p].todo = m.todo \ {s} /\ migrator'[p].alone = m.alone
    BY <1>0, <1>1, <1>2, <1>3, <2>1, StepDoneGives
  <2>5. /\ Owed(release[p], m.todo \ {s}, schema, recorded')
        /\ Covers(release[p], m.todo \ {s}, schema, recorded')
        /\ m.alone => RunsAlone(m.todo \ {s}, schema, recorded')
    BY <1>3, <2>1, AfterRecord
  <2> HIDE DEF altered
  <2>6. PlanInv(migrator'[p], release[p], schema', recorded') /\ AloneInv(migrator'[p], schema', recorded')
    BY <1>3, <2>4, <2>5 DEF PlanInv, AloneInv
  <2>7. PICK row : row = [version |-> s.version, edited |-> altered]
    OBVIOUS
  <2>8. recorded' = recorded \cup {row} /\ row.version = s.version /\ row \in [version : Versions, edited : BOOLEAN]
    BY <2>0, <2>1, <2>3, <2>7
  <2>9. RecordedIsThere'
    <3> SUFFICES ASSUME NEW r \in recorded'
                 PROVE  /\ Objects(r.version) \subseteq schema'
                        /\ \A v \in 1..r.version - 1 : \E q \in recorded' : q.version = v
                        /\ \A q \in recorded' : q.version = r.version => q = r
      BY DEF RecordedIsThere
    <3>1. CASE r = row
      BY <1>3, <1>5, <2>2, <2>8, <3>1 DEF IsRecorded
    <3>2. CASE r \in recorded
      BY <1>0, <1>3, <1>5, <2>8, <3>2 DEF RecordedIsThere
    <3> QED  BY <2>8, <3>1, <3>2
  <2> QED  BY <1>0, <1>2, <1>3, <2>2, <2>4, <2>6, <2>8, <2>9, StepKeeps DEF MgTyped
<1> QED  BY <1>4, <1>5

\* Every step keeps the invariant
LEMMA MigrationsStep == MgInv /\ [MgNext]_mgVars => MgInv'
<1> SUFFICES ASSUME MgInv, [MgNext]_mgVars PROVE MgInv'
  OBVIOUS
<1>1. CASE UNCHANGED mgVars
  BY <1>1 DEF mgVars, MgInv, MgTyped, RecordedIsThere, PlanInv, AloneInv, Busy
<1>2. ASSUME NEW p \in Migrators, Inspect(p) \/ MakesPlan(p) \/ Execute(p) \/ Record(p) \/ Applies(p) \/ Dies(p)
      PROVE  MgInv'
  <2>1. CASE Applies(p)
    <3>1. Busy(p) /\ migrator[p].todo = {} /\ migrator[p].pc = "applying" /\ MigrationEnds(p, "done")
          /\ UNCHANGED <<schema, recorded, release, migrations>>
      BY <2>1 DEF Applies, Busy
    <3>2. Covers(release[p], {}, schema, recorded)
      BY <3>1 DEF MgInv, PlanInv
    <3>3. \A v \in 1..release[p].knows : AsOf(release[p], recorded, v)
      BY <3>2 DEF Covers
    <3> QED  BY <3>1, <3>3, EndKeeps
  <2>2. CASE Dies(p)
    BY <2>2, EndKeeps DEF Dies
  <2> QED  BY <1>2, <2>1, <2>2, InspectKeeps, MakesPlanKeeps, ExecuteKeeps, RecordKeeps
<1> QED  BY <1>1, <1>2 DEF MgNext

\* What follows from the invariant
LEMMA MigrationsSound == MgInv => SchemaSound
<1> SUFFICES ASSUME MgInv PROVE SchemaSound
  OBVIOUS
<1>1. MgTypeOK
  BY DEF MgInv, MgTyped, MgTypeOK, MigratorRec, MigratorPcs
<1>2. OnlyRacesFail
  BY DEF MgInv, AloneInv, OnlyRacesFail
<1>3. DoneIsComplete
  BY DEF MgInv, PlanInv, AsOf, DoneIsComplete
<1> QED  BY <1>1, <1>2, <1>3 DEF MgInv, SchemaSound

\* Whoever migrates the schema when, with whatever release, and dies or fails on the way: a version
\* that is recorded is in the schema with all it adds, and those before it are; a migration that
\* nobody else was at work with does not fail; and one that ends well has recorded what it knows
THEOREM SchemaCorrect == MgSpec => []SchemaSound
  BY MigrationsStart, MigrationsStep, MigrationsSound, PTL DEF MgSpec

=============================================================================
