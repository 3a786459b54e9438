---------------------------- MODULE AssetLedger ----------------------------
(***************************************************************************)
(* The asset ledgers under concurrent requests: trades and the two cash    *)
(* legs that settle them (asset_use_cases/account_ledger_commands.py), the *)
(* same legs changed and deleted by hand as entries of the cash ledger,    *)
(* and imports with their batches (csv_imports.py, routers/assets.py).     *)
(*                                                                         *)
(* One broker account settles through one bank account.  An action is one  *)
(* repository call: each commits on its own, unless it runs inside         *)
(* db.transaction(), which holds the write lock and so is one action.  A   *)
(* call may fail, and the process may die between two calls.               *)
(***************************************************************************)
EXTENDS Naturals, FiniteSets

CONSTANTS
    LedgerRequests,     \* requests under way at once
    Files,              \* what may be imported: sets of trade keys
    JournalKeys,        \* the keys of journal entries, which no unique index covers
    MaxTrades, MaxLegs, MaxBatches, \* bounds: rows ever inserted
    MaxRequests,        \* bound: requests ever made
    MaxFaults           \* bound: failed calls and crashes

NoKey == ""

ASSUME LedgerAssumption ==
    /\ MaxTrades \in Nat /\ MaxLegs \in Nat /\ MaxBatches \in Nat
    /\ \A f \in Files : IsFiniteSet(f) /\ NoKey \notin f

VARIABLES
    accounts,   \* the broker's auto settlement, and whether the bank account exists
    trades,     \* the trade rows by id
    legs,       \* the linked cash rows
    batches,    \* status of the import batches by id
    req,        \* what each request is doing
    ids,        \* the next auto-increment values
    made,       \* requests made so far
    faults,
    torn,       \* trades whose requests overlapped, failed on the way or died
    racedKeys,  \* keys two imports were bringing in at once
    edited      \* trades whose legs were changed by hand since a request last listed them

alVars == <<accounts, trades, legs, batches, req, ids, made, faults, torn, racedKeys, edited>>

TradeIds == 1..MaxTrades
BatchIds == 1..MaxBatches
NoTrade == [alive |-> FALSE, side |-> "buy", version |-> 0, key |-> NoKey, batch |-> 0]
Waiting == [pc |-> "idle", trade |-> 0, row |-> NoTrade, listed |-> {}, write |-> {}, drop |-> {},
            file |-> {}, batch |-> 0, edit |-> [id |-> 0, version |-> 0]]

Becomes(r, x) == req' = [req EXCEPT ![r] = x]
Done(r) == Becomes(r, Waiting)
CountRequest == made < MaxRequests /\ made' = made + 1
InPhase(r, pc) == req[r].pc = pc
Alive(t) == t \in TradeIds /\ trades[t].alive
Touches(r, t) == req[r].pc # "idle" /\ req[r].trade = t
InHand(t) == \E r \in LedgerRequests : Touches(r, t)
\* A request that starts on trades others are working at
Marks(r, T) == torn' = torn \cup {t \in T : \E q \in LedgerRequests \ {r} : Touches(q, t)}

AlInit ==
    /\ accounts = [auto |-> TRUE, bank |-> TRUE]
    /\ trades = [t \in TradeIds |-> NoTrade]
    /\ legs = {}
    /\ batches = [b \in BatchIds |-> "none"]
    /\ req = [r \in LedgerRequests |-> Waiting]
    /\ ids = [trade |-> 1, leg |-> 1, batch |-> 1]
    /\ made = 0 /\ faults = 0 /\ torn = {} /\ racedKeys = {} /\ edited = {}

-----------------------------------------------------------------------------
(* Settlement: the legs a trade should have                                *)

Settles == accounts.auto /\ accounts.bank
Roles(side) == IF side = "buy" THEN {"settlement_out", "broker_in"} ELSE {"broker_out", "settlement_in"}
AtBank(role) == role \in {"settlement_out", "settlement_in"}
Place(role) == IF AtBank(role) THEN "bank" ELSE "broker"
NewLeg(id, t, role, row) ==
    [id |-> id, trade |-> t, role |-> role, version |-> row.version, at |-> Place(role), batch |-> row.batch]
Rewrite(id, version, place) == {IF l.id = id THEN [l EXCEPT !.version = version, !.at = place] ELSE l : l \in legs}
LegsOf(t) == {l \in legs : l.trade = t}
NewestOf(S) == CHOOSE l \in S : \A m \in S : m.id <= l.id

CreateTrade(r, side) ==
    /\ InPhase(r, "idle") /\ ids.trade <= MaxTrades
    /\ LET t == ids.trade
           row == [alive |-> TRUE, side |-> side, version |-> 1, key |-> NoKey, batch |-> 0]
       IN /\ trades' = [trades EXCEPT ![t] = row]
          /\ ids' = [ids EXCEPT !.trade = @ + 1]
          /\ Becomes(r, [Waiting EXCEPT !.pc = "created", !.trade = t, !.row = row])
    /\ CountRequest
    /\ UNCHANGED <<accounts, legs, batches, faults, torn, racedKeys, edited>>

PatchTrade(r, t, side) ==
    /\ InPhase(r, "idle") /\ Alive(t) /\ trades[t].version = 1
    /\ LET row == [trades[t] EXCEPT !.side = side, !.version = 2]
       IN /\ trades' = [trades EXCEPT ![t] = row]
          /\ Becomes(r, [Waiting EXCEPT !.pc = "patched", !.trade = t, !.row = row])
    /\ Marks(r, {t})
    /\ CountRequest
    /\ UNCHANGED <<accounts, legs, batches, ids, faults, racedKeys, edited>>

\* sync_trade_linked_cash_entries reads the linked rows first, the accounts then
SyncLists(r) ==
    /\ req[r].pc \in {"created", "patched"}
    /\ Becomes(r, [req[r] EXCEPT !.pc = IF @ = "created" THEN "creating" ELSE "patching",
                                 !.listed = LegsOf(req[r].trade)])
    /\ edited' = edited \ {req[r].trade}
    /\ UNCHANGED <<accounts, trades, legs, batches, ids, faults, torn, racedKeys, made>>

\* mutant: legs of the other side stay
DropsNone(listed, side) == {}
WrongRole(listed, side) == {l \in listed : l.role \notin Roles(side)}

\* One leg per role, then the rows of other roles go; all rows go where nothing settles
SyncPlans(r) ==
    /\ req[r].pc \in {"creating", "patching"}
    /\ LET side == req[r].row.side IN
       Becomes(r, IF Settles
                  THEN [req[r] EXCEPT !.pc = "syncing", !.write = Roles(side), !.drop = WrongRole(req[r].listed, side)]
                  ELSE [req[r] EXCEPT !.pc = "syncing", !.drop = req[r].listed])
    /\ UNCHANGED <<accounts, trades, legs, batches, ids, faults, torn, racedKeys, made, edited>>

\* The money leaves one account before it reaches the other
NextRole(todo) == CHOOSE x \in todo : x \in {"settlement_out", "broker_out"} \/ Cardinality(todo) = 1

\* Neither leg can be booked at a bank that is gone
Bookable(role) == accounts.bank \/ ~AtBank(role)

\* The newest listed row of a role is rewritten, where it still exists, or a row is inserted
SyncWrites(r) ==
    /\ InPhase(r, "syncing") /\ req[r].write # {}
    /\ LET role == NextRole(req[r].write)
           listed == {l \in req[r].listed : l.role = role}
       IN /\ IF listed # {}
             THEN /\ Bookable(role) \/ \A l \in legs : l.id # NewestOf(listed).id
                  /\ legs' = Rewrite(NewestOf(listed).id, req[r].row.version, Place(role))
                  /\ UNCHANGED ids
             ELSE /\ ids.leg <= MaxLegs /\ Bookable(role)
                  /\ legs' = legs \cup {NewLeg(ids.leg, req[r].trade, role, req[r].row)}
                  /\ ids' = [ids EXCEPT !.leg = @ + 1]
          /\ Becomes(r, [req[r] EXCEPT !.write = @ \ {role}])
    /\ UNCHANGED <<accounts, trades, batches, faults, torn, racedKeys, made, edited>>

DropsNext(r) ==
    LET l == NewestOf(req[r].drop) IN
    /\ legs' = {m \in legs : m.id # l.id}
    /\ Becomes(r, [req[r] EXCEPT !.drop = @ \ {l}])

SyncDrops(r) ==
    /\ InPhase(r, "syncing") /\ req[r].write = {} /\ req[r].drop # {}
    /\ DropsNext(r)
    /\ UNCHANGED <<accounts, trades, batches, ids, faults, torn, racedKeys, made, edited>>

SyncEnds(r) ==
    /\ InPhase(r, "syncing") /\ req[r].write = {} /\ req[r].drop = {}
    /\ Done(r)
    /\ UNCHANGED <<accounts, trades, legs, batches, ids, faults, torn, racedKeys, made, edited>>

\* delete_asset_trade_entry: the linked rows are listed and deleted, then the trade
DeleteTrade(r, t) ==
    /\ InPhase(r, "idle") /\ Alive(t)
    /\ Becomes(r, [Waiting EXCEPT !.pc = "deleting", !.trade = t, !.drop = LegsOf(t)])
    /\ Marks(r, {t})
    /\ CountRequest
    /\ UNCHANGED <<accounts, trades, legs, batches, ids, faults, racedKeys, edited>>

LegsGone(r) == req[r].drop = {}

DeleteStep(r) ==
    /\ InPhase(r, "deleting")
    /\ \/ req[r].drop # {} /\ DropsNext(r) /\ UNCHANGED trades
       \/ /\ LegsGone(r)
          /\ trades' = [trades EXCEPT ![req[r].trade].alive = FALSE]
          /\ Done(r) /\ UNCHANGED legs
    /\ UNCHANGED <<accounts, batches, ids, faults, torn, racedKeys, made, edited>>

\* A leg cannot be booked at the bank once it is gone
BankGone(r) == InPhase(r, "syncing") /\ ~accounts.bank /\ \E x \in req[r].write : AtBank(x)

\* A call fails: a trade just created is deleted again, its legs are not
RequestFails(r) ==
    /\ Alive(req[r].trade)
    /\ req[r].pc \in {"created", "creating", "patched", "patching", "syncing", "deleting"}
    /\ IF req[r].pc \in {"created", "creating"} \/ (InPhase(r, "syncing") /\ req[r].row.version = 1)
       THEN trades' = [trades EXCEPT ![req[r].trade].alive = FALSE]
       ELSE UNCHANGED trades
    /\ torn' = torn \cup {req[r].trade}
    /\ IF BankGone(r) THEN UNCHANGED faults ELSE faults < MaxFaults /\ faults' = faults + 1
    /\ Done(r)
    /\ UNCHANGED <<accounts, legs, batches, ids, racedKeys, made, edited>>

-----------------------------------------------------------------------------
(* A linked leg is an entry of the cash ledger like any other: nothing     *)
(* asks whether it settles a trade                                         *)

ByHand == 0     \* the version of a leg whose amount was entered by hand

\* update_asset_cash_ledger_entry reads the row ...
PatchLegReads(r, l) ==
    /\ InPhase(r, "idle")
    /\ Becomes(r, [Waiting EXCEPT !.pc = "editing", !.edit = [id |-> l.id, version |-> l.version]])
    /\ CountRequest
    /\ UNCHANGED <<accounts, trades, legs, batches, ids, faults, torn, racedKeys, edited>>

\* ... and writes it back whole: with the amount it read or another, at any account there is.
\* The links, roles and batches of a row never change; a row that is gone stays gone
PatchLegWrites(r, amount, place) ==
    /\ InPhase(r, "editing")
    /\ amount \in {req[r].edit.version, ByHand} /\ (place = "bank" => accounts.bank)
    /\ legs' = Rewrite(req[r].edit.id, amount, place)
    /\ edited' = edited \cup {l.trade : l \in legs \ legs'}
    /\ Done(r)
    /\ UNCHANGED <<accounts, trades, batches, ids, faults, torn, racedKeys, made>>

\* A value or an account that is refused, or a failed call
PatchLegFails(r) ==
    /\ InPhase(r, "editing") /\ Done(r)
    /\ UNCHANGED <<accounts, trades, legs, batches, ids, faults, torn, racedKeys, made, edited>>

\* delete_asset_cash_ledger_entry, in one statement
DeleteLeg(l) ==
    /\ legs' = legs \ {l} /\ edited' = edited \cup {l.trade}
    /\ CountRequest
    /\ UNCHANGED <<accounts, trades, batches, req, ids, faults, torn, racedKeys>>

-----------------------------------------------------------------------------
(* Accounts                                                                *)

SetAuto ==
    /\ accounts.bank
    /\ accounts' = [accounts EXCEPT !.auto = ~@]
    /\ CountRequest
    /\ UNCHANGED <<trades, legs, batches, req, ids, faults, torn, racedKeys, edited>>

\* delete_asset_account unhooks the broker; the foreign key deletes the bank's cash rows
DeleteBank ==
    /\ accounts.bank
    /\ accounts' = [auto |-> FALSE, bank |-> FALSE]
    /\ legs' = {l \in legs : l.at # "bank"}
    /\ torn' = torn \cup {t \in TradeIds : InHand(t)}
    /\ CountRequest
    /\ UNCHANGED <<trades, batches, req, ids, faults, racedKeys, edited>>

-----------------------------------------------------------------------------
(* Imports                                                                 *)

BatchStored(k) == \E t \in TradeIds : trades[t].alive /\ trades[t].key = k
Importing(k) == {r \in LedgerRequests : k \in req[r].file}

\* The file is parsed and what is already stored is left out; a file with errors stops here
ImportChecks(r, f) ==
    /\ InPhase(r, "idle")
    /\ LET new == {k \in f : ~BatchStored(k)} IN
       /\ Becomes(r, [Waiting EXCEPT !.pc = "checked", !.file = new])
       /\ racedKeys' = racedKeys \cup {k \in new : Importing(k) # {}}
    /\ CountRequest
    /\ UNCHANGED <<accounts, trades, legs, batches, ids, faults, torn, edited>>

ImportOpens(r) ==
    /\ InPhase(r, "checked") /\ ids.batch <= MaxBatches
    /\ batches' = [batches EXCEPT ![ids.batch] = "pending"]
    /\ ids' = [ids EXCEPT !.batch = @ + 1]
    /\ Becomes(r, [req[r] EXCEPT !.pc = "opened", !.batch = ids.batch])
    /\ UNCHANGED <<accounts, trades, legs, faults, torn, racedKeys, made, edited>>

\* The unique index on the import keys of CSV rows
Unique(f) == \A k \in f \ JournalKeys : ~BatchStored(k)

FirstFree(n) == ids.trade..(ids.trade + n - 1)

\* db.transaction(): every row with its legs, and the batch; or none of it
ImportCommits(r) ==
    /\ InPhase(r, "opened") /\ Unique(req[r].file)
    /\ LET f == req[r].file
           b == req[r].batch
           new == FirstFree(Cardinality(f))
           order == CHOOSE g \in [new -> f] : \A x, y \in new : g[x] = g[y] => x = y
           row(t) == [alive |-> TRUE, side |-> "buy", version |-> 1, key |-> order[t], batch |-> b]
           first == ids.trade
       IN /\ new \subseteq TradeIds /\ ids.leg + 2 * Cardinality(f) - 1 <= MaxLegs
          /\ trades' = [t \in TradeIds |-> IF t \in new THEN row(t) ELSE trades[t]]
          /\ legs' = legs \cup (IF Settles THEN UNION {{NewLeg(ids.leg + 2 * (t - first), t, "settlement_out", row(t)),
                                                       NewLeg(ids.leg + 2 * (t - first) + 1, t, "broker_in", row(t))} : t \in new}
                                ELSE {})
          /\ ids' = [ids EXCEPT !.trade = @ + Cardinality(f), !.leg = @ + (IF Settles THEN 2 * Cardinality(f) ELSE 0)]
          /\ batches' = [batches EXCEPT ![b] = "committed"]
          /\ Done(r)
    /\ UNCHANGED <<accounts, faults, torn, racedKeys, made, edited>>

\* Rows with errors, a key stored meanwhile, or a failed call: the batch is marked failed
ImportFails(r) ==
    /\ InPhase(r, "opened")
    /\ batches' = [batches EXCEPT ![req[r].batch] = "failed"]
    /\ Done(r)
    /\ UNCHANGED <<accounts, trades, legs, ids, faults, torn, racedKeys, made, edited>>

\* rollback_asset_import_batch reads the status, then deletes in one transaction
RollbackReads(r, b) ==
    /\ InPhase(r, "idle") /\ batches[b] = "committed"
    /\ Becomes(r, [Waiting EXCEPT !.pc = "rolling", !.batch = b])
    /\ CountRequest
    /\ UNCHANGED <<accounts, trades, legs, batches, ids, faults, torn, racedKeys, edited>>

OtherLegs(b) == {l \in legs : l.batch # b}

RollbackCommits(r) ==
    /\ InPhase(r, "rolling")
    /\ LET b == req[r].batch
           gone == {t \in TradeIds : trades[t].alive /\ trades[t].batch = b}
       IN /\ trades' = [t \in TradeIds |-> IF t \in gone THEN [trades[t] EXCEPT !.alive = FALSE] ELSE trades[t]]
          /\ legs' = OtherLegs(b)
          /\ batches' = [batches EXCEPT ![b] = "rolled_back"]
          /\ Marks(r, gone)
    /\ Done(r)
    /\ UNCHANGED <<accounts, ids, faults, racedKeys, made, edited>>

\* The process dies: its requests are gone, its rows stay
LedgerCrash ==
    /\ faults < MaxFaults /\ \E r \in LedgerRequests : ~InPhase(r, "idle")
    /\ torn' = torn \cup {t \in TradeIds : InHand(t)}
    /\ req' = [r \in LedgerRequests |-> Waiting]
    /\ faults' = faults + 1
    /\ UNCHANGED <<accounts, trades, legs, batches, ids, racedKeys, made, edited>>

-----------------------------------------------------------------------------
SyncStep(r) == SyncLists(r) \/ SyncPlans(r) \/ SyncWrites(r) \/ SyncDrops(r) \/ SyncEnds(r)
ImportStep(r) == ImportOpens(r) \/ ImportCommits(r) \/ ImportFails(r)
RequestBegins(r) ==
    \/ \E side \in {"buy", "sell"} : CreateTrade(r, side) \/ \E t \in TradeIds : PatchTrade(r, t, side)
    \/ \E t \in TradeIds : DeleteTrade(r, t)
    \/ \E f \in Files : ImportChecks(r, f)
    \/ \E b \in BatchIds : RollbackReads(r, b)
    \/ \E l \in legs : PatchLegReads(r, l)
PatchLegStep(r) == PatchLegFails(r) \/ \E amount \in 0..2, place \in {"bank", "broker"} : PatchLegWrites(r, amount, place)

AlNext ==
    \/ \E r \in LedgerRequests :
          \/ RequestBegins(r) \/ SyncStep(r) \/ DeleteStep(r) \/ RequestFails(r)
          \/ PatchLegStep(r) \/ ImportStep(r) \/ RollbackCommits(r)
    \/ \E l \in legs : DeleteLeg(l)
    \/ SetAuto \/ DeleteBank \/ LedgerCrash

AlSpec == AlInit /\ [][AlNext]_alVars

-----------------------------------------------------------------------------
(* What the ledgers promise                                                *)

\* Types, and no row refers to an id that was never given out
AlTypeOK ==
    /\ \A l \in legs : l.id < ids.leg /\ l.trade < ids.trade
    /\ \A t \in TradeIds : trades[t].alive => t < ids.trade /\ trades[t].batch < ids.batch
    /\ torn \subseteq TradeIds /\ edited \subseteq TradeIds
    /\ batches \in [BatchIds -> {"none", "pending", "committed", "failed", "rolled_back"}]
    /\ \A r \in LedgerRequests : /\ req[r].trade < ids.trade /\ req[r].batch < ids.batch
                                /\ \A l \in req[r].listed \cup req[r].drop : l.id < ids.leg /\ l.trade = req[r].trade

Settled(t) == ~InHand(t) /\ t \notin torn

\* A trade no request works at, and whose requests neither met nor broke, has no legs or
\* exactly those of its side, its amount and its accounts; without the bank, only the broker's.
\* Legs changed or deleted by hand are put right by the next request that lists them, and
\* until then one may be missing or wrong, but none is doubled or of the other side
LegsMatchTrade ==
    \A t \in TradeIds : Alive(t) /\ Settled(t) =>
       LET S == LegsOf(t)
           wanted == {x \in Roles(trades[t].side) : Bookable(x)}
       IN /\ {l.role : l \in S} \subseteq Roles(trades[t].side) /\ Cardinality(S) = Cardinality({l.role : l \in S})
          /\ t \notin edited /\ S # {} =>
                /\ {l.role : l \in S} = wanted
                /\ \A l \in S : l.version = trades[t].version /\ l.at = Place(l.role)

\* Cash never refers to a trade that is gone, as long as its requests neither met nor broke
NoOrphanLegs == \A l \in legs : Alive(l.trade) \/ ~Settled(l.trade)

\* What was imported is there once: always for CSV rows, for journal entries unless two
\* imports of the entry overlapped
ImportedOnce ==
    \A k \in UNION Files :
       Cardinality({t \in TradeIds : trades[t].alive /\ trades[t].key = k}) > 1 => k \in JournalKeys \cap racedKeys

\* A batch has rows only when it says so: none before it commits, none after it failed or
\* was rolled back, except legs of a trade another request was working at
BatchTellsTruth ==
    /\ \A t \in TradeIds : Alive(t) /\ trades[t].batch # 0 => batches[trades[t].batch] = "committed"
    /\ \A l \in legs : l.batch # 0 => batches[l.batch] = "committed" \/ ~Settled(l.trade)

\* What the ledgers promise of trades, of their legs, and of imports
LedgerSound == AlTypeOK /\ LegsMatchTrade /\ NoOrphanLegs /\ ImportedOnce /\ BatchTellsTruth

=============================================================================
