------------------------------ MODULE MCServices ------------------------------
(***************************************************************************)
(* Small instances, for TLC, of components whose properties are about      *)
(* single states and steps: the cache, paper trading, the asset positions  *)
(* and the asset ledger, the refreshes of quotes and of futures history,   *)
(* the daily bars of the shares, the backups, the archive of chip          *)
(* payloads, the retention of sync_log, the alerts, the backtest, the      *)
(* loops that keep to the clock and the migrations of the schema.  They    *)
(* share no state, so focus says which of them a behaviour is about, and   *)
(* the others keep their initial state.                                    *)
(***************************************************************************)
EXTENDS MCTTLCache, PaperTrading, AssetPositions, AssetLedger, QuoteRefresh, FutoptRefresh,
        HistoryBackfill, Backups, ChipArchive, SyncLog, Alerts, Backtest, Schedules, Migrations

CONSTANTS r1, r2

VARIABLE focus

servicesVars == <<vars, ptVars, ledger, alVars, qrVars, fhVars, hbVars, bkVars, caVars, slVars, alertVars,
                  btVars, scVars, mgVars, focus>>

-----------------------------------------------------------------------------
(* The asset positions: two accounts, two tickers, three days, and entries *)
(* that meet: trades before and after a split, a change of ticker, a price *)
(* override, a sale of more than there is, and an entry of an account that *)
(* is gone                                                                 *)

Trade(i, d, a, t, side, q, p, fee, initial) ==
    [kind |-> "trade", id |-> i, day |-> d, account |-> a, ticker |-> t,
     side |-> side, qty |-> q, price |-> p, fee |-> fee, initial |-> initial]
Flow(i, d, a, flow, amount, initial) ==
    [kind |-> "cash", id |-> i, day |-> d, account |-> a, flow |-> flow, amount |-> amount, initial |-> initial]
Action(kind, i, d, target, ratio, q, cost, cash) ==
    [kind |-> kind, id |-> i, day |-> d, account |-> "broker", ticker |-> "x",
     target |-> target, ratio |-> ratio, qty |-> q, cost |-> cost, cash |-> cash]
Override(i, d, a, t, price, force) ==
    [kind |-> "override", id |-> i, day |-> d, account |-> a, ticker |-> t, price |-> price, force |-> force]

ThreeDays == 1..3
Closes == [t \in {"x", "y"} |-> IF t = "x" THEN <<60, 0, 72>> ELSE <<0, 50, 0>>]
BookedEntries ==
    {Flow(1, 1, "broker", "deposit", 500, TRUE), Flow(2, 2, "broker", "withdraw", 100, FALSE),
     Flow(3, 2, "bank", "transfer_out", -80, FALSE), Flow(4, 3, "broker", "other", -12, FALSE),
     Trade(1, 1, "broker", "x", "buy", 2, 60, 6, FALSE), Trade(2, 1, "broker", "x", "sell", 1, 66, 2, FALSE),
     Trade(3, 2, "broker", "x", "sell", 2, 70, 2, FALSE), Trade(4, 2, "broker", "y", "buy", 1, 40, 2, TRUE),
     Trade(5, 3, "broker", "y", "sell", 2, 50, 1, FALSE), Trade(6, 2, "bank", "x", "buy", 2, 70, 0, FALSE),
     Trade(7, 2, "gone", "x", "buy", 2, 70, 0, FALSE), Trade(8, 2, "bank", "x", "short", 2, 70, 0, FALSE),
     Action("split", 1, 2, "x", 2, 0, 0, 0), Action("symbol_change", 2, 3, "y", 0, 0, 0, 0),
     Action("symbol_change", 4, 2, "x", 0, 0, 0, 0), Action("adjustment", 3, 3, "x", 0, -1, -10, 5),
     Override(1, 2, "all", "x", 68, FALSE), Override(2, 2, "broker", "x", 75, TRUE),
     Override(3, 1, "broker", "y", 30, FALSE)}

-----------------------------------------------------------------------------
(* The other components                                                    *)

\* A batch has one row of the bank, or one row of the journal
OneRowFiles == {{"c1"}, {"j1"}}

\* A share of each market
BothMarkets == <<"TSE", "OTC">>
OneEach == [s \in Shares |-> IF s = "s1" THEN "TSE" ELSE "OTC"]

\* Many backups and no drill, or fewer and a drill
BackupBounds ==
    {[backups |-> 3, writes |-> 1, harms |-> 1, drills |-> FALSE],
     [backups |-> 2, writes |-> 1, harms |-> 1, drills |-> TRUE]}

\* The rows of one date
OneDate(r) == 1

\* Bars that rise, fall, reach the stop from above, and reach stop and target both
DayBar(open, high, low, close) == [open |-> open * 500, high |-> high * 500, low |-> low * 500, close |-> close * 500]
FourBars == {DayBar(2, 2, 2, 2), DayBar(2, 3, 2, 3), DayBar(2, 3, 1, 1), DayBar(1, 3, 1, 2)}

\* The whole cash without risk exits, and half of it with both
TwoPlans == {[stop |-> 0, take |-> 0, sizing |-> 4], [stop |-> 5, take |-> 5, sizing |-> 2]}

\* Daily loops at noon and at midnight, a window within a day and one over midnight, and the restart
LoopJobs ==
    {[kind |-> "daily", at |-> 3, end |-> 0], [kind |-> "daily", at |-> 0, end |-> 0],
     [kind |-> "history", at |-> 2, end |-> 5], [kind |-> "history", at |-> 4, end |-> 2],
     [kind |-> "maintenance", at |-> 2, end |-> 0]}

\* The two ledgers of an old release without their later columns, or the work of a release that
\* knew three versions
Database(objects, versions) == [objects |-> objects, versions |-> versions]
OldLedgers == Database({<<"asset_cash_ledger">>, <<"asset_trade_ledger">>}, 0)
ThirdVersion == Database({<<"schema_migrations">>} \cup UNION {Objects(v) : v \in 1..3}, 3)
SomeDatabases == {OldLedgers, ThirdVersion}

\* The service has the current code; the command line may be of the release before, have an edited
\* migration, or not be allowed to migrate
Code(knows, altered, auto) == [knows |-> knows, edited |-> altered, auto |-> auto]
CurrentCode == Code(5, {}, TRUE)
EarlierCode == Code(4, {}, TRUE)
EditedCode == Code(5, {2}, TRUE)
BarredCode == Code(5, {}, FALSE)
SomeReleases == {CurrentCode, EarlierCode, EditedCode, BarredCode}
Upgrades ==
    {<<ThirdVersion, CurrentCode>>, <<ThirdVersion, EarlierCode>>, <<ThirdVersion, EditedCode>>, <<OldLedgers, BarredCode>>}

-----------------------------------------------------------------------------
ServicesInit ==
    /\ focus \in {"cache", "trading", "positions", "ledger", "quotes", "history", "shares", "backups",
                 "branches", "log", "alerts", "backtest", "schedules", "schema"}
    /\ Init /\ (focus # "cache" => \A n \in Tasks : task[n].key = k1)
    /\ PtInit /\ (focus # "trading" => /\ mode = [via |-> "live", strategy |-> "v1", policy |-> "day_only"]
                                       /\ account.mark = Least(Prices))
    /\ ApInit /\ AlInit /\ QrInit /\ FhInit /\ CaInit /\ SlInit
    /\ HbInit /\ \A s \in Shares : Listed(s)
    /\ BkInit /\ (focus # "backups" => bound = CHOOSE b \in Bounds : TRUE)
    /\ AlertInit /\ (focus # "alerts" => value = 1)
    /\ BtInit /\ (focus # "backtest" => plan = CHOOSE p \in Plans : TRUE)
    /\ ScInit /\ (focus # "schedules" => /\ job = CHOOSE j \in Jobs : j.kind = "daily"
                                         /\ since = Least(Starts))
    /\ MgInit /\ release["service"] = CurrentCode
    /\ \E u \in Upgrades : schema = u[1].objects /\ release["cli"] = u[2]
    /\ focus # "schema" => release["cli"] = BarredCode

\* The cache never comes to a stop; the other components may
ServicesRest == focus # "cache" /\ UNCHANGED servicesVars

ServicesNext ==
    \/ ServicesRest
    \/ /\ UNCHANGED focus
       /\ IF focus = "cache" THEN TRUE ELSE UNCHANGED vars
       /\ IF focus = "trading" THEN TRUE ELSE UNCHANGED ptVars
       /\ IF focus = "positions" THEN TRUE ELSE UNCHANGED ledger
       /\ IF focus = "ledger" THEN TRUE ELSE UNCHANGED alVars
       /\ IF focus = "quotes" THEN TRUE ELSE UNCHANGED qrVars
       /\ IF focus = "history" THEN TRUE ELSE UNCHANGED fhVars
       /\ IF focus = "shares" THEN TRUE ELSE UNCHANGED hbVars
       /\ IF focus = "backups" THEN TRUE ELSE UNCHANGED bkVars
       /\ IF focus = "branches" THEN TRUE ELSE UNCHANGED caVars
       /\ IF focus = "log" THEN TRUE ELSE UNCHANGED slVars
       /\ IF focus = "alerts" THEN TRUE ELSE UNCHANGED alertVars
       /\ IF focus = "backtest" THEN TRUE ELSE UNCHANGED btVars
       /\ IF focus = "schedules" THEN TRUE ELSE UNCHANGED scVars
       /\ IF focus = "schema" THEN TRUE ELSE UNCHANGED mgVars
       /\ \/ focus = "cache" /\ Next
          \/ focus = "trading" /\ PtNext
          \/ focus = "positions" /\ ApNext
          \/ focus = "ledger" /\ AlNext
          \/ focus = "quotes" /\ QrNext
          \/ focus = "history" /\ FhNext
          \/ focus = "shares" /\ HbNext
          \/ focus = "backups" /\ BkNext
          \/ focus = "branches" /\ CaNext
          \/ focus = "log" /\ SlNext
          \/ focus = "alerts" /\ AlertNext
          \/ focus = "backtest" /\ BtNext
          \/ focus = "schedules" /\ ScNext
          \/ focus = "schema" /\ MgNext

ServicesSpec == ServicesInit /\ [][ServicesNext]_servicesVars

\* The state of the component a behaviour is about.  Callers of the cache differ by name alone, as
\* do requests to the ledger: no action and no invariant says which of them it is, so it is enough
\* to count how many are doing what
HowMany(f) == {<<f[x], Cardinality({y \in DOMAIN f : f[y] = f[x]})>> : x \in DOMAIN f}
ServicesView == <<focus,
    CASE focus = "cache" -> <<data, entries, inflight, task, HowMany(awaits), floor>>
      [] focus = "ledger" -> <<accounts, trades, legs, batches, HowMany(req), ids, made, faults, torn, racedKeys, edited>>
      [] focus = "trading" -> ptVars [] focus = "positions" -> <<ledger>>
      [] focus = "quotes" -> qrVars [] focus = "history" -> fhVars
      [] focus = "shares" -> hbVars [] focus = "backups" -> bkVars [] focus = "branches" -> caVars
      [] focus = "log" -> slVars [] focus = "alerts" -> alertVars [] focus = "backtest" -> btVars
      [] focus = "schedules" -> scVars [] focus = "schema" -> mgVars>>

-----------------------------------------------------------------------------
(* What is checked of each component, in the behaviours about it           *)

\* What a backtest and a recomputation come to follows from what they were given: the result of a
\* backtest follows from its trades, these from the bars before them, and they stay as they are when
\* the bars grow; holdings, cash and performance are consistent with the ledger, whatever was booked
\* late, deleted or refused (a ledger without entries has nothing to be consistent with).  (What
\* loops, logs and versions keep to is in SchedulesKept, LogSound and SchemaSound, of every behaviour)
ResultsExplained ==
    /\ focus = "backtest" /\ EnoughRows =>
           BtTypeOK /\ EquityExplained /\ TradesInTurn /\ NoLookAhead /\ HistoryStands /\ DrawdownExact
    /\ focus = "positions" /\ ledger # {} =>
           ApTypeOK /\ BooksBalance /\ RefusedLeavesNoTrace /\ GainExplained /\ PastUnchanged

=============================================================================
