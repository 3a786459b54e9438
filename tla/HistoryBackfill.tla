--------------------------- MODULE HistoryBackfill ---------------------------
(***************************************************************************)
(* The daily bars of all Taiwan shares                                     *)
(* (backend/taiwan_history_backfill_service.py): the universe is taken     *)
(* from a snapshot of each market, and every share of it is brought up to  *)
(* date, a share at a time, by a run that may die anywhere.  A run of the  *)
(* scheduler takes only shares with gaps, and the scheduler and the routes *)
(* may run at the same time.                                               *)
(*                                                                         *)
(* Days are trading days.  A share belongs to one market, and its bars are *)
(* those of the days of its period.                                        *)
(***************************************************************************)
EXTENDS Integers, Sequences, FiniteSets, Common

CONSTANTS
    Shares, TaiwanMarkets, MarketOf,     \* the markets in the order they are asked in
    Period,             \* incremental_period, in days
    Runners,            \* who runs it: the loop takes only shares with gaps
    MayLeave,           \* the shares that may be listed later, or leave the market
    MaxDates, MaxBackfills, MaxTroubles     \* bounds

\* Some share is always listed, and each is of one of the markets
ASSUME BackfillAssumption ==
    /\ Period \in Nat \ {0} /\ MaxDates \in Nat \ {0} /\ "loop" \in Runners
    /\ IsFiniteSet(Shares) /\ \E s \in Shares : s \notin MayLeave
    /\ TaiwanMarkets \in Seq(STRING) /\ \A s \in Shares : \E i \in DOMAIN TaiwanMarkets : TaiwanMarkets[i] = MarketOf[s]

VARIABLES
    tradingDay,
    traded,     \* the days each share was traded on
    universe,   \* tw_equity_universe: active, and the date of the snapshot it was last seen in
    bars,       \* ohlcv: the days of each share
    status,     \* tw_history_sync_status: state, and last_success_date or 0
    filler,     \* what each run does
    began, troubles,    \* how many runs have begun, and how often something went wrong
    stored              \* the days a run has stored, less those that were lost with a run that failed

hbVars == <<tradingDay, traded, universe, bars, status, filler, began, troubles, stored>>

-----------------------------------------------------------------------------
Listed(s) == tradingDay \in traded[s]
Doing(p, pc) == filler[p].pc = pc
AtWork(p) == filler[p].pc \notin {"idle", "ended"}
Share(p) == Head(filler[p].todo)
Latest(s) == Greatest(bars[s] \cup {0})

Trouble == troubles < MaxTroubles /\ troubles' = troubles + 1
\* clean is for the properties: nothing went wrong, and nothing else changed in between
Fault(p) == /\ Trouble
            /\ filler' = [filler EXCEPT ![p].pc = "shares", ![p].todo = Tail(@), ![p].rows = {},
                                           ![p].whole = FALSE, ![p].clean = FALSE]
GoesTo(p, pc) == filler' = [filler EXCEPT ![p].pc = pc]
NextShare(p) == filler' = [filler EXCEPT ![p].pc = "shares", ![p].todo = Tail(@), ![p].rows = {}, ![p].whole = FALSE]
FillerOff(pc, clean) == [pc |-> pc, full |-> FALSE, markets |-> <<>>, dates |-> {}, found |-> FALSE, todo |-> <<>>,
                         target |-> 0, whole |-> FALSE, rows |-> {}, clean |-> clean]

-----------------------------------------------------------------------------
(* sync_universe                                                           *)

BackfillBegins(p) ==
    /\ ~AtWork(p) /\ began < MaxBackfills /\ began' = began + 1
    /\ \E full \in (IF p = "loop" THEN {FALSE} ELSE BOOLEAN) :
         filler' = [q \in Runners |->
            IF q = p THEN [FillerOff("universe", \A o \in Runners : ~AtWork(o))
                              EXCEPT !.full = full, !.markets = TaiwanMarkets]
            ELSE [filler[q] EXCEPT !.clean = FALSE]]
    /\ UNCHANGED <<tradingDay, traded, universe, bars, status, troubles, stored>>

\* The shares of the next market that were traded on a day
RowsOf(p, d) == {s \in Shares : MarketOf[s] = Head(filler[p].markets) /\ d \in traded[s]}

\* The snapshot of the next market, which may be the one of the day before
Snapshot(p) ==
    /\ Doing(p, "universe") /\ filler[p].markets # <<>>
    /\ \E d \in {tradingDay, tradingDay - 1} \ {0} :
         /\ IF d = tradingDay THEN UNCHANGED troubles ELSE Trouble
         /\ universe' = [s \in Shares |-> IF s \in RowsOf(p, d) THEN [active |-> TRUE, seen |-> d] ELSE universe[s]]
         /\ filler' = [filler EXCEPT ![p].markets = Tail(@), ![p].dates = @ \cup {d},
                                     ![p].found = filler[p].found \/ RowsOf(p, d) # {},
                                     ![p].clean = filler[p].clean /\ d = tradingDay]
    /\ UNCHANGED <<tradingDay, traded, bars, status, began, stored>>

NoSnapshot(p) ==
    /\ Doing(p, "universe") /\ filler[p].markets # <<>> /\ Trouble
    /\ filler' = [filler EXCEPT ![p].markets = Tail(@), ![p].clean = FALSE]
    /\ UNCHANGED <<tradingDay, traded, universe, bars, status, began, stored>>

\* The shares that the latest date lacks are stale, unless the markets have different dates
\* or no rows at all
Deactivate(p) ==
    /\ Doing(p, "universe") /\ filler[p].markets = <<>>
    /\ universe' = [s \in Shares |->
         IF filler[p].found /\ Cardinality(filler[p].dates) = 1 /\ universe[s].seen \notin filler[p].dates
         THEN [universe[s] EXCEPT !.active = FALSE] ELSE universe[s]]
    /\ filler' = [filler EXCEPT ![p].pc = "listing", ![p].dates = {}, ![p].found = FALSE,
                    ![p].target = IF filler[p].dates = {} THEN tradingDay ELSE Greatest(filler[p].dates)]
    /\ UNCHANGED <<tradingDay, traded, bars, status, began, troubles, stored>>

-----------------------------------------------------------------------------
(* sync_history                                                            *)

NeedsRepair(s) == status[s].success = 0 \/ status[s].state \in {"failed", "running"}

\* _prioritize_tickers_for_sync: what needs repair comes first, then the oldest success
ComesBefore(s, t) ==
    \/ NeedsRepair(s) /\ ~NeedsRepair(t)
    \/ ~NeedsRepair(s) /\ ~NeedsRepair(t) /\ status[s].success < status[t].success
\* The ticker breaks the ties; here they are in any order
InTheirOrder(S) ==
    {order \in [1..Cardinality(S) -> S] :
        /\ \A s \in S : \E i \in DOMAIN order : order[i] = s
        /\ \A i, j \in DOMAIN order : i < j => ~ComesBefore(order[j], order[i])}

\* mutant: only a share without any bar has a gap
NoBars(s, target) == Latest(s) = 0
\* _filter_tickers_with_history_gaps
HasGap(s, target) == Latest(s) < target

Lists(p) ==
    /\ Doing(p, "listing")
    /\ LET candidates == {s \in Shares : universe[s].active /\ (p = "loop" => HasGap(s, filler[p].target))}
       IN  \E order \in InTheirOrder(candidates) :
              filler' = [filler EXCEPT ![p].pc = "shares", ![p].target = 0, ![p].todo = order]
    /\ UNCHANGED <<tradingDay, traded, universe, bars, status, began, troubles, stored>>

\* stop_at has come, or the request asked for fewer shares
StopsEarly(p) ==
    /\ Doing(p, "shares") /\ filler[p].todo # <<>>
    /\ filler' = [filler EXCEPT ![p] = FillerOff("ended", FALSE)]
    /\ UNCHANGED <<tradingDay, traded, universe, bars, status, began, troubles, stored>>

BackfillEnds(p) ==
    /\ Doing(p, "shares") /\ filler[p].todo = <<>>
    /\ filler' = [filler EXCEPT ![p] = FillerOff("ended", filler[p].clean)]
    /\ UNCHANGED <<tradingDay, traded, universe, bars, status, began, troubles, stored>>

-----------------------------------------------------------------------------
(* sync_ticker_interval                                                    *)

\* The whole history is asked for until the share has had a success
StartsShare(p) ==
    /\ Doing(p, "shares") /\ filler[p].todo # <<>>
    /\ status' = [status EXCEPT ![Share(p)].state = "running"]
    /\ filler' = [filler EXCEPT ![p].pc = "fetching", ![p].whole = filler[p].full \/ status[Share(p)].success = 0]
    /\ UNCHANGED <<tradingDay, traded, universe, bars, began, troubles, stored>>

Asked(p) == (IF filler[p].whole THEN 1 ELSE tradingDay - Period + 1)..tradingDay

Fetches(p) ==
    /\ Doing(p, "fetching")
    /\ LET rows == traded[Share(p)] \cap Asked(p)
       IN  filler' = [filler EXCEPT ![p].rows = rows, ![p].pc = IF rows = {} THEN "recording" ELSE "replacing"]
    /\ UNCHANGED <<tradingDay, traded, universe, bars, status, began, troubles, stored>>

\* delete_ohlcv_range, and then upsert_ohlcv_batch
Replaced(p) == Least(filler[p].rows)..Greatest(filler[p].rows)
DeletesRange(p) ==
    /\ Doing(p, "replacing") /\ GoesTo(p, "storing")
    /\ bars' = [bars EXCEPT ![Share(p)] = @ \ Replaced(p)]
    /\ UNCHANGED <<tradingDay, traded, universe, status, began, troubles, stored>>

StoresRows(p) ==
    /\ Doing(p, "storing") /\ GoesTo(p, "recording")
    /\ bars' = [bars EXCEPT ![Share(p)] = @ \cup filler[p].rows]
    /\ stored' = [stored EXCEPT ![Share(p)] = @ \cup filler[p].rows]
    /\ UNCHANGED <<tradingDay, traded, universe, status, began, troubles>>

RecordsStatus(p) ==
    /\ Doing(p, "recording") /\ NextShare(p)
    /\ LET s == Share(p)
           found == filler[p].rows # {} \/ (Latest(s) # 0 /\ ~filler[p].full)
       IN  status' = [status EXCEPT ![s] = [state |-> IF found THEN "success" ELSE "empty",
                                            success |-> IF Latest(s) = 0 THEN @.success ELSE Latest(s)]]
    /\ UNCHANGED <<tradingDay, traded, universe, bars, began, troubles, stored>>

\* What a run has deleted and not stored is lost with it
Loses(p) ==
    LET s == Share(p)
    IN  stored' = IF Doing(p, "storing") THEN [stored EXCEPT ![s] = @ \ (Replaced(p) \ bars[s])] ELSE stored

ShareFails(p) ==
    /\ filler[p].pc \in {"fetching", "replacing", "storing", "recording"} /\ Fault(p) /\ Loses(p)
    /\ status' = [status EXCEPT ![Share(p)].state = "failed"]
    /\ UNCHANGED <<tradingDay, traded, universe, bars, began>>

RunnerDies(p) ==
    /\ AtWork(p) /\ Trouble /\ Loses(p)
    /\ filler' = [filler EXCEPT ![p] = FillerOff("idle", FALSE)]
    /\ UNCHANGED <<tradingDay, traded, universe, bars, status, began>>

-----------------------------------------------------------------------------
HbInit ==
    /\ tradingDay = 1 /\ began = 0 /\ troubles = 0
    /\ \E leaves \in SUBSET MayLeave : traded = [s \in Shares |-> IF s \in leaves THEN {} ELSE {1}]
    /\ universe = [s \in Shares |-> [active |-> FALSE, seen |-> 0]]
    /\ bars = [s \in Shares |-> {}] /\ stored = bars
    /\ status = [s \in Shares |-> [state |-> "none", success |-> 0]]
    /\ filler = [p \in Runners |-> FillerOff("idle", FALSE)]

NextTradingDay ==
    /\ tradingDay < MaxDates /\ tradingDay' = tradingDay + 1
    /\ \E trades \in {S \in SUBSET Shares : Shares \ MayLeave \subseteq S} :
         traded' = [s \in Shares |-> IF s \in trades THEN traded[s] \cup {tradingDay'} ELSE traded[s]]
    /\ filler' = [p \in Runners |-> [filler[p] EXCEPT !.clean = FALSE]]
    /\ UNCHANGED <<universe, bars, status, began, troubles, stored>>

HbStep(p) ==
    \/ BackfillBegins(p) \/ Snapshot(p) \/ NoSnapshot(p)
    \/ Deactivate(p) \/ Lists(p) \/ StopsEarly(p) \/ BackfillEnds(p)
    \/ StartsShare(p) \/ Fetches(p) \/ DeletesRange(p) \/ StoresRows(p) \/ RecordsStatus(p)
    \/ ShareFails(p) \/ RunnerDies(p)

HbNext == NextTradingDay \/ \E p \in Runners : HbStep(p)

HbSpec == HbInit /\ [][HbNext]_hbVars

-----------------------------------------------------------------------------
(* Properties                                                              *)

HbTypeOK ==
    /\ tradingDay \in 1..MaxDates
    /\ \A s \in Shares : /\ bars[s] \subseteq traded[s] /\ universe[s].seen \in 0..tradingDay
                         /\ status[s].state \in {"none", "running", "success", "empty", "failed"}
                         /\ status[s].success \in 0..tradingDay

\* A run in which nothing goes wrong, and which has the tables for itself, leaves the shares of
\* the day active and up to date and the others inactive, whatever earlier runs have left
CleanRunRepairs ==
    \A p \in Runners : Doing(p, "ended") /\ filler[p].clean =>
        \A s \in Shares : /\ universe[s].active <=> Listed(s)
                          /\ Listed(s) => tradingDay \in bars[s]

\* A bar that was stored stays, except while a run replaces it, and if that run fails then
StoredStays ==
    \A s \in Shares : \A d \in stored[s] \ bars[s] :
        \E p \in Runners : Doing(p, "storing") /\ Share(p) = s /\ d \in Replaced(p)

\* The bars stay, and a run that has the tables for itself brings them up to date
BackfillSound == HbTypeOK /\ CleanRunRepairs /\ StoredStays

=============================================================================
