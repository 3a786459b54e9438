---------------------------- MODULE PaperTrading ----------------------------
(***************************************************************************)
(* One paper trading run (backend/paper_trading): each minute bar drives   *)
(* the broker's matching, the account, the risk engine's forced closes and *)
(* the strategy's next order, either live (bot_runner.py) or over stored   *)
(* bars (replay_engine.py).                                                *)
(*                                                                         *)
(* Indicators are left out: the strategy may give any signal its engine    *)
(* can give for the position it is told of.  Money is in whole units, the  *)
(* average entry price is kept as the position's total cost, and the clock *)
(* as the minutes to the close of a session.                               *)
(***************************************************************************)
EXTENDS Common, Sequences

CONSTANTS
    Prices,             \* prices a bar may open and close at
    PointValue, FeePerSide, SlippagePoints,     \* product and cost model
    StartingEquity, InitialMargin, StopPoints, StressPoints,
    MaxContracts,       \* max_contracts_hard
    ProfileQty,         \* max_qty of the session profile
    NoNewMinutes, FlattenMinutes, SessionMinutes, CooldownBars,
    MaxSessions, MaxBars        \* bounds: sessions and bars of a run

\* A run that closes everything before it stops opening would open again
ASSUME PaperAssumption ==
    /\ FlattenMinutes <= NoNewMinutes /\ NoNewMinutes < SessionMinutes
    /\ {FlattenMinutes, NoNewMinutes, SessionMinutes, CooldownBars, MaxSessions, MaxBars} \subseteq Nat
    /\ {PointValue, InitialMargin, StopPoints, StressPoints} \subseteq Nat \ {0}
    /\ Prices \subseteq Nat /\ {FeePerSide, SlippagePoints, StartingEquity, MaxContracts, ProfileQty} \subseteq Nat

VARIABLES
    mode,       \* "live" or "replay", the strategy "v1" or "v2", the holding policy
    account,    \* PaperAccount, and what its fills paid and received: flow
    orders,     \* _pending_orders of the broker
    believed,   \* the side the strategy engine was told of by set_position_info
    clock       \* the last complete bar: its session, the minutes to the close, and
                \* how many bars there were

ptVars == <<mode, account, orders, believed, clock>>

Sides == {"buy", "sell"}
Opposite(s) == IF s = "buy" THEN "sell" ELSE "buy"
Sign(s) == IF s = "buy" THEN 1 ELSE -1

\* qty = 0 means no position; cost is avg_entry_price * qty
NoPosition == [side |-> "buy", qty |-> 0, cost |-> 0]
HasPosition(a) == a.pos.qty > 0

-----------------------------------------------------------------------------
(* PaperAccount                                                            *)

Unrealized(a) == Sign(a.pos.side) * (a.mark * a.pos.qty - a.pos.cost) * PointValue
Equity(a) == a.cash + (IF HasPosition(a) THEN Unrealized(a) ELSE 0)
MarginUsed(a) == a.pos.qty * InitialMargin

CostWith(p, f) == p.cost + f.price * f.qty

Entered(a, f) ==
    [a EXCEPT !.pos = [side |-> f.side, qty |-> @.qty + f.qty, cost |-> CostWith(@, f)],
              !.entryFee = @ + f.fee]

\* mutant: every partial close is charged the whole entry fee
WholeFee(a, q) == a.entryFee
\* The entry fees are shared by the contracts they were paid for
FeeShare(a, q) == (a.entryFee * q) \div a.pos.qty

Closed(a, f) ==
    LET q == Least({f.qty, a.pos.qty})
        costShare == (a.pos.cost * q) \div a.pos.qty
        gross == Sign(a.pos.side) * (f.price * q - costShare) * PointValue
        net == gross - FeeShare(a, q) - f.fee
        left == IF q = a.pos.qty THEN NoPosition ELSE [a.pos EXCEPT !.qty = @ - q, !.cost = @ - costShare]
    IN [a EXCEPT !.cash = @ + gross, !.realized = @ + net, !.daily = @ + net,
                 !.cooldown = IF net < 0 THEN CooldownBars ELSE @,
                 !.pos = left,
                 !.entryFee = (@ * (a.pos.qty - q)) \div a.pos.qty]

\* on_fill: the fee is paid at once, then the fill opens, adds or closes
OnFill(a, f) ==
    LET paid == [a EXCEPT !.cash = @ - f.fee,
                          !.flow = @ - f.fee - Sign(f.side) * f.price * f.qty * PointValue]
    IN IF ~HasPosition(a) \/ a.pos.side = f.side THEN Entered(paid, f) ELSE Closed(paid, f)

CountedDown(n) == Floor0(n - 1)

\* on_bar: mark to market, peak and drawdown, cooldown
OnBar(a, price, advance) ==
    LET m == [a EXCEPT !.mark = price]
        peak == Greatest({a.peak, Equity(m)})
    IN [m EXCEPT !.peak = peak, !.drop = peak - Equity(m),
                 !.cooldown = IF advance THEN CountedDown(@) ELSE @]

ResetDaily(a) == [a EXCEPT !.daily = 0]

-----------------------------------------------------------------------------
(* SimulationBroker: a market order fills at the next open, a forced close  *)
(* at the close, both on the worse side                                     *)

FillOf(side, qty, price) ==
    [side |-> side, qty |-> qty, price |-> price + Sign(side) * SlippagePoints, fee |-> FeePerSide * qty]

\* The strategy is told of an entry, and of a close that leaves nothing
Told(a, f, bel) ==
    CASE ~HasPosition(a) -> "none"
      [] HasPosition(a) /\ a.pos.side = f.side -> f.side
      [] OTHER -> bel

Filled(s, f) == LET a == OnFill(s.acc, f) IN [acc |-> a, bel |-> Told(a, f, s.bel)]

\* process_bar fills every pending market order
Matched(s, open) ==
    LET after[n \in 0..Len(orders)] ==
          IF n = 0 THEN s ELSE Filled(after[n - 1], FillOf(orders[n].side, orders[n].qty, open))
    IN  after[Len(orders)]

\* _force_flatten
Flattened(s, close) ==
    Filled(s, FillOf(Opposite(s.acc.pos.side), s.acc.pos.qty, close))

-----------------------------------------------------------------------------
(* RiskEngine                                                              *)

\* 60 % of equity as margin, 20 % lost under stress, 2 % lost at the stop
Addable(a) ==
    LET capital == Floor0(Equity(a))
        budget == (capital * 60) \div 100
        stress == ((capital * 20) \div 100) \div (StressPoints * PointValue)
        risk == ((capital * 2) \div 100) \div (StopPoints * PointValue)
        suggested == Least({budget \div InitialMargin, stress, risk, MaxContracts})
    IN Floor0(Least({Floor0(budget - MarginUsed(a)) \div InitialMargin, stress - a.pos.qty, risk,
                     MaxContracts - a.pos.qty, suggested - a.pos.qty}))

\* 5 % of the starting equity in a day, 15 % from the peak
DailyLossReached(a) ==
    LET pnl == a.daily + (IF HasPosition(a) THEN Unrealized(a) ELSE 0)
    IN pnl < 0 /\ -pnl * 100 >= StartingEquity * 5
DrawdownReached(a) == a.drop * 100 >= a.peak * 15

InTime(mins) == mins > NoNewMinutes
CanOpen(a, mins) ==
    /\ InTime(mins)
    /\ a.cooldown = 0
    /\ ~DailyLossReached(a) /\ ~DrawdownReached(a)
    /\ a.pos.qty < MaxContracts
    /\ Equity(a) > 0 /\ MarginUsed(a) * 100 < Equity(a) * 60

\* mutant: the account is judged as the bar before left it
MustCloseBefore(a, mins) ==
    \/ mode.policy = "day_only" /\ mins <= FlattenMinutes
    \/ DailyLossReached(account) \/ DrawdownReached(account)
MustClose(a, mins) ==
    \/ mode.policy = "day_only" /\ mins <= FlattenMinutes
    \/ DailyLossReached(a) \/ DrawdownReached(a)

-----------------------------------------------------------------------------
(* The strategy and the order a signal becomes                             *)

Signal(act, side, qty) == [act |-> act, side |-> side, qty |-> qty]

\* update_tmf_bar: v1 opens without a position and closes all; v2 opens and adds one
\* contract at a time and may close a part
Signals(a) ==
    {Signal("none", "buy", 0)} \cup
    IF ~HasPosition(a) THEN {Signal("open", s, 1) : s \in Sides}
    ELSE IF mode.strategy = "v1" THEN {Signal("close", a.pos.side, a.pos.qty)}
    ELSE {Signal("close", a.pos.side, q) : q \in {1, a.pos.qty - 1, a.pos.qty} \ {0}}
         \cup {Signal("open", a.pos.side, 1) : q \in {x \in {a.pos.qty} : x < ProfileQty}}

RemainingProfile(a) == Floor0(ProfileQty - a.pos.qty)
\* v1 takes what sizing allows, v2 asks for its quantity or nothing
OrderQty(a, sig) ==
    IF mode.strategy = "v1" THEN Least({Addable(a), RemainingProfile(a)})
    ELSE IF sig.qty <= Addable(a) /\ sig.qty <= RemainingProfile(a) THEN sig.qty ELSE 0

OrdersFor(a, sig, mins) ==
    CASE sig.act = "close" /\ HasPosition(a) ->
            <<[side |-> Opposite(sig.side), qty |-> Least({sig.qty, a.pos.qty}), opens |-> FALSE]>>
      [] sig.act = "open" /\ CanOpen(a, mins) /\ OrderQty(a, sig) > 0 ->
            <<[side |-> sig.side, qty |-> OrderQty(a, sig), opens |-> TRUE]>>
      [] OTHER -> <<>>

-----------------------------------------------------------------------------
(* Bars                                                                    *)

PtInit ==
    /\ mode \in [via : {"live", "replay"}, strategy : {"v1", "v2"},
                 policy : {"day_only", "overnight_allowed"}]
    /\ \E p \in Prices :
         account = [cash |-> StartingEquity, realized |-> 0, daily |-> 0, entryFee |-> 0,
                    peak |-> StartingEquity, drop |-> 0, cooldown |-> 0, mark |-> p, flow |-> 0, pos |-> NoPosition]
    /\ orders = <<>>
    /\ believed = "none"
    /\ clock = [session |-> 0, mins |-> SessionMinutes, bars |-> 0]

\* What follows the marking: a forced close before the session ends or when a limit
\* is reached, else the strategy's signal
Decide(s, close, mins) ==
    IF HasPosition(s.acc) /\ MustClose(s.acc, mins)
    THEN LET f == Flattened(s, close)
         IN account' = f.acc /\ believed' = f.bel /\ orders' = <<>>
    ELSE /\ account' = s.acc /\ believed' = s.bel
         /\ \E sig \in Signals(s.acc) : orders' = OrdersFor(s.acc, sig, mins)

\* A complete bar, however long after the last one: a new day resets the daily result,
\* then the bar matches the orders and marks the account
Bar(open, close) ==
    /\ mode.via # "ended" /\ clock.bars < MaxBars
    /\ \E session \in clock.session..MaxSessions, mins \in 0..SessionMinutes, today \in BOOLEAN :
          /\ session = clock.session => mins < clock.mins
          /\ clock' = [session |-> session, mins |-> mins, bars |-> clock.bars + 1]
          /\ LET s == Matched([acc |-> IF today THEN account ELSE ResetDaily(account),
                               bel |-> believed], open)
             IN Decide([s EXCEPT !.acc = OnBar(s.acc, close, TRUE)], close, mins)
    /\ UNCHANGED mode

\* A partial bar, or another bar of the minute already handled, only marks the account
PartialBar(close) ==
    /\ mode.via = "live" /\ clock.bars > 0
    /\ account' = OnBar(account, close, FALSE)
    /\ UNCHANGED <<mode, orders, believed, clock>>

\* The end of a replay closes what is open at the last stored price; orders stay
ReplayEnd(close) ==
    /\ mode.via = "replay" /\ clock.bars > 0
    /\ mode' = [mode EXCEPT !.via = "ended"]
    /\ IF HasPosition(account) /\ mode.policy = "day_only"
       THEN LET f == Flattened([acc |-> account, bel |-> believed], close)
            IN account' = f.acc /\ believed' = f.bel
       ELSE UNCHANGED <<account, believed>>
    /\ UNCHANGED <<orders, clock>>

PtNext ==
    \/ \E open, close \in Prices : Bar(open, close)
    \/ \E close \in Prices : PartialBar(close) \/ ReplayEnd(close)

PtSpec == PtInit /\ [][PtNext]_ptVars

-----------------------------------------------------------------------------
(* Properties                                                              *)

\* Every variable keeps to the values the code gives it.
PtTypeOK ==
    /\ mode \in [via : {"live", "replay", "ended"}, strategy : {"v1", "v2"},
                 policy : {"day_only", "overnight_allowed"}]
    /\ account.pos.side \in Sides /\ account.pos.qty \in Nat /\ account.cooldown \in 0..CooldownBars
    /\ account.peak >= StartingEquity /\ account.drop >= 0 /\ account.mark \in Prices
    /\ orders \in Seq([side : Sides, qty : Nat \ {0}, opens : BOOLEAN]) /\ Len(orders) <= 1
    /\ believed \in Sides \cup {"none"}

\* The average-cost books agree with the fills: whatever was opened, added to and
\* partly closed, equity is the starting equity, what the fills paid and received,
\* and the open contracts at the last price.
LedgerAgrees ==
    Equity(account) = StartingEquity + account.flow
        + Sign(account.pos.side) * account.mark * account.pos.qty * PointValue

\* The realised result and the entry fees still to be shared explain the cash: partial
\* closes neither lose nor repeat a fee.
CashExplained == account.cash = StartingEquity + account.realized - account.entryFee

\* A pending order suits the position it will meet: an opening order adds to its side
\* and keeps to the profile's contracts, a closing one never reverses it.
OrdersSuitPosition ==
    mode.via # "ended" => \A i \in DOMAIN orders :
       LET o == orders[i] IN
       IF o.opens
       THEN /\ HasPosition(account) => account.pos.side = o.side
            /\ account.pos.qty + o.qty <= ProfileQty /\ account.pos.qty + o.qty <= MaxContracts
       ELSE account.pos.side = Opposite(o.side) /\ o.qty <= account.pos.qty

\* The strategy's idea of the position, which its stops follow, is the account's.
StrategyAgrees == believed = IF HasPosition(account) THEN account.pos.side ELSE "none"

\* A day-only run that sees a bar of the closing minutes goes into the close with
\* neither a position nor an order that could open one.
FlatBeforeClose ==
    mode.policy = "day_only" /\ clock.mins <= FlattenMinutes => ~HasPosition(account) /\ orders = <<>>

\* What holds of a run and its account at any time
TradingSound ==
    PtTypeOK /\ LedgerAgrees /\ CashExplained /\ OrdersSuitPosition /\ StrategyAgrees /\ FlatBeforeClose

\* No position outlives the complete bar at which a loss limit is reached.
LimitsEnforced ==
    [][clock'.bars # clock.bars =>
         ~(HasPosition(account') /\ (DailyLossReached(account') \/ DrawdownReached(account')))]_ptVars

=============================================================================
