------------------------------ MODULE Backtest ------------------------------
(***************************************************************************)
(* The backtest engine (backend/backtest_engine.py): a long-only strategy  *)
(* is run over stored bars, with stop loss, take profit, fees and          *)
(* slippage.  The bars grow one at a time; the result is a function of     *)
(* them, so a run and the run a day later can be compared.                 *)
(*                                                                         *)
(* Rates are in tenths, and prices are such that every amount of a run is  *)
(* whole.  The strategy is the cross of two moving averages; the others,   *)
(* which differ in their indicators, and the ratios of the summary other   *)
(* than the drawdown are left out.                                         *)
(***************************************************************************)
EXTENDS Integers, Sequences, SequencesExt, Common

CONSTANTS
    BarShapes,              \* the bars that may come: open, high, low, close
    Capital, FeeTenths, SlippageTenths,
    Plans,                  \* what a request may ask for: stop, take (tenths, 0 for none), sizing
    FastBars, SlowBars,     \* the two averages; 20 and 50 in the code
    MinRows,                \* min_bars: a shorter run is refused
    MaxRows                 \* bound

ASSUME BacktestAssumption ==
    0 < FastBars /\ FastBars < SlowBars /\ SlowBars < MinRows /\ Capital > 0

VARIABLES plan, rows

btVars == <<plan, rows>>

-----------------------------------------------------------------------------
(* Indicators and signals, of the bars of a sequence                       *)

ClosesOf(bars) == [i \in 1..Len(bars) |-> bars[i].close]

\* The sum of the window that ends at value i, as the loop keeps it: it adds the new value and
\* takes off the one that leaves the window
RollingSums(values, period) ==
    LET sum[i \in 0..Len(values)] ==
          IF i = 0 THEN 0 ELSE sum[i - 1] + values[i] - (IF i > period THEN values[i - period] ELSE 0)
    IN  sum

\* The averages are compared multiplied out
Ahead(values, i) ==
    RollingSums(values, FastBars)[i] * SlowBars - RollingSums(values, SlowBars)[i] * FastBars

\* The averages of a bar and the bar before are there from the bar after the longer period on
StrategySignal(values, i) ==
    IF i <= SlowBars THEN "none"
    ELSE IF Ahead(values, i) > 0 /\ Ahead(values, i - 1) <= 0 THEN "buy"
    ELSE IF Ahead(values, i) < 0 /\ Ahead(values, i - 1) >= 0 THEN "sell"
    ELSE "none"

\* mutant: the signal of the bar that is traded
SignalOfBar(bars, i) == StrategySignal(ClosesOf(bars), i)
\* A bar trades on the signal of the bar before
SignalFor(bars, i) == StrategySignal(ClosesOf(bars), i - 1)

-----------------------------------------------------------------------------
(* Positions                                                               *)

NoShares == [qty |-> 0, entry |-> 0, cost |-> 0, bar |-> 0]
Fresh == [cash |-> Capital, pos |-> NoShares, trades |-> <<>>, curve |-> <<>>]

Bought(price) == (price * (10 + SlippageTenths)) \div 10
Sold(price) == (price * (10 - SlippageTenths)) \div 10
Fee(amount) == (amount * FeeTenths) \div 10

\* The fee is paid out of the share of the cash the plan deploys, in quarters
OpenPosition(s, p, price, i) ==
    LET entry == Bought(price)
        qty == (s.cash * p.sizing * 10) \div (4 * entry * (10 + FeeTenths))
        cost == qty * entry + Fee(qty * entry)
    IN  IF qty = 0 THEN s
        ELSE [s EXCEPT !.cash = @ - cost, !.pos = [qty |-> qty, entry |-> entry, cost |-> cost, bar |-> i]]

ClosePosition(s, price, reason, i) ==
    LET amount == s.pos.qty * Sold(price)
        proceeds == amount - Fee(amount)
    IN  [s EXCEPT !.cash = @ + proceeds, !.pos = NoShares,
                  !.trades = Append(@, [entry |-> s.pos.bar, exit |-> i, reason |-> reason,
                                        net |-> proceeds - s.pos.cost])]

StopPrice(s, p) == (s.pos.entry * (10 - p.stop)) \div 10
TakePrice(s, p) == (s.pos.entry * (10 + p.take)) \div 10

\* The stop counts first when the bar reaches both, and the bar of the entry is not looked at
RiskExit(s, p, bar, i) ==
    IF s.pos.qty = 0 \/ i <= s.pos.bar THEN s
    ELSE IF p.stop > 0 /\ bar.low <= StopPrice(s, p) THEN ClosePosition(s, StopPrice(s, p), "stop_loss", i)
    ELSE IF p.take > 0 /\ bar.high >= TakePrice(s, p) THEN ClosePosition(s, TakePrice(s, p), "take_profit", i)
    ELSE s

Traded(s, p, bars, i) ==
    IF s.pos.qty > 0 /\ SignalFor(bars, i) = "sell" THEN ClosePosition(s, bars[i].open, "strategy_exit", i)
    ELSE IF s.pos.qty = 0 /\ SignalFor(bars, i) = "buy" THEN OpenPosition(s, p, bars[i].open, i)
    ELSE s

Marked(s, price) == [s EXCEPT !.curve = Append(@, s.cash + s.pos.qty * price)]

-----------------------------------------------------------------------------
(* run_backtest                                                            *)

\* The bars from the second on, before the position at the end is closed
OpenRun(p, bars) ==
    LET after[i \in 1..Len(bars)] ==
          IF i = 1 THEN Fresh
          ELSE Marked(Traded(RiskExit(after[i - 1], p, bars[i], i), p, bars, i), bars[i].close)
    IN  after[Len(bars)]

ClosedAtEnd(s, bars) ==
    LET c == ClosePosition(s, bars[Len(bars)].close, "end_of_test", Len(bars))
    IN  IF s.pos.qty = 0 THEN s ELSE [c EXCEPT !.curve[Len(s.curve)] = c.cash]

Backtest(p, bars) == ClosedAtEnd(OpenRun(p, bars), bars)

\* The largest fall from a peak of the curve, as a fraction
MaxDrawdown(curve) ==
    LET step(d, v) ==
          LET peak == Greatest({d.peak, v})
          IN  IF (peak - v) * d.of > d.drop * peak
              THEN [peak |-> peak, drop |-> peak - v, of |-> peak] ELSE [d EXCEPT !.peak = peak]
    IN  FoldLeft(step, [peak |-> curve[1], drop |-> 0, of |-> 1], curve)

EnoughRows == Len(rows) >= MinRows

-----------------------------------------------------------------------------
BtInit == plan \in Plans /\ rows = <<>>

NextRow == /\ Len(rows) < MaxRows
           /\ \E bar \in BarShapes : rows' = Append(rows, bar)
           /\ UNCHANGED plan

BtNext == NextRow
BtSpec == BtInit /\ [][BtNext]_btVars

-----------------------------------------------------------------------------
(* Properties                                                              *)

BtTypeOK == plan \in Plans /\ rows \in Seq(BarShapes) /\ Len(rows) <= MaxRows

NetOf(trades) == FoldLeft(LAMBDA sum, t : sum + t.net, 0, trades)

\* What the run reports at the end is the capital and its trades, and it never spends cash it has
\* not got
EquityExplained ==
    LET s == OpenRun(plan, rows)
        end == Backtest(plan, rows)
    IN  /\ s.cash >= 0 /\ s.cash + s.pos.cost = Capital + NetOf(s.trades)
        /\ end.cash = Capital + NetOf(end.trades) /\ Last(end.curve) = end.cash
        /\ Len(end.curve) = Len(rows) - 1

\* Trades follow one another; only a risk exit leaves room for an entry on the same bar
TradesInTurn ==
    LET trades == Backtest(plan, rows).trades
    IN  /\ \A k \in 1..Len(trades) - 1 :
             \/ trades[k].exit < trades[k + 1].entry
             \/ /\ trades[k].exit = trades[k + 1].entry
                /\ trades[k].reason \in {"stop_loss", "take_profit"}
        /\ \A k \in 1..Len(trades) :
             trades[k].reason = "end_of_test" \/ trades[k].entry < trades[k].exit

\* What is held after a bar was decided by its open and the bars before it, unless the bar reached
\* the stop or the target
NoLookAhead ==
    \A bar \in BarShapes :
        LET n == Len(rows)
            other == [rows EXCEPT ![n] = bar]
            before == OpenRun(plan, Front(rows))
        IN  /\ bar.open = rows[n].open
            /\ RiskExit(before, plan, bar, n) = before /\ RiskExit(before, plan, rows[n], n) = before
            => OpenRun(plan, other).pos = OpenRun(plan, rows).pos

\* A day more of data changes nothing that was reported of the days before, except that the
\* position closed at the end of the shorter run stays open
HistoryStands ==
    LET s == OpenRun(plan, Front(rows))
    IN  /\ IsPrefix(s.trades, OpenRun(plan, rows).trades)
        /\ IsPrefix(s.curve, OpenRun(plan, rows).curve)

\* The reported drawdown is the largest fall between any two points of the curve
DrawdownExact ==
    LET curve == Backtest(plan, rows).curve
        d == MaxDrawdown(curve)
        falls == {ij \in (1..Len(curve)) \X (1..Len(curve)) : ij[1] <= ij[2]}
        Fall(ij) == curve[ij[1]] - curve[ij[2]]
    IN  /\ \A ij \in falls : Fall(ij) * d.of <= d.drop * curve[ij[1]]
        /\ d.drop = 0 \/ \E ij \in falls : Fall(ij) = d.drop /\ curve[ij[1]] = d.of

=============================================================================
