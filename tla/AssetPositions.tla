--------------------------- MODULE AssetPositions ---------------------------
(***************************************************************************)
(* Holdings, cash and performance of the asset accounts, computed from the *)
(* ledgers (backend/asset_tracking_service.py).  The ledger grows and      *)
(* shrinks one entry at a time, in any order of dates; everything else is  *)
(* a function of it.                                                       *)
(*                                                                         *)
(* Amounts are integers in the base currency and days stand for times.     *)
(***************************************************************************)
EXTENDS Integers, FiniteSets, Common
LOCAL INSTANCE FiniteSetsExt

CONSTANTS
    Holders, Included,      \* accounts, and those that count in the totals
    Tickers, Days,
    PriceRows,              \* the stored closes: ticker -> day -> price, 0 where there is none
    LedgerEntries,          \* the entries a user may book
    MaxLedger              \* bound: entries booked at once

ASSUME PositionsAssumption == Included \subseteq Holders /\ Days \subseteq Nat /\ MaxLedger \in Nat

VARIABLE ledger

Of(S, kinds) == {e \in S : e.kind \in kinds}
UpTo(S, d) == {e \in S : e.day <= d}
Total(f(_), S) == MapThenSumSet(f, S)

-----------------------------------------------------------------------------
(* compute_asset_positions                                                 *)

NoHolding == [qty |-> 0, cost |-> 0, realized |-> 0]
Flat == [pos |-> [k \in Holders \X Tickers |-> NoHolding], cash |-> [a \in Holders |-> 0], refused |-> {}]

CashIn == {"deposit", "dividend", "interest", "transfer_in"}
CashOut == {"withdraw", "fee", "tax", "fx_fee", "transfer_out"}
Signed(e) == IF e.flow \in CashIn THEN Abs(e.amount) ELSE IF e.flow \in CashOut THEN -Abs(e.amount) ELSE e.amount

At(e) == <<e.account, e.ticker>>
Gross(e) == e.qty * e.price
Refuse(s, e) == [s EXCEPT !.refused = @ \cup {e}]

Buy(s, e) ==
    [s EXCEPT !.cash[e.account] = @ - Gross(e) - e.fee,
              !.pos[At(e)].qty = @ + e.qty,
              !.pos[At(e)].cost = @ + Gross(e) + e.fee]

Profit(e, removed) == Gross(e) - e.fee - removed

\* The average cost of what is sold leaves with it
Sell(s, e) ==
    LET p == s.pos[At(e)]
        removed == (p.cost * e.qty) \div p.qty
    IN [s EXCEPT !.cash[e.account] = @ + Gross(e) - e.fee,
                 !.pos[At(e)] = [qty |-> p.qty - e.qty, cost |-> Floor0(p.cost - removed),
                                 realized |-> p.realized + Profit(e, removed)]]

Oversold(s, e) == Refuse(s, e)

Covers(s, e) == s.pos[At(e)].qty >= e.qty

ApplyTrade(s, e) ==
    CASE e.qty <= 0 \/ e.price <= 0 -> Refuse(s, e)
      [] e.side = "buy" -> Buy(s, e)
      [] e.side = "sell" -> IF Covers(s, e) THEN Sell(s, e) ELSE Oversold(s, e)
      [] OTHER -> Refuse(s, e)

Split(s, e) ==
    IF e.ratio <= 0 \/ s.pos[At(e)].qty <= 0 THEN Refuse(s, e)
    ELSE [s EXCEPT !.pos[At(e)].qty = @ * e.ratio]

Plus(p, q) == [qty |-> p.qty + q.qty, cost |-> p.cost + q.cost, realized |-> p.realized + q.realized]

\* mutant: the profit already realised stays with the old ticker and is lost
Forgets(p) == [p EXCEPT !.realized = 0]
Carried(p) == p

Rename(s, e) ==
    LET p == s.pos[At(e)] IN
    IF p.qty <= 0 /\ p.cost <= 0 THEN Refuse(s, e)
    ELSE [s EXCEPT !.pos[<<e.account, e.target>>] = Plus(@, Carried(p)), !.pos[At(e)] = NoHolding]

\* The cash moves even when the quantity is refused
Adjust(s, e) ==
    LET p == s.pos[At(e)]
        paid == [s EXCEPT !.cash[e.account] = @ + e.cash]
    IN IF p.qty + e.qty < 0 THEN Refuse(paid, e)
       ELSE [paid EXCEPT !.pos[At(e)].qty = @ + e.qty, !.pos[At(e)].cost = Floor0(@ + e.cost)]

ApplyEvent(s, e) ==
    CASE e.account \notin Holders -> Refuse(s, e)
      [] e.kind = "trade" -> ApplyTrade(s, e)
      [] e.kind = "split" -> Split(s, e)
      [] e.kind = "symbol_change" -> Rename(s, e)
      [] OTHER -> Adjust(s, e)

BookCash(s, e) == IF e.account \notin Holders THEN Refuse(s, e) ELSE [s EXCEPT !.cash[e.account] = @ + Signed(e)]

Adjustments == {"split", "symbol_change", "adjustment"}
\* By day, then by id, an adjustment before the trade of the same id
Earlier(e, f) ==
    \/ e.day < f.day
    \/ e.day = f.day /\ e.id < f.id
    \/ e.day = f.day /\ e.id = f.id /\ e.kind # "trade" /\ f.kind = "trade"

Booked(S) ==
    LET cashed == FoldSet(LAMBDA e, s : BookCash(s, e), Flat, {e \in S : e.kind = "cash"})
        events == {e \in S : e.kind \in Adjustments \cup {"trade"}}
        nth == [i \in 1..Cardinality(events) |->
                   CHOOSE e \in events : Cardinality({f \in events : Earlier(f, e)}) = i - 1]
        after[i \in 0..Cardinality(events)] == IF i = 0 THEN cashed ELSE ApplyEvent(after[i - 1], nth[i])
    IN after[Cardinality(events)]

-----------------------------------------------------------------------------
(* Prices: manual overrides and stored closes                              *)

LatestEntry(S) == LET d == Greatest({e.day : e \in S}) IN CHOOSE e \in S : e.day = d

Live(S, t, d) == {e \in UpTo(Of(S, {"override"}), d) : e.ticker = t}

\* An override of the account beats one of all accounts
OverrideOf(S, a, t, d) ==
    LET own == {e \in Live(S, t, d) : e.account = a}
        common == {e \in Live(S, t, d) : e.account = "all"}
    IN IF own # {} THEN {LatestEntry(own)} ELSE IF common # {} THEN {LatestEntry(common)} ELSE {}

CloseOf(t, d) ==
    LET R == {x \in Days : x <= d /\ PriceRows[t][x] > 0}
    IN IF R = {} THEN 0 ELSE PriceRows[t][Greatest(R)]

\* A forced override beats the close, the close any other override
PriceAt(S, a, t, d) ==
    LET o == OverrideOf(S, a, t, d) IN
    IF \E e \in o : e.force THEN (CHOOSE e \in o : TRUE).price
    ELSE IF CloseOf(t, d) > 0 THEN CloseOf(t, d)
    ELSE IF o # {} THEN (CHOOSE e \in o : TRUE).price ELSE 0

-----------------------------------------------------------------------------
(* build_asset_performance_report: the point of a day, and what explains it*)

Counted == Included \X Tickers

Point(S, d) ==
    LET s == Booked(UpTo(S, d))
        held == {k \in Counted : s.pos[k].qty > 0}
        priced == {k \in held : PriceAt(S, k[1], k[2], d) > 0}
        market == Total(LAMBDA k : s.pos[k].qty * PriceAt(S, k[1], k[2], d), priced)
        cash == Total(LAMBDA a : s.cash[a], Included)
    IN [cash |-> cash, market |-> market, total |-> cash + market,
        realized |-> Total(LAMBDA k : s.pos[k].realized, Counted),
        unrealized |-> market - Total(LAMBDA k : s.pos[k].cost, priced),
        gaps |-> held \ priced]

\* The report starts at the newest opening balance when that is later than asked for
StartDay(asked, last) ==
    LET openings == {e.day : e \in {x \in UpTo(Of(ledger, {"cash", "trade"}), last) : x.initial /\ x.account \in Included}}
    IN Greatest({asked} \cup openings)

NetFlow(start, last) ==
    Total(Signed, {e \in Of(ledger, {"cash"}) : ~e.initial /\ e.account \in Included /\ e.day > start /\ e.day <= last})

\* The gain between two points, and the parts the report names
Performance(p, q, flow) ==
    LET gained == q.total - p.total - flow
        realized == q.realized - p.realized
        unrealized == q.unrealized - p.unrealized
    IN [gained |-> gained, realized |-> realized, unrealized |-> unrealized,
        other |-> gained - realized - unrealized]

-----------------------------------------------------------------------------
(* The ledger                                                              *)

ApInit == ledger = {}

BookEntry ==
    /\ Cardinality(ledger) < MaxLedger
    /\ \E e \in LedgerEntries \ ledger :
          /\ \A f \in ledger : f.kind = e.kind => f.id # e.id
          /\ ledger' = ledger \cup {e}

DeleteEntry == \E e \in ledger : ledger' = ledger \ {e}

ApNext == BookEntry \/ DeleteEntry
ApSpec == ApInit /\ [][ApNext]_ledger

-----------------------------------------------------------------------------
(* What the books promise                                                  *)

\* No holding and no cost is ever negative, and only booked entries are refused
ApTypeOK ==
    \A d \in Days : LET s == Booked(UpTo(ledger, d)) IN
       /\ \A k \in DOMAIN s.pos : s.pos[k].qty >= 0 /\ s.pos[k].cost >= 0
       /\ s.refused \subseteq ledger

\* What is not explained by money: an adjustment states other amounts, and a ticker renamed to
\* itself, which nothing refuses, loses its holding
Stated(S) == Of(S, {"adjustment"}) \cup {e \in Of(S, {"symbol_change"}) : e.target = e.ticker}

\* Money is neither made nor lost: cash plus cost less realised profit of an account is
\* what was paid in, as long as no entry states otherwise, whatever order the entries
\* were booked in and whatever was split, renamed or refused
BooksBalance ==
    LET s == Booked(ledger) IN
    \A a \in Holders :
       (\A e \in Stated(ledger) : e.account # a)
       => s.cash[a] + Total(LAMBDA t : s.pos[<<a, t>>].cost - s.pos[<<a, t>>].realized, Tickers)
          = Total(Signed, {e \in Of(ledger, {"cash"}) : e.account = a})

\* A refused trade, split or rename leaves no trace: without it the books are the same
RefusedLeavesNoTrace ==
    LET s == Booked(ledger)
        inert == {e \in s.refused : e.kind # "adjustment"}
        t == Booked(ledger \ inert)
    IN t.pos = s.pos /\ t.cash = s.cash

\* The report explains what was gained: with every holding priced on both days and no
\* entry that states otherwise, the gain is the change of realised and unrealised profit
GainExplained ==
    Stated(ledger) = {} =>
       LET P == [d \in Days |-> Point(ledger, d)] IN
       \A asked, last \in Days :
          asked <= last =>
             LET start == StartDay(asked, last) IN
             P[start].gaps = {} /\ P[last].gaps = {}
             => Performance(P[start], P[last], NetFlow(start, last)).other = 0

\* An entry does not change what is reported for the days before it
PastUnchanged ==
    \A e \in ledger : \A d \in 1..(e.day - 1) : Point(ledger \ {e}, d) = Point(ledger, d)

=============================================================================
