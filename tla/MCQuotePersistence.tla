-------------------------- MODULE MCQuotePersistence --------------------------
(* Small instances of QuotePersistence for TLC. *)
EXTENDS QuotePersistence, TLC

CONSTANTS t1, t2, t3

OneTime == {1}
TwoTimes == {1, 2}

\* An early quote with the session's extremum, and two later ones that tie
Ticks == {[ts |-> 1, last |-> 1, high |-> 2]}
         \cup {[ts |-> 2, last |-> n, high |-> 1] : n \in {1, 2}}
TwoTicks == {q \in Ticks : q.last = q.ts}

\* Tickers are interchangeable: no definition tells one from another
TickerSymmetry == Permutations(Tickers)

=============================================================================
