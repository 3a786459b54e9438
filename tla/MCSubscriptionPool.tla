------------------------- MODULE MCSubscriptionPool -------------------------
(* Small instances of SubscriptionPool for TLC.                            *)
EXTENDS SubscriptionPool, TLC

CONSTANTS t1, t2, c1, c2, watch, trade, consumer, watchdog, rebuilder

OneAccount == {1}
TwoAccounts == {1, 2}
AllNormal == [a \in Accounts |-> "Normal"]
MixedModes == [a \in Accounts |-> IF a = 1 THEN "Normal" ELSE "Speed"]

\* Two aliases of one contract, and a contract for each ticker
SameContract == [t \in Tickers |-> c1]
OwnContract == [t \in Tickers |-> IF t = t1 THEN c1 ELSE c2]

\* One channel in both modes, and two per mode that share the book channel
OneChannel == [m \in Modes |-> <<"books">>]
TwoChannels == [m \in Modes |-> IF m = "Normal" THEN <<"candles", "books">>
                                ELSE <<"trades", "books">>]

=============================================================================
