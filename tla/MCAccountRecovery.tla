------------------------- MODULE MCAccountRecovery -------------------------
\* Instances of AccountRecovery for TLC: account 1 is the primary account.
EXTENDS AccountRecovery

CONSTANTS stock, futopt, n1, n2

OneAccount == {1}
TwoAccounts == {1, 2}
Spread == [ch \in Channels |-> IF ch = stock THEN 1 ELSE 2]
Together == [ch \in Channels |-> 1]
=============================================================================
