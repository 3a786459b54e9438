SPECIFICATION LiveSpec
CONSTANTS
  stock = stock
  futopt = futopt
  n1 = n1
  n2 = n2
  Accounts <- TwoAccounts
  Placement <- Spread
  Channels = {stock, futopt}
  Rolling = {futopt}
  Notes = {n1, n2}
  Dog = dog
  User = user
  Reload = reload
  NoAccount = none
  Faults = {"channel", "invalidate", "login", "refuse", "database", "manual", "reload"}
  MaxFaults = 3
INVARIANTS
  MarkerBacked
  RebuildsSound
  ServedBySession
PROPERTIES
  Recovers
