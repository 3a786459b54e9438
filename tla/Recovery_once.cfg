SPECIFICATION Spec
CONSTANTS
  stock = stock
  futopt = futopt
  n1 = n1
  n2 = n2
  Accounts <- OneAccount
  Placement <- Together
  Channels = {stock, futopt}
  Rolling = {futopt}
  Notes = {n1, n2}
  Dog = dog
  User = user
  Reload = reload
  NoAccount = none
  Faults = {"channel", "refuse"}
  MaxFaults = 4
PROPERTIES
  RebuiltOnce
