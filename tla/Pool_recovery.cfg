SPECIFICATION Spec
CONSTANTS
  t1 = t1
  t2 = t2
  c1 = c1
  c2 = c2
  watch = watch
  trade = trade
  consumer = consumer
  watchdog = watchdog
  rebuilder = rebuilder
  Tickers = {t1}
  Contracts = {c1}
  FirstTarget <- SameContract
  Accounts <- TwoAccounts
  Primary = 1
  Mode <- MixedModes
  Sources = {watch}
  Watchlist = watch
  Consumers = {consumer}
  Watchdogs = {}
  Rebuilder = rebuilder
  ChannelsFor <- TwoChannels
  NoContract = NoContract
  NoAssignment = NoAssignment
  Nobody = Nobody
  Faults = {"disconnect", "invalidate", "reload", "refuse"}
INVARIANTS
  NoPhantomSubscription
  NoOrphanAssignment
