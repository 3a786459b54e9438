SPECIFICATION Spec
CONSTANTS
  t1 = t1
  t2 = t2
  c1 = c1
  c2 = c2
  watch = watch
  trade = trade
  consumer = consumer
  watchdog = watchdog
  rebuilder = rebuilder
  Tickers = {t1}
  Contracts = {c1}
  FirstTarget <- SameContract
  Accounts <- OneAccount
  Primary = 1
  Mode <- AllNormal
  Sources = {watch}
  Watchlist = watch
  Consumers = {}
  Watchdogs = {}
  Rebuilder = rebuilder
  ChannelsFor <- OneChannel
  NoContract = NoContract
  NoAssignment = NoAssignment
  Nobody = Nobody
  Faults = {"invalidate", "rest"}
INVARIANTS
  NoPhantomSubscription
