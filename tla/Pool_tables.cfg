SPECIFICATION Spec
CONSTANTS
  t1 = t1
  t2 = t2
  c1 = c1
  c2 = c2
  watch = watch
  trade = trade
  consumer = consumer
  watchdog = watchdog
  rebuilder = rebuilder
  Tickers = {t1, t2}
  Contracts = {c1, c2}
  FirstTarget <- SameContract
  Accounts <- OneAccount
  Primary = 1
  Mode <- AllNormal
  Sources = {watch, trade}
  Watchlist = watch
  Consumers = {}
  Watchdogs = {}
  Rebuilder = rebuilder
  ChannelsFor <- OneChannel
  NoContract = NoContract
  NoAssignment = NoAssignment
  Nobody = Nobody
  Faults = {"refuse", "timeout", "roll"}
INVARIANTS
  AliasIndexExact
  PlacingSound
  RefCountExact
PROPERTIES
  NoSilencedAlias
