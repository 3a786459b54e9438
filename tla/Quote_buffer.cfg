SPECIFICATION MarketSpec
CONSTANTS
  t1 = t1
  t2 = t2
  t3 = t3
  Tickers = {t1, t2}
  Times <- TwoTimes
  Prices <- TwoTimes
  Arrivals <- TwoTicks
  Capacity = 1
  NoQuote = NoQuote
  Faults = {"error", "unknown", "hang"}
  QueueMax = 1
  MaxCandles = 2
  MaxSessions = 2
  MaxShifts = 1
  MaxRaises = 1
  Sockets = {1, 2}
  Watchable = {"TXFF4", "*TXFF"}
  Physical = {"TXFF4"}
  Alias <- OneContract
  MaxMessages = 2
  MaxCommands = 2
  MaxPolls = 1
  MaxLosses = 1
INVARIANTS
  BufferSound
  CandlesAccounted
  WatchersServed
PROPERTIES
  NoRegression
  EventuallyPersisted
  RecordsSession
  SeenInOrder
CHECK_DEADLOCK FALSE
