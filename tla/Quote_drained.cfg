SPECIFICATION Spec
CONSTANTS
  t1 = t1
  t2 = t2
  t3 = t3
  Tickers = {t1, t2}
  Times <- TwoTimes
  Prices <- TwoTimes
  Arrivals <- Ticks
  Capacity = 2
  NoQuote = NoQuote
  Faults = {}
INVARIANTS
  DrainedAtShutdown
SYMMETRY TickerSymmetry
CHECK_DEADLOCK FALSE
