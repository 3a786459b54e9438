SPECIFICATION ServicesSpec
CONSTANTS
  k1 = k1
  k2 = k2
  c1 = c1
  c2 = c2
  n1 = n1
  n2 = n2
  Keys = {k1, k2}
  Callers = {c1, c2}
  Tasks = {n1, n2}
  MaxEntries = 1
  MaxVersion = 1
  NoTask = NoTask
  Prices = {20000, 21200}
  PointValue = 10
  FeePerSide = 22
  SlippagePoints = 1
  StartingEquity = 230000
  InitialMargin = 28900
  StopPoints = 60
  StressPoints = 1000
  MaxContracts = 10
  ProfileQty = 2
  NoNewMinutes = 2
  FlattenMinutes = 1
  SessionMinutes = 4
  CooldownBars = 2
  MaxSessions = 1
  MaxBars = 5
  Holders = {"broker", "bank"}
  Included = {"broker"}
  Tickers = {"x", "y"}
  Days <- ThreeDays
  PriceRows <- Closes
  LedgerEntries <- BookedEntries
  MaxLedger = 4
  r1 = r1
  r2 = r2
  LedgerRequests = {r1, r2}
  Files <- OneRowFiles
  JournalKeys = {"j1"}
  MaxTrades = 2
  MaxLegs = 4
  MaxBatches = 2
  MaxFaults = 1
  MaxRequests = 3
  Overseas = {"AAPL", "TSLA"}
  Requests = {"page"}
  MaxConcurrency = 1
  Interval = 1
  ManualInterval = 1
  ErrorWait = 1
  RateWait = 2
  LongestWait = 3
  MaxFlights = 3
  MaxScans = 1
  MaxCancels = 1
  MaxClock = 2
  Histories = {"TXF"}
  Readers = {"chart", "bot"}
  MaxRefreshes = 1
  MaxTasks = 3
  Shares = {"s1", "s2"}
  TaiwanMarkets <- BothMarkets
  MarketOf <- OneEach
  Period = 1
  Runners = {"loop", "manual"}
  MayLeave = {"s2"}
  MaxDates = 2
  MaxBackfills = 2
  MaxTroubles = 1
  Scopes = {"critical", "history"}
  AutoScope = "critical"
  Makers = {"loop", "cli"}
  KeepMinimum = 1
  KeepPerScope = 1
  RetentionDays = 0
  SizeLimit = 2
  MaxAgeDays = 0
  MaxBackups = 3
  MaxDays = 2
  MaxWrites = 2
  Bounds <- BackupBounds
  ChipRows = {1, 2}
  Groups = {1}
  GroupOf <- OneDate
  Operators = {"op1", "op2"}
  Grace = 1
  BackupAge = 0
  MaxGroups = 1
  Cutoffs = {2}
  MaxPayload = 2
  MaxSyncs = 3
  MaxDay = 2
  Kinds = {"ok", "error"}
  LogOperators = {"op1", "op2"}
  LogGrace = 1
  BatchSize = 1
  MaxLogged = 3
  LogDays = 1
  MaxLogDay = 3
  AlertIds = {"a1"}
  Values = {1, 2}
  Rules = {"gt", "cross_up"}
  MaxRounds = 2
  MaxEdits = 2
  MaxMishaps = 1
  BarShapes <- FourBars
  Capital = 10000
  FeeTenths = 1
  SlippageTenths = 2
  Plans <- TwoPlans
  FastBars = 1
  SlowBars = 2
  MinRows = 3
  MaxRows = 6
  DayUnits = 6
  MinSleep = 2
  Starts = {6, 9}
  Jobs <- LoopJobs
  StartDelay = 1
  RetryEvery = 2
  OutageGrace = 2
  CheckEvery = 1
  Weekend = {2}
  MaxNow = 20
  Migrators = {"service", "cli"}
  Databases <- SomeDatabases
  Releases <- SomeReleases
  MaxRuns = 3
INVARIANTS
  LoadsExact
  TradingSound
  
  QuotesOrderly
  HistoryOrderly
  BackupsHonest
  BackfillSound
  ArchiveKeeps
  AlertsHonest
  LogSound
  SchemaSound
  SchedulesKept
  ResultsExplained
PROPERTIES
  LimitsEnforced
VIEW ServicesView
