SPECIFICATION BackendSpec
CONSTANTS
  r1 = r1
  r2 = r2
  r3 = r3
  Requests = {r1, r2, r3}
  MaxWorkers = 2
  Generations <- TwoGenerations
  Faults = {"timeout", "cancel", "break", "shutdown"}
  b1 = b1
  p1 = p1
  Bots = {b1}
  BotRequests = {p1}
  Autostart = Autostart
  MaxInstances = 2
  MaxAttempts = 2
  MaxBoots = 2
  Supervisors = {1, 2}
  MaxCrashes = 2
  CrashWindow = 1
  StableRuntime = 1
  InitialBackoff = 1
  MaxBackoff = 2
  MaxSpawns = 3
  Scenarios <- OneOrTwo
INVARIANTS
  SlotsExact
  BotsOwned
  SupervisionExact
PROPERTIES
  CapRespected
  EventuallyAdmitted
  AutostartEnds
  StopEndsRun
