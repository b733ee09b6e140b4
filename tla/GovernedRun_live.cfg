CONSTANTS
  j1 = j1
  j2 = j2
  j3 = j3
  j4 = j4
  Jobs <- Quad
  DependsOn <- QuadFork
  Concurrency = 2
  StopOnError = FALSE
  MaxRuns = 1
  MaxFailures = 1
  Cap = 4
  FairShare = 2
  TokenCap = 1
  InFlightCeiling = 1
  Quota = 6
  MaxAttempts = 3
  Costs = {3}
  MaxReports = 1
  SeedAttempts = 0
  Seeds = {0}
  NoReservation = NoReservation
  NoCost = NoCost
SPECIFICATION FairRunSpec
CHECK_DEADLOCK FALSE
INVARIANTS
  SlotsExact
PROPERTIES
  RunEnds
