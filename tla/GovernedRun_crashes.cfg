CONSTANTS
  j1 = j1
  j2 = j2
  j3 = j3
  j4 = j4
  Jobs <- Solo
  DependsOn <- Alone
  Concurrency = 3
  StopOnError = TRUE
  MaxRuns = 4
  MaxFailures = 1
  Cap = 6
  FairShare = 2
  TokenCap = 1
  InFlightCeiling = 2
  Quota = 3
  MaxAttempts = 3
  Costs = {1, 3}
  MaxReports = 1
  SeedAttempts = 0
  Seeds = {0}
  NoReservation = NoReservation
  NoCost = NoCost
SPECIFICATION RunSpec
CHECK_DEADLOCK FALSE
INVARIANTS
  NeverCorrupt
  BodyBehindOpened
  LedgerCoversSpend
  SpendWithinCap
  QuarantineHolds
  NoSecondInvocation
  DoneIsFresh
