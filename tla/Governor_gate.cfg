CONSTANTS
  j1 = j1
  j2 = j2
  j3 = j3
  Jobs <- Wave
  Cap = 6
  FairShare = 2
  TokenCap = 1
  InFlightCeiling = 3
  Quota = 3
  MaxAttempts = 2
  Costs = {1, 3}
  MaxReports = 2
  SeedAttempts = 0
  Seeds = {0, 3, 7}
  NoReservation = NoReservation
  NoCost = NoCost
SPECIFICATION Spec
SYMMETRY WaveSymmetry
CHECK_DEADLOCK FALSE
INVARIANTS
  CommittedWithinCap
  LedgerExact
  NoLostWakeup
PROPERTIES
  TripIsFinal
