CONSTANTS
  j1 = j1
  j2 = j2
  Jobs <- Pair
  NoJob = NoJob
  MaxRuns = 2
  Reserved = 1
  Cost = 2
  MaxReports = 1
  MaxFailures = 1
  MaxWork = 9
SPECIFICATION FairSpec
CHECK_DEADLOCK FALSE
INVARIANTS
  FoldComplete
  OrphanSafe
  CorruptOnlyByFailure
  BodyFenced
  LedgerMatchesJournal
PROPERTIES
  RunReturns
