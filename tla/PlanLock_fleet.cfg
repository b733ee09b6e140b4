CONSTANTS
  a1 = a1
  a2 = a2
  a3 = a3
  a4 = a4
  Attempts <- Fleet
  Procs <- FleetProcs
  Owner <- FleetOwner
  Host <- FleetHost
  NoRecord = NoRecord
  MaxFaults = 0
SPECIFICATION Spec
CHECK_DEADLOCK FALSE
INVARIANTS
  MutualExclusion
  NeverLost
  OneTail
  ForeignNeedsRelease
