CONSTANTS
  a1 = a1
  a2 = a2
  a3 = a3
  a4 = a4
  Attempts <- Peers
  Procs <- Peers
  Owner <- PeersOwner
  Host <- PeersHost
  NoRecord = NoRecord
  MaxFaults = 1
SPECIFICATION FairSpec
CHECK_DEADLOCK FALSE
PROPERTIES
  AcquisitionEnds
  DeadNeverBlock
  LeaseSpec
