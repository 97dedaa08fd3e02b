SPECIFICATION Spec
CONSTANTS
  MaxIds = 5
  MaxFull = 1
  MaxDeltasPerFull = 2
  FullEvery = 2
  MaxTotal = 3
  RollbackInterval = 0
  MaxRollback = 0
  Readers = {}
  Stride = 0
  MaxChainDepth = 9
  Timeouts = TRUE
  Rewind = FALSE
  MaxStep = 3
  MaxSaves = 3
  MaxFaults = 0
  MaxCrashes = 0
  MaxPinCalls = 1
  MaxForces = 0
PROPERTIES RetentionKeepsNewest
CHECK_DEADLOCK FALSE
