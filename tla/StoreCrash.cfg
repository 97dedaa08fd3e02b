SPECIFICATION Spec
CONSTANTS
  MaxIds = 8
  MaxFull = 3
  MaxDeltasPerFull = 3
  FullEvery = 6
  MaxTotal = 3
  RollbackInterval = 0
  MaxRollback = 0
  Readers = {}
  Stride = 2
  MaxChainDepth = 3
  Timeouts = TRUE
  Rewind = FALSE
  MaxStep = 4
  MaxSaves = 4
  MaxFaults = 1
  MaxCrashes = 2
  MaxPinCalls = 1
  MaxForces = 1
INVARIANTS WholeInv IndexIsReadable AckedSurvives FilesAreAccountedFor
PROPERTIES RecoverySparesComplete
CHECK_DEADLOCK FALSE
