SPECIFICATION Spec
CONSTANTS
  MaxIds = 6
  MaxFull = 1
  MaxDeltasPerFull = 2
  FullEvery = 10
  MaxTotal = 3
  RollbackInterval = 0
  MaxRollback = 0
  Ranks = {0, 1}
  Merging = {0,1}
  Stride = 2
  MaxChainDepth = 3
  MaxSteps = 4
  MaxFaults = 1
  MaxRestarts = 1
INVARIANTS AckedIsListed
CHECK_DEADLOCK FALSE
