SPECIFICATION FairSpec
CONSTANTS
  MaxIds = 6
  MaxFull = 1
  MaxDeltasPerFull = 2
  FullEvery = 6
  MaxTotal = 2
  RollbackInterval = 2
  MaxRollback = 1
  Readers = {r1}
  Stride = 2
  MaxChainDepth = 3
  Timeouts = TRUE
  Rewind = FALSE
  MaxStep = 4
  MaxSaves = 3
  MaxFaults = 0
  MaxCrashes = 0
  MaxPinCalls = 1
  MaxForces = 1
INVARIANTS TypeOK ListedIsReadable PinnedIsPresent
PROPERTIES RetentionSpares SavesEnd ForcedMergesEnd
CHECK_DEADLOCK FALSE
