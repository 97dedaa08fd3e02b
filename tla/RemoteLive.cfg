SPECIFICATION FairSpec
CONSTANTS
  SyncEvery = 1
  Transfers = 2
  MaxSnaps = 2
  MaxSyncs = 1
  MaxPins = 1
  MaxFaults = 1
  MaxLosses = 1
PROPERTIES SyncNowEnds
CHECK_DEADLOCK FALSE
