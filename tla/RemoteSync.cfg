SPECIFICATION Spec
CONSTANTS
  SyncEvery = 2
  Transfers = 2
  MaxSnaps = 3
  MaxSyncs = 1
  MaxPins = 0
  MaxFaults = 1
  MaxLosses = 1
INVARIANTS SyncInv SyncedIsDurable ListedIsReachable BaseIsLocal BucketIsBounded
PROPERTIES DeletedStaysDeleted
CHECK_DEADLOCK FALSE
