SPECIFICATION Spec
CONSTANTS
  Callers = {"walk", "t1", "t2"}
  Keys = {1, 2, 3}
  Size <- MCSize
  SinglePutLimit = 3
  MinPart = 2
  MaxParts = 5
  Headroom = 1
  MaxAttempts = 2
  PageSize = 2
  MaxFaults = 2
  Walk = "walk"
  Unsized = {2}
  Limit = 3
INVARIANTS MemoryIsBounded DoneMeansCopied UploadsHaveAnOwner
PROPERTIES ImplementsFileService WalkEnds
CHECK_DEADLOCK FALSE
