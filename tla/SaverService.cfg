SPECIFICATION FairSpec
CONSTANTS
  Callers = {c1, c2}
  MaxJobs = 3
INVARIANTS SaverInv OkMeansSettled
PROPERTIES ImplementsService CallsReturn DropEnds
CHECK_DEADLOCK FALSE
