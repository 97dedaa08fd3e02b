SPECIFICATION Spec
CONSTANTS
  Files = {"pack", "manifest"}
  Dirs = {"root", "snapshots", "s"}
  Root = "root"
  Outside = "outside"
  Above <- MCAbove
  Puts = {p1, p2}
  Nothing = Nothing
  Torn = Torn
  Fsync = TRUE
  Patience = 1
  MaxFaults = 2
INVARIANTS StorageInv PartialFilesHaveAnOwner
PROPERTIES ImplementsFileService PutsEnd
CHECK_DEADLOCK FALSE
