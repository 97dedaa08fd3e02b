\* The algorithm is changed while deltas wait for their merge.
SPECIFICATION Spec
CONSTANTS
    Names = {"a", "b"}
    Tensors <- MCTensors
    Configs <- MCConfigs
    DeltaMin = 2
    MergeAnyAlgo = TRUE
    MaxSaves = 2
    MaxMerges = 1
    MaxRestarts = 1
PROPERTIES MergeStandsIn
CHECK_DEADLOCK FALSE
