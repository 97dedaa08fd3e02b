\* Three saves, a merge and a restart with other settings.
SPECIFICATION Spec
CONSTANTS
    Names = {"a", "b"}
    Tensors <- MCTensors
    Configs <- MCConfigs
    DeltaMin = 2
    MergeAnyAlgo = FALSE
    MaxSaves = 3
    MaxMerges = 1
    MaxRestarts = 1
INVARIANTS TensorInv LoadIsFaithful RetainedIsBase
PROPERTIES MergeStandsIn
CHECK_DEADLOCK FALSE
