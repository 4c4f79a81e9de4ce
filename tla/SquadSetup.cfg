CONSTANTS
    TreeBreadth = 8
    MaxThreads = 64
    HardwareCounts = {0, 3}
    Anywhere = Anywhere
    Params <- AnyParams
SPECIFICATION SetupSpec
INVARIANTS
    SameThreadsBothWays
    OneSuperordinate
    MergedInOrder
    SpreadOverHardware
