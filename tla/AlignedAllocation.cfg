CONSTANTS
    MaxSize = 1023
    Width = 10
    MaxAlign = 4
    Interference = 8
    PointerSize = 2
    TrapSize = 1
    Counts = {0, 1, 5, 165, 170, 171, 1018}
    Machines <- AnyMachine
    Alignments <- SomeAlignments
    Types <- SomeTypes
    Addresses <- SomeAddresses
SPECIFICATION Spec
INVARIANTS
    ResultAligned
    FitsIntoAllocation
    FreedAsAllocated
    PromiseKept
    CombinesRequirements
