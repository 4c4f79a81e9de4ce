CONSTANTS
    t1 = t1
    t2 = t2
    b1 = b1
    b2 = b2
    Threads = {t1, t2}
    Blocks = {b1, b2}
    FailedMap = FailedMap
    Unknown = Unknown
    MaxSize = 63
    TrapSize = 4
    MaxTrapCount = 4
    Requests = {0, 10, 16, 50}
    Machines <- AnyMachine
SYMMETRY AnyOrder
SPECIFICATION Spec
INVARIANTS
    IInv
    KnownFromBelow
    BlocksComplete
    FailureLeavesNothing
    OnlyDamageFound
PROPERTIES
    DamageFound
