CONSTANTS
    TreeBreadth = 8
    NumThreads = 3
    FirstCalls <- CarefulFirstRuns
    LaterCalls <- AnyJoiningReduces
SPECIFICATION Spec
INVARIANTS
    NoContractViolation
