CONSTANTS
    TreeBreadth = 8
    NumThreads = 3
    FirstCalls <- JoiningRuns
    LaterCalls <- NoCalls
SPECIFICATION Spec
INVARIANTS
    NoContractViolation
