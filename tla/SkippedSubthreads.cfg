CONSTANTS
    TreeBreadth = 8
    NumThreads = 9
    FirstCalls <- RunOnOne
    LaterCalls <- RunOnFour
SPECIFICATION Spec
INVARIANTS
    CompleteOnReturn
