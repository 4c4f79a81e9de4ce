CONSTANTS
    TreeBreadth = 2
    NumThreads = 4
    FirstCalls <- CarefulFirstCalls
    LaterCalls <- CarefulLaterCalls
SPECIFICATION FairSpec
INVARIANTS
    MergingInv
    ResultInOrder
    CompleteOnReturn
    NoContractViolation
    QuietBetweenCalls
    FreedAfterExit
PROPERTIES
    NotifiedWhenAnswered
    EveryCallReturns
    ImplementsForkJoin
