CONSTANTS
    TreeBreadth = 2
    NumThreads = 4
    Plans <- ShortPlans
SPECIFICATION FairSpec
INVARIANTS
    IInv
    PeerHoldsStill
    CleanBetweenTasks
PROPERTIES
    ImplementsRendezvous
