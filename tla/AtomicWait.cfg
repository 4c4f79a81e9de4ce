CONSTANTS
    WaitModes = {"wait", "spin_wait"}
SPECIFICATION FairSpec
INVARIANTS
    NoLostWakeUp
    WritesVisible
PROPERTIES
    ImplementsTurnTaking
