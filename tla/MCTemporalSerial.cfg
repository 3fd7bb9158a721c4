\* One handler at a time, possibly interrupted once; every stamp is distinct.
CONSTANTS
    Threads = {t1}
    NumConcepts = 3
    NumSeeded = 2
    UpdatePaths = {"edit", "revert"}
    NeverExpires = 1000
    MaxClock = 999
    MaxOps = 3
    MaxAborts = 1
    MaxExpireFaults = 0
SPECIFICATION Spec
INVARIANTS NoRelationLost ReferentialIntegrity
PROPERTIES ImplementsHistory
CHECK_DEADLOCK FALSE
