\* Two handlers at once, one interruption and one swallowed write failure.
CONSTANTS
    Threads = {t1, t2}
    NumConcepts = 2
    NumSeeded = 2
    UpdatePaths = {"edit", "revert"}
    NeverExpires = 1000
    MaxClock = 1
    MaxOps = 2
    MaxAborts = 1
    MaxExpireFaults = 1
SPECIFICATION FairSpec
INVARIANTS EdgesKeepConcepts
PROPERTIES NoResurrection OperationsEnd
CHECK_DEADLOCK FALSE
