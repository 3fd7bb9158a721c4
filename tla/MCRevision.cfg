\* Two threads, one of which may die or have one expiry fail unnoticed, over one entity and its versions.
CONSTANTS
    Threads = {t1, t2}
    Documents = {d1}
    NumEntities = 1
    MaxTouchpoints = 2
    MaxOps = 3
    MaxAborts = 1
    MaxFaults = 1
    Beliefs <- MCBeliefs
    Extractions <- MCExtractions
    CoClassifiers = {"status", "activity"}
    Answers <- MCAnswers
    MaxRetries = 1
    Parallel = 2
    MaxPerWindow = 1
    Window = 2
    LastTick = 2
SYMMETRY Symmetry
SPECIFICATION MCSpec
INVARIANTS ReplaySafe GroundedChanges BreakerHolds
CHECK_DEADLOCK FALSE
