SPECIFICATION ServicesSpec
CONSTANTS
    Threads = {t1, t2}
    NumSeeded = 3
    SeedHomes = {"staging"}
    SeedStatuses = {"approved"}
    Operations = {"decide", "merge", "promote"}
    MaxRelations = 1
    MaxSources = 2
    MaxOps = 2
    MaxAborts = 1
    MaxFaults = 1
    Nodes = {"a1", "a2", "b1", "b2"}
    SourceOf <- MCSourceOf
    Disjoint <- MCDisjoint
    Similarity <- MCSimilarity
    Verdicts = {"subclass"}
    Changing = {"a1"}
    MaxDecisions = 3
    Workers = {w1, w2}
    AlignmentRepairEnabled = TRUE
    MaxTasks = 2
    Classes = {"c1"}
    Confidences = {1, 8}
    Floor = 2
    DecayEnabled = TRUE
    StaleLimit = 1
    JobKeys = {"j1"}
    Passes = {p1, p2}
    MaxPasses = 2
    MaxAge = 2
    MaxRestarts = 1
    Processes = {1}
    Handlers = {h1, h2}
    ProcessOf <- MCProcessOf
    MaxClock = 2
    MaxVersions = 2
    TTL = 1
INVARIANTS
    MasterCoherent
    OneCorrespondence
    VersionsInSnapshots
    DecisionsAudited
PROPERTIES
    MergeKeepsRelations
    PromotionKeepsRelations
SYMMETRY MCSymmetry
CHECK_DEADLOCK FALSE
