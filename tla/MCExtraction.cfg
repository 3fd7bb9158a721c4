CONSTANTS
    Workers = {w1}
    Contents = {"a", "b"}
    Deletable = {1}
    MaxDocuments = 2
    Seeded = 2
    MaxJobs = 0
    MaxFailures = 1
    x = x
    y = y
    o1 = o1
    o2 = o2
    o3 = o3
    Concepts = {x, y}
    Findings <- AllOrNothing
    Bodies <- WithLostTarget
    Root = x
    Ontologies = {o1, o2, o3}
    Registered = {o1}
    None = None
    MaxRuns = 2
    MaxMishaps = 1
SPECIFICATION RunSpec
INVARIANTS CompletedIsLanded OneDomainEdge
PROPERTIES RunsEnd
CHECK_DEADLOCK FALSE
