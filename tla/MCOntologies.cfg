SPECIFICATION OntologiesSpec
CONSTANTS
    Ontologies = {"o1", "o2", "o3"}
    Registered = {"o1", "o2"}
    Names = {"n", "m"}
    NameOf <- MCNames
    Declares <- MCDeclares
    Slots = {s1, s2}
    MaxCalls = 3
    MaxDepth = 4
    Members = {"a", "b", "c"}
    Viewed = "a"
    ClassOntology <- MCClassOntology
    ClassUri <- MCClassUri
    ClassLabel <- MCClassLabel
    EdgeOrders <- MCOrders
    MaxHops = 2
    MaxWrites = 3
    Concepts = {"u", "v"}
    Homes = {"h", "k"}
    Labels = {"role", "title", "id"}
    Generic = {"id"}
    Missing = Missing
    Reports <- MCReports
    Resolutions <- MCResolutions
    Curators = {k1, k2}
    MaxRequests = 4
    MaxLapses = 1
SYMMETRY MCSymmetry
INVARIANTS ImportsAcyclic MergeCyclesReported SourcesFresh DecisionsStand
CHECK_DEADLOCK FALSE
