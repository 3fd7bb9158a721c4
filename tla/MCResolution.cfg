\* Two handlers, one of which may die: over two ontologies, and over the
\* individuals of two.
CONSTANTS
    Threads = {t1, t2}
    Ontologies = {o1, o2}
    NoOntology = NoOntology
    NumClasses = 2
    Operations = {"run", "decide", "merge"}
    MaxOps = 4
    MaxAborts = 1
    Handlers = {t1, t2}
    ClassTerms <- MCTerms
    Names = {"acme inc"}
    Near <- MCNear
    Excerpts <- MCExcerpts
    Readings <- MCReadings
    Requests <- MCRequests
    Relevant <- MCRelevant
    Seeded <- MCSeeded
    SeededFacts <- MCFacts
    MaxActs = 2
    MaxDeaths = 1
SYMMETRY Symmetry
SPECIFICATION MCSpec
INVARIANTS MergedOnce FactsSurvive TypedWhenQuiet
CHECK_DEADLOCK FALSE
