CONSTANTS
    Workers = {w1}
    Contents = {"a", "b"}
    Deletable = {2}
    MaxDocuments = 3
    Seeded = 1
    MaxJobs = 2
    MaxFailures = 1
    Files <- MCFiles
    UriOrder <- MCUriOrder
    Integral = {"1", "-1"}
    Negative = {"-1"}
    HttpTexts = {"A", "B", "C", "D"}
    Relative = {"N1", "N2"}
    Based <- MCBased
    Callers = {i1, i2}
    MaxImports = 2
    MaxFaults = 1
    MaxEdits = 1
    Sources <- MCSources
    Configs <- MCConfigs
    FieldSample = 2
    DateTexts = {"2026-01-01"}
    VertexTypeFields <- MCVertexTypeFields
    EdgeLabelFields <- MCEdgeLabelFields
    TierOne = {"type", "relation"}
    FromTypeFields <- MCFromTypeFields
    ToTypeFields <- MCToTypeFields
    ClassLike = {"Legal-Entity"}
    LowCardinality = 50
    LocalName <- MCLocalName
    FieldUri <- MCFieldUri
    ShapeUri <- MCShapeUri
    Numbered <- MCNumbered
SPECIFICATION IntakeSpec
INVARIANTS UniqueContent ReadyIsWhole RoundTrip FileImported SchemaImported
PROPERTIES IngestionEnds
CHECK_DEADLOCK FALSE
