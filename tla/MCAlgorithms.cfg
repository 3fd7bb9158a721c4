SPECIFICATION AlgorithmsSpec
CONSTANTS
    MaxTokens = 4
    Overlaps = {0, 1, 2}
    LineShapes <- MCLines
    SlideShapes <- MCSlides
    MaxLines = 3
    RepairClasses <- MCRepairClasses
    Texts <- MCTexts
    DomainChoices <- MCDomains
    NumProperties = 2
    MaxEdges = 2
    Documents <- MCDocuments
    BatchSizes <- MCBatchSizes
    LongDocument = 2
    ShortDocument = 1
    ExtractionPasses = 3
    Agreement = 2
    MaxSampled = 2
    MinDomain = 2
    DomainAnswers <- MCDomainAnswers
    BatchAnswers <- MCBatchAnswers
    JudgeBatch = 2
    VerdictAnswers <- MCVerdictAnswers
    ScoreAnswers <- MCScoreAnswers
    GenericNames <- MCGeneric
    NoClass = NoClass
    Nothing = Nothing
    Malformed = Malformed
    Refused = Refused
    MaxTries = 2
    GateSettings = {TRUE, FALSE}
    Ratings = {"EXPLICIT"}
    RuleClasses = {1, 2, 3, 4}
    ShortForms = {5}
    RuleInputs <- MCInputs
    PluralsOf <- MCPlurals
    Graded <- MCGraded
    Similarities <- MCSims
    Threshold = 2
    Verdicts <- MCVerdicts
INVARIANTS
    ChunksSound
    RepairsConnect
    DocumentCovered
    KeptClassesSound
    RulesExact
CHECK_DEADLOCK FALSE
