\* Statements of the documents that the code does not keep.  TLC stops at the first
\* that it finds violated: leave one in the list to see it by itself.
\* Decisions, merges and promotions, one at a time, one interrupted.
CONSTANTS
    Threads = {t1}
    NumSeeded = 2
    SeedHomes = {"staging", "production"}
    SeedStatuses = {"draft", "approved"}
    Operations = {"decide", "merge", "promote"}
    MaxRelations = 1
    MaxSources = 2
    MaxOps = 2
    MaxAborts = 1
    MaxFaults = 0
SPECIFICATION Spec
INVARIANTS AuditedDecisionTakesEffect EveryChangeAudited NothingRelatesToItself PromotedOnce
PROPERTIES PromotesInnerEdges
CHECK_DEADLOCK FALSE
