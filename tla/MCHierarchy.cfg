\* One handler at a time, possibly interrupted once or
\* with one step whose expiries fail unnoticed, over four classes, one of
\* them not created yet; subclass_of edges may be set by hand.
CONSTANTS
    Threads = {t1}
    Keys = {a, b, c, d}
    Unborn = {d}
    None = None
    SelectTwice = FALSE
    ManualEdges = TRUE
    MaxOps = 3
    MaxMishaps = 1
SYMMETRY KeySymmetry
SPECIFICATION Spec
INVARIANTS CyclesAreManual
PROPERTIES UndoRestores
CHECK_DEADLOCK FALSE
