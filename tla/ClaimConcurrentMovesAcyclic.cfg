\* Two handlers move classes at the same time.
CONSTANTS
    Threads = {t1, t2}
    Keys = {a, b}
    Unborn = {}
    None = None
    SelectTwice = FALSE
    ManualEdges = FALSE
    MaxOps = 2
    MaxMishaps = 0
SYMMETRY KeySymmetry
SPECIFICATION Spec
INVARIANTS Acyclic
CHECK_DEADLOCK FALSE
