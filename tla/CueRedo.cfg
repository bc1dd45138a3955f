SPECIFICATION Spec
CONSTANTS
    FrontEnds = {"interactive"}
    Cueing = TRUE
    CountIn = 0
    Reps = 1
    Keys = {"a", "space", "r"}
    MaxKeys = 3
INVARIANTS RedoKeepsKind
CHECK_DEADLOCK FALSE
