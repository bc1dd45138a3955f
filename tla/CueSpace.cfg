SPECIFICATION Spec
CONSTANTS
    FrontEnds = {"interactive"}
    Cueing = TRUE
    CountIn = 0
    Reps = 1
    Keys = {"space"}
    MaxKeys = 2
INVARIANTS SpaceStopsTake
CHECK_DEADLOCK FALSE
