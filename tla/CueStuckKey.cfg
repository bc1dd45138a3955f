SPECIFICATION FairSpec
CONSTANTS
    FrontEnds = {"interactive"}
    Cueing = TRUE
    CountIn = 0
    Reps = 1
    Keys = {"x", "q"}
    MaxKeys = 2
PROPERTIES PressedIsRead
CHECK_DEADLOCK FALSE
