SPECIFICATION FairSpec
CONSTANTS
    FrontEnds = {"interactive", "headless"}
    Cueing = TRUE
    CountIn = 1
    Reps = 2
    Keys = {"space", "a", "x", "r", "n", "q"}
    MaxKeys = 2
INVARIANTS TypeOK CuesAreOneSchedule EndedTakeCountsCues FinishedMeansWhole NoStrayCueThread
PROPERTIES ScheduleEndsTake SessionEnds
CHECK_DEADLOCK FALSE
