SPECIFICATION Spec
CONSTANTS
    Files = {"take", "events"}
    Writers = {caller, cue}
    FlushInterval = 2
    Capacity = 5
    MaxRecords = 3
    MaxTime = 4
    MaxOpens = 2
INVARIANTS TypeOK ReadsABeginning LossIsBounded
CHECK_DEADLOCK FALSE
