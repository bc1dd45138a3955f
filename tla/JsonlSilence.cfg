SPECIFICATION Spec
CONSTANTS
    Files = {"take"}
    Writers = {processor}
    FlushInterval = 1
    Capacity = 7
    MaxRecords = 3
    MaxTime = 4
    MaxOpens = 1
INVARIANTS NothingWaitsLongerThanInterval
CHECK_DEADLOCK FALSE
