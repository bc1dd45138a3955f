SPECIFICATION Spec
CONSTANTS
    Files = {"events"}
    Writers = {caller}
    FlushInterval = 0
    Capacity = 7
    MaxRecords = 3
    MaxTime = 1
    MaxOpens = 2
INVARIANTS OnlyLastLineIsTruncated
CHECK_DEADLOCK FALSE
