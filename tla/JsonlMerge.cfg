SPECIFICATION Spec
CONSTANTS
    Files = {"events"}
    Writers = {caller, cue}
    FlushInterval = 0
    Capacity = 7
    MaxRecords = 3
    MaxTime = 1
    MaxOpens = 1
INVARIANTS OneObjectPerLine
CHECK_DEADLOCK FALSE
