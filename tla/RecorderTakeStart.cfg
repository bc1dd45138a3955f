SPECIFICATION Spec
CONSTANTS
    Sizes = {1}
    KernelCap = 1
    MaxDatagrams = 2
    MaxTakes = 1
    MaxMarks = 0
    DropsReadable = TRUE
INVARIANT
    TakesBeginAtTakeStart
