SPECIFICATION FairSpec
CONSTANTS
    Sizes = {0, 2}
    KernelCap = 1
    MaxDatagrams = 2
    MaxTakes = 1
    MaxMarks = 0
    DropsReadable = FALSE
PROPERTIES
    ReceivedIsHandled
    StopEndsThreads
    StopTakeReturns
