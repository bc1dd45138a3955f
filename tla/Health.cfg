SPECIFICATION Spec
CONSTANTS
    None = None
    Period = 1
    Burst = 3
    MaxGapPeriods = 10
    LossPer = 100
    OrderPer = 1000
    RatePer = 10
    MaxDelay = 2
    MaxFaults = 2
    MaxSamples = 12
    FaultySamples = 6
    FaultyNow = 6
    MaxNow = 14
INVARIANTS
    TypeOK
    LossIsNeverUnderstated
    BatchingIsSeen
CHECK_DEADLOCK FALSE
