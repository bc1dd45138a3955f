SPECIFICATION Spec
CONSTANTS
    None = None
    Period = 1
    Burst = 3
    MaxGapPeriods = 10
    LossPer = 100
    OrderPer = 1000
    RatePer = 10
    MaxDelay = 2
    MaxFaults = 0
    MaxSamples = 12
    FaultySamples = 5
    FaultyNow = 6
    MaxNow = 14
INVARIANTS
    SilenceFails
CHECK_DEADLOCK FALSE
