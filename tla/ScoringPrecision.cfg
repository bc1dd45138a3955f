SPECIFICATION Spec
CONSTANTS
    None = None
    Tolerance = 2
    Warmup = 1
    DoubleFireWindow = 2
    Corpora <- MCCorpora
    Options <- MCOptions
    Class = "tap"
    Source = "aligned"
    Drain = 2
    MaxLate = 1
    Lag = 1
    SlowLag = 3
INVARIANTS
    PrecisionIsOfAllDetections
CHECK_DEADLOCK FALSE
