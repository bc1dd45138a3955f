SPECIFICATION FairSpec
CONSTANTS
    None = None
    Torn = Torn
    Sessions <- MCSessions
    Selectors <- MCSelectors
    Options <- MCOptions
    MaxLate = 2
INVARIANTS
    OriginalOrder
    IntervalsKept
PROPERTIES
    PlaybackGoesOn
CHECK_DEADLOCK FALSE
