SPECIFICATION FairSpec
CONSTANTS
    None = None
    Tolerance = 2
    Warmup = 1
    DoubleFireWindow = 2
    Corpora <- MCCorpora
    Options <- MCOptions
    Class = "tap"
    Source = "aligned"
    Drain = 2
    MaxLate = 1
    Lag = 1
    SlowLag = 3
INVARIANTS
    TypeOK
    NearestFirst
    ScoredInItsTake
    CorpusTimeIsHonest
    PromptAnswersAllCount
PROPERTIES
    RunEnds
CHECK_DEADLOCK FALSE
