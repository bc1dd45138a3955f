SPECIFICATION WebSpec
CONSTANTS
    None = None
    Recordings = {r1, r2}
    Splits = {train, test}
    MaxTakes = 2
    MaxMarks = 1
SYMMETRY MCSymmetry
INVARIANTS
    TypeOK
    ReaderNeverFails
    UsableIsFinal
    OneHistoryPerSession
    StateNamesTheRecording
CHECK_DEADLOCK FALSE
