SPECIFICATION WebSpec
CONSTANTS
    None = None
    Recordings = {r1, r2}
    Splits = {train, test}
    MaxTakes = 2
    MaxMarks = 1
SYMMETRY MCSymmetry
INVARIANT
    NextToolAborts
CHECK_DEADLOCK FALSE
