SPECIFICATION Spec
CONSTANTS
    Runs = {r1, r2}
    Signals <- MCSignals
    Cues <- MCCues
    Methods = {"cue", "segmenter", "aligned", "median"}
    Windows = {8, 12}
    OnPercent = 35
    OffPercent = 15
    MinPeakOverFloor = 3
    MinLimit = 1
    MaxManual = 1
SYMMETRY MCSymmetry
INVARIANTS
    OneLabelPerCue
CHECK_DEADLOCK FALSE
