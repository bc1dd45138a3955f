SPECIFICATION Spec
CONSTANTS
    Sizes = {0, 1, 2}
    KernelCap = 1
    MaxDatagrams = 2
    MaxTakes = 2
    MaxMarks = 2
    DropsReadable = TRUE
INVARIANTS
    TypeOK
    WritesIntoOpenTake
    TakesAreUnbroken
    SnapshotIsAccounted
    EndedMetaMatchesFile
    DropsInTakeAreReported
PROPERTIES
    EndedTakesAreFinal
    ImplementsTakeLog
