\* Builds with recursive and parallel makes that enter and leave directories.
SPECIFICATION Spec
CONSTANTS
    NoContext = NoContext
    Dirs = {d1, d2}
    MaxDepth = 2
    Kinds = {"error", "warning", "enter", "leave", "cfe", "indented", "caret"}
    FlagSets <- LogFlags
    MaxRecords = 5
    Circumstances = {}
SYMMETRY Symmetry
CHECK_DEADLOCK FALSE
INVARIANTS
    NoFreedRecordUsed
    TreeOfDirectories
    CountsTold
    LookedUpWhereMakeWas
PROPERTIES
    ImplementsTranscript
