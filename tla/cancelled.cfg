\* The make program chosen and cancelled.
SPECIFICATION Spec
CONSTANTS
    d1 = d1
    d2 = d2
    d3 = d3
    Dirs <- SomeDirs
    MAX_DIR_HISTORY = 2
    Opened = {TRUE}
    MaxEdits = 2
CHECK_DEADLOCK FALSE
PROPERTIES
    CancelDiscards
