\* Settings edited, saved, lost and loaded again, from any kind of file, which
\* cannot always be opened to be written.
SPECIFICATION Spec
CONSTANTS
    d1 = d1
    d2 = d2
    d3 = d3
    Dirs = {d1, d2}
    MAX_DIR_HISTORY = 2
    Opened = {TRUE, FALSE}
    MaxEdits = 1
SYMMETRY Symmetry
CHECK_DEADLOCK FALSE
INVARIANTS
    RestartKeeps
PROPERTIES
    AppliesOnlyEdits
