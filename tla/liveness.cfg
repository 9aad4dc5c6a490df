\* The queue drains, and nested main loops are left.
SPECIFICATION FairSpec
CONSTANTS
    Commands = {c1, c2, c3}
    Builtins = {b1}
    Pids = {p1, p2, p3}
    NoTask = NoTask
    NoPid = NoPid
    MaxBatch = 2
    Circumstances = {"nested input", "fork fails"}
CHECK_DEADLOCK FALSE
PROPERTIES
    EveryTaskLeaves
    EveryCallReturns
