\* A build started while a change of directory lists its targets.
SPECIFICATION Spec
CONSTANTS
    Commands = {c1, c2, c3, c4}
    Builtins = {b1}
    Pids = {p1, p2, p3, p4}
    NoTask = NoTask
    NoPid = NoPid
    MaxBatch = 2
    Circumstances = {"nested input"}
CHECK_DEADLOCK FALSE
INVARIANTS
    StartsInOrder
