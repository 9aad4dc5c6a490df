\* Commands only, forks that fail, pids handed out again at once, and a user who
\* acts in nested main loops.
SPECIFICATION Spec
CONSTANTS
    Commands = {c1, c2, c3, c4}
    Builtins = {}
    Pids = {p1, p2, p3, p4}
    NoTask = NoTask
    NoPid = NoPid
    MaxBatch = 2
    Circumstances = {"nested input", "fork fails", "pid reuse"}
SYMMETRY Symmetry
CHECK_DEADLOCK FALSE
INVARIANTS
    TypeOK
    QueueDiscipline
    NoLostChild
    NoUseAfterFree
    QueueServed
PROPERTIES
    ImplementsQueue
