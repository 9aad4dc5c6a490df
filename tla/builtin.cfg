\* Changes of directory between the targets, to directories that can be
\* entered or not, with a makefile or without: nested main loops in
\* task_start(), and an aborted queue.
SPECIFICATION Spec
CONSTANTS
    Commands = {c1, c2, c3, c4}
    Builtins = {b1, b2}
    Pids = {p1, p2, p3, p4}
    NoTask = NoTask
    NoPid = NoPid
    MaxBatch = 4
    Circumstances = {"chdir fails", "no makefile"}
SYMMETRY Symmetry
CHECK_DEADLOCK FALSE
INVARIANTS
    RefcountExact
    ChildRegistered
    
PROPERTIES
    ImplementsQueue
