---------------------------- MODULE TaskImplements ----------------------------
(***************************************************************************)
(* task.c implements TaskQueue.  The Task being executed is the builtin    *)
(* whose start operation is on the stack, or else the head of the queue    *)
(* once its command has been spawned; the others in the queue wait.        *)
(***************************************************************************)
EXTENDS Task

executing ==
    IF OnStack("task_run_builtin")
    THEN stack[CHOOSE i \in DOMAIN stack : stack[i].fn = "task_run_builtin"].task
    ELSE task_current

Queue == INSTANCE TaskQueue WITH
    waiting <- Removed(task_all, executing),
    running <- executing,
    busy <- working

\* Whatever the children, the signals and the main loops do, what happens to
\* the queue is what maketool_task.h says: Tasks are executed one at a time,
\* in the order they were enqueued in, none is lost or executed twice, and the
\* work callbacks bracket the time there is work. (task_enqueue, task_start)
ImplementsQueue == Queue!QueueSpec
=============================================================================
