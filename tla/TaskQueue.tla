------------------------------ MODULE TaskQueue ------------------------------
(***************************************************************************)
(* What maketool_task.h promises of the task queue: Tasks are executed one *)
(* at a time, each after all those enqueued before it, and the two work    *)
(* callbacks tell when the queue is started and when it is empty again.    *)
(* Nothing is said of processes, signals or the main loop.                 *)
(***************************************************************************)
EXTENDS SequencesExt

CONSTANTS
    Tasks,
    NoTask      \* not a Task

VARIABLES
    waiting,    \* Tasks enqueued and not yet executed, in order
    running,    \* the Task being executed, or NoTask
    busy        \* the work has been announced

queueVars == <<waiting, running, busy>>

Idle == running = NoTask

\* r is q with Tasks enqueued behind it, none of which is in r twice.
Extends(r, q) == r \in Seq(Tasks) /\ IsPrefix(q, r) /\ IsInjective(r)

QueueInit ==
    /\ waiting = <<>>
    /\ Idle
    /\ busy = FALSE

\* task_enqueue()
Submit ==
    /\ Extends(waiting', waiting)
    /\ running \notin ToSet(waiting')
    /\ UNCHANGED <<running, busy>>

\* The first Task waiting is executed; in doing so it may enqueue others.
Start ==
    /\ Idle
    /\ waiting # <<>>
    /\ running' = Head(waiting)
    /\ Extends(waiting', Tail(waiting))
    /\ running' \notin ToSet(waiting')
    /\ busy' = TRUE

\* It cannot be executed and is dropped.
Drop ==
    /\ Idle
    /\ waiting # <<>>
    /\ waiting' = Tail(waiting)
    /\ busy' = TRUE
    /\ UNCHANGED running

\* It is executed and, having failed, abandons all that was queued behind it.
Abort ==
    /\ Idle
    /\ waiting # <<>>
    /\ running' = Head(waiting)
    /\ waiting' = <<>>
    /\ busy' = TRUE

\* The Task ends; its end may have another one enqueued.
Finish ==
    /\ ~ Idle
    /\ running' = NoTask
    /\ Extends(waiting', waiting)
    /\ UNCHANGED busy

\* The end of the work is announced.
Rest ==
    /\ Idle
    /\ waiting = <<>>
    /\ busy' = FALSE
    /\ UNCHANGED <<waiting, running>>

QueueNext == Submit \/ Start \/ Drop \/ Abort \/ Finish \/ Rest

QueueSpec == QueueInit /\ [][QueueNext]_queueVars
=============================================================================
