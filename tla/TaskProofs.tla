----------------------------- MODULE TaskProofs -----------------------------
(***************************************************************************)
(* Proofs about Task, whatever the number of Tasks and of pids: types; a   *)
(* child that has ended is waited for; as long as the kernel does not hand *)
(* out a pid between wait3() and g_hash_table_remove(), a child and its    *)
(* Task find each other; and Task.enqueued tells what is in the queue,     *)
(* where nothing is twice and only the head can have a process.            *)
(*                                                                         *)
(* Then the execution of the queue: what the functions on the C stack have *)
(* to do with it, that a queue is not left unserved, that it is the queue  *)
(* that maketool_task.h promises, and that task_ref() and task_unref()     *)
(* keep a Task alive as long as it is used, whatever goes wrong.           *)
(***************************************************************************)
EXTENDS Task, TaskImplements, SequenceFacts, FiniteSetTheorems

(***************************************************************************)
(* What callers put on the queue and the stack.                            *)
(***************************************************************************)
\* g_list_remove() yields a list of the same Tasks.
LEMMA RemovedType ==
    ASSUME NEW S, NEW q \in Seq(S), NEW t
    PROVE  Removed(q, t) \in Seq(S)
<1>1. CASE ~ Contains(q, t)
  BY <1>1 DEF Removed
<1>2. CASE Contains(q, t)
  <2>1. \A i \in DOMAIN q : RemoveAt(q, i) \in Seq(S)
    BY DEF RemoveAt
  <2>2. \E i \in DOMAIN q : q[i] = t
    BY <1>2 DEF Contains
  <2>3. QED
    BY <1>2, <2>1, <2>2 DEF Removed
<1>3. QED
  BY <1>1, <1>2

\* What a callback enqueues is a sequence of new Tasks.
LEMMA BatchesType ==
    ASSUME NEW s \in Batches
    PROVE  s \in Seq(Fresh) /\ ToSet(s) \subseteq Fresh
<1>1. PICK n \in 1..MaxBatch : s \in [1..n -> Fresh]
  BY DEF Batches
<1>2. n \in Nat
  BY TaskAssumption
<1>3. QED
  BY <1>1, <1>2 DEF ToSet

LEMMA AtMostOneType ==
    ASSUME NEW S, NEW s \in AtMostOne(S)
    PROVE  s \in Seq(S) /\ ToSet(s) \subseteq S
<1>1. CASE s = <<>>
  BY <1>1 DEF ToSet
<1>2. ASSUME NEW c \in S, s = <<c>>
      PROVE  s \in Seq(S) /\ ToSet(s) \subseteq S
  BY <1>2 DEF ToSet
<1>3. QED
  BY <1>1, <1>2 DEF AtMostOne

\* The frames that are pushed on the stack.
LEMMA FramesType ==
    /\ Frame("task_start") \in Frames
    /\ Frame("g_unix_dispatch_reapers") \in Frames
    /\ \A t \in Tasks : /\ TaskFrame("task_run_builtin", t) \in Frames
                        /\ TaskFrame("task_run_command", t) \in Frames
    /\ \A p \in Pids : PidFrame("remove_piddata", p) \in Frames
  BY DEF Frame, TaskFrame, PidFrame, Frames, FrameNames

-----------------------------------------------------------------------------
(***************************************************************************)
(* Type correctness.                                                       *)
(***************************************************************************)
LEMMA InitType == Init => TypeOK
<1> SUFFICES ASSUME Init PROVE TypeOK
  OBVIOUS
<1>1. task_all \in Seq(Tasks) /\ stack \in Seq(Frames)
  BY EmptySeq DEF Init
<1>2. proc \in [Pids -> ProcStates] /\ piddata \in [Pids -> Tasks \cup {NoTask}]
  BY DEF Init, ProcStates
<1>3. /\ refcount \in [Tasks -> Int]
      /\ pid \in [Tasks -> Pids \cup {NoPid}]
  BY DEF Init
<1>4. enqueued \in [Tasks -> BOOLEAN] /\ paused \in [Tasks -> BOOLEAN]
  BY DEF Init
<1>5. QED
  BY <1>1, <1>2, <1>3, <1>4 DEF Init, TypeOK

LEMMA SpawnType ==
    ASSUME TypeOK, NEW t \in Tasks, task_spawn(t)
    PROVE  /\ pid' \in [Tasks -> Pids \cup {NoPid}]
           /\ piddata' \in [Pids -> Tasks \cup {NoTask}]
           /\ proc' \in [Pids -> ProcStates]
<1>1. ASSUME NEW p \in FreshPids, Fork(t, p)
      PROVE  /\ pid' \in [Tasks -> Pids \cup {NoPid}]
             /\ piddata' \in [Pids -> Tasks \cup {NoTask}]
             /\ proc' \in [Pids -> ProcStates]
  <2>1. p \in Pids /\ "running" \in ProcStates
    BY DEF FreshPids, ProcStates
  <2>2. QED
    BY <1>1, <2>1 DEF Fork, TypeOK
<1>2. CASE NoFork
  BY <1>2 DEF NoFork, TypeOK, task_spawn
<1>3. QED
  BY <1>1, <1>2 DEF task_spawn, TypeOK

\* What becomes of the queue and of the reference count.
LEMMA DequeueType ==
    ASSUME TypeOK, NEW t \in Tasks
    PROVE  /\ Removed(task_all, t) \in Seq(Tasks)
           /\ Unreferenced(t) \in [Tasks -> Int]
           /\ [enqueued EXCEPT ![t] = FALSE] \in [Tasks -> BOOLEAN]
<1>1. Removed(task_all, t) \in Seq(Tasks)
  BY RemovedType DEF TypeOK
<1>2. Unreferenced(t) \in [Tasks -> Int]
  BY DEF TypeOK, Unreferenced
<1>3. [enqueued EXCEPT ![t] = FALSE] \in [Tasks -> BOOLEAN]
  BY DEF TypeOK
<1>4. QED
  BY <1>1, <1>2, <1>3

LEMMA EnqueueType ==
    ASSUME TypeOK, NEW s \in Seq(Tasks)
    PROVE  /\ Queued(s) \in Seq(Tasks)
           /\ Enqueued(s) \in [Tasks -> BOOLEAN]
<1>1. Queued(s) \in Seq(Tasks)
  BY DEF TypeOK, Queued
<1>2. Enqueued(s) \in [Tasks -> BOOLEAN]
  BY DEF TypeOK, Enqueued
<1>3. QED
  BY <1>1, <1>2

LEMMA CreateType ==
    ASSUME TypeOK, NEW T \in SUBSET Tasks, task_create(T)
    PROVE  created' \subseteq Tasks /\ refcount' \in [Tasks -> Int]
<1>1. created' \subseteq Tasks
  BY DEF TypeOK, task_create
<1>2. refcount' \in [Tasks -> Int]
  BY DEF TypeOK, task_create
<1>3. QED
  BY <1>1, <1>2

\* What becomes of the stack when a function is called and ...
LEMMA CallType ==
    ASSUME TypeOK, NEW f \in Frames
    PROVE  Append(stack, f) \in Seq(Frames) /\ stack \o <<f>> \in Seq(Frames)
  BY DEF TypeOK

\* ... when its last function returns.
LEMMA ReturnType ==
    ASSUME TypeOK, stack # <<>>
    PROVE  Front(stack) \in Seq(Frames)
  BY FrontProperties DEF TypeOK

LEMMA StepType ==
    ASSUME TypeOK, [Next]_vars
    PROVE  TypeOK'
<1> USE DEF TypeOK
<1>1. ASSUME NEW t \in Tasks, StartCommand(t)
      PROVE  TypeOK'
  <2>1. task_spawn(t) /\ working' = TRUE
        /\ UNCHANGED <<created, paused, got_signal, sigchld, stack>>
    BY <1>1 DEF StartCommand
  <2>2. /\ task_all' \in Seq(Tasks)
        /\ enqueued' \in [Tasks -> BOOLEAN]
        /\ refcount' \in [Tasks -> Int]
    BY <1>1, DequeueType DEF StartCommand, task_dequeue
  <2>3. QED
    BY <2>1, <2>2, SpawnType
<1>2. ASSUME NEW t \in Tasks, StartBuiltin(t)
      PROVE  TypeOK'
  <2>1. Fresh \subseteq Tasks /\ Commands \cap Fresh \subseteq Tasks
    BY DEF Fresh
  <2>2. ASSUME NEW s \in AtMostOne(Commands \cap Fresh), NoTargets(t, s)
        PROVE  TypeOK'
    <3>1. s \in Seq(Tasks) /\ ToSet(s) \subseteq Tasks
      BY <2>1, AtMostOneType, SeqMonotonic
    <3>2. stack' \in Seq(Frames)
      BY <2>2, FramesType, CallType DEF NoTargets
    <3>3. QED
      BY <1>2, <2>2, <3>1, <3>2, EnqueueType, CreateType
      DEF StartBuiltin, NoTargets
  <2>3. ASSUME NEW s \in AtMostOne(Commands \cap Fresh), NEW c \in Fresh,
               ListTargetsForeground(t, s, c)
        PROVE  TypeOK'
    <3>1. s \in Seq(Tasks) /\ ToSet(s) \subseteq Tasks /\ c \in Tasks
      BY <2>1, AtMostOneType, SeqMonotonic
    <3>2. stack' \in Seq(Frames)
      BY <2>3, <3>1, FramesType DEF ListTargetsForeground
    <3>3. task_spawn(c)
      BY <2>3 DEF ListTargetsForeground
    <3>4. refcount' \in [Tasks -> Int]
      BY <2>3, <3>1 DEF ListTargetsForeground, RunRefcount
    <3>5. QED
      BY <1>2, <2>3, <3>1, <3>2, <3>3, <3>4, SpawnType, EnqueueType
      DEF StartBuiltin, ListTargetsForeground
  <2>4. CASE AbortQueue(t)
    <3>1. stack' \in Seq(Frames)
      BY <2>4, FramesType, CallType DEF AbortQueue
    <3>2. task_all' \in Seq(Tasks)
      BY <2>4, EmptySeq DEF AbortQueue
    <3>3. enqueued' \in [Tasks -> BOOLEAN]
      BY <2>4 DEF AbortQueue
    <3>4. refcount' \in [Tasks -> Int]
      <4>1. \A u \in Tasks :
                refcount[u] - (IF u \in ToSet(task_all) THEN 1 ELSE 0) \in Int
        OBVIOUS
      <4>2. QED
        BY <2>4, <4>1 DEF AbortQueue
    <3>5. QED
      BY <1>2, <2>4, <3>1, <3>2, <3>3, <3>4 DEF StartBuiltin, AbortQueue
  <2>5. QED
    BY <1>2, <2>2, <2>3, <2>4 DEF StartBuiltin
<1>3. ASSUME NEW t \in Tasks, EndBuiltin(t)
      PROVE  TypeOK'
  BY <1>3, ReturnType, DequeueType DEF EndBuiltin, task_dequeue
<1>4. ASSUME NEW t \in Tasks, EndRun(t)
      PROVE  TypeOK'
  BY <1>4, ReturnType DEF EndRun, Unreferenced
<1>5. CASE EndStart
  BY <1>5, ReturnType DEF EndStart, Running, taskVars
<1>6. CASE Dispatch
  BY <1>6, FramesType, CallType DEF Dispatch, taskVars
<1>7. CASE EndDispatch
  BY <1>7, ReturnType DEF EndDispatch, Running, taskVars
<1>8. ASSUME NEW p \in Pids, WaitStopped(p)
      PROVE  TypeOK'
  BY <1>8 DEF WaitStopped, ProcStates
<1>9. ASSUME NEW p \in Pids, WaitUnknown(p)
      PROVE  TypeOK'
  BY <1>9 DEF WaitUnknown, ProcStates, taskVars
<1>10. ASSUME NEW p \in Pids, RemovePidData(p)
       PROVE  TypeOK'
  BY <1>10, ReturnType DEF RemovePidData, taskVars
<1>11. ASSUME NEW p \in Pids, NEW t \in Tasks,
              NEW s \in AtMostOne(Commands \cap Fresh), WaitExited(p, t, s)
       PROVE  TypeOK'
  <2>1. s \in Seq(Tasks) /\ ToSet(s) \subseteq Tasks
    BY AtMostOneType, SeqMonotonic DEF Fresh
  <2>2. task_all' \in Seq(Tasks)
    BY <1>11, <2>1, RemovedType DEF WaitExited
  <2>3. stack' \in Seq(Frames)
    BY <1>11, FramesType DEF WaitExited
  <2>4. refcount' \in [Tasks -> Int]
    BY <1>11 DEF WaitExited
  <2>5. enqueued' \in [Tasks -> BOOLEAN]
    BY <1>11, <2>1, EnqueueType DEF WaitExited
  <2>6. QED
    BY <1>11, <2>1, <2>2, <2>3, <2>4, <2>5 DEF WaitExited, ProcStates
<1>12. CASE g_unix_signal_handler
  BY <1>12 DEF g_unix_signal_handler, taskVars
<1>13. ASSUME NEW p \in Pids, ChildExit(p)
       PROVE  TypeOK'
  BY <1>13 DEF ChildExit, ProcStates, taskVars
<1>14. ASSUME NEW s \in Batches, Build(s)
       PROVE  TypeOK'
  <2>1. s \in Seq(Tasks) /\ ToSet(s) \subseteq Tasks
    BY BatchesType, SeqMonotonic DEF Fresh
  <2>2. QED
    BY <1>14, <2>1, FramesType, CallType, EnqueueType DEF Build, task_create
<1>15. ASSUME NEW t \in Commands, MakeMakefile(t)
       PROVE  TypeOK'
  <2>1. t \in Tasks /\ <<t>> \in Seq(Tasks)
    BY DEF Tasks
  <2>2. QED
    BY <1>15, <2>1, EnqueueType, CreateType DEF MakeMakefile
<1>16. ASSUME NEW t \in Commands, Spawn(t)
       PROVE  TypeOK'
  BY <1>16, SpawnType DEF Spawn, task_create, Tasks
<1>17. ASSUME NEW t \in Commands, Run(t)
       PROVE  TypeOK'
  <2>1. t \in Tasks
    BY DEF Tasks
  <2>2. stack' \in Seq(Frames) /\ refcount' \in [Tasks -> Int]
    BY <1>17, <2>1, FramesType DEF Run, RunRefcount
  <2>3. QED
    BY <1>17, <2>1, <2>2, SpawnType DEF Run
<1>18. CASE Stop
  BY <1>18 DEF Stop, ProcStates, taskVars
<1>19. CASE Pause
  BY <1>19 DEF Pause, ProcStates, taskVars
<1>20. CASE Resume
  BY <1>20 DEF Resume, ProcStates
<1>21. CASE UNCHANGED vars
  BY <1>21 DEF vars
<1>22. QED
  BY <1>1, <1>2, <1>3, <1>4, <1>5, <1>6, <1>7, <1>8, <1>9, <1>10, <1>11,
     <1>12, <1>13, <1>14, <1>15, <1>16, <1>17, <1>18, <1>19, <1>20, <1>21
  DEF Next, Program, Kernel, User

\* Whatever goes wrong around the program, every variable keeps to its type.
THEOREM TypeCorrect == Spec => []TypeOK
<1>1. QED
  BY InitType, StepType, PTL DEF Spec

-----------------------------------------------------------------------------
(***************************************************************************)
(* No child is lost.                                                       *)
(***************************************************************************)
Dispatching == OnStack("g_unix_dispatch_reapers")

LEMMA CallKeepsDispatching ==
    ASSUME TypeOK, Dispatching, NEW r \in Seq(Frames), stack' = stack \o r
    PROVE  Dispatching'
<1>1. PICK i \in DOMAIN stack : stack[i].fn = "g_unix_dispatch_reapers"
  BY DEF Dispatching, OnStack
<1>2. i \in DOMAIN stack' /\ stack'[i] = stack[i]
  BY DEF TypeOK
<1>3. QED
  BY <1>1, <1>2 DEF Dispatching, OnStack

LEMMA ReturnKeepsDispatching ==
    ASSUME TypeOK, Dispatching, stack # <<>>, stack' = Front(stack),
           Last(stack).fn # "g_unix_dispatch_reapers"
    PROVE  Dispatching'
<1>1. PICK i \in DOMAIN stack : stack[i].fn = "g_unix_dispatch_reapers"
  BY DEF Dispatching, OnStack
<1>2. /\ Front(stack) \in Seq(Frames)
      /\ Len(Front(stack)) = Len(stack) - 1
      /\ \A j \in 1..Len(stack) - 1 : Front(stack)[j] = stack[j]
  BY FrontProperties DEF TypeOK
<1>3. i # Len(stack)
  BY <1>1 DEF Last
<1>4. i \in 1..Len(stack) - 1
  BY <1>3 DEF TypeOK
<1>5. i \in DOMAIN Front(stack) /\ Front(stack)[i] = stack[i]
  BY <1>2, <1>4
<1>6. QED
  BY <1>1, <1>5 DEF Dispatching, OnStack

\* A function is called: what is appended to the stack.
LEMMA PushedFrames ==
    ASSUME TypeOK, NEW f \in Frames
    PROVE  <<f>> \in Seq(Frames) /\ Append(stack, f) = stack \o <<f>>
<1>1. <<f>> \in Seq(Frames)
  OBVIOUS
<1>2. stack \in Seq(Frames)
  BY DEF TypeOK
<1>3. QED
  BY <1>1, <1>2, AppendIsConcat

\* Only EndDispatch takes the waiting loop off the stack.
LEMMA DispatchingKept ==
    ASSUME TypeOK, [Next]_vars, Dispatching
    PROVE  EndDispatch \/ Dispatching'
<1>1. ASSUME NEW f \in Frames, stack' = Append(stack, f)
      PROVE  Dispatching'
  BY <1>1, PushedFrames, CallKeepsDispatching
<1>2. ASSUME stack' = stack
      PROVE  Dispatching'
  BY <1>2 DEF Dispatching, OnStack
<1>3. ASSUME NEW t \in Tasks, StartBuiltin(t)
      PROVE  Dispatching'
  <2>1. CASE \E s \in AtMostOne(Commands \cap Fresh) :
                \/ NoTargets(t, s)
                \/ \E c \in Fresh : ListTargetsForeground(t, s, c)
    <3>1. PICK s \in AtMostOne(Commands \cap Fresh) :
                  \/ NoTargets(t, s)
                  \/ \E c \in Fresh : ListTargetsForeground(t, s, c)
      BY <2>1
    <3>2. CASE NoTargets(t, s)
      BY <1>1, <3>2, FramesType DEF NoTargets
    <3>3. ASSUME NEW c \in Fresh, ListTargetsForeground(t, s, c)
          PROVE  Dispatching'
      <4>1. c \in Tasks
        BY DEF Fresh
      <4> DEFINE f == TaskFrame("task_run_builtin", t)
                 r == IF pid'[c] # NoPid
                      THEN <<TaskFrame("task_run_command", c)>> ELSE <<>>
      <4>2. stack' = (stack \o <<f>>) \o r
        BY <3>3 DEF ListTargetsForeground
      <4>3. /\ <<f>> \in Seq(Frames)
            /\ r \in Seq(Frames)
            /\ <<f>> \o r \in Seq(Frames)
        BY <4>1, FramesType
      <4> HIDE DEF f, r
      <4>4. stack' = stack \o (<<f>> \o r)
        BY <4>2, <4>3, ConcatAssociative DEF TypeOK
      <4>5. QED
        BY <4>3, <4>4, CallKeepsDispatching
    <3>4. QED
      BY <3>1, <3>2, <3>3
  <2>2. CASE AbortQueue(t)
    BY <1>1, <2>2, FramesType DEF AbortQueue
  <2>3. QED
    BY <1>3, <2>1, <2>2 DEF StartBuiltin
<1>4. ASSUME NEW t \in Tasks, EndBuiltin(t)
      PROVE  Dispatching'
  BY <1>4, ReturnKeepsDispatching DEF EndBuiltin, TaskFrame
<1>5. ASSUME NEW t \in Tasks, EndRun(t)
      PROVE  Dispatching'
  BY <1>5, ReturnKeepsDispatching DEF EndRun, TaskFrame
<1>6. CASE EndStart
  BY <1>6, ReturnKeepsDispatching DEF EndStart, Running
<1>7. CASE Dispatch
  BY <1>1, <1>7, FramesType DEF Dispatch
<1>8. ASSUME NEW p \in Pids, RemovePidData(p)
      PROVE  Dispatching'
  BY <1>8, ReturnKeepsDispatching DEF RemovePidData, PidFrame
<1>9. ASSUME NEW p \in Pids, NEW t \in Tasks, NEW s, WaitExited(p, t, s)
      PROVE  Dispatching'
  <2> DEFINE f == PidFrame("remove_piddata", p)
             r == IF enqueued[t] THEN <<Frame("task_start")>> ELSE <<>>
  <2>1. stack' = (stack \o <<f>>) \o r
    BY <1>9 DEF WaitExited
  <2>2. /\ <<f>> \in Seq(Frames)
        /\ r \in Seq(Frames)
        /\ <<f>> \o r \in Seq(Frames)
    BY FramesType
  <2> HIDE DEF f, r
  <2>3. stack' = stack \o (<<f>> \o r)
    BY <2>1, <2>2, ConcatAssociative DEF TypeOK
  <2>4. QED
    BY <2>2, <2>3, CallKeepsDispatching
<1>10. ASSUME NEW s \in Batches, Build(s)
       PROVE  Dispatching'
  BY <1>1, <1>10, FramesType DEF Build
<1>11. ASSUME NEW t \in Commands, Run(t)
       PROVE  Dispatching'
  <2>1. t \in Tasks
    BY DEF Tasks
  <2>2. QED
    BY <1>1, <1>2, <1>11, <2>1, FramesType DEF Run
<1>12. ASSUME NEW t \in Tasks, StartCommand(t)
       PROVE  Dispatching'
  BY <1>2, <1>12 DEF StartCommand
<1>13. ASSUME NEW t \in Commands, MakeMakefile(t) \/ Spawn(t)
       PROVE  Dispatching'
  BY <1>2, <1>13 DEF MakeMakefile, Spawn
<1>14. ASSUME NEW p \in Pids, WaitStopped(p) \/ WaitUnknown(p) \/ ChildExit(p)
       PROVE  Dispatching'
  BY <1>2, <1>14 DEF WaitStopped, WaitUnknown, ChildExit
<1>15. CASE g_unix_signal_handler \/ Stop \/ Pause \/ Resume \/ UNCHANGED vars
  BY <1>2, <1>15 DEF g_unix_signal_handler, Stop, Pause, Resume, vars
<1>16. QED
  BY <1>3, <1>4, <1>5, <1>6, <1>7, <1>8, <1>9, <1>10, <1>11, <1>12, <1>13,
     <1>14, <1>15
  DEF Next, Program, Kernel, User

\* A child becomes waitable with a SIGCHLD, and in no other way.
LEMMA WaitableSignalled ==
    ASSUME TypeOK, [Next]_vars, NEW p \in Pids, Waitable(p)'
    PROVE  Waitable(p) \/ sigchld'
<1> USE DEF Waitable, TypeOK
<1>1. ASSUME NEW t \in Tasks, task_spawn(t)
      PROVE  Waitable(p)
  <2>1. CASE NoFork
    BY <2>1 DEF NoFork
  <2>2. ASSUME NEW q \in FreshPids, Fork(t, q)
        PROVE  Waitable(p)
    BY <2>2 DEF Fork, FreshPids
  <2>3. QED
    BY <1>1, <2>1, <2>2 DEF task_spawn
<1>2. ASSUME UNCHANGED proc
      PROVE  Waitable(p)
  BY <1>2
<1>3. ASSUME NEW t \in Tasks, StartCommand(t)
      PROVE  Waitable(p)
  BY <1>1, <1>3 DEF StartCommand
<1>4. ASSUME NEW t \in Tasks, StartBuiltin(t)
      PROVE  Waitable(p)
  BY <1>1, <1>2, <1>4
  DEF StartBuiltin, NoTargets, ListTargetsForeground, AbortQueue, Fresh
<1>5. ASSUME NEW t \in Tasks, EndBuiltin(t) \/ EndRun(t)
      PROVE  Waitable(p)
  BY <1>2, <1>5 DEF EndBuiltin, EndRun
<1>6. CASE EndStart \/ Dispatch \/ EndDispatch \/ g_unix_signal_handler
  BY <1>6 DEF EndStart, Dispatch, EndDispatch, g_unix_signal_handler
<1>7. ASSUME NEW q \in Pids,
             WaitStopped(q) \/ WaitUnknown(q) \/ RemovePidData(q)
      PROVE  Waitable(p)
  BY <1>7 DEF WaitStopped, WaitUnknown, RemovePidData
<1>8. ASSUME NEW q \in Pids, NEW t \in Tasks, NEW s, WaitExited(q, t, s)
      PROVE  Waitable(p)
  BY <1>8 DEF WaitExited
<1>9. ASSUME NEW q \in Pids, ChildExit(q)
      PROVE  sigchld'
  BY <1>9 DEF ChildExit
<1>10. ASSUME NEW s \in Batches, Build(s)
       PROVE  Waitable(p)
  BY <1>2, <1>10 DEF Build
<1>11. ASSUME NEW t \in Commands, MakeMakefile(t) \/ Spawn(t) \/ Run(t)
       PROVE  Waitable(p)
  BY <1>1, <1>2, <1>11 DEF MakeMakefile, Spawn, Run, Tasks
<1>12. CASE Stop \/ Pause
  BY <1>12 DEF Stop, Pause
<1>13. CASE Resume
  BY <1>13 DEF Resume, Dead
<1>14. CASE UNCHANGED vars
  BY <1>2, <1>14 DEF vars
<1>15. QED
  BY <1>3, <1>4, <1>5, <1>6, <1>7, <1>8, <1>9, <1>10, <1>11, <1>12, <1>13,
     <1>14
  DEF Next, Program, Kernel, User

\* A signal that has been delivered or noted is not forgotten before the
\* waiting loop is on the stack.
LEMMA SignalKept ==
    ASSUME TypeOK, [Next]_vars, sigchld \/ got_signal
    PROVE  sigchld' \/ got_signal' \/ Dispatching'
<1>1. CASE Dispatch
  <2> DEFINE f == Frame("g_unix_dispatch_reapers")
  <2>1. stack \in Seq(Frames) /\ f \in Frames
    BY FramesType DEF TypeOK
  <2>2. On(Append(stack, f), f)
    BY <2>1, OnAppend
  <2>3. QED
    BY <1>1, <2>2 DEF Dispatch, On, Dispatching, OnStack, Frame
<1>2. CASE g_unix_signal_handler
  BY <1>2 DEF g_unix_signal_handler
<1>3. CASE Stop \/ Pause \/ \E p \in Pids : ChildExit(p)
  BY <1>3 DEF Stop, Pause, ChildExit
<1>4. ASSUME UNCHANGED <<sigchld, got_signal>>
      PROVE  sigchld' \/ got_signal'
  BY <1>4
<1>5. CASE \E t \in Tasks : \/ StartCommand(t) \/ StartBuiltin(t)
                             \/ EndBuiltin(t) \/ EndRun(t)
  BY <1>4, <1>5 DEF StartCommand, StartBuiltin, EndBuiltin, EndRun
<1>6. CASE EndStart \/ EndDispatch \/ Resume \/ UNCHANGED vars
  BY <1>4, <1>6 DEF EndStart, EndDispatch, Resume, vars
<1>7. CASE \E p \in Pids : \/ WaitStopped(p) \/ WaitUnknown(p)
                            \/ RemovePidData(p)
                            \/ \E t \in Tasks,
                                  s \in AtMostOne(Commands \cap Fresh) :
                                     WaitExited(p, t, s)
  BY <1>4, <1>7 DEF WaitStopped, WaitUnknown, RemovePidData, WaitExited
<1>8. CASE \/ \E s \in Batches : Build(s)
           \/ \E t \in Commands : MakeMakefile(t) \/ Spawn(t) \/ Run(t)
  BY <1>4, <1>8 DEF Build, MakeMakefile, Spawn, Run
<1>9. QED
  BY <1>1, <1>2, <1>3, <1>5, <1>6, <1>7, <1>8 DEF Next, Program, Kernel, User

LEMMA StepNoLostChild ==
    ASSUME TypeOK, NoLostChild, [Next]_vars
    PROVE  NoLostChild'
<1> SUFFICES ASSUME NEW p \in Pids, Waitable(p)'
             PROVE  sigchld' \/ got_signal' \/ Dispatching'
  BY DEF NoLostChild, Dispatching, OnStack
<1>1. CASE EndDispatch
  BY <1>1 DEF EndDispatch, Waitable
<1>2. CASE Waitable(p) /\ ~ EndDispatch
  <2>1. sigchld \/ got_signal \/ Dispatching
    BY <1>2 DEF NoLostChild, Dispatching
  <2>2. QED
    BY <1>2, <2>1, SignalKept, DispatchingKept
<1>3. QED
  BY <1>1, <1>2, WaitableSignalled

\* Whatever goes wrong around the program, a child that wait3() would report
\* is on its way to be waited for.  The flag is cleared before the loop, and
\* the loop ends with nothing left.  (g_unix_source_dispatch)
THEOREM NoChildLost == Spec => []NoLostChild
<1>1. Init => NoLostChild
  BY DEF Init, NoLostChild, Waitable
<1>2. QED
  BY <1>1, TypeCorrect, StepNoLostChild, PTL DEF Spec
-----------------------------------------------------------------------------

\* A Task is created before it is queued or spawned.
CreatedFirst ==
    /\ \A t \in Tasks : On(task_all, t) => t \in created
    /\ \A t \in Tasks \ created : pid[t] = NoPid

\* A registration that is about to be dropped is that of a child waited for.
DroppedDead == \A p \in Pids : Dropping(p) => proc[p] = "none"

(***************************************************************************)
(* What a step may do to the children.                                     *)
(***************************************************************************)
NoNewDrops == \A p \in Pids : Dropping(p)' => Dropping(p)

Kept ==
    /\ UNCHANGED <<pid, piddata>>
    /\ \A p \in Pids : proc'[p] = "none" <=> proc[p] = "none"
    /\ NoNewDrops

Forked(t, p) ==
    /\ p \in FreshPids
    /\ Fork(t, p)
    /\ t \in Commands
    /\ pid[t] = NoPid
    /\ t \in created'
    /\ NoNewDrops

Waited(t, p) ==
    /\ proc[p] = "zombie"
    /\ piddata[p] = t
    /\ proc' = [proc EXCEPT ![p] = "none"]
    /\ pid' = [pid EXCEPT ![t] = NoPid]
    /\ UNCHANGED piddata
    /\ Dropping(p)'
    /\ \A q \in Pids : Dropping(q)' => Dropping(q) \/ q = p

Unregistered(p) ==
    /\ Dropping(p)
    /\ piddata' = [piddata EXCEPT ![p] = NoTask]
    /\ UNCHANGED <<pid, proc>>
    /\ NoNewDrops

Unknown(p) ==
    /\ proc[p] = "zombie"
    /\ piddata[p] = NoTask
    /\ proc' = [proc EXCEPT ![p] = "none"]
    /\ UNCHANGED <<pid, piddata>>
    /\ NoNewDrops

ChildStep ==
    \/ Kept
    \/ \E t \in Tasks, p \in Pids : Forked(t, p) \/ Waited(t, p)
    \/ \E p \in Pids : Unregistered(p) \/ Unknown(p)

LEMMA CallDropsNone ==
    ASSUME TypeOK, NEW r \in Seq(Frames), stack' = stack \o r,
           \A p \in Pids : ~ On(r, PidFrame("remove_piddata", p))
    PROVE  NoNewDrops
<1> SUFFICES ASSUME NEW p \in Pids, Dropping(p)'
             PROVE  Dropping(p)
  BY DEF NoNewDrops
<1>1. On(stack', PidFrame("remove_piddata", p))
  BY DEF Dropping, On
<1>2. On(stack, PidFrame("remove_piddata", p))
  BY <1>1, OnConcat DEF TypeOK
<1>3. QED
  BY <1>2 DEF Dropping, On

LEMMA ReturnDropsNone ==
    ASSUME TypeOK, stack # <<>>, stack' = Front(stack)
    PROVE  NoNewDrops
<1> SUFFICES ASSUME NEW p \in Pids, Dropping(p)'
             PROVE  Dropping(p)
  BY DEF NoNewDrops
<1>1. On(stack', PidFrame("remove_piddata", p))
  BY DEF Dropping, On
<1>2. On(stack, PidFrame("remove_piddata", p))
  BY <1>1, OnFront DEF TypeOK
<1>3. QED
  BY <1>2 DEF Dropping, On

LEMMA SameDropsNone ==
    ASSUME UNCHANGED stack
    PROVE  NoNewDrops
  BY DEF NoNewDrops, Dropping

\* The functions called by task.c other than the reaper drop nothing.
LEMMA PushDropsNone ==
    ASSUME TypeOK, NEW f \in Frames, f.fn # "remove_piddata",
           stack' = Append(stack, f)
    PROVE  NoNewDrops
<1>1. \A p \in Pids : ~ On(<<f>>, PidFrame("remove_piddata", p))
  BY OnSingle DEF PidFrame
<1>2. QED
  BY <1>1, PushedFrames, CallDropsNone

\* task_spawn() of a Task that has no child.
LEMMA SpawnStep ==
    ASSUME TypeOK, NEW t \in Commands, task_spawn(t), pid[t] = NoPid,
           t \in created', NoNewDrops
    PROVE  ChildStep
<1>1. CASE NoFork
  BY <1>1 DEF NoFork, ChildStep, Kept
<1>2. ASSUME NEW p \in FreshPids, Fork(t, p)
      PROVE  ChildStep
  BY <1>2 DEF ChildStep, Forked, FreshPids, Tasks
<1>3. QED
  BY <1>1, <1>2 DEF task_spawn

LEMMA BuiltinStep ==
    ASSUME TypeOK, CreatedFirst, NEW t \in Tasks, StartBuiltin(t)
    PROVE  ChildStep
<1> DEFINE f == TaskFrame("task_run_builtin", t)
<1>1. f \in Frames /\ f.fn # "remove_piddata"
  BY FramesType DEF TaskFrame
<1>2. ASSUME stack' = Append(stack, f), UNCHANGED <<pid, piddata, proc>>
      PROVE  ChildStep
  BY <1>1, <1>2, PushDropsNone DEF ChildStep, Kept
<1>3. ASSUME NEW s, NEW c \in Fresh, ListTargetsForeground(t, s, c)
      PROVE  ChildStep
  <2>1. /\ c \in Tasks /\ c \in Commands
        /\ pid[c] = NoPid /\ c \in created' /\ task_spawn(c)
    BY <1>3 DEF Fresh, CreatedFirst, ListTargetsForeground
  <2> DEFINE g == TaskFrame("task_run_command", c)
             r == IF pid'[c] # NoPid THEN <<g>> ELSE <<>>
  <2>2. g \in Frames /\ g.fn # "remove_piddata"
    BY <2>1, FramesType DEF TaskFrame
  <2>3. /\ <<f>> \in Seq(Frames)
        /\ r \in Seq(Frames)
        /\ <<f>> \o r \in Seq(Frames)
    BY <1>1, <2>2
  <2>4. \A p \in Pids : ~ On(<<f>>, PidFrame("remove_piddata", p))
    BY <1>1, OnSingle DEF PidFrame
  <2>5. \A p \in Pids : ~ On(r, PidFrame("remove_piddata", p))
    <3>1. \A p \in Pids : ~ On(<<g>>, PidFrame("remove_piddata", p))
      BY <2>2, OnSingle DEF PidFrame
    <3>2. \A p \in Pids : ~ On(<<>>, PidFrame("remove_piddata", p))
      BY DEF On
    <3>3. QED
      BY <3>1, <3>2
  <2>6. stack' = (stack \o <<f>>) \o r
    BY <1>3 DEF ListTargetsForeground
  <2> HIDE DEF f, g, r
  <2>7. stack' = stack \o (<<f>> \o r)
    BY <2>3, <2>6, ConcatAssociative DEF TypeOK
  <2>8. \A p \in Pids : ~ On(<<f>> \o r, PidFrame("remove_piddata", p))
    BY <2>3, <2>4, <2>5, OnConcat
  <2>9. NoNewDrops
    BY <2>3, <2>7, <2>8, CallDropsNone
  <2>10. QED
    BY <2>1, <2>9, SpawnStep
<1>4. QED
  BY <1>2, <1>3 DEF StartBuiltin, NoTargets, AbortQueue

LEMMA WaitStep ==
    ASSUME TypeOK, NEW p \in Pids, NEW t \in Tasks, NEW s, WaitExited(p, t, s)
    PROVE  Waited(t, p)
<1> DEFINE f == PidFrame("remove_piddata", p)
           g == Frame("task_start")
           r == IF enqueued[t] THEN <<g>> ELSE <<>>
<1>1. f \in Frames /\ g \in Frames
  BY FramesType
<1>2. <<f>> \in Seq(Frames) /\ r \in Seq(Frames) /\ stack \o <<f>> \in Seq(Frames)
  BY <1>1 DEF TypeOK
<1>3. stack' = (stack \o <<f>>) \o r
  BY DEF WaitExited
<1>4. ASSUME NEW q \in Pids, Dropping(q)', q # p
      PROVE  Dropping(q)
  <2> DEFINE x == PidFrame("remove_piddata", q)
  <2>1. x # f /\ x # g
    BY <1>4 DEF PidFrame, Frame
  <2>2. On(stack', x)
    BY <1>4 DEF Dropping, On
  <2>3. ~ On(<<f>>, x) /\ ~ On(<<g>>, x)
    BY <2>1, OnSingle
  <2>4. ~ On(r, x)
    BY <2>3 DEF On
  <2> HIDE DEF f, g, r, x
  <2>5. On(stack \o <<f>>, x)
    BY <1>2, <1>3, <2>2, <2>4, OnConcat
  <2>6. On(stack, x)
    BY <1>2, <2>3, <2>5, OnConcat DEF TypeOK
  <2>7. QED
    BY <2>6 DEF Dropping, On, x
<1>5. Dropping(p)'
  <2>1. On(<<f>>, f)
    BY OnSingle
  <2> HIDE DEF f, r
  <2>2. On(stack \o <<f>>, f)
    BY <1>2, <2>1, OnConcat DEF TypeOK
  <2>3. On(stack', f)
    BY <1>2, <1>3, <2>2, OnConcat
  <2>4. QED
    BY <2>3 DEF Dropping, On, f
<1>6. QED
  BY <1>4, <1>5 DEF WaitExited, Waited

\* Each step of task.c, of the kernel and of the user, as the children see it.
LEMMA EveryChildStep ==
    ASSUME TypeOK, CreatedFirst, [Next]_vars
    PROVE  ChildStep
<1>1. ASSUME UNCHANGED <<pid, piddata, proc>>, NoNewDrops
      PROVE  ChildStep
  BY <1>1 DEF ChildStep, Kept
<1>2. ASSUME UNCHANGED <<pid, piddata, stack>>,
             \A p \in Pids : proc'[p] = "none" <=> proc[p] = "none"
      PROVE  ChildStep
  BY <1>2, SameDropsNone DEF ChildStep, Kept
<1>3. ASSUME NEW t \in Tasks, StartCommand(t)
      PROVE  ChildStep
  <2>1. task_all # <<>> /\ task_current = NoTask /\ t = Head(task_all)
    BY <1>3 DEF StartCommand, StartsNext
  <2>2. On(task_all, t) /\ pid[t] = NoPid
    <3>1. 1 \in DOMAIN task_all /\ Head(task_all) = task_all[1]
      BY <2>1, EmptySeq DEF TypeOK
    <3>2. pid[t] = NoPid
      BY <2>1, TaskAssumption DEF task_current, Tasks
    <3>3. QED
      BY <2>1, <3>1, <3>2 DEF On
  <2>3. t \in Commands /\ t \in created' /\ NoNewDrops /\ task_spawn(t)
    BY <1>3, <2>2, SameDropsNone DEF StartCommand, CreatedFirst
  <2>4. QED
    BY <2>2, <2>3, SpawnStep
<1>4. ASSUME NEW t \in Tasks, StartBuiltin(t)
      PROVE  ChildStep
  BY <1>4, BuiltinStep
<1>5. ASSUME NEW t \in Tasks, EndBuiltin(t) \/ EndRun(t)
      PROVE  ChildStep
  BY <1>1, <1>5, ReturnDropsNone DEF EndBuiltin, EndRun
<1>6. CASE EndStart \/ EndDispatch
  BY <1>1, <1>6, ReturnDropsNone DEF EndStart, EndDispatch, Running, taskVars
<1>7. CASE Dispatch
  <2>1. Frame("g_unix_dispatch_reapers").fn # "remove_piddata"
    BY DEF Frame
  <2>2. QED
    BY <1>1, <1>7, <2>1, FramesType, PushDropsNone DEF Dispatch, taskVars
<1>8. ASSUME NEW p \in Pids, WaitStopped(p)
      PROVE  ChildStep
  BY <1>2, <1>8 DEF WaitStopped, TypeOK
<1>9. ASSUME NEW p \in Pids, WaitUnknown(p)
      PROVE  Unknown(p)
  BY <1>9, SameDropsNone DEF WaitUnknown, Unknown, taskVars
<1>10. ASSUME NEW p \in Pids, RemovePidData(p)
       PROVE  Unregistered(p)
  <2>1. Dropping(p)
    <3>1. Len(stack) \in DOMAIN stack
      BY <1>10, EmptySeq DEF RemovePidData, TypeOK
    <3>2. QED
      BY <1>10, <3>1 DEF RemovePidData, Dropping, Last
  <2>2. QED
    BY <1>10, <2>1, ReturnDropsNone DEF RemovePidData, Unregistered, taskVars
<1>11. ASSUME NEW p \in Pids, NEW t \in Tasks, NEW s, WaitExited(p, t, s)
       PROVE  Waited(t, p)
  BY <1>11, WaitStep
<1>12. CASE g_unix_signal_handler
  BY <1>2, <1>12 DEF g_unix_signal_handler, taskVars
<1>13. ASSUME NEW p \in Pids, ChildExit(p)
       PROVE  ChildStep
  BY <1>2, <1>13 DEF ChildExit, taskVars, TypeOK
<1>14. ASSUME NEW s \in Batches, Build(s)
       PROVE  ChildStep
  <2>1. Frame("task_start").fn # "remove_piddata"
    BY DEF Frame
  <2>2. QED
    BY <1>1, <1>14, <2>1, FramesType, PushDropsNone DEF Build
<1>15. ASSUME NEW t \in Commands, MakeMakefile(t)
       PROVE  ChildStep
  BY <1>1, <1>15, SameDropsNone DEF MakeMakefile
<1>16. ASSUME NEW t \in Commands, Spawn(t)
       PROVE  ChildStep
  <2>1. t \in Tasks /\ pid[t] = NoPid /\ t \in created'
    BY <1>16 DEF Spawn, Fresh, Tasks, CreatedFirst, task_create
  <2>2. QED
    BY <1>16, <2>1, SameDropsNone, SpawnStep DEF Spawn
<1>17. ASSUME NEW t \in Commands, Run(t)
       PROVE  ChildStep
  <2>1. t \in Tasks /\ pid[t] = NoPid /\ t \in created'
    BY <1>17 DEF Run, Fresh, Tasks, CreatedFirst
  <2>2. TaskFrame("task_run_command", t).fn # "remove_piddata"
    BY DEF TaskFrame
  <2>3. NoNewDrops
    BY <1>17, <2>1, <2>2, FramesType, PushDropsNone, SameDropsNone DEF Run
  <2>4. QED
    BY <1>17, <2>1, <2>3, SpawnStep DEF Run
<1>18. ASSUME Stop \/ Pause \/ Resume, TypeOK
       PROVE  ChildStep
  <2>1. CASE Stop
    BY <1>2, <2>1 DEF Stop, Dead, taskVars, TypeOK
  <2>2. CASE Pause
    BY <1>2, <2>2 DEF Pause, taskVars, TypeOK
  <2>3. CASE Resume
    BY <1>2, <2>3 DEF Resume, Dead, TypeOK
  <2>4. QED
    BY <1>18, <2>1, <2>2, <2>3
<1>19. CASE UNCHANGED vars
  BY <1>1, <1>19, SameDropsNone DEF vars
<1>20. QED
  BY <1>3, <1>4, <1>5, <1>6, <1>7, <1>8, <1>9, <1>10, <1>11, <1>12, <1>13,
     <1>14, <1>15, <1>16, <1>17, <1>18, <1>19
  DEF Next, Program, Kernel, User, ChildStep

-----------------------------------------------------------------------------
(***************************************************************************)
(* Tasks are created before they are used.                                 *)
(***************************************************************************)
\* g_list_remove() keeps the other Tasks, and their order.
LEMMA RemovedProperties ==
    ASSUME NEW S, NEW q \in Seq(S), NEW t, On(q, t)
    PROVE  \E k \in DOMAIN q :
              /\ q[k] = t
              /\ Len(Removed(q, t)) = Len(q) - 1
              /\ \A i \in 1..Len(q) - 1 :
                    Removed(q, t)[i] = IF i < k THEN q[i] ELSE q[i + 1]
<1>1. Contains(q, t)
  BY DEF Contains, On
<1>2. PICK k \in DOMAIN q : q[k] = t /\ Removed(q, t) = RemoveAt(q, k)
  BY <1>1 DEF Removed, On
<1> DEFINE a == SubSeq(q, 1, k - 1)
           b == SubSeq(q, k + 1, Len(q))
<1>3. /\ a \in Seq(S)
      /\ Len(a) = k - 1
      /\ \A i \in 1..k - 1 : a[i] = q[i]
  <2>1. k - 1 \in 0..Len(q)
    OBVIOUS
  <2>2. QED
    BY <2>1, PrefixLength
<1>4. /\ b \in Seq(S)
      /\ Len(b) = Len(q) - k
      /\ \A i \in 1..Len(q) - k : b[i] = q[k + i]
  BY SuffixProperties
<1>5. RemoveAt(q, k) = a \o b
  BY DEF RemoveAt
<1> HIDE DEF a, b
<1>6. Len(a \o b) = Len(q) - 1
  BY <1>3, <1>4
<1>7. ASSUME NEW i \in 1..Len(q) - 1
      PROVE  (a \o b)[i] = IF i < k THEN q[i] ELSE q[i + 1]
  <2>1. CASE i < k
    <3>1. i \in 1..k - 1 /\ (a \o b)[i] = a[i]
      BY <1>3, <1>4, <2>1
    <3>2. QED
      BY <1>3, <2>1, <3>1
  <2>2. CASE ~ (i < k)
    <3>1. i - (k - 1) \in 1..Len(q) - k
      BY <2>2
    <3>2. (a \o b)[i] = b[i - (k - 1)]
      BY <1>3, <1>4, <2>2
    <3>3. b[i - (k - 1)] = q[k + (i - (k - 1))] /\ k + (i - (k - 1)) = i + 1
      BY <1>4, <3>1
    <3>4. QED
      BY <2>2, <3>2, <3>3
  <2>3. QED
    BY <2>1, <2>2
<1>8. QED
  BY <1>2, <1>5, <1>6, <1>7

LEMMA OnRemoved ==
    ASSUME NEW S, NEW q \in Seq(S), NEW t, NEW x, On(Removed(q, t), x)
    PROVE  On(q, x)
<1>1. CASE ~ On(q, t)
  <2>1. ~ Contains(q, t)
    BY <1>1 DEF On, Contains
  <2>2. QED
    BY <2>1 DEF Removed
<1>2. CASE On(q, t)
  <2>1. PICK k \in DOMAIN q :
              /\ Len(Removed(q, t)) = Len(q) - 1
              /\ \A i \in 1..Len(q) - 1 :
                    Removed(q, t)[i] = IF i < k THEN q[i] ELSE q[i + 1]
    BY <1>2, RemovedProperties
  <2>2. Removed(q, t) \in Seq(S)
    BY RemovedType
  <2>3. PICK i \in DOMAIN Removed(q, t) : Removed(q, t)[i] = x
    BY DEF On
  <2>4. i \in 1..Len(q) - 1
    BY <2>1, <2>2, <2>3
  <2>5. i \in DOMAIN q /\ i + 1 \in DOMAIN q
    BY <2>4
  <2>6. x = q[i] \/ x = q[i + 1]
    BY <2>1, <2>3, <2>4
  <2>7. QED
    BY <2>5, <2>6 DEF On
<1>3. QED
  BY <1>1, <1>2

\* Only Tasks created by then are put in the queue, and none is uncreated.
LEMMA QueueCreated ==
    ASSUME TypeOK, CreatedFirst, [Next]_vars
    PROVE  /\ created \subseteq created'
           /\ \A t \in Tasks : On(task_all', t) => t \in created'
<1> DEFINE Goal == /\ created \subseteq created'
                   /\ \A t \in Tasks : On(task_all', t) => t \in created'
<1>1. ASSUME UNCHANGED <<created, task_all>>
      PROVE  Goal
  BY <1>1 DEF CreatedFirst
<1>2. ASSUME NEW t, task_all' = Removed(task_all, t), UNCHANGED created
      PROVE  Goal
  BY <1>2, OnRemoved DEF CreatedFirst, TypeOK
<1>3. ASSUME NEW q \in Seq(Tasks), \A u \in Tasks : On(q, u) => u \in created,
             NEW s \in Seq(Tasks), task_all' = q \o s,
             created \subseteq created', ToSet(s) \subseteq created'
      PROVE  Goal
  <2>1. \A u : On(s, u) => u \in created'
    BY <1>3 DEF On, ToSet
  <2>2. QED
    BY <1>3, <2>1, OnConcat
<1>4. ASSUME NEW s \in Seq(Tasks), task_all' = Queued(s),
             created \subseteq created', ToSet(s) \subseteq created'
      PROVE  Goal
  BY <1>3, <1>4 DEF Queued, CreatedFirst, TypeOK
<1>5. ASSUME NEW t \in Tasks, StartCommand(t)
      PROVE  Goal
  BY <1>1, <1>2, <1>5 DEF StartCommand, task_dequeue
<1>6. ASSUME NEW t \in Tasks, StartBuiltin(t)
      PROVE  Goal
  <2>1. ASSUME NEW s \in AtMostOne(Commands \cap Fresh),
               \/ NoTargets(t, s)
               \/ \E c \in Fresh : ListTargetsForeground(t, s, c)
        PROVE  Goal
    <3>1. s \in Seq(Tasks)
      BY AtMostOneType, SeqMonotonic DEF Fresh
    <3>2. created \subseteq created' /\ ToSet(s) \subseteq created'
      BY <2>1 DEF NoTargets, ListTargetsForeground, task_create
    <3>3. task_all' = Queued(s)
      BY <2>1 DEF NoTargets, ListTargetsForeground
    <3>4. QED
      BY <1>4, <3>1, <3>2, <3>3
  <2>2. CASE AbortQueue(t)
    <3>1. \A x : ~ On(<<>>, x)
      BY DEF On
    <3>2. QED
      BY <2>2, <3>1 DEF AbortQueue
  <2>3. QED
    BY <1>6, <2>1, <2>2 DEF StartBuiltin
<1>7. ASSUME NEW t \in Tasks, EndBuiltin(t) \/ EndRun(t)
      PROVE  Goal
  BY <1>1, <1>2, <1>7 DEF EndBuiltin, EndRun, task_dequeue
<1>8. ASSUME \/ EndStart \/ Dispatch \/ EndDispatch \/ g_unix_signal_handler
             \/ Stop \/ Pause \/ Resume \/ UNCHANGED vars
      PROVE  Goal
  BY <1>1, <1>8
  DEF EndStart, Dispatch, EndDispatch, g_unix_signal_handler, Stop, Pause,
      Resume, taskVars, vars
<1>9. ASSUME NEW p \in Pids,
             \/ WaitStopped(p) \/ WaitUnknown(p)
             \/ RemovePidData(p) \/ ChildExit(p)
      PROVE  Goal
  BY <1>1, <1>9
  DEF WaitStopped, WaitUnknown, RemovePidData, ChildExit, taskVars
<1>10. ASSUME NEW p \in Pids, NEW t \in Tasks,
              NEW s \in AtMostOne(Commands \cap Fresh), WaitExited(p, t, s)
       PROVE  Goal
  <2>1. s \in Seq(Tasks)
    BY AtMostOneType, SeqMonotonic DEF Fresh
  <2>2. Removed(task_all, t) \in Seq(Tasks)
    BY RemovedType DEF TypeOK
  <2>3. \A u \in Tasks : On(Removed(task_all, t), u) => u \in created
    BY OnRemoved DEF CreatedFirst, TypeOK
  <2>4. /\ task_all' = Removed(task_all, t) \o s
        /\ created \subseteq created'
        /\ ToSet(s) \subseteq created'
    BY <1>10 DEF WaitExited
  <2>5. QED
    BY <1>3, <2>1, <2>2, <2>3, <2>4
<1>11. ASSUME NEW s \in Batches, Build(s)
       PROVE  Goal
  <2>1. s \in Seq(Tasks)
    BY BatchesType, SeqMonotonic DEF Fresh
  <2>2. /\ task_all' = Queued(s)
        /\ created \subseteq created'
        /\ ToSet(s) \subseteq created'
    BY <1>11 DEF Build, task_create
  <2>3. QED
    BY <1>4, <2>1, <2>2
<1>12. ASSUME NEW t \in Commands, MakeMakefile(t)
       PROVE  Goal
  <2>1. <<t>> \in Seq(Tasks)
    BY DEF Tasks
  <2>2. ToSet(<<t>>) = {t}
    BY DEF ToSet
  <2>3. /\ task_all' = Queued(<<t>>)
        /\ created \subseteq created'
        /\ ToSet(<<t>>) \subseteq created'
    BY <1>12, <2>2 DEF MakeMakefile, task_create
  <2>4. QED
    BY <1>4, <2>1, <2>3
<1>13. ASSUME NEW t \in Commands, Spawn(t) \/ Run(t)
       PROVE  Goal
  BY <1>13 DEF Spawn, Run, task_create, CreatedFirst
<1>14. QED
  BY <1>5, <1>6, <1>7, <1>8, <1>9, <1>10, <1>11, <1>12, <1>13
  DEF Next, Program, Kernel, User

LEMMA StepCreatedFirst ==
    ASSUME TypeOK, CreatedFirst, [Next]_vars
    PROVE  CreatedFirst'
<1>1. created \subseteq created' /\ ChildStep
  BY QueueCreated, EveryChildStep
<1>2. ASSUME NEW t \in Tasks \ created'
      PROVE  pid'[t] = NoPid
  <2>1. pid[t] = NoPid
    BY <1>1, <1>2 DEF CreatedFirst
  <2>2. ASSUME NEW u \in Tasks, NEW p \in Pids, Forked(u, p)
        PROVE  pid'[t] = NoPid
    BY <1>2, <2>1, <2>2 DEF Forked, Fork, TypeOK
  <2>3. ASSUME NEW u \in Tasks, NEW p \in Pids, Waited(u, p)
        PROVE  pid'[t] = NoPid
    BY <2>1, <2>3 DEF Waited, TypeOK
  <2>4. QED
    BY <1>1, <2>1, <2>2, <2>3 DEF ChildStep, Kept, Unregistered, Unknown
<1>3. QED
  BY <1>2, QueueCreated DEF CreatedFirst

LEMMA AlwaysCreatedFirst == Spec => []CreatedFirst
<1>1. Init => CreatedFirst
  BY DEF Init, CreatedFirst, On
<1>2. QED
  BY <1>1, TypeCorrect, StepCreatedFirst, PTL DEF Spec

\* A builtin has no process.
BuiltinsUnspawned == \A t \in Builtins : pid[t] = NoPid

LEMMA StepBuiltinsUnspawned ==
    ASSUME TypeOK, CreatedFirst, BuiltinsUnspawned, [Next]_vars
    PROVE  BuiltinsUnspawned'
<1> SUFFICES ASSUME NEW b \in Builtins
             PROVE  pid'[b] = NoPid
  BY DEF BuiltinsUnspawned
<1>1. pid[b] = NoPid /\ b \in Tasks /\ b \notin Commands
  BY TaskAssumption DEF BuiltinsUnspawned, Tasks
<1>2. ASSUME NEW t \in Tasks, NEW p \in Pids, Forked(t, p)
      PROVE  pid'[b] = NoPid
  BY <1>1, <1>2 DEF Forked, Fork, TypeOK
<1>3. ASSUME NEW t \in Tasks, NEW p \in Pids, Waited(t, p)
      PROVE  pid'[b] = NoPid
  BY <1>1, <1>3 DEF Waited, TypeOK
<1>4. QED
  BY <1>1, <1>2, <1>3, EveryChildStep
  DEF ChildStep, Kept, Unregistered, Unknown

LEMMA AlwaysBuiltinsUnspawned == Spec => []BuiltinsUnspawned
<1>1. Init => BuiltinsUnspawned
  BY DEF Init, BuiltinsUnspawned, Tasks
<1>2. QED
  BY <1>1, TypeCorrect, AlwaysCreatedFirst, StepBuiltinsUnspawned, PTL
  DEF Spec

-----------------------------------------------------------------------------
(***************************************************************************)
(* Children and their registrations.                                       *)
(***************************************************************************)
LEMMA StepChildRegistered ==
    ASSUME "pid reuse" \notin Circumstances,
           TypeOK, CreatedFirst, DroppedDead, ChildRegistered, [Next]_vars
    PROVE  DroppedDead' /\ ChildRegistered'
<1>0. /\ pid \in [Tasks -> Pids \cup {NoPid}]
      /\ proc \in [Pids -> ProcStates]
      /\ piddata \in [Pids -> Tasks \cup {NoTask}]
  BY DEF TypeOK
<1> USE <1>0
<1>1. ASSUME Kept
      PROVE  DroppedDead' /\ ChildRegistered'
  <2>1. DroppedDead'
    BY <1>1 DEF Kept, NoNewDrops, DroppedDead
  <2>2. ASSUME NEW q \in Pids, proc'[q] # "none"
        PROVE  piddata'[q] # NoTask /\ pid'[piddata'[q]] = q
    BY <1>1, <2>2 DEF Kept, ChildRegistered
  <2>3. ASSUME NEW u \in Tasks, pid'[u] # NoPid
        PROVE  piddata'[pid'[u]] = u /\ proc'[pid'[u]] # "none"
    <3>1. pid'[u] = pid[u] /\ pid[u] \in Pids
      BY <1>1, <2>3 DEF Kept
    <3>2. piddata[pid[u]] = u /\ proc[pid[u]] # "none"
      BY <2>3, <3>1 DEF ChildRegistered
    <3>3. QED
      BY <1>1, <3>1, <3>2 DEF Kept
  <2>4. QED
    BY <2>1, <2>2, <2>3 DEF ChildRegistered
<1>2. ASSUME NEW t \in Tasks, NEW p \in Pids, Forked(t, p)
      PROVE  DroppedDead' /\ ChildRegistered'
  <2>1. proc[p] = "none" /\ ~ Dropping(p)
    BY <1>2 DEF Forked, FreshPids, Dropping, ToSet
  <2>2. DroppedDead'
    BY <1>2, <2>1 DEF Forked, Fork, NoNewDrops, DroppedDead
  <2>3. ASSUME NEW q \in Pids, proc'[q] # "none"
        PROVE  piddata'[q] # NoTask /\ pid'[piddata'[q]] = q
    <3>1. CASE q = p
      BY <1>2, <3>1, TaskAssumption DEF Forked, Fork, Tasks
    <3>2. CASE q # p
      <4>1. proc[q] # "none" /\ piddata'[q] = piddata[q]
        BY <1>2, <2>3, <3>2 DEF Forked, Fork
      <4>2. piddata[q] # NoTask /\ pid[piddata[q]] = q
        BY <4>1 DEF ChildRegistered
      <4>3. piddata[q] # t
        BY <1>2, <4>2, TaskAssumption DEF Forked
      <4>4. QED
        BY <1>2, <4>1, <4>2, <4>3 DEF Forked, Fork
    <3>3. QED
      BY <3>1, <3>2
  <2>4. ASSUME NEW u \in Tasks, pid'[u] # NoPid
        PROVE  piddata'[pid'[u]] = u /\ proc'[pid'[u]] # "none"
    <3>1. CASE u = t
      BY <1>2, <3>1 DEF Forked, Fork
    <3>2. CASE u # t
      <4>1. pid'[u] = pid[u] /\ pid[u] \in Pids
        BY <1>2, <2>4, <3>2 DEF Forked, Fork
      <4>2. piddata[pid[u]] = u /\ proc[pid[u]] # "none"
        BY <2>4, <4>1 DEF ChildRegistered
      <4>3. QED
        BY <1>2, <2>1, <4>1, <4>2 DEF Forked, Fork
    <3>3. QED
      BY <3>1, <3>2
  <2>5. QED
    BY <2>2, <2>3, <2>4 DEF ChildRegistered
<1>3. ASSUME NEW t \in Tasks, NEW p \in Pids, Waited(t, p)
      PROVE  DroppedDead' /\ ChildRegistered'
  <2>1. DroppedDead'
    BY <1>3 DEF Waited, DroppedDead
  <2>2. ASSUME NEW q \in Pids, proc'[q] # "none"
        PROVE  piddata'[q] # NoTask /\ pid'[piddata'[q]] = q
    <3>1. q # p /\ proc[q] # "none"
      BY <1>3, <2>2 DEF Waited
    <3>2. piddata[q] # NoTask /\ pid[piddata[q]] = q
      BY <3>1 DEF ChildRegistered
    <3>3. pid[t] = p
      BY <1>3 DEF Waited, ChildRegistered
    <3>4. piddata[q] # t
      BY <3>1, <3>2, <3>3
    <3>5. QED
      BY <1>3, <3>2, <3>4 DEF Waited
  <2>3. ASSUME NEW u \in Tasks, pid'[u] # NoPid
        PROVE  piddata'[pid'[u]] = u /\ proc'[pid'[u]] # "none"
    <3>1. u # t /\ pid'[u] = pid[u] /\ pid[u] \in Pids
      BY <1>3, <2>3 DEF Waited
    <3>2. piddata[pid[u]] = u /\ proc[pid[u]] # "none"
      BY <2>3, <3>1 DEF ChildRegistered
    <3>3. pid[u] # p
      BY <1>3, <3>1, <3>2 DEF Waited
    <3>4. QED
      BY <1>3, <3>1, <3>2, <3>3 DEF Waited
  <2>4. QED
    BY <2>1, <2>2, <2>3 DEF ChildRegistered
<1>4. ASSUME NEW p \in Pids, Unregistered(p)
      PROVE  DroppedDead' /\ ChildRegistered'
  <2>1. proc[p] = "none"
    BY <1>4 DEF Unregistered, DroppedDead
  <2>2. DroppedDead'
    BY <1>4 DEF Unregistered, NoNewDrops, DroppedDead
  <2>3. ASSUME NEW q \in Pids, proc'[q] # "none"
        PROVE  piddata'[q] # NoTask /\ pid'[piddata'[q]] = q
    BY <1>4, <2>1, <2>3 DEF Unregistered, ChildRegistered
  <2>4. ASSUME NEW u \in Tasks, pid'[u] # NoPid
        PROVE  piddata'[pid'[u]] = u /\ proc'[pid'[u]] # "none"
    <3>1. pid' = pid /\ proc' = proc
      BY <1>4 DEF Unregistered
    <3>2. pid[u] \in Pids /\ piddata[pid[u]] = u /\ proc[pid[u]] # "none"
      <4>1. pid[u] # NoPid
        BY <2>4, <3>1
      <4>2. pid[u] \in Pids
        BY <4>1
      <4>3. QED
        BY <4>1, <4>2 DEF ChildRegistered
    <3>3. pid[u] # p
      BY <2>1, <3>2
    <3>4. piddata'[pid[u]] = piddata[pid[u]]
      BY <1>4, <3>2, <3>3 DEF Unregistered
    <3>5. QED
      BY <3>1, <3>2, <3>4
  <2>5. QED
    BY <2>2, <2>3, <2>4 DEF ChildRegistered
\* The reaper never meets a child it does not know.
<1>5. ASSUME NEW p \in Pids, Unknown(p)
      PROVE  FALSE
  BY <1>5 DEF Unknown, ChildRegistered
<1>6. QED
  BY <1>1, <1>2, <1>3, <1>4, <1>5, EveryChildStep DEF ChildStep

LEMMA AlwaysRegistered ==
    ASSUME "pid reuse" \notin Circumstances
    PROVE  Spec => [](DroppedDead /\ ChildRegistered)
<1>1. Init => DroppedDead /\ ChildRegistered
  BY DEF Init, DroppedDead, ChildRegistered, Dropping
<1>2. TypeOK /\ CreatedFirst /\ DroppedDead /\ ChildRegistered /\ [Next]_vars
        => DroppedDead' /\ ChildRegistered'
  BY StepChildRegistered
<1>3. QED
  BY <1>1, <1>2, TypeCorrect, AlwaysCreatedFirst, PTL DEF Spec

\* As long as the kernel does not hand out a pid that was waited for before its
\* registration is dropped, every child is registered with its Task and every
\* Task with a pid has a child of its own: the end of each command reaches its
\* Task, and kill() never hits another process.  (g_unix_dispatch_reapers)
THEOREM ChildrenRegistered ==
    ASSUME "pid reuse" \notin Circumstances
    PROVE  Spec => []ChildRegistered
<1>1. Spec => [](DroppedDead /\ ChildRegistered)
  BY AlwaysRegistered
<1>2. QED
  BY <1>1, PTL
-----------------------------------------------------------------------------

(***************************************************************************)
(* Sequences without repetition.                                           *)
(***************************************************************************)
LEMMA RemovedInjective ==
    ASSUME NEW S, NEW q \in Seq(S), IsInjective(q), NEW t, On(q, t)
    PROVE  /\ IsInjective(Removed(q, t))
           /\ ~ On(Removed(q, t), t)
           /\ \A x : On(q, x) /\ x # t => On(Removed(q, t), x)
<1> DEFINE r == Removed(q, t)
<1>1. PICK k \in DOMAIN q :
            /\ q[k] = t
            /\ Len(r) = Len(q) - 1
            /\ \A i \in 1..Len(q) - 1 : r[i] = IF i < k THEN q[i] ELSE q[i + 1]
  BY RemovedProperties
<1>2. r \in Seq(S)
  BY RemovedType
<1> HIDE DEF r
<1>3. DOMAIN r = 1..Len(q) - 1 /\ DOMAIN q = 1..Len(q)
  BY <1>1, <1>2
<1>4. \A i, j \in DOMAIN q : q[i] = q[j] => i = j
  BY DEF IsInjective
\* Where an element of r stood in q.
<1> DEFINE at(i) == IF i < k THEN i ELSE i + 1
<1>5. \A i \in DOMAIN r : at(i) \in DOMAIN q /\ at(i) # k /\ r[i] = q[at(i)]
  BY <1>1, <1>3
<1>6. \A i, j \in DOMAIN r : at(i) = at(j) => i = j
  BY <1>3
<1>7. \A i, j \in DOMAIN r : r[i] = r[j] => i = j
  <2> HIDE DEF at
  <2>1. QED
    BY <1>4, <1>5, <1>6
<1>8. ~ On(r, t)
  <2> HIDE DEF at
  <2>1. QED
    BY <1>1, <1>4, <1>5 DEF On
<1>9. ASSUME NEW x, On(q, x), x # t
      PROVE  On(r, x)
  <2>1. PICK j \in DOMAIN q : q[j] = x
    BY <1>9 DEF On
  <2>2. j # k
    BY <1>1, <1>9, <2>1
  <2>3. CASE j < k
    <3>1. j \in DOMAIN r /\ r[j] = q[j]
      BY <1>1, <1>3, <2>3
    <3>2. QED
      BY <2>1, <3>1 DEF On
  <2>4. CASE j > k
    <3>1. j - 1 \in DOMAIN r /\ ~ (j - 1 < k) /\ (j - 1) + 1 = j
      BY <1>3, <2>4
    <3>2. r[j - 1] = q[j]
      BY <1>1, <1>3, <3>1
    <3>3. QED
      BY <2>1, <3>1, <3>2 DEF On
  <2>5. QED
    BY <1>3, <2>2, <2>3, <2>4
<1>10. QED
  BY <1>7, <1>8, <1>9 DEF IsInjective, r

-----------------------------------------------------------------------------
(***************************************************************************)
(* What is queued: the parts of QueueDiscipline, for the children there    *)
(* were before the step.                                                   *)
(***************************************************************************)
Shaped(q, e) ==
    /\ q \in Seq(Tasks)
    /\ IsInjective(q)
    /\ \A t \in Tasks : e[t] <=> On(q, t)
    /\ \A i \in DOMAIN q : i > 1 => pid[q[i]] = NoPid

LEMMA DisciplineShaped ==
    ASSUME TypeOK, QueueDiscipline
    PROVE  Shaped(task_all, enqueued)
  BY ContainsIsOn DEF TypeOK, QueueDiscipline, Shaped

\* g_list_remove() of a Task, queued or not, with its flag reset.
LEMMA RemovedShaped ==
    ASSUME NEW q, NEW e, Shaped(q, e), NEW t \in Tasks, NEW d,
           \A u \in Tasks : d[u] <=> e[u] /\ u # t
    PROVE  Shaped(Removed(q, t), d)
<1>1. CASE ~ On(q, t)
  <2>1. Removed(q, t) = q
    BY <1>1, ContainsIsOn DEF Shaped, Removed
  <2>2. QED
    BY <1>1, <2>1 DEF Shaped
<1>2. CASE On(q, t)
  <2>1. /\ Removed(q, t) \in Seq(Tasks)
        /\ IsInjective(Removed(q, t))
        /\ ~ On(Removed(q, t), t)
        /\ \A x : On(q, x) /\ x # t => On(Removed(q, t), x)
    BY <1>2, RemovedType, RemovedInjective DEF Shaped
  <2>2. \A x : On(Removed(q, t), x) => On(q, x)
    BY OnRemoved DEF Shaped
  <2>3. \A u \in Tasks : d[u] <=> On(Removed(q, t), u)
    BY <2>1, <2>2 DEF Shaped
  <2>4. ASSUME NEW i \in DOMAIN Removed(q, t), i > 1
        PROVE  pid[Removed(q, t)[i]] = NoPid
    <3>1. PICK k \in DOMAIN q :
                /\ Len(Removed(q, t)) = Len(q) - 1
                /\ \A j \in 1..Len(q) - 1 :
                      Removed(q, t)[j] = IF j < k THEN q[j] ELSE q[j + 1]
      BY <1>2, RemovedProperties DEF Shaped
    <3>2. i \in 1..Len(q) - 1
      BY <2>1, <3>1
    <3>3. i \in DOMAIN q /\ i + 1 \in DOMAIN q /\ i + 1 > 1
      BY <2>4, <3>2 DEF Shaped
    <3>4. pid[q[i]] = NoPid /\ pid[q[i + 1]] = NoPid
      BY <2>4, <3>3 DEF Shaped
    <3>5. QED
      BY <3>1, <3>2, <3>4
  <2>5. QED
    BY <2>1, <2>3, <2>4 DEF Shaped
<1>3. QED
  BY <1>1, <1>2

\* task_enqueue() of new Tasks.
LEMMA ConcatShaped ==
    ASSUME CreatedFirst, NEW q, NEW e, Shaped(q, e),
           \A t \in Tasks : On(q, t) => t \in created,
           NEW s \in Seq(Fresh), IsInjective(s), NEW d,
           \A u \in Tasks : d[u] <=> e[u] \/ On(s, u)
    PROVE  Shaped(q \o s, d)
<1>1. q \in Seq(Tasks) /\ s \in Seq(Tasks)
  BY SeqMonotonic DEF Shaped, Fresh
<1>2. \A i \in DOMAIN s : s[i] \in Tasks \ created
  BY DEF Fresh
<1>3. \A x : ~ (On(q, x) /\ On(s, x))
  BY <1>1, <1>2 DEF On
<1>4. IsInjective(q \o s)
  BY <1>1, <1>3, ConcatInjective DEF Shaped
<1>5. \A u \in Tasks : d[u] <=> On(q \o s, u)
  BY <1>1, OnConcat DEF Shaped
<1>6. ASSUME NEW i \in DOMAIN (q \o s), i > 1
      PROVE  pid[(q \o s)[i]] = NoPid
  <2>1. CASE i \in DOMAIN q
    BY <1>1, <1>6, <2>1 DEF Shaped
  <2>2. CASE i \notin DOMAIN q
    <3>1. i - Len(q) \in DOMAIN s /\ (q \o s)[i] = s[i - Len(q)]
      BY <1>1, <2>2
    <3>2. QED
      BY <1>2, <3>1 DEF CreatedFirst
  <2>3. QED
    BY <2>1, <2>2
<1>7. q \o s \in Seq(Tasks)
  BY <1>1
<1>8. QED
  BY <1>4, <1>5, <1>6, <1>7 DEF Shaped

LEMMA AtMostOneInjective ==
    ASSUME NEW S, NEW s \in AtMostOne(S)
    PROVE  IsInjective(s)
<1>1. IsInjective(<<>>)
  BY DEF IsInjective
<1>2. \A c : IsInjective(<<c>>)
  BY DEF IsInjective
<1>3. QED
  BY <1>1, <1>2 DEF AtMostOne

-----------------------------------------------------------------------------
(***************************************************************************)
(* A child's Task was created, so what is enqueued at its end is not it.   *)
(***************************************************************************)
RegisteredCreated == \A p \in Pids : piddata[p] \in created \cup {NoTask}

LEMMA StepRegisteredCreated ==
    ASSUME TypeOK, CreatedFirst, RegisteredCreated, [Next]_vars
    PROVE  RegisteredCreated'
<1>1. created \subseteq created' /\ ChildStep
  BY QueueCreated, EveryChildStep
<1>2. ASSUME NEW t \in Tasks, NEW p \in Pids, Forked(t, p)
      PROVE  RegisteredCreated'
  BY <1>1, <1>2 DEF Forked, Fork, RegisteredCreated, TypeOK
<1>3. ASSUME NEW t \in Tasks, NEW p \in Pids, Waited(t, p)
      PROVE  RegisteredCreated'
  BY <1>1, <1>3 DEF Waited, RegisteredCreated
<1>4. ASSUME NEW p \in Pids, Unregistered(p)
      PROVE  RegisteredCreated'
  BY <1>1, <1>4 DEF Unregistered, RegisteredCreated, TypeOK
<1>5. QED
  BY <1>1, <1>2, <1>3, <1>4 DEF ChildStep, Kept, Unknown, RegisteredCreated

LEMMA AlwaysRegisteredCreated == Spec => []RegisteredCreated
<1>1. Init => RegisteredCreated
  BY DEF Init, RegisteredCreated
<1>2. QED
  BY <1>1, TypeCorrect, AlwaysCreatedFirst, StepRegisteredCreated, PTL
  DEF Spec

-----------------------------------------------------------------------------
(***************************************************************************)
(* What a step may do to the queue.                                        *)
(***************************************************************************)
\* Only the head of the queue, or a Task that is not in it, gets a process.
SpawnsHead ==
    \A t \in Tasks : pid[t] = NoPid /\ pid'[t] # NoPid =>
        \/ /\ task_all' = task_all
           /\ task_all # <<>>
           /\ t = Head(task_all)
        \/ ~ On(task_all', t)

LEMMA SameQueue ==
    ASSUME TypeOK, QueueDiscipline, UNCHANGED <<task_all, enqueued>>
    PROVE  Shaped(task_all', enqueued')
  BY DisciplineShaped

LEMMA DequeueShaped ==
    ASSUME TypeOK, QueueDiscipline, NEW t \in Tasks, task_dequeue(t)
    PROVE  Shaped(task_all', enqueued')
<1>1. Shaped(task_all, enqueued)
  BY DisciplineShaped
<1>2. \A u \in Tasks : enqueued'[u] <=> enqueued[u] /\ u # t
  BY DEF task_dequeue, TypeOK
<1>3. Shaped(Removed(task_all, t), enqueued')
  BY <1>1, <1>2, RemovedShaped
<1>4. QED
  BY <1>3 DEF task_dequeue

LEMMA EnqueueShaped ==
    ASSUME TypeOK, CreatedFirst, QueueDiscipline,
           NEW s \in Seq(Fresh), IsInjective(s),
           task_all' = Queued(s), enqueued' = Enqueued(s)
    PROVE  Shaped(task_all', enqueued')
<1>1. Shaped(task_all, enqueued)
  BY DisciplineShaped
<1>2. \A u \in Tasks : enqueued'[u] <=> enqueued[u] \/ On(s, u)
  BY OnIsToSet DEF Enqueued
<1>3. Shaped(task_all \o s, enqueued')
  BY <1>1, <1>2, ConcatShaped DEF CreatedFirst
<1>4. QED
  BY <1>3 DEF Queued

LEMMA EmptyShaped ==
    ASSUME NEW e, \A u \in Tasks : ~ e[u]
    PROVE  Shaped(<<>>, e)
<1>1. \A x : ~ On(<<>>, x)
  BY DEF On
<1>2. <<>> \in Seq(Tasks) /\ IsInjective(<<>>)
  BY DEF IsInjective
<1>3. QED
  BY <1>1, <1>2 DEF Shaped

LEMMA NoSpawn ==
    ASSUME \A t \in Tasks : pid'[t] # NoPid => pid[t] # NoPid
    PROVE  SpawnsHead
  BY DEF SpawnsHead

\* task_spawn() of a new Task that is not put in the queue either.
LEMMA SpawnOther ==
    ASSUME TypeOK, NEW c \in Tasks, task_spawn(c), ~ On(task_all', c)
    PROVE  SpawnsHead
<1>1. \A t \in Tasks : t # c => pid'[t] = pid[t]
  BY DEF task_spawn, Fork, NoFork, TypeOK
<1>2. QED
  BY <1>1 DEF SpawnsHead

LEMMA CommandQueueStep ==
    ASSUME TypeOK, QueueDiscipline, NEW t \in Tasks, StartCommand(t)
    PROVE  Shaped(task_all', enqueued') /\ SpawnsHead
<1>1. task_spawn(t) /\ task_all # <<>> /\ t = Head(task_all)
  BY DEF StartCommand, StartsNext
<1>2. CASE pid'[t] # NoPid
  <2>1. UNCHANGED <<task_all, enqueued>>
    BY <1>2 DEF StartCommand
  <2>2. \A u \in Tasks : u # t => pid'[u] = pid[u]
    BY <1>1 DEF task_spawn, Fork, NoFork, TypeOK
  <2>3. SpawnsHead
    BY <1>1, <2>1, <2>2 DEF SpawnsHead
  <2>4. QED
    BY <2>1, <2>3, SameQueue
<1>3. CASE pid'[t] = NoPid
  <2>1. task_dequeue(t)
    BY <1>3 DEF StartCommand
  <2>2. \A u \in Tasks : pid'[u] # NoPid => pid[u] # NoPid
    BY <1>1, <1>3 DEF task_spawn, Fork, NoFork, TypeOK
  <2>3. QED
    BY <2>1, <2>2, DequeueShaped, NoSpawn
<1>4. QED
  BY <1>2, <1>3

LEMMA BuiltinQueueStep ==
    ASSUME TypeOK, CreatedFirst, QueueDiscipline, NEW t \in Tasks,
           StartBuiltin(t)
    PROVE  Shaped(task_all', enqueued') /\ SpawnsHead
<1>1. ASSUME NEW s \in AtMostOne(Commands \cap Fresh)
      PROVE  s \in Seq(Fresh) /\ IsInjective(s)
  BY AtMostOneType, AtMostOneInjective, SeqMonotonic
<1>2. ASSUME NEW s \in AtMostOne(Commands \cap Fresh), NoTargets(t, s)
      PROVE  Shaped(task_all', enqueued') /\ SpawnsHead
  BY <1>1, <1>2, EnqueueShaped, NoSpawn DEF NoTargets
<1>3. ASSUME NEW s \in AtMostOne(Commands \cap Fresh), NEW c \in Fresh,
             ListTargetsForeground(t, s, c)
      PROVE  Shaped(task_all', enqueued') /\ SpawnsHead
  <2>1. Shaped(task_all', enqueued')
    BY <1>1, <1>3, EnqueueShaped DEF ListTargetsForeground
  <2>2. s \in Seq(Tasks) /\ c \in Tasks \ created
    BY <1>1, SeqMonotonic DEF Fresh
  <2>3. ~ On(task_all, c) /\ ~ On(s, c)
    BY <1>3, <2>2, OnIsToSet DEF CreatedFirst, ListTargetsForeground
  <2>4. ~ On(task_all', c)
    BY <1>3, <2>2, <2>3, OnConcat DEF ListTargetsForeground, Queued, TypeOK
  <2>5. task_spawn(c)
    BY <1>3 DEF ListTargetsForeground
  <2>6. QED
    BY <2>1, <2>2, <2>4, <2>5, SpawnOther
<1>4. CASE AbortQueue(t)
  <2>1. \A u \in Tasks : ~ enqueued'[u]
    BY <1>4, DisciplineShaped, OnIsToSet DEF AbortQueue, Shaped
  <2>2. QED
    BY <1>4, <2>1, EmptyShaped, NoSpawn DEF AbortQueue
<1>5. QED
  BY <1>2, <1>3, <1>4 DEF StartBuiltin

LEMMA ExitQueueStep ==
    ASSUME TypeOK, CreatedFirst, RegisteredCreated, QueueDiscipline,
           NEW p \in Pids, NEW t \in Tasks,
           NEW s \in AtMostOne(Commands \cap Fresh), WaitExited(p, t, s)
    PROVE  Shaped(task_all', enqueued') /\ SpawnsHead
<1>1. s \in Seq(Fresh) /\ s \in Seq(Tasks) /\ IsInjective(s)
  BY AtMostOneType, AtMostOneInjective, SeqMonotonic DEF Fresh
<1>2. t \in created
  BY TaskAssumption DEF WaitExited, RegisteredCreated
<1>3. ~ On(s, t)
  BY <1>1, <1>2 DEF On, Fresh
<1> DEFINE q == Removed(task_all, t)
           d == [enqueued EXCEPT ![t] = FALSE]
<1>4. Shaped(q, d)
  <2>1. \A u \in Tasks : d[u] <=> enqueued[u] /\ u # t
    BY DEF TypeOK
  <2> HIDE DEF d
  <2>2. QED
    BY <2>1, DisciplineShaped, RemovedShaped
<1>5. \A u \in Tasks : On(q, u) => u \in created
  BY OnRemoved DEF CreatedFirst, TypeOK
<1>6. \A u \in Tasks : enqueued'[u] <=> d[u] \/ On(s, u)
  <2>1. enqueued' = [Enqueued(s) EXCEPT ![t] = FALSE]
    BY DEF WaitExited
  <2>2. \A u \in Tasks : On(s, u) <=> u \in ToSet(s)
    BY <1>1, OnIsToSet
  <2>3. QED
    BY <1>3, <2>1, <2>2 DEF Enqueued, TypeOK
<1> HIDE DEF q, d
<1>7. Shaped(q \o s, enqueued')
  BY <1>1, <1>4, <1>5, <1>6, ConcatShaped
<1>8. task_all' = q \o s
  BY DEF WaitExited, q
<1>9. SpawnsHead
  BY NoSpawn DEF WaitExited, TypeOK
<1>10. QED
  BY <1>7, <1>8, <1>9

LEMMA EveryQueueStep ==
    ASSUME TypeOK, CreatedFirst, RegisteredCreated, QueueDiscipline,
           [Next]_vars
    PROVE  Shaped(task_all', enqueued') /\ SpawnsHead
<1>1. ASSUME UNCHANGED <<task_all, enqueued, pid>>
      PROVE  Shaped(task_all', enqueued') /\ SpawnsHead
  BY <1>1, SameQueue, NoSpawn
<1>2. ASSUME NEW t \in Tasks, StartCommand(t) \/ StartBuiltin(t)
      PROVE  Shaped(task_all', enqueued') /\ SpawnsHead
  BY <1>2, CommandQueueStep, BuiltinQueueStep
<1>3. ASSUME NEW t \in Tasks, EndBuiltin(t)
      PROVE  Shaped(task_all', enqueued') /\ SpawnsHead
  BY <1>3, DequeueShaped, NoSpawn DEF EndBuiltin
<1>4. ASSUME NEW t \in Tasks, EndRun(t)
      PROVE  Shaped(task_all', enqueued') /\ SpawnsHead
  BY <1>1, <1>4 DEF EndRun
<1>5. ASSUME \/ EndStart \/ Dispatch \/ EndDispatch \/ g_unix_signal_handler
             \/ Stop \/ Pause \/ Resume \/ UNCHANGED vars
      PROVE  Shaped(task_all', enqueued') /\ SpawnsHead
  BY <1>1, <1>5
  DEF EndStart, Dispatch, EndDispatch, g_unix_signal_handler, Stop, Pause,
      Resume, taskVars, vars
<1>6. ASSUME NEW p \in Pids,
             \/ WaitStopped(p) \/ WaitUnknown(p)
             \/ RemovePidData(p) \/ ChildExit(p)
      PROVE  Shaped(task_all', enqueued') /\ SpawnsHead
  BY <1>1, <1>6
  DEF WaitStopped, WaitUnknown, RemovePidData, ChildExit, taskVars
<1>7. ASSUME NEW p \in Pids, NEW t \in Tasks,
             NEW s \in AtMostOne(Commands \cap Fresh), WaitExited(p, t, s)
      PROVE  Shaped(task_all', enqueued') /\ SpawnsHead
  BY <1>7, ExitQueueStep
<1>8. ASSUME NEW s \in Batches, Build(s)
      PROVE  Shaped(task_all', enqueued') /\ SpawnsHead
  <2>1. s \in Seq(Fresh)
    BY BatchesType
  <2>2. IsInjective(s)
    BY DEF Batches
  <2>3. QED
    BY <1>8, <2>1, <2>2, EnqueueShaped, NoSpawn DEF Build
<1>9. ASSUME NEW t \in Commands, MakeMakefile(t)
      PROVE  Shaped(task_all', enqueued') /\ SpawnsHead
  <2>1. <<t>> \in Seq(Fresh)
    <3>1. t \in Fresh
      BY <1>9 DEF MakeMakefile
    <3>2. QED
      BY <3>1
  <2>2. IsInjective(<<t>>)
    BY DEF IsInjective
  <2>3. QED
    BY <1>9, <2>1, <2>2, EnqueueShaped, NoSpawn DEF MakeMakefile
<1>10. ASSUME NEW t \in Commands, Spawn(t) \/ Run(t)
       PROVE  Shaped(task_all', enqueued') /\ SpawnsHead
  <2>1. /\ UNCHANGED <<task_all, enqueued>>
        /\ task_spawn(t)
        /\ t \in Tasks \ created
    BY <1>10 DEF Spawn, Run, Fresh, Tasks
  <2>2. ~ On(task_all', t)
    BY <2>1 DEF CreatedFirst
  <2>3. QED
    BY <2>1, <2>2, SameQueue, SpawnOther
<1>11. QED
  BY <1>2, <1>3, <1>4, <1>5, <1>6, <1>7, <1>8, <1>9, <1>10
  DEF Next, Program, Kernel, User

LEMMA StepQueueDiscipline ==
    ASSUME TypeOK, CreatedFirst, RegisteredCreated, QueueDiscipline,
           [Next]_vars
    PROVE  QueueDiscipline'
<1>1. Shaped(task_all', enqueued') /\ SpawnsHead
  BY EveryQueueStep
<1>2. \A t \in Tasks : enqueued'[t] <=> Contains(task_all', t)
  BY <1>1, ContainsIsOn DEF Shaped
<1>3. ASSUME NEW i \in DOMAIN task_all', i > 1
      PROVE  pid'[task_all'[i]] = NoPid
  <2>1. task_all'[i] \in Tasks /\ pid[task_all'[i]] = NoPid
    BY <1>1, <1>3 DEF Shaped
  <2>2. On(task_all', task_all'[i])
    BY <1>3 DEF On
  <2>3. task_all' = task_all /\ task_all # <<>> => task_all'[i] # Head(task_all)
    <3>1. 1 \in DOMAIN task_all'
      BY <1>1, <1>3 DEF Shaped
    <3>2. task_all'[i] # task_all'[1]
      BY <1>1, <1>3, <3>1 DEF Shaped, IsInjective
    <3>3. QED
      BY <3>2 DEF TypeOK
  <2>4. QED
    BY <1>1, <2>1, <2>2, <2>3 DEF SpawnsHead
<1>4. QED
  BY <1>1, <1>2, <1>3 DEF QueueDiscipline, Shaped

\* Whatever fails and whoever is called in the nested main loops, Task.enqueued
\* tells whether the Task is in the queue, where it is once, and of the queued
\* Tasks only the head can have a process.  (task_enqueue, task_dequeue,
\* task_start, task_abort_queue, task_reap_func)
THEOREM QueueDisciplined == Spec => []QueueDiscipline
<1>1. Init => QueueDiscipline
  <2>1. IsInjective(<<>>) /\ \A x : ~ Contains(<<>>, x)
    BY DEF IsInjective, Contains
  <2>2. QED
    BY <2>1 DEF Init, QueueDiscipline
<1>2. QED
  BY <1>1, TypeCorrect, AlwaysCreatedFirst, AlwaysRegisteredCreated,
     StepQueueDiscipline, PTL DEF Spec


(***************************************************************************)
(* What a step may do to the stack.                                        *)
(***************************************************************************)
\* The last function returns, with what it has left to do.
Returned ==
    /\ stack # <<>>
    /\ stack' = Front(stack)
    /\ Running("task_start") => EndStart
    /\ \A t \in Tasks :
          /\ Last(stack) = TaskFrame("task_run_builtin", t) => EndBuiltin(t)
          /\ Last(stack) = TaskFrame("task_run_command", t) => EndRun(t)
    /\ \A p \in Pids :
          Last(stack) = PidFrame("remove_piddata", p) => RemovePidData(p)

\* One function is called that has something left to do ...
CalledOne(f) ==
    /\ stack' = Append(stack, f)
    /\ \/ f = Frame("task_start") /\ UserInput
       \/ f = Frame("g_unix_dispatch_reapers")
       \/ \E t \in Commands \cap Fresh :
             /\ f = TaskFrame("task_run_command", t)
             /\ t \in created'
             /\ UserInput
       \/ \E t \in Builtins :
             f = TaskFrame("task_run_builtin", t) /\ StartBuiltin(t)
       \/ \E p \in Pids, t \in Tasks, s \in AtMostOne(Commands \cap Fresh) :
             f = PidFrame("remove_piddata", p) /\ WaitExited(p, t, s)

\* ... or one, and another by it.
CalledTwo(f, g) ==
    /\ stack' = Append(Append(stack, f), g)
    /\ \/ \E t \in Builtins, c \in Commands \cap Fresh :
             /\ f = TaskFrame("task_run_builtin", t)
             /\ g = TaskFrame("task_run_command", c)
             /\ c \in created'
             /\ StartBuiltin(t)
       \/ \E p \in Pids, t \in Tasks, s \in AtMostOne(Commands \cap Fresh) :
             /\ f = PidFrame("remove_piddata", p)
             /\ g = Frame("task_start")
             /\ WaitExited(p, t, s)
             /\ enqueued[t]

StackStep ==
    \/ UNCHANGED stack
    \/ Returned
    \/ \E f \in Frames : CalledOne(f)
    \/ \E f, g \in Frames : CalledTwo(f, g)

LEMMA FrameFields ==
    /\ \A f : Frame(f).fn = f /\ Frame(f).task = NoTask
    /\ \A f, t : TaskFrame(f, t).fn = f /\ TaskFrame(f, t).task = t
    /\ \A f, p : /\ PidFrame(f, p).fn = f
                 /\ PidFrame(f, p).task = NoTask
                 /\ PidFrame(f, p).pid = p
  BY DEF Frame, TaskFrame, PidFrame

LEMMA BuiltinStarts ==
    ASSUME NEW t, StartBuiltin(t)
    PROVE  /\ Running("task_start")
           /\ t \in Builtins
           /\ task_all # <<>>
           /\ t = Head(task_all)
           /\ task_current = NoTask
           /\ working'
  BY DEF StartBuiltin, StartsNext

LEMMA TwoPushed ==
    ASSUME TypeOK, NEW f \in Frames, NEW g \in Frames
    PROVE  /\ stack \o <<f>> \o <<g>> = Append(Append(stack, f), g)
           /\ stack \o <<f>> \o <<>> = Append(stack, f)
           /\ stack \o <<f>> = Append(stack, f)
<1>1. stack \in Seq(Frames) /\ Append(stack, f) \in Seq(Frames)
  BY DEF TypeOK
<1>2. stack \o <<f>> = Append(stack, f)
  BY <1>1, AppendIsConcat
<1>3. Append(stack, f) \o <<g>> = Append(Append(stack, f), g)
  BY <1>1, AppendIsConcat
<1>4. Append(stack, f) \o <<>> = Append(stack, f)
  BY <1>1, ConcatEmptySeq
<1>5. QED
  BY <1>2, <1>3, <1>4

\* change_directory_start() up to where it waits, if it does.
LEMMA BuiltinCalls ==
    ASSUME TypeOK, NEW t \in Tasks, StartBuiltin(t)
    PROVE  \/ CalledOne(TaskFrame("task_run_builtin", t))
           \/ \E g \in Frames : CalledTwo(TaskFrame("task_run_builtin", t), g)
<1> DEFINE f == TaskFrame("task_run_builtin", t)
<1>1. t \in Builtins /\ f \in Frames
  BY FramesType, BuiltinStarts
<1>2. ASSUME stack' = Append(stack, f)
      PROVE  CalledOne(f)
  BY <1>1, <1>2 DEF CalledOne
<1>3. ASSUME NEW s, NEW c \in Fresh, ListTargetsForeground(t, s, c)
      PROVE  CalledOne(f) \/ \E g \in Frames : CalledTwo(f, g)
  <2> DEFINE g == TaskFrame("task_run_command", c)
  <2>1. c \in Commands \cap Fresh /\ c \in created' /\ g \in Frames
    BY <1>3, FramesType DEF ListTargetsForeground, Tasks
  <2>2. stack' = stack \o <<f>> \o (IF pid'[c] # NoPid THEN <<g>> ELSE <<>>)
    BY <1>3 DEF ListTargetsForeground
  <2> HIDE DEF f, g
  <2>3. CASE pid'[c] # NoPid
    <3>1. stack' = Append(Append(stack, f), g)
      BY <1>1, <2>1, <2>2, <2>3, TwoPushed
    <3>2. CalledTwo(f, g)
      BY <1>1, <2>1, <3>1 DEF CalledTwo, f, g
    <3>3. QED
      BY <2>1, <3>2
  <2>4. CASE pid'[c] = NoPid
    BY <1>1, <1>2, <2>1, <2>2, <2>4, TwoPushed
  <2>5. QED
    BY <2>3, <2>4
<1>4. QED
  BY <1>2, <1>3 DEF StartBuiltin, NoTargets, AbortQueue

LEMMA EveryStackStep ==
    ASSUME TypeOK, [Next]_vars
    PROVE  StackStep
<1>1. ASSUME NEW t \in Tasks, StartBuiltin(t)
      PROVE  StackStep
  BY <1>1, BuiltinCalls, FramesType DEF StackStep
<1>2. ASSUME NEW p \in Pids, NEW t \in Tasks,
             NEW s \in AtMostOne(Commands \cap Fresh), WaitExited(p, t, s)
      PROVE  StackStep
  <2> DEFINE f == PidFrame("remove_piddata", p)
             g == Frame("task_start")
  <2>1. /\ f \in Frames /\ g \in Frames
        /\ stack' = stack \o <<f>> \o (IF enqueued[t] THEN <<g>> ELSE <<>>)
    BY <1>2, FramesType DEF WaitExited
  <2> HIDE DEF f, g
  <2>2. CASE enqueued[t]
    <3>1. stack' = Append(Append(stack, f), g)
      BY <2>1, <2>2, TwoPushed
    <3>2. CalledTwo(f, g)
      BY <1>2, <2>2, <3>1 DEF CalledTwo, f, g
    <3>3. QED
      BY <2>1, <3>2 DEF StackStep
  <2>3. CASE ~ enqueued[t]
    <3>1. stack' = Append(stack, f)
      BY <2>1, <2>3, TwoPushed
    <3>2. CalledOne(f)
      BY <1>2, <3>1 DEF CalledOne, f
    <3>3. QED
      BY <2>1, <3>2 DEF StackStep
  <2>4. QED
    BY <2>2, <2>3
<1>3. ASSUME stack # <<>>, stack' = Front(stack),
             \/ EndStart
             \/ EndDispatch /\ Running("g_unix_dispatch_reapers")
             \/ \E t \in Tasks :
                   \/ EndBuiltin(t) /\ Last(stack) = TaskFrame("task_run_builtin", t)
                   \/ EndRun(t) /\ Last(stack) = TaskFrame("task_run_command", t)
             \/ \E p \in Pids :
                   /\ RemovePidData(p)
                   /\ Last(stack) = PidFrame("remove_piddata", p)
      PROVE  StackStep
  <2>1. CASE EndStart
    <3>1. Last(stack).fn = "task_start"
      BY <2>1 DEF EndStart, Running
    <3>2. QED
      BY <1>3, <2>1, <3>1, FrameFields DEF StackStep, Returned
  <2>2. CASE EndDispatch /\ Last(stack).fn = "g_unix_dispatch_reapers"
    BY <1>3, <2>2, FrameFields DEF StackStep, Returned, Running
  <2>3. ASSUME NEW t \in Tasks,
               \/ EndBuiltin(t) /\ Last(stack) = TaskFrame("task_run_builtin", t)
               \/ EndRun(t) /\ Last(stack) = TaskFrame("task_run_command", t)
        PROVE  StackStep
    BY <1>3, <2>3, FrameFields DEF StackStep, Returned, Running
  <2>4. ASSUME NEW p \in Pids, RemovePidData(p),
               Last(stack) = PidFrame("remove_piddata", p)
        PROVE  StackStep
    BY <1>3, <2>4, FrameFields DEF StackStep, Returned, Running
  <2>5. QED
    BY <1>3, <2>1, <2>2, <2>3, <2>4 DEF Running
<1>4. CASE EndStart \/ EndDispatch \/ \E t \in Tasks : EndBuiltin(t) \/ EndRun(t)
  BY <1>3, <1>4 DEF EndStart, EndDispatch, EndBuiltin, EndRun, Running
<1>5. ASSUME NEW p \in Pids, RemovePidData(p)
      PROVE  StackStep
  BY <1>3, <1>5 DEF RemovePidData
<1>6. CASE Dispatch
  BY <1>6, FramesType DEF Dispatch, StackStep, CalledOne
<1>7. ASSUME NEW s \in Batches, Build(s)
      PROVE  StackStep
  BY <1>7, FramesType DEF Build, StackStep, CalledOne
<1>8. ASSUME NEW t \in Commands, Run(t)
      PROVE  StackStep
  <2>1. TaskFrame("task_run_command", t) \in Frames
    BY FramesType DEF Tasks
  <2>2. t \in Commands \cap Fresh /\ t \in created' /\ UserInput
    BY <1>8 DEF Run
  <2>3. CASE pid'[t] # NoPid
    <3>1. CalledOne(TaskFrame("task_run_command", t))
      BY <1>8, <2>2, <2>3 DEF Run, CalledOne
    <3>2. QED
      BY <2>1, <3>1 DEF StackStep
  <2>4. CASE pid'[t] = NoPid
    BY <1>8, <2>4 DEF Run, StackStep
  <2>5. QED
    BY <2>3, <2>4
<1>9. ASSUME NEW t \in Tasks, \/ StartCommand(t) \/ MakeMakefile(t) \/ Spawn(t)
      PROVE  StackStep
  BY <1>9 DEF StartCommand, MakeMakefile, Spawn, StackStep
<1>10. ASSUME NEW p \in Pids,
              WaitStopped(p) \/ WaitUnknown(p) \/ ChildExit(p)
       PROVE  StackStep
  BY <1>10 DEF WaitStopped, WaitUnknown, ChildExit, StackStep
<1>11. CASE \/ g_unix_signal_handler \/ Stop \/ Pause \/ Resume
            \/ UNCHANGED vars
  BY <1>11
  DEF g_unix_signal_handler, Stop, Pause, Resume, vars, StackStep
<1>12. QED
  BY <1>1, <1>2, <1>4, <1>5, <1>6, <1>7, <1>8, <1>9, <1>10, <1>11
  DEF Next, Program, Kernel, User, Tasks

\* The functions below the last one stay where they are.
LEMMA StackBelow ==
    ASSUME TypeOK, StackStep
    PROVE  /\ stack' \in Seq(Frames)
           /\ \A i \in 1..Len(stack) - 1 :
                 i \in DOMAIN stack' /\ stack'[i] = stack[i]
           /\ \/ Len(stack) \in DOMAIN stack' => stack'[Len(stack)] = Last(stack)
              \/ stack = <<>>
           /\ \/ Returned /\ Len(stack') = Len(stack) - 1
              \/ Len(stack') = Len(stack)
              \/ \E f \in Frames : /\ CalledOne(f)
                                   /\ Len(stack') = Len(stack) + 1
                                   /\ stack'[Len(stack) + 1] = f
              \/ \E f, g \in Frames : /\ CalledTwo(f, g)
                                      /\ Len(stack') = Len(stack) + 2
                                      /\ stack'[Len(stack) + 1] = f
                                      /\ stack'[Len(stack) + 2] = g
<1>0. stack \in Seq(Frames)
  BY DEF TypeOK
<1>1. CASE UNCHANGED stack
  BY <1>0, <1>1 DEF Last
<1>2. CASE Returned
  BY <1>0, <1>2, FrontProperties DEF Returned
<1>3. ASSUME NEW f \in Frames, CalledOne(f)
      PROVE  /\ stack' = Append(stack, f)
             /\ stack' \in Seq(Frames)
             /\ Len(stack') = Len(stack) + 1
             /\ \A i \in 1..Len(stack) : stack'[i] = stack[i]
             /\ stack'[Len(stack) + 1] = f
  BY <1>0, <1>3 DEF CalledOne
<1>4. ASSUME NEW f \in Frames, NEW g \in Frames, CalledTwo(f, g)
      PROVE  /\ stack' \in Seq(Frames)
             /\ Len(stack') = Len(stack) + 2
             /\ \A i \in 1..Len(stack) : stack'[i] = stack[i]
             /\ stack'[Len(stack) + 1] = f
             /\ stack'[Len(stack) + 2] = g
  BY <1>0, <1>4 DEF CalledTwo
<1>5. CASE \E f \in Frames : CalledOne(f)
  BY <1>0, <1>3, <1>5 DEF Last
<1>6. CASE \E f, g \in Frames : CalledTwo(f, g)
  BY <1>0, <1>4, <1>6 DEF Last
<1>7. QED
  BY <1>1, <1>2, <1>5, <1>6 DEF StackStep

LEMMA FrameBefore ==
    ASSUME TypeOK, StackStep, NEW i \in DOMAIN stack
    PROVE  \/ i \in DOMAIN stack' /\ stack'[i] = stack[i]
           \/ i = Len(stack) /\ Returned /\ Len(stack') = Len(stack) - 1
<1>1. stack \in Seq(Frames) /\ stack' \in Seq(Frames)
  BY StackBelow DEF TypeOK
<1>2. CASE i # Len(stack)
  BY <1>1, <1>2, StackBelow
<1>3. CASE i = Len(stack)
  BY <1>1, <1>3, StackBelow DEF Last
<1>4. QED
  BY <1>2, <1>3

LEMMA FrameAfter ==
    ASSUME TypeOK, StackStep, NEW i \in DOMAIN stack'
    PROVE  \/ i \in DOMAIN stack /\ stack'[i] = stack[i]
           \/ \E f \in Frames : /\ CalledOne(f)
                               /\ Len(stack') = Len(stack) + 1
                               /\ i = Len(stack) + 1 /\ stack'[i] = f
           \/ \E f, g \in Frames : /\ CalledTwo(f, g)
                                  /\ Len(stack') = Len(stack) + 2
                                  /\ \/ i = Len(stack) + 1 /\ stack'[i] = f
                                     \/ i = Len(stack) + 2 /\ stack'[i] = g
<1>1. stack \in Seq(Frames) /\ stack' \in Seq(Frames)
  BY StackBelow DEF TypeOK
<1>2. CASE i \in DOMAIN stack
  BY <1>1, <1>2, StackBelow DEF Last
<1>3. CASE i \notin DOMAIN stack
  <2>1. i > Len(stack) /\ i <= Len(stack')
    BY <1>1, <1>3
  <2>2. QED
    BY <1>1, <2>1, StackBelow
<1>4. QED
  BY <1>2, <1>3

LEMMA TwoCalled ==
    ASSUME TypeOK, NEW f \in Frames, NEW g \in Frames, CalledTwo(f, g)
    PROVE  stack'[Len(stack) + 1] = f /\ stack'[Len(stack) + 2] = g
<1>1. stack \in Seq(Frames) /\ stack' = Append(Append(stack, f), g)
  BY DEF TypeOK, CalledTwo
<1>2. QED
  BY <1>1

-----------------------------------------------------------------------------
(***************************************************************************)
(* A queue is not left unserved.                                           *)
(***************************************************************************)
\* A start operation has been called by a task_start() that is waiting for it.
StartBelow ==
    \A i \in DOMAIN stack : stack[i].fn = "task_run_builtin" =>
        \E j \in 1..i - 1 : stack[j].fn = "task_start"

\* A head that is running has had the work announced.
HeadWorking == task_all # <<>> /\ pid[Head(task_all)] # NoPid => working

LEMMA StepStartBelow ==
    ASSUME TypeOK, StartBelow, [Next]_vars
    PROVE  StartBelow'
<1> SUFFICES ASSUME NEW i \in DOMAIN stack', stack'[i].fn = "task_run_builtin"
             PROVE  \E j \in 1..i - 1 : stack'[j].fn = "task_start"
  BY DEF StartBelow
<1>0. stack \in Seq(Frames) /\ StackStep
  BY EveryStackStep DEF TypeOK
<1>1. CASE i <= Len(stack)
  <2>1. i \in DOMAIN stack
    BY <1>0, <1>1, StackBelow
  <2>2. stack'[i] = stack[i]
    BY <1>0, <2>1, StackBelow DEF Last
  <2>3. PICK j \in 1..i - 1 : stack[j].fn = "task_start"
    BY <2>1, <2>2 DEF StartBelow
  <2>4. stack'[j] = stack[j]
    BY <1>0, <2>1, StackBelow
  <2>5. QED
    BY <2>3, <2>4
<1>2. CASE i > Len(stack)
  <2>1. Running("task_start") /\ i = Len(stack) + 1
    <3>1. ASSUME NEW f \in Frames, CalledOne(f),
                 Len(stack') = Len(stack) + 1, stack'[Len(stack) + 1] = f
          PROVE  Running("task_start") /\ i = Len(stack) + 1
      <4>1. i = Len(stack) + 1
        BY <1>0, <1>2, <3>1, StackBelow
      <4>2. f.fn = "task_run_builtin"
        BY <3>1, <4>1
      <4>3. QED
        BY <3>1, <4>1, <4>2, BuiltinStarts, FrameFields DEF CalledOne
    <3>2. ASSUME NEW f \in Frames, NEW g \in Frames, CalledTwo(f, g),
                 Len(stack') = Len(stack) + 2,
                 stack'[Len(stack) + 1] = f, stack'[Len(stack) + 2] = g
          PROVE  Running("task_start") /\ i = Len(stack) + 1
      <4>1. g.fn # "task_run_builtin"
        BY <3>2, FrameFields DEF CalledTwo
      <4>2. i = Len(stack) + 1
        BY <1>0, <1>2, <3>2, <4>1, StackBelow
      <4>3. f.fn = "task_run_builtin"
        BY <3>2, <4>2
      <4>4. QED
        BY <3>2, <4>2, <4>3, BuiltinStarts, FrameFields DEF CalledTwo
    <3>3. QED
      BY <1>0, <1>2, <3>1, <3>2, StackBelow
  <2>2. Len(stack) \in 1..i - 1 /\ Len(stack) \in DOMAIN stack'
    BY <1>0, <2>1, StackBelow, EmptySeq DEF Running
  <2>3. stack'[Len(stack)].fn = "task_start"
    BY <1>0, <2>1, <2>2, StackBelow DEF Running
  <2>4. QED
    BY <2>2, <2>3
<1>3. QED
  BY <1>0, <1>1, <1>2, StackBelow

LEMMA AlwaysStartBelow == Spec => []StartBelow
<1>1. Init => StartBelow
  BY DEF Init, StartBelow
<1>2. QED
  BY <1>1, TypeCorrect, StepStartBelow, PTL DEF Spec

\* task_start() stays on the stack until its loop ends.
LEMMA StartKept ==
    ASSUME TypeOK, [Next]_vars, OnStack("task_start")
    PROVE  EndStart \/ OnStack("task_start")'
<1>0. stack \in Seq(Frames) /\ StackStep
  BY EveryStackStep DEF TypeOK
<1>1. PICK i \in DOMAIN stack : stack[i].fn = "task_start"
  BY DEF OnStack
<1>2. CASE Returned /\ ~ EndStart
  <2>1. Last(stack).fn # "task_start"
    BY <1>2 DEF Returned, Running
  <2>2. i \in 1..Len(stack) - 1
    BY <1>0, <1>1, <2>1 DEF Last
  <2>3. i \in DOMAIN stack' /\ stack'[i] = stack[i]
    BY <1>0, <2>2, StackBelow
  <2>4. QED
    BY <1>1, <2>3 DEF OnStack
<1>3. CASE ~ Returned
  <2>1. Len(stack') >= Len(stack)
    BY <1>0, <1>3, StackBelow
  <2>2. i \in DOMAIN stack'
    BY <1>0, <2>1, StackBelow
  <2>3. stack'[i] = stack[i]
    BY <1>0, <2>2, StackBelow DEF Last
  <2>4. QED
    BY <1>1, <2>2, <2>3 DEF OnStack
<1>4. QED
  BY <1>2, <1>3

\* A step that calls task_start() leaves it on the stack.
LEMMA StartCalled ==
    ASSUME TypeOK, NEW q \in Seq(Frames), NEW f \in Frames, f.fn = "task_start",
           stack' = Append(q, f)
    PROVE  OnStack("task_start")'
<1>1. Len(q) + 1 \in DOMAIN stack' /\ stack'[Len(q) + 1] = f
  OBVIOUS
<1>2. QED
  BY <1>1 DEF OnStack

\* In the queue only the head has a process.
LEMMA OnlyHeadRuns ==
    ASSUME TypeOK, QueueDiscipline, NEW t, On(task_all, t), pid[t] # NoPid
    PROVE  task_all # <<>> /\ t = Head(task_all)
<1>1. PICK i \in DOMAIN task_all : task_all[i] = t
  BY DEF On
<1>2. i = 1
  BY <1>1 DEF QueueDiscipline, TypeOK
<1>3. QED
  BY <1>1, <1>2, EmptySeq DEF TypeOK

\* Whatever is running in the queue after a step was running in it before.
LEMMA HeadStaysWorking ==
    ASSUME TypeOK, QueueDiscipline, HeadWorking, task_all' \in Seq(Tasks),
           working' = working,
           \A t \in Tasks : On(task_all', t) /\ pid'[t] # NoPid =>
               On(task_all, t) /\ pid[t] # NoPid
    PROVE  HeadWorking'
<1> SUFFICES ASSUME task_all' # <<>>, pid'[Head(task_all')] # NoPid
             PROVE  working'
  BY DEF HeadWorking
<1> DEFINE t == Head(task_all')
<1>1. t \in Tasks /\ On(task_all', t)
  BY HeadOn
<1>2. On(task_all, t) /\ pid[t] # NoPid
  BY <1>1
<1>3. task_all # <<>> /\ t = Head(task_all)
  BY <1>2, OnlyHeadRuns
<1>4. QED
  BY <1>2, <1>3 DEF HeadWorking

\* A step that does not concern the queue.
LEMMA ServedElsewhere ==
    ASSUME TypeOK, HeadWorking, QueueServed, UNCHANGED <<task_all, working>>,
           \A t \in Tasks : On(task_all, t) => pid'[t] = pid[t],
           OnStack("task_start") => OnStack("task_start")'
    PROVE  HeadWorking' /\ QueueServed'
<1>1. task_all # <<>> => /\ Head(task_all) \in Tasks
                         /\ pid'[Head(task_all)] = pid[Head(task_all)]
  BY HeadOn DEF TypeOK
<1>2. (task_current # NoTask)' <=> task_current # NoTask
  BY <1>1 DEF task_current
<1>3. HeadWorking'
  BY <1>1 DEF HeadWorking
<1>4. QueueServed'
  BY <1>2 DEF QueueServed
<1>5. QED
  BY <1>3, <1>4

LEMMA LastFrame ==
    ASSUME TypeOK, stack # <<>>
    PROVE  Len(stack) \in DOMAIN stack /\ stack[Len(stack)] = Last(stack)
<1>1. stack \in Seq(Frames)
  BY DEF TypeOK
<1>2. QED
  BY <1>1, EmptySeq DEF Last

LEMMA RunningOnStack ==
    ASSUME TypeOK, NEW f, Running(f)
    PROVE  OnStack(f)
  BY LastFrame DEF Running, OnStack

LEMMA BuiltinInStart ==
    ASSUME TypeOK, StartBelow, stack # <<>>, Last(stack).fn = "task_run_builtin"
    PROVE  OnStack("task_start")
<1>1. PICK j \in 1..Len(stack) - 1 : stack[j].fn = "task_start"
  BY LastFrame DEF StartBelow
<1>2. j \in DOMAIN stack
  BY <1>1 DEF TypeOK
<1>3. QED
  BY <1>1, <1>2 DEF OnStack

\* What is enqueued has no process yet.
LEMMA EnqueueKeepsWorking ==
    ASSUME TypeOK, CreatedFirst, QueueDiscipline, HeadWorking,
           working' = working, NEW q \in Seq(Tasks), NEW s \in Seq(Fresh),
           \A x : On(q, x) => On(task_all, x),
           task_all' = q \o s,
           \A t \in Tasks : pid'[t] # NoPid => pid[t] # NoPid
    PROVE  HeadWorking'
<1>1. s \in Seq(Tasks) /\ task_all' \in Seq(Tasks)
  BY SeqMonotonic DEF Fresh
<1>2. \A t \in Tasks : On(s, t) => t \notin created
  BY DEF On, Fresh
<1>3. ASSUME NEW t \in Tasks, On(task_all', t), pid'[t] # NoPid
      PROVE  On(task_all, t) /\ pid[t] # NoPid
  <2>1. pid[t] # NoPid /\ t \in created
    BY <1>3 DEF CreatedFirst
  <2>2. On(q, t) \/ On(s, t)
    BY <1>1, <1>3, OnConcat
  <2>3. QED
    BY <1>2, <2>1, <2>2
<1>4. QED
  BY <1>1, <1>3, HeadStaysWorking

LEMMA ExitServed ==
    ASSUME TypeOK, CreatedFirst, QueueDiscipline, HeadWorking, QueueServed,
           OnStack("task_start") => OnStack("task_start")',
           NEW p \in Pids, NEW t \in Tasks,
           NEW s \in AtMostOne(Commands \cap Fresh), WaitExited(p, t, s)
    PROVE  HeadWorking' /\ QueueServed'
<1>1. /\ s \in Seq(Fresh)
      /\ Removed(task_all, t) \in Seq(Tasks)
      /\ \A x : On(Removed(task_all, t), x) => On(task_all, x)
  BY AtMostOneType, SeqMonotonic, RemovedType, OnRemoved DEF TypeOK
<1>2. /\ task_all' = Removed(task_all, t) \o s
      /\ working' = working
      /\ pid' = [pid EXCEPT ![t] = NoPid]
  BY DEF WaitExited
<1>3. HeadWorking'
  <2>1. \A u \in Tasks : pid'[u] # NoPid => pid[u] # NoPid
    BY <1>2 DEF TypeOK
  <2>2. QED
    BY <1>1, <1>2, <2>1, EnqueueKeepsWorking
<1>4. CASE enqueued[t]
  <2> DEFINE f == PidFrame("remove_piddata", p)
             g == Frame("task_start")
  <2>1. /\ f \in Frames /\ g \in Frames /\ g.fn = "task_start"
        /\ stack' = stack \o <<f>> \o <<g>>
    BY <1>4, FramesType DEF WaitExited, Frame
  <2> HIDE DEF f, g
  <2>2. stack' = Append(Append(stack, f), g) /\ Append(stack, f) \in Seq(Frames)
    BY <2>1, TwoPushed, CallType
  <2>3. OnStack("task_start")'
    BY <2>1, <2>2, StartCalled
  <2>4. QED
    BY <1>3, <2>3 DEF QueueServed
<1>5. CASE ~ enqueued[t]
  <2>1. ~ Contains(task_all, t) /\ s = <<>>
    BY <1>5 DEF QueueDiscipline, WaitExited
  <2>2. task_all' = task_all
    BY <1>2, <2>1, ConcatEmptySeq DEF Removed, TypeOK
  <2>3. \A u \in Tasks : On(task_all, u) => pid'[u] = pid[u]
    BY <1>2, <2>1, ContainsIsOn DEF TypeOK
  <2>4. QED
    BY <1>2, <2>2, <2>3, ServedElsewhere
<1>6. QED
  BY <1>4, <1>5

LEMMA StepServed ==
    ASSUME "no makefile" \notin Circumstances,
           TypeOK, CreatedFirst, QueueDiscipline, StartBelow, HeadWorking,
           QueueServed, [Next]_vars
    PROVE  HeadWorking' /\ QueueServed'
<1> DEFINE Goal == HeadWorking' /\ QueueServed'
<1>1. CASE EndStart
  <2>1. UNCHANGED <<pid, task_all>> /\ working' = (working /\ task_all # <<>>)
    BY <1>1 DEF EndStart, taskVars
  <2>2. task_all # <<>> => task_current # NoTask /\ pid[Head(task_all)] # NoPid
    BY <1>1 DEF EndStart, task_current
  <2>3. (task_current # NoTask)' <=> task_current # NoTask
    BY <2>1 DEF task_current
  <2>4. working' = (task_all # <<>>)
    BY <2>1, <2>2 DEF HeadWorking
  <2>5. QED
    BY <2>1, <2>2, <2>3, <2>4 DEF HeadWorking, QueueServed
<1>2. ASSUME ~ EndStart
      PROVE  Goal
  <2>1. OnStack("task_start") => OnStack("task_start")'
    BY <1>2, StartKept
  <2>2. ASSUME OnStack("task_start"), working'
        PROVE  Goal
    BY <2>1, <2>2 DEF HeadWorking, QueueServed
  <2>3. ASSUME UNCHANGED <<task_all, working>>,
               \A t \in Tasks : On(task_all, t) => pid'[t] = pid[t]
        PROVE  Goal
    BY <2>1, <2>3, ServedElsewhere
  <2>4. ASSUME NEW t \in Tasks, StartCommand(t) \/ StartBuiltin(t)
        PROVE  Goal
    <3>1. Running("task_start") /\ working'
      BY <2>4 DEF StartCommand, StartBuiltin, StartsNext
    <3>2. OnStack("task_start")
      BY <3>1, RunningOnStack
    <3>3. QED
      BY <2>2, <3>1, <3>2
  <2>5. ASSUME NEW t \in Tasks, EndBuiltin(t)
        PROVE  Goal
    <3>1. OnStack("task_start")
      <4>1. stack # <<>> /\ Last(stack) = TaskFrame("task_run_builtin", t)
        BY <2>5 DEF EndBuiltin
      <4>2. Last(stack).fn = "task_run_builtin"
        BY <4>1, FrameFields
      <4>3. QED
        BY <4>1, <4>2, BuiltinInStart
    <3>2. /\ UNCHANGED <<pid, working>>
          /\ task_all' = Removed(task_all, t)
      BY <2>5 DEF EndBuiltin, task_dequeue
    <3>3. HeadWorking'
      <4>1. /\ Removed(task_all, t) \in Seq(Tasks)
            /\ \A u : On(Removed(task_all, t), u) => On(task_all, u)
        BY RemovedType, OnRemoved DEF TypeOK
      <4>2. QED
        BY <3>2, <4>1, HeadStaysWorking
    <3>4. QED
      BY <2>1, <3>1, <3>3 DEF QueueServed
  <2>6. ASSUME NEW p \in Pids, NEW t \in Tasks,
               NEW s \in AtMostOne(Commands \cap Fresh), WaitExited(p, t, s)
        PROVE  Goal
    BY <2>1, <2>6, ExitServed
  <2>7. ASSUME NEW s \in Batches, Build(s)
        PROVE  Goal
    <3>1. HeadWorking'
      <4>1. /\ s \in Seq(Fresh)
            /\ task_all' = task_all \o s
            /\ UNCHANGED <<pid, working>>
        BY <2>7, BatchesType DEF Build, Queued
      <4>2. QED
        BY <4>1, EnqueueKeepsWorking DEF TypeOK
    <3>2. OnStack("task_start")'
      <4>1. Frame("task_start").fn = "task_start"
        BY DEF Frame
      <4>2. stack' = Append(stack, Frame("task_start"))
        BY <2>7 DEF Build
      <4>3. QED
        BY <4>1, <4>2, FramesType, StartCalled DEF TypeOK
    <3>3. QED
      BY <3>1, <3>2 DEF QueueServed
  <2>8. ASSUME NEW t \in Commands, Spawn(t) \/ Run(t)
        PROVE  Goal
    <3>1. /\ UNCHANGED <<task_all, working>>
          /\ task_spawn(t)
          /\ t \in Tasks \ created
      BY <2>8 DEF Spawn, Run, Fresh, Tasks
    <3>2. \A u \in Tasks : u # t => pid'[u] = pid[u]
      BY <3>1 DEF task_spawn, Fork, NoFork, TypeOK
    <3>3. QED
      BY <2>3, <3>1, <3>2 DEF CreatedFirst
  <2>9. ASSUME NEW t \in Commands, MakeMakefile(t)
        PROVE  Goal
    BY <2>9 DEF MakeMakefile
  <2>10. ASSUME \/ Dispatch \/ EndDispatch \/ g_unix_signal_handler
                \/ Stop \/ Pause \/ Resume \/ UNCHANGED vars
                \/ \E t \in Tasks : EndRun(t)
                \/ \E p \in Pids : \/ WaitStopped(p) \/ WaitUnknown(p)
                                   \/ RemovePidData(p) \/ ChildExit(p)
         PROVE  Goal
    <3>1. UNCHANGED <<task_all, working, pid>>
      BY <2>10
      DEF Dispatch, EndDispatch, g_unix_signal_handler, Stop, Pause, Resume,
          EndRun, WaitStopped, WaitUnknown, RemovePidData, ChildExit,
          taskVars, vars
    <3>2. QED
      BY <2>3, <3>1
  <2>11. QED
    BY <1>2, <2>4, <2>5, <2>6, <2>7, <2>8, <2>9, <2>10
    DEF Next, Program, Kernel, User
<1>3. QED
  BY <1>1, <1>2

\* Where every directory has a makefile, a queue that is not empty has its
\* head running whenever task_start() has nothing left to do, and the work
\* callbacks bracket exactly that time: whatever fork(), chdir(), the kernel's
\* pids and the user do.  (task_start, task_reap_func, task_run_builtin)
\* Where one has none, list_targets() enqueues and nobody calls task_start().
THEOREM QueueAlwaysServed ==
    ASSUME "no makefile" \notin Circumstances
    PROVE  Spec => []QueueServed
<1>1. Init => HeadWorking /\ QueueServed
  BY DEF Init, HeadWorking, QueueServed
<1>2. TypeOK /\ CreatedFirst /\ QueueDiscipline /\ StartBelow /\ HeadWorking
        /\ QueueServed /\ [Next]_vars => HeadWorking' /\ QueueServed'
  BY StepServed
<1>3. QED
  BY <1>1, <1>2, TypeCorrect, AlwaysCreatedFirst, QueueDisciplined,
     AlwaysStartBelow, PTL DEF Spec

-----------------------------------------------------------------------------
(***************************************************************************)
(* The functions on the stack, and the Task that the reaper tells of the   *)
(* end of a child.                                                         *)
(***************************************************************************)
Functions ==
    {Frame("task_start"), Frame("g_unix_dispatch_reapers")}
        \cup {TaskFrame("task_run_builtin", t) : t \in Builtins}
        \cup {TaskFrame("task_run_command", t) : t \in Commands}
        \cup {PidFrame("remove_piddata", p) : p \in Pids}

\* A start operation is that of a builtin, and it is a command that is run.
KnownFunctions == \A i \in DOMAIN stack : stack[i] \in Functions

LEMMA StepKnownFunctions ==
    ASSUME TypeOK, KnownFunctions, [Next]_vars
    PROVE  KnownFunctions'
<1>0. StackStep
  BY EveryStackStep
<1> SUFFICES ASSUME NEW i \in DOMAIN stack'
             PROVE  stack'[i] \in Functions
  BY DEF KnownFunctions, Functions, Frame, TaskFrame, PidFrame
<1>1. CASE i \in DOMAIN stack /\ stack'[i] = stack[i]
  BY <1>1 DEF KnownFunctions
<1>2. ASSUME NEW f \in Frames, CalledOne(f)
      PROVE  f \in Functions
  BY <1>2 DEF CalledOne, Functions
<1>3. ASSUME NEW f \in Frames, NEW g \in Frames, CalledTwo(f, g)
      PROVE  f \in Functions /\ g \in Functions
  BY <1>3 DEF CalledTwo, Functions
<1>4. QED
  BY <1>0, <1>1, <1>2, <1>3, FrameAfter

LEMMA AlwaysKnownFunctions == Spec => []KnownFunctions
<1>1. Init => KnownFunctions
  BY DEF Init, KnownFunctions
<1>2. QED
  BY <1>1, TypeCorrect, StepKnownFunctions, PTL DEF Spec

\* The Task of a registration that is not about to be dropped, or of a child
\* that has not been waited for, has that child's pid.  Unlike ChildRegistered
\* this holds even if the kernel hands out the pid again at once.
OwnerKnows ==
    \A p \in Pids :
        piddata[p] # NoTask /\ (~ Dropping(p) \/ proc[p] # "none") =>
            pid[piddata[p]] = p

\* What is about to be dropped stays so until it is dropped.
LEMMA DropsKept ==
    ASSUME TypeOK, [Next]_vars, NEW p \in Pids, Dropping(p)
    PROVE  Dropping(p)' \/ RemovePidData(p)
<1>0. StackStep /\ stack \in Seq(Frames)
  BY EveryStackStep DEF TypeOK
<1>1. PICK i \in DOMAIN stack : stack[i] = PidFrame("remove_piddata", p)
  BY DEF Dropping
<1>2. CASE i = Len(stack) /\ Returned
  BY <1>1, <1>2 DEF Returned, Last
<1>3. CASE i = Len(stack) /\ ~ Returned
  <2>1. i \in DOMAIN stack' /\ stack'[i] = stack[i]
    BY <1>0, <1>1, <1>3, StackBelow DEF Last
  <2>2. QED
    BY <1>1, <2>1 DEF Dropping
<1>4. CASE i # Len(stack)
  <2>1. i \in DOMAIN stack' /\ stack'[i] = stack[i]
    BY <1>0, <1>1, <1>4, StackBelow
  <2>2. QED
    BY <1>1, <2>1 DEF Dropping
<1>5. QED
  BY <1>2, <1>3, <1>4

LEMMA StepOwnerKnows ==
    ASSUME TypeOK, CreatedFirst, OwnerKnows, [Next]_vars
    PROVE  OwnerKnows'
<1> SUFFICES ASSUME NEW p \in Pids, piddata'[p] # NoTask,
                    ~ Dropping(p)' \/ proc'[p] # "none"
             PROVE  pid'[piddata'[p]] = p
  BY DEF OwnerKnows
<1>0. /\ pid \in [Tasks -> Pids \cup {NoPid}]
      /\ piddata \in [Pids -> Tasks \cup {NoTask}]
      /\ proc \in [Pids -> ProcStates]
  BY DEF TypeOK
<1>1. ~ Dropping(p)' => ~ Dropping(p) \/ piddata'[p] = NoTask
  BY <1>0, DropsKept DEF RemovePidData
<1>2. ASSUME piddata'[p] = piddata[p], proc'[p] # "none" => proc[p] # "none"
      PROVE  pid[piddata[p]] = p
  BY <1>1, <1>2 DEF OwnerKnows
<1>3. CASE Kept \/ \E q \in Pids : Unregistered(q) \/ Unknown(q)
  <2>1. UNCHANGED pid /\ piddata'[p] = piddata[p]
    BY <1>0, <1>3 DEF Kept, Unregistered, Unknown
  <2>2. proc'[p] # "none" => proc[p] # "none"
    BY <1>0, <1>3 DEF Kept, Unregistered, Unknown
  <2>3. QED
    BY <1>2, <2>1, <2>2
<1>4. ASSUME NEW t \in Tasks, NEW q \in Pids, Forked(t, q)
      PROVE  pid'[piddata'[p]] = p
  <2>1. CASE q = p
    BY <1>0, <1>4, <2>1 DEF Forked, Fork
  <2>2. CASE q # p
    <3>1. piddata'[p] = piddata[p] /\ proc'[p] = proc[p]
      BY <1>0, <1>4, <2>2 DEF Forked, Fork
    <3>2. pid[piddata[p]] = p
      BY <1>2, <3>1
    <3>3. piddata[p] # t /\ piddata[p] \in Tasks
      BY <1>0, <1>4, <3>1, <3>2, TaskAssumption DEF Forked
    <3>4. QED
      BY <1>0, <1>4, <3>1, <3>2, <3>3 DEF Forked, Fork
  <2>3. QED
    BY <2>1, <2>2
<1>5. ASSUME NEW t \in Tasks, NEW q \in Pids, Waited(t, q)
      PROVE  pid'[piddata'[p]] = p
  <2>1. piddata'[p] = piddata[p] /\ (proc'[p] # "none" => proc[p] # "none")
    BY <1>0, <1>5 DEF Waited
  <2>2. pid[piddata[p]] = p
    BY <1>2, <2>1
  <2>3. q # p
    BY <1>0, <1>5 DEF Waited
  <2>4. pid[t] = q
    BY <1>5, TaskAssumption DEF Waited, OwnerKnows, Tasks
  <2>5. piddata[p] # t /\ piddata[p] \in Tasks
    BY <1>0, <2>1, <2>2, <2>3, <2>4
  <2>6. QED
    BY <1>0, <1>5, <2>1, <2>2, <2>5 DEF Waited
<1>6. QED
  BY <1>3, <1>4, <1>5, EveryChildStep DEF ChildStep

LEMMA AlwaysOwnerKnows == Spec => []OwnerKnows
<1>1. Init => OwnerKnows
  BY DEF Init, OwnerKnows
<1>2. QED
  BY <1>1, TypeCorrect, AlwaysCreatedFirst, StepOwnerKnows, PTL DEF Spec

\* So when wait3() reports the end of a queued Task's command, that Task is
\* the head of the queue, and it is not a builtin.
LEMMA ExitOfHead ==
    ASSUME TypeOK, QueueDiscipline, BuiltinsUnspawned, OwnerKnows,
           NEW p \in Pids, NEW t \in Tasks, NEW s, WaitExited(p, t, s),
           enqueued[t]
    PROVE  /\ pid[t] = p
           /\ t \notin Builtins
           /\ task_all # <<>>
           /\ t = Head(task_all)
           /\ task_current = t
<1>1. pid[t] = p /\ pid[t] # NoPid
  BY TaskAssumption DEF WaitExited, OwnerKnows
<1>2. On(task_all, t)
  BY ContainsIsOn DEF QueueDiscipline, TypeOK
<1>3. task_all # <<>> /\ t = Head(task_all)
  BY <1>1, <1>2, OnlyHeadRuns
<1>4. QED
  BY <1>1, <1>3 DEF BuiltinsUnspawned, task_current

-----------------------------------------------------------------------------
(***************************************************************************)
(* While a builtin is executed nothing else of the queue is.               *)
(***************************************************************************)
\* The user does nothing while a builtin lists the targets of its directory,
\* or there are no builtins.
Unnested == Builtins = {} \/ "nested input" \notin Circumstances

\* A start operation waits for its list of targets at most, and its Task is
\* still the head of the queue if it has not aborted it.
Alone ==
    \A i \in DOMAIN stack : stack[i].fn = "task_run_builtin" =>
        /\ \A j \in DOMAIN stack : j > i =>
              stack[j].fn \in {"task_run_command", "g_unix_dispatch_reapers",
                               "remove_piddata"}
        /\ task_all # <<>> => Head(task_all) = stack[i].task

\* It is called by a function that is not one, for the head of the queue.
LEMMA BuiltinFrames ==
    ASSUME KnownFunctions, NEW i \in DOMAIN stack,
           stack[i].fn = "task_run_builtin"
    PROVE  /\ stack[i].task \in Builtins
           /\ stack[i] = TaskFrame("task_run_builtin", stack[i].task)
<1>1. stack[i] \in Functions
  BY DEF KnownFunctions
<1>2. QED
  BY <1>1, FrameFields DEF Functions

\* There is one at a time, ...
LEMMA OneBuiltin ==
    ASSUME TypeOK, Alone, NEW i \in DOMAIN stack, NEW j \in DOMAIN stack,
           stack[i].fn = "task_run_builtin", stack[j].fn = "task_run_builtin"
    PROVE  i = j
<1>1. ~ (i < j) /\ ~ (j < i)
  BY DEF Alone
<1>2. i \in Int /\ j \in Int
  BY DEF TypeOK
<1>3. QED
  BY <1>1, <1>2

\* ... and as long as there is, neither the user nor task_start() does anything.
LEMMA BuiltinWaits ==
    ASSUME Unnested, TypeOK, KnownFunctions, Alone, OnStack("task_run_builtin")
    PROVE  ~ UserInput /\ ~ Running("task_start")
<1>1. PICK i \in DOMAIN stack : stack[i].fn = "task_run_builtin"
  BY DEF OnStack
<1>2. stack # <<>>
  BY <1>1 DEF TypeOK
<1>3. "nested input" \notin Circumstances
  BY <1>1, BuiltinFrames DEF Unnested
<1>4. Last(stack).fn # "task_start"
  <2>1. /\ Len(stack) \in DOMAIN stack
        /\ stack[Len(stack)] = Last(stack)
        /\ i = Len(stack) \/ Len(stack) > i
    BY <1>1, <1>2, LastFrame DEF TypeOK
  <2>2. CASE i = Len(stack)
    BY <1>1, <2>1, <2>2
  <2>3. CASE Len(stack) > i
    BY <1>1, <2>1, <2>3 DEF Alone
  <2>4. QED
    BY <2>1, <2>2, <2>3
<1>5. QED
  BY <1>2, <1>3, <1>4 DEF UserInput, Running

\* What can happen then: the builtin's start operation returns, or neither the
\* queue nor the announcement of its work is touched.
LEMMA QuietStep ==
    ASSUME TypeOK, QueueDiscipline, BuiltinsUnspawned, OwnerKnows,
           ~ UserInput, ~ Running("task_start"),
           task_all # <<>> => Head(task_all) \in Builtins, [Next]_vars
    PROVE  /\ \A p \in Pids, t \in Tasks : \A s :
                 WaitExited(p, t, s) => ~ enqueued[t]
           /\ UNCHANGED <<task_all, working>> \/ \E t \in Tasks : EndBuiltin(t)
<1>1. \A p \in Pids, t \in Tasks : \A s : WaitExited(p, t, s) => ~ enqueued[t]
  <2> SUFFICES ASSUME NEW p \in Pids, NEW t \in Tasks, NEW s,
                      WaitExited(p, t, s), enqueued[t]
               PROVE  FALSE
    OBVIOUS
  <2>1. QED
    BY ExitOfHead
<1>2. ASSUME NEW p \in Pids, NEW t \in Tasks, NEW s, WaitExited(p, t, s)
      PROVE  UNCHANGED <<task_all, working>>
  <2>1. ~ enqueued[t]
    BY <1>1, <1>2
  <2>2. s = <<>> /\ ~ Contains(task_all, t)
    BY <1>2, <2>1 DEF QueueDiscipline, WaitExited
  <2>3. task_all' = task_all \o <<>> /\ working' = working
    BY <1>2, <2>2 DEF WaitExited, Removed
  <2>4. QED
    BY <2>3, ConcatEmptySeq DEF TypeOK
<1>3. ASSUME NEW t \in Tasks, StartCommand(t) \/ StartBuiltin(t)
      PROVE  FALSE
  BY <1>3 DEF StartCommand, StartBuiltin, StartsNext
<1>4. ASSUME NEW t \in Tasks, EndRun(t)
      PROVE  UNCHANGED <<task_all, working>>
  BY <1>4 DEF EndRun
<1>5. CASE \/ EndStart \/ Dispatch \/ EndDispatch \/ g_unix_signal_handler
           \/ Stop \/ Pause \/ Resume \/ UNCHANGED vars
  <2>1. UNCHANGED <<task_all, working>>
    BY <1>5
    DEF EndStart, Dispatch, EndDispatch, g_unix_signal_handler, Stop, Pause,
        Resume, taskVars, vars
  <2>2. QED
    BY <1>1, <2>1
<1>6. ASSUME NEW p \in Pids,
             \/ WaitStopped(p) \/ WaitUnknown(p)
             \/ RemovePidData(p) \/ ChildExit(p)
      PROVE  UNCHANGED <<task_all, working>>
  BY <1>6 DEF WaitStopped, WaitUnknown, RemovePidData, ChildExit, taskVars
<1>7. CASE User
  BY <1>7 DEF User, Build, MakeMakefile, Spawn, Run, Stop, Pause, Resume
<1>8. QED
  BY <1>1, <1>2, <1>3, <1>4, <1>5, <1>6, <1>7 DEF Next, Program, Kernel

\* What a builtin enqueues is put behind it.
LEMMA StartHead ==
    ASSUME TypeOK, NEW t, StartBuiltin(t)
    PROVE  task_all' # <<>> => Head(task_all') = t
<1>1. task_all # <<>> /\ t = Head(task_all)
  BY BuiltinStarts
<1>2. \/ task_all' = <<>>
      \/ \E s \in AtMostOne(Commands \cap Fresh) : task_all' = task_all \o s
  BY DEF StartBuiltin, NoTargets, ListTargetsForeground, AbortQueue, Queued
<1>3. ASSUME NEW s \in AtMostOne(Commands \cap Fresh), task_all' = task_all \o s
      PROVE  Head(task_all') = t
  <2>1. task_all \in Seq(Tasks) /\ s \in Seq(Tasks)
    BY AtMostOneType, SeqMonotonic DEF Fresh, TypeOK
  <2>2. QED
    BY <1>1, <1>3, <2>1, HeadConcat
<1>4. QED
  BY <1>2, <1>3

LEMMA StepAlone ==
    ASSUME Unnested, TypeOK, QueueDiscipline, KnownFunctions,
           BuiltinsUnspawned, OwnerKnows, Alone, [Next]_vars
    PROVE  Alone'
<1> DEFINE Waits == {"task_run_command", "g_unix_dispatch_reapers",
                     "remove_piddata"}
<1> SUFFICES ASSUME NEW i \in DOMAIN stack', stack'[i].fn = "task_run_builtin"
             PROVE  /\ \A j \in DOMAIN stack' : j > i => stack'[j].fn \in Waits
                    /\ task_all' # <<>> => Head(task_all') = stack'[i].task
  BY DEF Alone
<1>0. StackStep /\ stack \in Seq(Frames) /\ stack' \in Seq(Frames)
  BY EveryStackStep, StackBelow DEF TypeOK
<1>1. CASE i \in DOMAIN stack /\ stack'[i] = stack[i]
  <2>1. stack[i].fn = "task_run_builtin" /\ OnStack("task_run_builtin")
    BY <1>1 DEF OnStack
  <2>2. ~ UserInput /\ ~ Running("task_start")
    BY <2>1, BuiltinWaits
  <2>3. \A t : ~ StartBuiltin(t)
    BY <2>2, BuiltinStarts
  <2>4. task_all # <<>> => Head(task_all) \in Builtins
    BY <1>1, <2>1, BuiltinFrames DEF Alone
  <2>5. /\ \A p \in Pids, t \in Tasks : \A s : WaitExited(p, t, s) => ~ enqueued[t]
        /\ UNCHANGED task_all \/ \E t \in Tasks : EndBuiltin(t)
    BY <2>2, <2>4, QuietStep
  <2>6. ASSUME NEW j \in DOMAIN stack', j > i
        PROVE  stack'[j].fn \in Waits
    <3>1. CASE j \in DOMAIN stack /\ stack'[j] = stack[j]
      BY <1>1, <2>1, <2>6, <3>1 DEF Alone
    <3>2. ASSUME NEW f \in Frames, CalledOne(f)
          PROVE  f.fn \in Waits
      BY <2>2, <2>3, <3>2, FrameFields DEF CalledOne
    <3>3. ASSUME NEW f \in Frames, NEW g \in Frames, CalledTwo(f, g)
          PROVE  FALSE
      BY <2>3, <2>5, <3>3 DEF CalledTwo
    <3>4. QED
      BY <1>0, <3>1, <3>2, <3>3, FrameAfter
  <2>7. ~ \E t \in Tasks : EndBuiltin(t)
    <3> SUFFICES ASSUME NEW t \in Tasks, EndBuiltin(t)
                 PROVE  FALSE
      OBVIOUS
    <3>1. /\ stack # <<>> /\ stack' = Front(stack)
          /\ Last(stack) = TaskFrame("task_run_builtin", t)
      BY DEF EndBuiltin
    <3>2. /\ Len(stack) \in DOMAIN stack
          /\ stack[Len(stack)].fn = "task_run_builtin"
      BY <3>1, LastFrame, FrameFields
    <3>3. i = Len(stack)
      BY <1>1, <2>1, <3>2, OneBuiltin
    <3>4. Len(stack') = Len(stack) - 1
      BY <1>0, <3>1, FrontProperties
    <3>5. QED
      BY <1>0, <3>3, <3>4
  <2>8. QED
    BY <1>1, <2>1, <2>5, <2>6, <2>7 DEF Alone
<1>2. ASSUME NEW f \in Frames, CalledOne(f), Len(stack') = Len(stack) + 1,
             i = Len(stack) + 1, stack'[i] = f
      PROVE  /\ \A j \in DOMAIN stack' : j > i => stack'[j].fn \in Waits
             /\ task_all' # <<>> => Head(task_all') = stack'[i].task
  <2>1. \A j \in DOMAIN stack' : ~ (j > i)
    BY <1>0, <1>2
  <2>2. StartBuiltin(f.task)
    BY <1>2, FrameFields DEF CalledOne
  <2>3. QED
    BY <1>2, <2>1, <2>2, StartHead
<1>3. ASSUME NEW f \in Frames, NEW g \in Frames, CalledTwo(f, g),
             Len(stack') = Len(stack) + 2,
             \/ i = Len(stack) + 1 /\ stack'[i] = f
             \/ i = Len(stack) + 2 /\ stack'[i] = g
      PROVE  /\ \A j \in DOMAIN stack' : j > i => stack'[j].fn \in Waits
             /\ task_all' # <<>> => Head(task_all') = stack'[i].task
  <2>1. g.fn # "task_run_builtin"
    BY <1>3, FrameFields DEF CalledTwo
  <2>2. i = Len(stack) + 1 /\ stack'[i] = f
    BY <1>3, <2>1
  <2>3. StartBuiltin(f.task) /\ g.fn \in Waits
    BY <1>3, <2>2, FrameFields DEF CalledTwo
  <2>4. ASSUME NEW j \in DOMAIN stack', j > i
        PROVE  stack'[j].fn \in Waits
    <3>1. j = Len(stack) + 2
      BY <1>0, <1>3, <2>2, <2>4
    <3>2. stack'[j] = g
      BY <1>0, <1>3, <3>1, TwoCalled
    <3>3. QED
      BY <2>3, <3>2
  <2>5. QED
    BY <2>2, <2>3, <2>4, StartHead
<1>4. QED
  BY <1>0, <1>1, <1>2, <1>3, FrameAfter

LEMMA AlwaysAlone ==
    ASSUME Unnested
    PROVE  Spec => []Alone
<1>1. Init => Alone
  BY DEF Init, Alone
<1>2. TypeOK /\ QueueDiscipline /\ KnownFunctions /\ BuiltinsUnspawned
        /\ OwnerKnows /\ Alone /\ [Next]_vars => Alone'
  BY StepAlone
<1>3. QED
  BY <1>1, <1>2, TypeCorrect, QueueDisciplined, AlwaysKnownFunctions,
     AlwaysBuiltinsUnspawned, AlwaysOwnerKnows, PTL DEF Spec

-----------------------------------------------------------------------------
(***************************************************************************)
(* What waits in the queue: what is left of it without the Task executed.  *)
(***************************************************************************)
LEMMA RemovedAbsent ==
    ASSUME NEW S, NEW q \in Seq(S), NEW t, ~ On(q, t)
    PROVE  Removed(q, t) = q
  BY ContainsIsOn DEF Removed

LEMMA RemovedHead ==
    ASSUME NEW S, NEW q \in Seq(S), q # <<>>, IsInjective(q)
    PROVE  Removed(q, Head(q)) = Tail(q)
<1> DEFINE r == Removed(q, Head(q))
<1>1. On(q, Head(q))
  BY HeadOn
<1>2. PICK k \in DOMAIN q :
            /\ q[k] = Head(q)
            /\ Len(r) = Len(q) - 1
            /\ \A i \in 1..Len(q) - 1 : r[i] = IF i < k THEN q[i] ELSE q[i + 1]
  BY <1>1, RemovedProperties
<1>3. r \in Seq(S)
  BY RemovedType
<1> HIDE DEF r
<1>4. k = 1
  <2>1. 1 \in DOMAIN q /\ q[1] = q[k]
    BY <1>2, EmptySeq
  <2>2. QED
    BY <2>1 DEF IsInjective
<1>5. \A i \in 1..Len(q) - 1 : r[i] = q[i + 1]
  BY <1>2, <1>4
<1>6. /\ Tail(q) \in Seq(S)
      /\ Len(Tail(q)) = Len(q) - 1
      /\ \A i \in 1..Len(Tail(q)) : Tail(q)[i] = q[i + 1]
  BY HeadTailProperties
<1>7. Len(r) = Len(Tail(q)) /\ \A i \in 1..Len(r) : r[i] = Tail(q)[i]
  BY <1>2, <1>5, <1>6
<1>8. QED
  BY <1>3, <1>6, <1>7, SeqEqual DEF r

LEMMA RemovedDistinct ==
    ASSUME NEW S, NEW q \in Seq(S), IsInjective(q), NEW t
    PROVE  /\ Removed(q, t) \in Seq(S)
           /\ IsInjective(Removed(q, t))
           /\ ~ On(Removed(q, t), t)
  BY RemovedType, RemovedInjective, RemovedAbsent

LEMMA ExtendsConcat ==
    ASSUME NEW q \in Seq(Tasks), NEW s \in Seq(Tasks), IsInjective(q \o s)
    PROVE  Queue!Extends(q \o s, q)
<1>1. q \o s \in Seq(Tasks) /\ Len(q) <= Len(q \o s)
  OBVIOUS
<1>2. SubSeq(q, 1, Len(q)) = SubSeq(q \o s, 1, Len(q))
  <2>1. SubSeq(q, 1, Len(q)) = q
    BY SubSeqFull
  <2> DEFINE r == SubSeq(q \o s, 1, Len(q))
  <2>2. /\ r \in Seq(Tasks)
        /\ Len(r) = Len(q)
        /\ \A i \in 1..Len(q) : r[i] = q[i]
    BY <1>1
  <2> HIDE DEF r
  <2>3. r = q
    BY <2>2, SeqEqual
  <2>4. QED
    BY <2>1, <2>3 DEF r
<1>3. QED
  BY <1>1, <1>2 DEF Queue!Extends, Queue!IsPrefix, Queue!IsInjective, IsInjective

LEMMA ExtendsItself ==
    ASSUME NEW q \in Seq(Tasks), IsInjective(q)
    PROVE  Queue!Extends(q, q)
<1>1. q \o <<>> = q /\ <<>> \in Seq(Tasks)
  BY ConcatEmptySeq
<1>2. QED
  BY <1>1, ExtendsConcat

-----------------------------------------------------------------------------
(***************************************************************************)
(* task.c implements the queue of maketool_task.h.                         *)
(***************************************************************************)
\* The Task of the one start operation on a stack.
LEMMA ChosenBuiltin ==
    ASSUME NEW st, NEW i \in DOMAIN st, st[i].fn = "task_run_builtin",
           \A j \in DOMAIN st : st[j].fn = "task_run_builtin" => j = i
    PROVE  st[CHOOSE k \in DOMAIN st : st[k].fn = "task_run_builtin"] = st[i]
<1>1. \E k \in DOMAIN st : st[k].fn = "task_run_builtin"
  OBVIOUS
<1>2. (CHOOSE k \in DOMAIN st : st[k].fn = "task_run_builtin") = i
  BY <1>1
<1>3. QED
  BY <1>2

LEMMA OneBuiltinThen ==
    ASSUME TypeOK', Alone', NEW i \in DOMAIN stack', NEW j \in DOMAIN stack',
           stack'[i].fn = "task_run_builtin", stack'[j].fn = "task_run_builtin"
    PROVE  i = j
<1>1. ~ (i < j) /\ ~ (j < i)
  BY DEF Alone
<1>2. i \in Int /\ j \in Int
  BY DEF TypeOK
<1>3. QED
  BY <1>1, <1>2

LEMMA ExecutingBuiltin ==
    ASSUME TypeOK, Alone, NEW i \in DOMAIN stack,
           stack[i].fn = "task_run_builtin"
    PROVE  executing = stack[i].task
<1>1. OnStack("task_run_builtin")
  BY DEF OnStack
<1>2. \A j \in DOMAIN stack : stack[j].fn = "task_run_builtin" => j = i
  BY OneBuiltin
<1>3. QED
  BY <1>1, <1>2, ChosenBuiltin DEF executing

LEMMA ExecutingBuiltinThen ==
    ASSUME TypeOK', Alone', NEW i \in DOMAIN stack',
           stack'[i].fn = "task_run_builtin"
    PROVE  executing' = stack'[i].task
<1>1. OnStack("task_run_builtin")'
  BY DEF OnStack
<1>2. \A j \in DOMAIN stack' : stack'[j].fn = "task_run_builtin" => j = i
  BY OneBuiltinThen
<1> DEFINE st == stack'
<1>3. st[CHOOSE k \in DOMAIN st : st[k].fn = "task_run_builtin"] = st[i]
  <2> HIDE DEF st
  <2>1. i \in DOMAIN st /\ st[i].fn = "task_run_builtin"
    BY DEF st
  <2>2. \A j \in DOMAIN st : st[j].fn = "task_run_builtin" => j = i
    BY <1>2 DEF st
  <2>3. QED
    BY <2>1, <2>2, ChosenBuiltin
<1>4. QED
  BY <1>1, <1>3 DEF executing

\* With none on the stack the head of the queue is executed, if anything is.
LEMMA WaitingNow ==
    ASSUME TypeOK, QueueDiscipline
    PROVE  /\ task_current = NoTask => Removed(task_all, task_current) = task_all
           /\ task_current # NoTask =>
                 /\ task_all # <<>>
                 /\ task_current = Head(task_all)
                 /\ Removed(task_all, task_current) = Tail(task_all)
<1>1. task_all \in Seq(Tasks) /\ IsInjective(task_all) /\ NoTask \notin Tasks
  BY TaskAssumption DEF TypeOK, QueueDiscipline, Tasks
<1>2. Removed(task_all, NoTask) = task_all
  <2>1. ~ On(task_all, NoTask)
    BY <1>1 DEF On
  <2>2. QED
    BY <1>1, <2>1, RemovedAbsent
<1>3. task_all # <<>> => Removed(task_all, Head(task_all)) = Tail(task_all)
  BY <1>1, RemovedHead
<1>4. QED
  BY <1>2, <1>3 DEF task_current

\* When a command or a builtin has left the queue, nothing is executed.
LEMMA NobodyThen ==
    ASSUME TypeOK', ~ OnStack("task_run_builtin")',
           \A t \in Tasks : On(task_all', t) => pid'[t] = NoPid
    PROVE  executing' = NoTask /\ Removed(task_all', executing') = task_all'
<1>1. task_all' \in Seq(Tasks) /\ NoTask \notin Tasks
  BY TaskAssumption DEF TypeOK, Tasks
<1>2. task_current' = NoTask
  BY <1>1, HeadOn DEF task_current
<1>3. executing' = NoTask
  BY <1>2 DEF executing
<1>4. ~ On(task_all', NoTask)
  BY <1>1 DEF On
<1>5. QED
  BY <1>1, <1>3, <1>4, RemovedAbsent

\* Nothing that concerns the queue happens.
LEMMA StutterStep ==
    ASSUME UNCHANGED <<task_all, working>>, executing' = executing
    PROVE  UNCHANGED Queue!queueVars
  BY DEF Queue!queueVars

\* With the head removed from the queue, nothing in it has a process.
LEMMA TailUnspawned ==
    ASSUME TypeOK, QueueDiscipline, task_all # <<>>, NEW t \in Tasks,
           On(Tail(task_all), t)
    PROVE  pid[t] = NoPid /\ t # Head(task_all)
<1>1. /\ task_all \in Seq(Tasks)
      /\ Tail(task_all) \in Seq(Tasks)
      /\ Len(Tail(task_all)) = Len(task_all) - 1
      /\ \A i \in 1..Len(Tail(task_all)) : Tail(task_all)[i] = task_all[i + 1]
  BY HeadTailProperties DEF TypeOK
<1>2. PICK i \in DOMAIN Tail(task_all) : Tail(task_all)[i] = t
  BY DEF On
<1>3. i + 1 \in DOMAIN task_all /\ i + 1 > 1 /\ task_all[i + 1] = t
  BY <1>1, <1>2
<1>4. 1 \in DOMAIN task_all /\ Head(task_all) = task_all[1]
  BY <1>1, EmptySeq
<1>5. QED
  BY <1>3, <1>4 DEF QueueDiscipline, IsInjective

\* A start operation is on the stack.
LEMMA BuiltinMaps ==
    ASSUME Unnested, TypeOK, TypeOK', QueueDiscipline, KnownFunctions,
           BuiltinsUnspawned, OwnerKnows, Alone, Alone', [Next]_vars,
           OnStack("task_run_builtin")
    PROVE  Queue!Finish \/ UNCHANGED Queue!queueVars
<1>0. StackStep /\ stack \in Seq(Frames) /\ task_all \in Seq(Tasks)
  BY EveryStackStep DEF TypeOK
<1>1. PICK i \in DOMAIN stack : stack[i].fn = "task_run_builtin"
  BY DEF OnStack
<1> DEFINE b == stack[i].task
<1>2. b \in Builtins /\ b \in Tasks /\ stack[i] = TaskFrame("task_run_builtin", b)
  BY <1>1, BuiltinFrames DEF Tasks
<1>3. executing = b
  BY <1>1, ExecutingBuiltin
<1>4. ~ UserInput /\ ~ Running("task_start")
  BY BuiltinWaits
<1>5. task_all # <<>> => Head(task_all) = b
  BY <1>1 DEF Alone
<1>6. UNCHANGED <<task_all, working>> \/ \E t \in Tasks : EndBuiltin(t)
  BY <1>2, <1>4, <1>5, QuietStep
<1>7. ASSUME NEW t \in Tasks, EndBuiltin(t)
      PROVE  Queue!Finish
  <2>1. /\ stack # <<>> /\ stack' = Front(stack)
        /\ Last(stack) = TaskFrame("task_run_builtin", t)
        /\ task_all' = Removed(task_all, t)
        /\ UNCHANGED <<pid, working>>
    BY <1>7 DEF EndBuiltin, task_dequeue
  <2>2. /\ Len(stack) \in DOMAIN stack
        /\ stack[Len(stack)] = TaskFrame("task_run_builtin", t)
    BY <2>1, LastFrame
  <2>3. stack[Len(stack)].fn = "task_run_builtin"
    BY <2>2, FrameFields
  <2>4. i = Len(stack)
    BY <1>1, <2>2, <2>3, OneBuiltin
  <2>5. t = b
    BY <2>2, <2>4, FrameFields
  <2>6. ~ OnStack("task_run_builtin")'
    <3> SUFFICES ASSUME NEW j \in DOMAIN stack',
                        stack'[j].fn = "task_run_builtin"
                 PROVE  FALSE
      BY DEF OnStack
    <3>1. j \in DOMAIN stack /\ j # Len(stack) /\ stack'[j] = stack[j]
      <4>1. /\ stack' \in Seq(Frames)
            /\ Len(stack') = Len(stack) - 1
            /\ \A k \in 1..Len(stack) - 1 : stack'[k] = stack[k]
        BY <1>0, <2>1, FrontProperties
      <4>2. j \in 1..Len(stack) - 1
        BY <4>1
      <4>3. QED
        BY <1>0, <4>1, <4>2
    <3>2. QED
      BY <1>1, <2>4, <3>1, OneBuiltin
  <2>7. /\ Removed(task_all, b) \in Seq(Tasks)
        /\ IsInjective(Removed(task_all, b))
    BY <1>0, RemovedDistinct DEF QueueDiscipline
  <2>8. ASSUME NEW u \in Tasks, On(task_all', u)
        PROVE  pid'[u] = NoPid
    <3>1. task_all # <<>>
      <4>1. On(task_all, u)
        BY <1>0, <2>1, <2>8, OnRemoved
      <4>2. QED
        BY <4>1 DEF On
    <3>2. task_all' = Tail(task_all)
      BY <1>0, <1>5, <2>1, <2>5, <3>1, RemovedHead DEF QueueDiscipline
    <3>3. QED
      BY <2>1, <2>8, <3>1, <3>2, TailUnspawned
  <2>9. executing' = NoTask /\ Removed(task_all', executing') = task_all'
    BY <2>6, <2>8, NobodyThen
  <2>10. Queue!Extends(task_all', task_all')
    BY <2>1, <2>5, <2>7, ExtendsItself
  <2>11. b # NoTask
    BY <1>2, TaskAssumption DEF Tasks
  <2>12. QED
    BY <1>3, <2>1, <2>5, <2>9, <2>10, <2>11 DEF Queue!Finish, Queue!Idle
<1>8. ASSUME ~ \E t \in Tasks : EndBuiltin(t)
      PROVE  UNCHANGED Queue!queueVars
  <2>1. UNCHANGED <<task_all, working>>
    BY <1>6, <1>8
  <2>2. i \in DOMAIN stack' /\ stack'[i] = stack[i]
    BY <1>0, <1>2, <1>8, FrameBefore DEF Returned, Last
  <2>3. executing' = b
    BY <1>1, <2>2, ExecutingBuiltinThen
  <2>4. QED
    BY <1>3, <2>1, <2>3, StutterStep
<1>9. QED
  BY <1>7, <1>8

\* A builtin is started: it is executed, and what it enqueues waits behind the
\* others, or it abandons them.
LEMMA StartBuiltinMaps ==
    ASSUME TypeOK, TypeOK', QueueDiscipline, QueueDiscipline', Alone',
           ~ OnStack("task_run_builtin"), NEW t \in Tasks, StartBuiltin(t)
    PROVE  Queue!Start \/ Queue!Abort
<1> DEFINE f == TaskFrame("task_run_builtin", t)
<1>0. /\ task_all \in Seq(Tasks) /\ task_all' \in Seq(Tasks)
      /\ stack \in Seq(Frames)
  BY DEF TypeOK
<1>1. /\ task_all # <<>> /\ t = Head(task_all) /\ task_current = NoTask
      /\ t \in Builtins /\ t \in Tasks /\ working' = TRUE /\ f \in Frames
  BY BuiltinStarts, FramesType DEF StartBuiltin, Tasks
<1>2. executing = NoTask /\ Removed(task_all, executing) = task_all
  BY <1>1, WaitingNow DEF executing
<1>3. executing' = t
  <2>1. Len(stack) + 1 \in DOMAIN stack' /\ stack'[Len(stack) + 1] = f
    <3>1. CASE CalledOne(f)
      BY <1>0, <3>1 DEF CalledOne
    <3>2. ASSUME NEW g \in Frames, CalledTwo(f, g)
          PROVE  Len(stack) + 1 \in DOMAIN stack' /\ stack'[Len(stack) + 1] = f
      <4>1. stack' = Append(Append(stack, f), g)
        BY <3>2 DEF CalledTwo
      <4> HIDE DEF f
      <4>2. QED
        BY <1>0, <1>1, <3>2, <4>1, TwoCalled
    <3>3. QED
      BY <3>1, <3>2, BuiltinCalls
  <2>2. stack'[Len(stack) + 1].fn = "task_run_builtin"
    BY <2>1, FrameFields
  <2>3. QED
    BY <2>1, <2>2, ExecutingBuiltinThen, FrameFields
<1>4. \/ task_all' = <<>>
      \/ \E s \in AtMostOne(Commands \cap Fresh) : task_all' = task_all \o s
  BY DEF StartBuiltin, NoTargets, ListTargetsForeground, AbortQueue, Queued
<1>5. CASE task_all' = <<>>
  <2>1. ~ On(task_all', t)
    BY <1>5 DEF On
  <2>2. Removed(task_all', executing') = <<>>
    BY <1>0, <1>3, <1>5, <2>1, RemovedAbsent
  <2>3. QED
    BY <1>1, <1>2, <1>3, <2>2 DEF Queue!Abort, Queue!Idle
<1>6. ASSUME NEW s \in AtMostOne(Commands \cap Fresh), task_all' = task_all \o s
      PROVE  Queue!Start
  <2>1. s \in Seq(Tasks)
    BY AtMostOneType, SeqMonotonic DEF Fresh
  <2>2. task_all' # <<>> /\ Head(task_all') = t
    BY <1>0, <1>1, <1>6, <2>1, HeadConcat
  <2>3. Removed(task_all', executing') = Tail(task_all) \o s
    BY <1>0, <1>1, <1>3, <1>6, <2>1, <2>2, RemovedHead, TailConcat
    DEF QueueDiscipline
  <2>4. /\ Tail(task_all) \in Seq(Tasks)
        /\ IsInjective(Tail(task_all) \o s)
        /\ ~ On(Tail(task_all) \o s, t)
    <3>1. IsInjective(task_all')
      BY DEF QueueDiscipline
    <3>2. /\ IsInjective(Removed(task_all', t))
          /\ ~ On(Removed(task_all', t), t)
      BY <1>0, <3>1, RemovedDistinct
    <3>3. Tail(task_all) \in Seq(Tasks)
      BY <1>0, <1>1, HeadTailProperties
    <3>4. QED
      BY <1>3, <2>3, <3>2, <3>3
  <2>5. Queue!Extends(Tail(task_all) \o s, Tail(task_all))
    BY <2>1, <2>4, ExtendsConcat
  <2>6. t \notin Queue!ToSet(Tail(task_all) \o s)
    BY <2>4 DEF On, Queue!ToSet
  <2>7. QED
    BY <1>1, <1>2, <1>3, <2>3, <2>5, <2>6 DEF Queue!Start, Queue!Idle
<1>7. QED
  BY <1>4, <1>5, <1>6

\* A command is started, or dropped if it cannot be.
LEMMA StartCommandMaps ==
    ASSUME TypeOK, TypeOK', QueueDiscipline, ~ OnStack("task_run_builtin"),
           ~ OnStack("task_run_builtin")', NEW t \in Tasks, StartCommand(t)
    PROVE  Queue!Start \/ Queue!Drop
<1>0. task_all \in Seq(Tasks) /\ IsInjective(task_all)
  BY DEF TypeOK, QueueDiscipline
<1>1. /\ task_all # <<>> /\ t = Head(task_all) /\ task_current = NoTask
      /\ working' = TRUE /\ task_spawn(t) /\ t # NoTask
  BY TaskAssumption DEF StartCommand, StartsNext, Tasks
<1>2. executing = NoTask /\ Removed(task_all, executing) = task_all
  BY <1>1, WaitingNow DEF executing
<1>3. /\ Tail(task_all) \in Seq(Tasks)
      /\ Removed(task_all, t) = Tail(task_all)
      /\ IsInjective(Tail(task_all))
      /\ ~ On(Tail(task_all), t)
  BY <1>0, <1>1, RemovedHead, RemovedDistinct, HeadTailProperties
<1>4. CASE pid'[t] # NoPid
  <2>1. task_all' = task_all
    BY <1>4 DEF StartCommand
  <2>2. executing' = t
    BY <1>1, <1>4, <2>1 DEF executing, task_current
  <2>3. Queue!Extends(Tail(task_all), Tail(task_all))
    BY <1>3, ExtendsItself
  <2>4. t \notin Queue!ToSet(Tail(task_all))
    BY <1>3 DEF On, Queue!ToSet
  <2>5. QED
    BY <1>1, <1>2, <1>3, <2>1, <2>2, <2>3, <2>4 DEF Queue!Start, Queue!Idle
<1>5. CASE pid'[t] = NoPid
  <2>1. task_all' = Tail(task_all)
    BY <1>3, <1>5 DEF StartCommand, task_dequeue
  <2>2. \A u \in Tasks : u # t => pid'[u] = pid[u]
    BY <1>1 DEF task_spawn, Fork, NoFork, TypeOK
  <2>3. \A u \in Tasks : On(task_all', u) => pid'[u] = NoPid
    BY <1>1, <2>1, <2>2, TailUnspawned
  <2>4. executing' = NoTask /\ Removed(task_all', executing') = task_all'
    BY <2>3, NobodyThen
  <2>5. QED
    BY <1>1, <1>2, <2>1, <2>4 DEF Queue!Drop, Queue!Idle
<1>6. QED
  BY <1>4, <1>5

\* A queued command ends.
LEMMA ExitMaps ==
    ASSUME TypeOK, TypeOK', CreatedFirst, QueueDiscipline, QueueDiscipline',
           BuiltinsUnspawned, OwnerKnows, ~ OnStack("task_run_builtin"),
           ~ OnStack("task_run_builtin")', NEW p \in Pids, NEW t \in Tasks,
           NEW s \in AtMostOne(Commands \cap Fresh), WaitExited(p, t, s),
           enqueued[t]
    PROVE  Queue!Finish
<1>0. task_all \in Seq(Tasks) /\ IsInjective(task_all)
  BY DEF TypeOK, QueueDiscipline
<1>1. task_all # <<>> /\ t = Head(task_all) /\ task_current = t /\ t # NoTask
  BY ExitOfHead, TaskAssumption DEF Tasks
<1>2. executing = t /\ Removed(task_all, executing) = Tail(task_all)
  BY <1>1, WaitingNow DEF executing
<1>3. /\ task_all' = Tail(task_all) \o s
      /\ pid' = [pid EXCEPT ![t] = NoPid]
      /\ working' = working
  BY <1>0, <1>1, RemovedHead DEF WaitExited
<1>4. s \in Seq(Tasks) /\ Tail(task_all) \in Seq(Tasks)
  BY <1>0, <1>1, AtMostOneType, SeqMonotonic, HeadTailProperties DEF Fresh
<1>5. ASSUME NEW u \in Tasks, On(task_all', u)
      PROVE  pid'[u] = NoPid
  <2>1. On(Tail(task_all), u) \/ On(s, u)
    BY <1>3, <1>4, <1>5, OnConcat
  <2>2. On(s, u) => u \notin created
    BY AtMostOneType DEF On, ToSet, Fresh
  <2>3. pid[u] = NoPid
    BY <1>1, <2>1, <2>2, TailUnspawned DEF CreatedFirst
  <2>4. QED
    BY <1>3, <2>3 DEF TypeOK
<1>6. executing' = NoTask /\ Removed(task_all', executing') = task_all'
  BY <1>5, NobodyThen
<1>7. Queue!Extends(Tail(task_all) \o s, Tail(task_all))
  <2>1. IsInjective(task_all')
    BY DEF QueueDiscipline
  <2>2. QED
    BY <1>3, <1>4, <2>1, ExtendsConcat
<1>8. QED
  BY <1>1, <1>2, <1>3, <1>6, <1>7 DEF Queue!Finish, Queue!Idle

\* Tasks are enqueued.
LEMMA EnqueueMaps ==
    ASSUME TypeOK, TypeOK', CreatedFirst, QueueDiscipline, QueueDiscipline',
           ~ OnStack("task_run_builtin"), ~ OnStack("task_run_builtin")',
           NEW s \in Seq(Fresh), task_all' = task_all \o s,
           UNCHANGED <<pid, working>>
    PROVE  Queue!Submit
<1>0. /\ task_all \in Seq(Tasks) /\ IsInjective(task_all) /\ s \in Seq(Tasks)
      /\ task_all' \in Seq(Tasks) /\ IsInjective(task_all')
  BY SeqMonotonic DEF TypeOK, QueueDiscipline, Fresh
<1>1. executing = task_current /\ executing' = task_current'
  BY DEF executing
<1> DEFINE w == Removed(task_all, executing)
           v == Removed(task_all', executing')
<1>2. executing' = executing /\ v = w \o s
  <2>1. CASE task_current = NoTask
    <3>1. ASSUME task_all' # <<>>
          PROVE  pid[Head(task_all')] = NoPid
      <4>1. CASE task_all = <<>>
        <5>1. task_all' = s
          BY <1>0, <4>1, ConcatEmptySeq
        <5>2. Head(task_all') \in Fresh
          BY <3>1, <5>1, HeadOn
        <5>3. QED
          BY <5>2 DEF Fresh, CreatedFirst
      <4>2. CASE task_all # <<>>
        <5>1. Head(task_all') = Head(task_all)
          BY <1>0, <4>2, HeadConcat
        <5>2. Head(task_all) \in Tasks
          BY <1>0, <4>2, HeadOn
        <5>3. QED
          BY <2>1, <4>2, <5>1, <5>2, TaskAssumption DEF task_current, Tasks
      <4>3. QED
        BY <4>1, <4>2
    <3>2. task_current' = NoTask
      BY <3>1 DEF task_current
    <3>3. v = task_all' /\ w = task_all
      <4>1. ~ On(task_all', NoTask)
        BY <1>0, TaskAssumption DEF On, Tasks
      <4>2. QED
        BY <1>0, <1>1, <2>1, <3>2, <4>1, RemovedAbsent, WaitingNow
    <3>4. QED
      BY <1>1, <2>1, <3>2, <3>3
  <2>2. CASE task_current # NoTask
    <3>1. /\ task_all # <<>> /\ task_current = Head(task_all)
          /\ w = Tail(task_all) /\ pid[Head(task_all)] # NoPid
      BY <1>1, <2>2, WaitingNow DEF task_current
    <3>2. task_all' # <<>> /\ Head(task_all') = Head(task_all)
      BY <1>0, <3>1, HeadConcat
    <3>3. task_current' = Head(task_all')
      BY <3>1, <3>2 DEF task_current
    <3>4. v = Tail(task_all')
      BY <1>0, <1>1, <3>2, <3>3, RemovedHead
    <3>5. QED
      BY <1>0, <1>1, <3>1, <3>2, <3>3, <3>4, TailConcat
  <2>3. QED
    BY <2>1, <2>2
<1>3. /\ w \in Seq(Tasks) /\ v \in Seq(Tasks)
      /\ IsInjective(v) /\ ~ On(v, executing')
  BY <1>0, RemovedDistinct
<1> HIDE DEF w, v
<1>4. Queue!Extends(v, w)
  BY <1>0, <1>2, <1>3, ExtendsConcat
<1>5. executing \notin Queue!ToSet(v)
  BY <1>2, <1>3 DEF On, Queue!ToSet
<1>6. QED
  BY <1>2, <1>4, <1>5 DEF Queue!Submit, w, v

\* The head of the queue stays what it was, with a process or without.
LEMMA SameCurrent ==
    ASSUME TypeOK, ~ OnStack("task_run_builtin"),
           ~ OnStack("task_run_builtin")', UNCHANGED <<task_all, working>>,
           \A t \in Tasks : On(task_all, t) => pid'[t] = pid[t]
    PROVE  UNCHANGED Queue!queueVars
<1>1. task_all # <<>> => pid'[Head(task_all)] = pid[Head(task_all)]
  BY HeadOn DEF TypeOK
<1>2. task_current' = task_current
  BY <1>1 DEF task_current
<1>3. QED
  BY <1>2, StutterStep DEF executing

LEMMA EndStartMaps ==
    ASSUME TypeOK, QueueDiscipline, ~ OnStack("task_run_builtin"),
           ~ OnStack("task_run_builtin")', EndStart
    PROVE  Queue!Rest \/ UNCHANGED Queue!queueVars
<1>1. /\ UNCHANGED <<pid, task_all>>
      /\ working' = (working /\ task_all # <<>>)
      /\ task_all = <<>> \/ task_current # NoTask
  BY DEF EndStart, taskVars
<1>2. executing = task_current /\ executing' = task_current
  BY <1>1 DEF executing, task_current
<1>3. CASE task_all # <<>>
  BY <1>1, <1>2, <1>3, StutterStep DEF TypeOK
<1>4. CASE task_all = <<>>
  <2>1. task_current = NoTask
    BY <1>4 DEF task_current
  <2>2. Removed(task_all, executing) = <<>> /\ Removed(task_all', executing') = <<>>
    BY <1>1, <1>2, <1>4, <2>1, WaitingNow
  <2>3. working' = FALSE
    BY <1>1, <1>4
  <2>4. QED
    BY <1>2, <2>1, <2>2, <2>3 DEF Queue!Rest, Queue!Idle
<1>5. QED
  BY <1>3, <1>4

\* No start operation is on the stack, and none is called.
LEMMA OthersMap ==
    ASSUME TypeOK, TypeOK', CreatedFirst, QueueDiscipline, QueueDiscipline',
           BuiltinsUnspawned, OwnerKnows, [Next]_vars,
           ~ OnStack("task_run_builtin"), ~ OnStack("task_run_builtin")'
    PROVE  Queue!QueueNext \/ UNCHANGED Queue!queueVars
<1> DEFINE Goal == Queue!QueueNext \/ UNCHANGED Queue!queueVars
<1>1. ASSUME NEW t \in Tasks, StartCommand(t)
      PROVE  Goal
  BY <1>1, StartCommandMaps DEF Queue!QueueNext
<1>2. ASSUME NEW t \in Tasks, StartBuiltin(t)
      PROVE  FALSE
  <2>1. t \in Builtins /\ TaskFrame("task_run_builtin", t) \in Frames
    BY <1>2, BuiltinStarts, FramesType
  <2> DEFINE f == TaskFrame("task_run_builtin", t)
  <2>2. f.fn = "task_run_builtin"
    BY FrameFields
  <2> HIDE DEF f
  <2>3. ASSUME CalledOne(f) \/ \E g \in Frames : CalledTwo(f, g)
        PROVE  Len(stack) + 1 \in DOMAIN stack' /\ stack'[Len(stack) + 1] = f
    <3>1. CASE CalledOne(f)
      BY <2>1, <3>1 DEF CalledOne, TypeOK, f
    <3>2. ASSUME NEW g \in Frames, CalledTwo(f, g)
          PROVE  Len(stack) + 1 \in DOMAIN stack' /\ stack'[Len(stack) + 1] = f
      <4>1. f \in Frames
        BY <2>1 DEF f
      <4>2. stack' = Append(Append(stack, f), g) /\ stack \in Seq(Frames)
        BY <3>2 DEF CalledTwo, TypeOK
      <4>3. QED
        BY <3>2, <4>1, <4>2, TwoCalled
    <3>3. QED
      BY <2>3, <3>1, <3>2
  <2>4. Len(stack) + 1 \in DOMAIN stack' /\ stack'[Len(stack) + 1] = f
    BY <1>2, <2>3, BuiltinCalls DEF f
  <2>5. QED
    BY <2>2, <2>4 DEF OnStack
<1>3. ASSUME NEW t \in Tasks, EndBuiltin(t)
      PROVE  FALSE
  <2>1. stack # <<>> /\ Last(stack) = TaskFrame("task_run_builtin", t)
    BY <1>3 DEF EndBuiltin
  <2>2. Running("task_run_builtin")
    BY <2>1, FrameFields DEF Running
  <2>3. QED
    BY <2>2, RunningOnStack
<1>4. CASE EndStart
  BY <1>4, EndStartMaps DEF Queue!QueueNext
<1>5. ASSUME NEW p \in Pids, NEW t \in Tasks,
             NEW s \in AtMostOne(Commands \cap Fresh), WaitExited(p, t, s)
      PROVE  Goal
  <2>1. CASE enqueued[t]
    BY <1>5, <2>1, ExitMaps DEF Queue!QueueNext
  <2>2. CASE ~ enqueued[t]
    <3>1. s = <<>> /\ ~ Contains(task_all, t)
      BY <1>5, <2>2 DEF QueueDiscipline, WaitExited
    <3>2. task_all' = task_all \o <<>> /\ working' = working
      BY <1>5, <3>1 DEF WaitExited, Removed
    <3>3. task_all' = task_all
      BY <3>2, ConcatEmptySeq DEF TypeOK
    <3>4. \A u \in Tasks : On(task_all, u) => pid'[u] = pid[u]
      BY <1>5, <3>1, ContainsIsOn DEF WaitExited, TypeOK
    <3>5. QED
      BY <3>2, <3>3, <3>4, SameCurrent
  <2>3. QED
    BY <2>1, <2>2
<1>6. ASSUME NEW s \in Seq(Fresh), task_all' = Queued(s),
             UNCHANGED <<pid, working>>
      PROVE  Goal
  BY <1>6, EnqueueMaps DEF Queue!QueueNext, Queued
<1>7. ASSUME NEW s \in Batches, Build(s)
      PROVE  Goal
  BY <1>6, <1>7, BatchesType DEF Build
<1>8. ASSUME NEW t \in Commands, MakeMakefile(t)
      PROVE  Goal
  <2>1. t \in Fresh
    BY <1>8 DEF MakeMakefile
  <2>2. <<t>> \in Seq(Fresh)
    BY <2>1
  <2>3. QED
    BY <1>6, <1>8, <2>2 DEF MakeMakefile
<1>9. ASSUME NEW t \in Commands, Spawn(t) \/ Run(t)
      PROVE  Goal
  <2>1. /\ UNCHANGED <<task_all, working>>
        /\ task_spawn(t)
        /\ t \in Tasks \ created
    BY <1>9 DEF Spawn, Run, Fresh, Tasks
  <2>2. \A u \in Tasks : u # t => pid'[u] = pid[u]
    BY <2>1 DEF task_spawn, Fork, NoFork, TypeOK
  <2>3. QED
    BY <2>1, <2>2, SameCurrent DEF CreatedFirst
<1>10. ASSUME \/ Dispatch \/ EndDispatch \/ g_unix_signal_handler
              \/ Stop \/ Pause \/ Resume \/ UNCHANGED vars
              \/ \E t \in Tasks : EndRun(t)
              \/ \E p \in Pids : \/ WaitStopped(p) \/ WaitUnknown(p)
                                 \/ RemovePidData(p) \/ ChildExit(p)
       PROVE  Goal
  <2>1. UNCHANGED <<task_all, working, pid>>
    BY <1>10
    DEF Dispatch, EndDispatch, g_unix_signal_handler, Stop, Pause, Resume,
        EndRun, WaitStopped, WaitUnknown, RemovePidData, ChildExit,
        taskVars, vars
  <2>2. QED
    BY <2>1, SameCurrent
<1>11. QED
  BY <1>1, <1>2, <1>3, <1>4, <1>5, <1>7, <1>8, <1>9, <1>10
  DEF Next, Program, Kernel, User

LEMMA StepImplements ==
    ASSUME Unnested, TypeOK, TypeOK', CreatedFirst,
           QueueDiscipline, QueueDiscipline', KnownFunctions,
           BuiltinsUnspawned, OwnerKnows, Alone, Alone', [Next]_vars
    PROVE  [Queue!QueueNext]_(Queue!queueVars)
<1>1. CASE OnStack("task_run_builtin")
  BY <1>1, BuiltinMaps DEF Queue!QueueNext
<1>2. ASSUME NEW t \in Tasks, StartBuiltin(t), ~ OnStack("task_run_builtin")
      PROVE  Queue!QueueNext
  BY <1>2, StartBuiltinMaps DEF Queue!QueueNext
<1>3. ASSUME ~ OnStack("task_run_builtin"), OnStack("task_run_builtin")'
      PROVE  \E t \in Tasks : StartBuiltin(t)
  <2>1. PICK i \in DOMAIN stack' : stack'[i].fn = "task_run_builtin"
    BY <1>3 DEF OnStack
  <2>2. ~ (i \in DOMAIN stack /\ stack'[i] = stack[i])
    BY <1>3, <2>1 DEF OnStack
  <2>3. ASSUME NEW f \in Frames, CalledOne(f), f.fn = "task_run_builtin"
        PROVE  \E t \in Tasks : StartBuiltin(t)
    BY <2>3, FrameFields DEF CalledOne, Tasks
  <2>4. ASSUME NEW f \in Frames, NEW g \in Frames, CalledTwo(f, g),
               f.fn = "task_run_builtin" \/ g.fn = "task_run_builtin"
        PROVE  \E t \in Tasks : StartBuiltin(t)
    BY <2>4, FrameFields DEF CalledTwo, Tasks
  <2>5. QED
    BY <2>1, <2>2, <2>3, <2>4, EveryStackStep, FrameAfter
<1>4. CASE ~ OnStack("task_run_builtin") /\ ~ OnStack("task_run_builtin")'
  BY <1>4, OthersMap
<1>5. QED
  BY <1>1, <1>2, <1>3, <1>4

\* If the user does nothing while a builtin waits for its list of targets, or
\* there are no builtins, the queue of task.c is the queue that maketool_task.h
\* promises: Tasks are executed one at a time, in the order they were enqueued
\* in, none is lost or executed twice, and the work callbacks bracket the time
\* there is work.  (task_enqueue, task_start, task_reap_func)
THEOREM QueueImplemented ==
    ASSUME Unnested
    PROVE  Spec => ImplementsQueue
<1>1. Init => Queue!QueueInit
  <2> SUFFICES ASSUME Init PROVE Queue!QueueInit
    OBVIOUS
  <2>1. task_all = <<>> /\ ~ OnStack("task_run_builtin") /\ working = FALSE
    BY DEF Init, OnStack
  <2>2. executing = NoTask
    BY <2>1 DEF executing, task_current
  <2>3. Removed(<<>>, NoTask) = <<>>
    BY DEF Removed, Contains
  <2>4. QED
    BY <2>1, <2>2, <2>3 DEF Queue!QueueInit, Queue!Idle
<1>2. Unnested /\ TypeOK /\ TypeOK' /\ CreatedFirst /\ QueueDiscipline
        /\ QueueDiscipline' /\ KnownFunctions /\ BuiltinsUnspawned
        /\ OwnerKnows /\ Alone /\ Alone' /\ [Next]_vars
            => [Queue!QueueNext]_(Queue!queueVars)
  BY StepImplements
<1>3. QED
  BY <1>1, <1>2, TypeCorrect, AlwaysCreatedFirst, QueueDisciplined,
     AlwaysKnownFunctions, AlwaysBuiltinsUnspawned, AlwaysOwnerKnows,
     AlwaysAlone, PTL DEF Spec, ImplementsQueue, Queue!QueueSpec

\* Under the same condition a queued command runs only when no builtin that
\* was queued before it is being executed.
THEOREM StartedInOrder ==
    ASSUME Unnested
    PROVE  Spec => []StartsInOrder
<1>1. TypeOK /\ KnownFunctions /\ BuiltinsUnspawned /\ Alone => StartsInOrder
  <2> SUFFICES ASSUME TypeOK, KnownFunctions, BuiltinsUnspawned, Alone,
                      task_current # NoTask, OnStack("task_run_builtin")
               PROVE  FALSE
    BY DEF StartsInOrder
  <2>1. PICK i \in DOMAIN stack : stack[i].fn = "task_run_builtin"
    BY DEF OnStack
  <2>2. task_all # <<>> /\ pid[Head(task_all)] # NoPid
    BY DEF task_current
  <2>3. Head(task_all) \in Builtins
    BY <2>1, <2>2, BuiltinFrames DEF Alone
  <2>4. QED
    BY <2>2, <2>3 DEF BuiltinsUnspawned
<1>2. QED
  BY <1>1, TypeCorrect, AlwaysKnownFunctions, AlwaysBuiltinsUnspawned,
     AlwaysAlone, PTL

-------------------------------------------------------------------------------
(***************************************************************************)
(* The lives of Tasks.                                                     *)
(***************************************************************************)
\* The queue or the reaper holds the Task, task_run_command() waits for it.
Held(t) == enqueued[t] \/ pid[t] # NoPid
WaitedFor(t) == On(stack, TaskFrame("task_run_command", t))

Count(b) == IF b THEN 1 ELSE 0

\* The references there should be to a command.
Due(t) == Count(Held(t)) + Count(WaitedFor(t))

(***************************************************************************)
(* Who waits for whom.                                                     *)
(***************************************************************************)
WaitsOnce ==
    \A i, j \in DOMAIN stack :
        stack[i] = stack[j] /\ stack[i].fn = "task_run_command" => i = j

WaitsCreated == \A t \in Tasks : WaitedFor(t) => t \in created

\* A function is called ...
LEMMA PushWaits ==
    ASSUME TypeOK, NEW f \in Frames, stack' = Append(stack, f), NEW t
    PROVE  WaitedFor(t)' <=> WaitedFor(t) \/ f = TaskFrame("task_run_command", t)
<1>1. On(Append(stack, f), TaskFrame("task_run_command", t))
        <=> \/ On(stack, TaskFrame("task_run_command", t))
            \/ TaskFrame("task_run_command", t) = f
  BY OnAppend DEF TypeOK
<1>2. QED
  BY <1>1 DEF WaitedFor, TaskFrame

\* ... that is not task_run_command(), ...
LEMMA PushOtherWaits ==
    ASSUME TypeOK, NEW f \in Frames, stack' = Append(stack, f), NEW t,
           f.fn # "task_run_command"
    PROVE  WaitedFor(t)' <=> WaitedFor(t)
  BY PushWaits, FrameFields

\* ... or returns.
LEMMA ReturnWaits ==
    ASSUME TypeOK, stack # <<>>, stack' = Front(stack), NEW t,
           Last(stack) # TaskFrame("task_run_command", t)
    PROVE  WaitedFor(t)' <=> WaitedFor(t)
<1>1. On(Front(stack), TaskFrame("task_run_command", t))
        <=> On(stack, TaskFrame("task_run_command", t))
  BY OnFront DEF TypeOK
<1>2. QED
  BY <1>1 DEF WaitedFor, TaskFrame

LEMMA SameWaits ==
    ASSUME UNCHANGED stack, NEW t
    PROVE  WaitedFor(t)' <=> WaitedFor(t)
  BY DEF WaitedFor, TaskFrame

LEMMA StepWaits ==
    ASSUME TypeOK, CreatedFirst, WaitsOnce, WaitsCreated, [Next]_vars
    PROVE  WaitsOnce' /\ WaitsCreated'
<1>0. StackStep /\ stack \in Seq(Frames) /\ stack' \in Seq(Frames)
  BY EveryStackStep, StackBelow DEF TypeOK
<1>1. created \subseteq created'
  BY QueueCreated
\* What is new on the stack waits for a Task that was not created before.
<1>2. ASSUME NEW i \in DOMAIN stack', stack'[i].fn = "task_run_command",
             ~ (i \in DOMAIN stack /\ stack'[i] = stack[i])
      PROVE  /\ i = Len(stack')
             /\ \E t \in Commands \cap Fresh :
                   t \in created' /\ stack'[i] = TaskFrame("task_run_command", t)
  <2>1. ASSUME NEW f \in Frames, CalledOne(f), f.fn = "task_run_command"
        PROVE  \E t \in Commands \cap Fresh :
                   t \in created' /\ f = TaskFrame("task_run_command", t)
    BY <2>1, FrameFields DEF CalledOne
  <2>2. ASSUME NEW f \in Frames, NEW g \in Frames, CalledTwo(f, g)
        PROVE  /\ f.fn # "task_run_command"
               /\ g.fn = "task_run_command" =>
                     \E t \in Commands \cap Fresh :
                        t \in created' /\ g = TaskFrame("task_run_command", t)
    BY <2>2, FrameFields DEF CalledTwo
  <2>3. QED
    BY <1>0, <1>2, <2>1, <2>2, FrameAfter
<1>3. WaitsCreated'
  <2> SUFFICES ASSUME NEW t \in Tasks, WaitedFor(t)'
               PROVE  t \in created'
    BY DEF WaitsCreated
  <2>1. PICK i \in DOMAIN stack' : stack'[i] = TaskFrame("task_run_command", t)
    BY DEF WaitedFor, On, TaskFrame
  <2>2. stack'[i].fn = "task_run_command" /\ stack'[i].task = t
    BY <2>1, FrameFields
  <2>3. CASE i \in DOMAIN stack /\ stack'[i] = stack[i]
    BY <1>1, <2>1, <2>3 DEF WaitsCreated, WaitedFor, On
  <2>4. CASE ~ (i \in DOMAIN stack /\ stack'[i] = stack[i])
    BY <1>2, <2>2, <2>4, FrameFields
  <2>5. QED
    BY <2>3, <2>4
<1>4. WaitsOnce'
  <2> SUFFICES ASSUME NEW i \in DOMAIN stack', NEW j \in DOMAIN stack',
                      stack'[i] = stack'[j],
                      stack'[i].fn = "task_run_command"
               PROVE  i = j
    BY DEF WaitsOnce
  <2> DEFINE Old(k) == k \in DOMAIN stack /\ stack'[k] = stack[k]
  <2>1. CASE Old(i) /\ Old(j)
    BY <2>1 DEF WaitsOnce
  <2>2. CASE ~ Old(i) /\ ~ Old(j)
    BY <1>2, <2>2
  <2>3. ASSUME NEW k \in DOMAIN stack', NEW l \in DOMAIN stack',
               stack'[k] = stack'[l], stack'[k].fn = "task_run_command",
               Old(k), ~ Old(l)
        PROVE  FALSE
    <3>1. PICK t \in Commands \cap Fresh :
                  stack'[l] = TaskFrame("task_run_command", t)
      BY <1>2, <2>3
    <3>2. WaitedFor(t) /\ t \in Tasks
      BY <2>3, <3>1 DEF WaitedFor, On, Tasks
    <3>3. QED
      BY <3>2 DEF WaitsCreated, Fresh
  <2>4. QED
    BY <2>1, <2>2, <2>3
<1>5. QED
  BY <1>3, <1>4

LEMMA AlwaysWaits == Spec => [](WaitsOnce /\ WaitsCreated)
<1>1. Init => WaitsOnce /\ WaitsCreated
  BY DEF Init, WaitsOnce, WaitsCreated, WaitedFor, On
<1>2. TypeOK /\ CreatedFirst /\ (WaitsOnce /\ WaitsCreated) /\ [Next]_vars
        => (WaitsOnce /\ WaitsCreated)'
  BY StepWaits
<1>3. QED
  BY <1>1, <1>2, TypeCorrect, AlwaysCreatedFirst, PTL DEF Spec

-----------------------------------------------------------------------------
(***************************************************************************)
(* What a step does to the references of one Task.                         *)
(***************************************************************************)
\* A command that has not been created has no references.
Uncounted == \A t \in Commands \ created : refcount[t] = 0

Lawful ==
    /\ TypeOK
    /\ CreatedFirst
    /\ QueueDiscipline
    /\ KnownFunctions
    /\ BuiltinsUnspawned
    /\ OwnerKnows
    /\ WaitsOnce
    /\ WaitsCreated
    /\ Uncounted

\* A command gains or loses as many references as uses, ...
Balanced(t) == refcount'[t] - refcount[t] = Due(t)' - Due(t)

\* ... but when fork() fails for a Task that is not enqueued its caller may
\* forget it.
ForkFails == "fork fails" \in Circumstances \/ FreshPids = {}

Leaked(t) ==
    /\ t \in Fresh
    /\ ForkFails
    /\ refcount'[t] = 1
    /\ Due(t)' = 0

Counted(t) ==
    /\ t \in Commands => Balanced(t) \/ Leaked(t)
    /\ t \in Builtins =>
          \/ enqueued'[t] = enqueued[t] /\ refcount'[t] = refcount[t]
          \/ enqueued'[t] /\ refcount'[t] = 1
          \/ enqueued[t] /\ ~ enqueued'[t] /\ refcount'[t] = refcount[t] - 1
          \/ EndBuiltin(t)
    /\ t \in Commands \ created' => refcount'[t] = refcount[t]

CountStep == \A t \in Tasks : Counted(t)

LEMMA FreshTasks ==
    ASSUME Lawful, NEW t \in Fresh
    PROVE  /\ t \in Tasks
           /\ t \in Commands => refcount[t] = 0
           /\ ~ enqueued[t]
           /\ pid[t] = NoPid
           /\ ~ WaitedFor(t)
           /\ Due(t) = 0
<1>1. t \in Tasks /\ t \notin created
  BY DEF Fresh
<1>2. /\ t \in Commands => refcount[t] = 0
      /\ pid[t] = NoPid
      /\ ~ WaitedFor(t)
  BY <1>1 DEF Lawful, Uncounted, CreatedFirst, WaitsCreated
<1>3. ~ enqueued[t]
  <2>1. ~ On(task_all, t)
    BY <1>1 DEF Lawful, CreatedFirst
  <2>2. QED
    BY <1>1, <2>1, ContainsIsOn DEF Lawful, QueueDiscipline, TypeOK
<1>4. QED
  BY <1>1, <1>2, <1>3 DEF Due, Held, Count

LEMMA KeptCount ==
    ASSUME TypeOK, NEW t \in Tasks, refcount'[t] = refcount[t],
           enqueued'[t] = enqueued[t], pid'[t] = pid[t],
           WaitedFor(t)' <=> WaitedFor(t)
    PROVE  Counted(t)
<1>1. refcount[t] \in Int
  BY DEF TypeOK
<1>2. Due(t)' = Due(t)
  BY DEF Due, Held, Count
<1>3. Due(t) \in Int
  BY DEF Due, Count
<1>4. QED
  BY <1>1, <1>2, <1>3 DEF Counted, Balanced

\* A new Task is enqueued, ...
LEMMA EnqueuedCount ==
    ASSUME Lawful, NEW t \in Fresh, t \in created', enqueued'[t],
           refcount'[t] = 1, WaitedFor(t)' <=> WaitedFor(t)
    PROVE  Counted(t)
<1>1. t \in Commands => refcount[t] = 0 /\ Due(t) = 0
  BY FreshTasks
<1>2. Due(t)' = 1
  <2>1. ~ WaitedFor(t)'
    BY FreshTasks
  <2>2. QED
    BY <2>1 DEF Due, Held, Count
<1>3. QED
  BY <1>1, <1>2 DEF Counted, Balanced

\* ... or it is spawned, ...
LEMMA SpawnedCount ==
    ASSUME Lawful, NEW t \in Commands \cap Fresh, t \in created', pid'[t] # NoPid,
           refcount'[t] = 1 + Count(WaitedFor(t)')
    PROVE  Counted(t)
<1>1. refcount[t] = 0 /\ Due(t) = 0
  BY FreshTasks
<1>2. Due(t)' = 1 + Count(WaitedFor(t)')
  BY DEF Due, Held, Count
<1>3. refcount'[t] \in Int
  BY DEF Count
<1>4. t \notin Builtins
  BY TaskAssumption
<1>5. QED
  BY <1>1, <1>2, <1>3, <1>4 DEF Counted, Balanced

\* ... or that fails.
LEMMA UnspawnedCount ==
    ASSUME Lawful, NEW t \in Commands \cap Fresh, t \in created',
           ~ enqueued'[t], pid'[t] = NoPid, task_spawn(t),
           WaitedFor(t)' <=> WaitedFor(t),
           refcount'[t] \in {0, 1}
    PROVE  Counted(t)
<1>1. refcount[t] = 0 /\ Due(t) = 0 /\ ~ WaitedFor(t)' /\ t \in Tasks
  BY FreshTasks
<1>2. Due(t)' = 0
  BY <1>1 DEF Due, Held, Count
<1>3. ForkFails
  BY <1>1, TaskAssumption
  DEF ForkFails, task_spawn, NoFork, Fork, FreshPids, Lawful, TypeOK
<1>4. t \notin Builtins
  BY TaskAssumption
<1>5. QED
  BY <1>1, <1>2, <1>3, <1>4 DEF Counted, Balanced, Leaked

\* The queue or the reaper drops a Task.
LEMMA DroppedCount ==
    ASSUME Lawful, NEW t \in Tasks, t \in created', Held(t), ~ enqueued'[t],
           pid'[t] = NoPid, WaitedFor(t)' <=> WaitedFor(t),
           refcount'[t] = refcount[t] - 1
    PROVE  Counted(t)
<1>1. refcount[t] \in Int
  BY DEF Lawful, TypeOK
<1>2. /\ Due(t) = 1 + Count(WaitedFor(t))
      /\ Due(t)' = 0 + Count(WaitedFor(t))
  BY DEF Due, Held, Count
<1>3. Count(WaitedFor(t)) \in Int
  BY DEF Count
<1>4. Balanced(t)
  BY <1>1, <1>2, <1>3 DEF Balanced
<1>5. t \in Builtins => enqueued[t]
  BY DEF Lawful, BuiltinsUnspawned, Held
<1>6. QED
  BY <1>4, <1>5 DEF Counted

\* What is in the queue is held by it.
LEMMA QueuedHeld ==
    ASSUME TypeOK, QueueDiscipline, NEW t, On(task_all, t)
    PROVE  t \in Tasks /\ enqueued[t]
<1>1. t \in Tasks
  BY DEF On, TypeOK
<1>2. QED
  BY <1>1, ContainsIsOn DEF QueueDiscipline, TypeOK

-----------------------------------------------------------------------------
(***************************************************************************)
(* The steps that count.                                                   *)
(***************************************************************************)
LEMMA CommandCount ==
    ASSUME Lawful, created \subseteq created', NEW t \in Tasks, StartCommand(t)
    PROVE  CountStep
<1> SUFFICES ASSUME NEW u \in Tasks
             PROVE  Counted(u)
  BY DEF CountStep
<1>0. TypeOK
  BY DEF Lawful
<1>1. /\ task_all # <<>> /\ t = Head(task_all) /\ task_spawn(t)
      /\ UNCHANGED stack
  BY DEF StartCommand, StartsNext
<1>2. On(task_all, t)
  BY <1>0, <1>1, HeadOn DEF TypeOK
<1>3. enqueued[t] /\ t \in created
  BY <1>2, QueuedHeld DEF Lawful, CreatedFirst
<1>4. WaitedFor(u)' <=> WaitedFor(u)
  BY <1>1, SameWaits
<1>5. CASE u # t
  <2>1. pid'[u] = pid[u]
    BY <1>0, <1>1, <1>5 DEF task_spawn, Fork, NoFork, TypeOK
  <2>2. enqueued'[u] = enqueued[u] /\ refcount'[u] = refcount[u]
    BY <1>0, <1>5 DEF StartCommand, task_dequeue, Unreferenced, TypeOK
  <2>3. QED
    BY <1>0, <1>4, <2>1, <2>2, KeptCount
<1>6. CASE u = t /\ pid'[t] # NoPid
  <2>1. UNCHANGED <<enqueued, refcount>>
    BY <1>6 DEF StartCommand
  <2>2. refcount[t] \in Int
    BY <1>0 DEF TypeOK
  <2>3. Due(t)' = Due(t) /\ Due(t) \in Int
    BY <1>3, <1>4, <1>6, <2>1 DEF Due, Held, Count
  <2>4. QED
    BY <1>3, <1>6, <2>1, <2>2, <2>3 DEF Counted, Balanced
<1>7. CASE u = t /\ pid'[t] = NoPid
  <2>1. ~ enqueued'[t] /\ refcount'[t] = refcount[t] - 1
    BY <1>0, <1>7 DEF StartCommand, task_dequeue, Unreferenced, TypeOK
  <2>2. QED
    BY <1>3, <1>4, <1>7, <2>1, DroppedCount DEF Held
<1>8. QED
  BY <1>5, <1>6, <1>7

\* The Tasks of T are new and enqueued, the others are left alone.
LEMMA QueuedCount ==
    ASSUME Lawful, NEW T \in SUBSET Fresh, T \subseteq created', NEW u \in Tasks,
           enqueued'[u] = (enqueued[u] \/ u \in T), pid'[u] = pid[u],
           u \in T => refcount'[u] = 1,
           u \notin T => refcount'[u] = refcount[u],
           WaitedFor(u)' <=> WaitedFor(u)
    PROVE  Counted(u)
<1>1. CASE u \in T
  <2>1. u \in Fresh /\ u \in created' /\ enqueued'[u] /\ refcount'[u] = 1
    BY <1>1
  <2>2. QED
    BY <2>1, EnqueuedCount
<1>2. CASE u \notin T
  <2>1. enqueued[u] \in BOOLEAN
    BY DEF Lawful, TypeOK
  <2>2. enqueued'[u] = enqueued[u]
    BY <1>2, <2>1
  <2>3. QED
    BY <1>2, <2>2, KeptCount DEF Lawful
<1>3. QED
  BY <1>1, <1>2

\* A builtin is executed.
LEMMA BuiltinWaitsNot ==
    ASSUME TypeOK, NEW t \in Tasks, NEW u,
           stack' = Append(stack, TaskFrame("task_run_builtin", t))
    PROVE  WaitedFor(u)' <=> WaitedFor(u)
<1> DEFINE f == TaskFrame("task_run_builtin", t)
<1>1. f \in Frames /\ f.fn = "task_run_builtin"
  BY FramesType, FrameFields
<1>2. stack' = Append(stack, f) /\ f.fn # "task_run_command"
  BY <1>1
<1> HIDE DEF f
<1>3. QED
  BY <1>1, <1>2, PushOtherWaits

LEMMA NoTargetsCount ==
    ASSUME Lawful, NEW t \in Tasks, NEW s \in AtMostOne(Commands \cap Fresh),
           NoTargets(t, s)
    PROVE  CountStep
<1> SUFFICES ASSUME NEW u \in Tasks
             PROVE  Counted(u)
  BY DEF CountStep
<1>0. TypeOK
  BY DEF Lawful
<1>1. ToSet(s) \in SUBSET Fresh
  BY AtMostOneType
<1>2. /\ ToSet(s) \subseteq created'
      /\ u \in ToSet(s) => refcount'[u] = 1
      /\ u \notin ToSet(s) => refcount'[u] = refcount[u]
  BY DEF NoTargets, task_create
<1>3. enqueued'[u] = (enqueued[u] \/ u \in ToSet(s)) /\ pid'[u] = pid[u]
  BY DEF NoTargets, Enqueued
<1>4. WaitedFor(u)' <=> WaitedFor(u)
  BY <1>0, BuiltinWaitsNot DEF NoTargets
<1>5. QED
  BY <1>1, <1>2, <1>3, <1>4, QueuedCount

LEMMA AbortCount ==
    ASSUME Lawful, created \subseteq created', task_current = NoTask, task_all # <<>>,
           NEW t \in Tasks, AbortQueue(t)
    PROVE  CountStep
<1> SUFFICES ASSUME NEW u \in Tasks
             PROVE  Counted(u)
  BY DEF CountStep
<1>0. TypeOK /\ QueueDiscipline
  BY DEF Lawful
<1>2. WaitedFor(u)' <=> WaitedFor(u)
  BY <1>0, BuiltinWaitsNot DEF AbortQueue
<1>3. pid'[u] = pid[u] /\ enqueued[u] \in BOOLEAN /\ refcount[u] \in Int
  BY <1>0 DEF AbortQueue, TypeOK
<1>4. /\ enqueued'[u] = (enqueued[u] /\ u \notin ToSet(task_all))
      /\ refcount'[u] = refcount[u] - (IF u \in ToSet(task_all) THEN 1 ELSE 0)
  BY DEF AbortQueue
<1>5. u \in ToSet(task_all) <=> On(task_all, u)
  BY <1>0, OnIsToSet DEF TypeOK
<1>6. CASE u \notin ToSet(task_all)
  <2>1. enqueued'[u] = enqueued[u] /\ refcount'[u] = refcount[u]
    BY <1>3, <1>4, <1>6
  <2>2. QED
    BY <1>0, <1>2, <1>3, <2>1, KeptCount
<1>7. CASE u \in ToSet(task_all)
  <2>1. enqueued[u] /\ u \in created
    BY <1>0, <1>5, <1>7, QueuedHeld DEF Lawful, CreatedFirst
  <2>2. pid[u] = NoPid
    <3>1. pid[u] # NoPid => u = Head(task_all)
      BY <1>0, <1>5, <1>7, OnlyHeadRuns
    <3>2. Head(task_all) \in Tasks
      BY <1>0, HeadOn DEF TypeOK
    <3>3. pid[Head(task_all)] = NoPid
      BY <3>2, TaskAssumption DEF task_current, Tasks
    <3>4. QED
      BY <3>1, <3>3
  <2>3. ~ enqueued'[u] /\ refcount'[u] = refcount[u] - 1
    BY <1>4, <1>7
  <2>4. QED
    BY <1>2, <1>3, <2>1, <2>2, <2>3, DroppedCount DEF Held
<1>8. QED
  BY <1>6, <1>7

LEMMA SpawnKeepsOthers ==
    ASSUME TypeOK, NEW c \in Tasks, task_spawn(c), NEW u \in Tasks, u # c
    PROVE  pid'[u] = pid[u]
  BY DEF task_spawn, Fork, NoFork, TypeOK

\* A command is run, by a builtin or by a callback.
LEMMA RunWaits ==
    ASSUME TypeOK, NEW f \in Frames, NEW c \in Tasks, NEW u, f.fn # "task_run_command",
           \/ stack' = Append(Append(stack, f), TaskFrame("task_run_command", c))
           \/ stack' = Append(stack, TaskFrame("task_run_command", c))
    PROVE  WaitedFor(u)' <=> WaitedFor(u) \/ u = c
<1> DEFINE g == TaskFrame("task_run_command", c)
           h == TaskFrame("task_run_command", u)
<1>1. g \in Frames
  BY FramesType
<1>2. g = h <=> u = c
  BY FrameFields
<1>3. f # h
  BY FrameFields
<1>4. WaitedFor(u) <=> On(stack, h)
  BY DEF WaitedFor
<1>5. WaitedFor(u)' <=> On(stack', h)
  BY DEF WaitedFor, TaskFrame
<1>6. stack \in Seq(Frames)
  BY DEF TypeOK
<1> HIDE DEF g, h
<1>7. Append(stack, f) \in Seq(Frames)
  BY <1>6
<1>8. /\ On(Append(Append(stack, f), g), h) <=> On(Append(stack, f), h) \/ g = h
      /\ On(Append(stack, f), h) <=> On(stack, h) \/ f = h
      /\ On(Append(stack, g), h) <=> On(stack, h) \/ g = h
  BY <1>1, <1>6, <1>7, OnAppend
<1>9. stack' = Append(Append(stack, f), g) \/ stack' = Append(stack, g)
  BY DEF g
<1>10. QED
  BY <1>2, <1>3, <1>4, <1>5, <1>8, <1>9

LEMMA ListTargetsCount ==
    ASSUME Lawful, NEW t \in Tasks, NEW s \in AtMostOne(Commands \cap Fresh),
           NEW c \in Fresh, ListTargetsForeground(t, s, c)
    PROVE  CountStep
<1> SUFFICES ASSUME NEW u \in Tasks
             PROVE  Counted(u)
  BY DEF CountStep
<1> DEFINE f == TaskFrame("task_run_builtin", t)
           T == ToSet(s)
           spawned == pid'[c] # NoPid
<1>0. TypeOK
  BY DEF Lawful
<1>1. T \in SUBSET Fresh /\ c \in Commands \cap Fresh /\ c \in Tasks /\ c \notin T
  BY AtMostOneType DEF ListTargetsForeground, Tasks
<1>2. /\ T \subseteq created' /\ c \in created'
      /\ refcount'[u] = IF u = c THEN RunRefcount(spawned)
                        ELSE IF u \in T THEN 1 ELSE refcount[u]
      /\ enqueued'[u] = (enqueued[u] \/ u \in T)
      /\ task_spawn(c)
  BY DEF ListTargetsForeground, Enqueued
<1>3. f \in Frames /\ f.fn # "task_run_command"
  BY FramesType, FrameFields
<1>4. CASE spawned
  <2>1. stack' = Append(Append(stack, f), TaskFrame("task_run_command", c))
    <3>1. stack' = stack \o <<f>> \o <<TaskFrame("task_run_command", c)>>
      BY <1>4 DEF ListTargetsForeground
    <3>2. TaskFrame("task_run_command", c) \in Frames
      BY <1>1, FramesType
    <3> HIDE DEF f
    <3>3. QED
      BY <1>0, <1>3, <3>1, <3>2, TwoPushed
  <2> HIDE DEF f
  <2>2. WaitedFor(u)' <=> WaitedFor(u) \/ u = c
    BY <1>0, <1>1, <1>3, <2>1, RunWaits
  <2>3. CASE u = c
    <3>1. refcount'[c] = 2
      BY <1>2, <1>4, <2>3 DEF RunRefcount
    <3>2. 1 + Count(WaitedFor(c)') = 2
      BY <2>2, <2>3 DEF Count
    <3>3. QED
      BY <1>1, <1>2, <1>4, <2>3, <3>1, <3>2, SpawnedCount
  <2>4. CASE u # c
    <3>1. pid'[u] = pid[u]
      BY <1>0, <1>1, <1>2, <2>4, SpawnKeepsOthers
    <3>2. /\ u \in T => refcount'[u] = 1
          /\ u \notin T => refcount'[u] = refcount[u]
      BY <1>2, <2>4
    <3> HIDE DEF T
    <3>3. QED
      BY <1>1, <1>2, <2>2, <2>4, <3>1, <3>2, QueuedCount
  <2>5. QED
    BY <2>3, <2>4
<1>5. CASE ~ spawned
  <2>1. stack' = Append(stack, f)
    <3>1. stack' = stack \o <<f>> \o <<>>
      BY <1>5 DEF ListTargetsForeground
    <3> HIDE DEF f
    <3>2. QED
      BY <1>0, <1>3, <3>1, TwoPushed
  <2>2. WaitedFor(u)' <=> WaitedFor(u)
    BY <1>0, <2>1, BuiltinWaitsNot
  <2> HIDE DEF f
  <2>3. CASE u = c
    <3>1. refcount'[c] \in {0, 1}
      BY <1>2, <1>5, <2>3 DEF RunRefcount
    <3>2. ~ enqueued'[c]
      BY <1>1, <1>2, <2>3, FreshTasks
    <3>3. QED
      BY <1>1, <1>2, <1>5, <2>2, <2>3, <3>1, <3>2, UnspawnedCount
  <2>4. CASE u # c
    <3>1. pid'[u] = pid[u]
      BY <1>0, <1>1, <1>2, <2>4, SpawnKeepsOthers
    <3>2. /\ u \in T => refcount'[u] = 1
          /\ u \notin T => refcount'[u] = refcount[u]
      BY <1>2, <2>4
    <3> HIDE DEF T
    <3>3. QED
      BY <1>1, <1>2, <2>2, <2>4, <3>1, <3>2, QueuedCount
  <2>5. QED
    BY <2>3, <2>4
<1>6. QED
  BY <1>4, <1>5

LEMMA BuiltinCount ==
    ASSUME Lawful, created \subseteq created', NEW t \in Tasks, StartBuiltin(t)
    PROVE  CountStep
<1>1. task_current = NoTask /\ task_all # <<>>
  BY BuiltinStarts
<1>2. \/ \E s \in AtMostOne(Commands \cap Fresh) :
            NoTargets(t, s) \/ \E c \in Fresh : ListTargetsForeground(t, s, c)
      \/ AbortQueue(t)
  BY DEF StartBuiltin
<1>3. QED
  BY <1>1, <1>2, NoTargetsCount, ListTargetsCount, AbortCount

LEMMA EndBuiltinCount ==
    ASSUME Lawful, NEW t \in Tasks, EndBuiltin(t)
    PROVE  CountStep
<1> SUFFICES ASSUME NEW u \in Tasks
             PROVE  Counted(u)
  BY DEF CountStep
<1>0. TypeOK /\ KnownFunctions
  BY DEF Lawful
<1>1. /\ stack # <<>> /\ stack' = Front(stack)
      /\ Last(stack) = TaskFrame("task_run_builtin", t)
  BY DEF EndBuiltin
<1>2. t \in Builtins /\ t \notin Commands
  <2>1. Len(stack) \in DOMAIN stack /\ stack[Len(stack)] = Last(stack)
    BY <1>0, <1>1, LastFrame
  <2>2. Last(stack).fn = "task_run_builtin" /\ Last(stack).task = t
    BY <1>1, FrameFields
  <2>3. QED
    BY <1>0, <2>1, <2>2, BuiltinFrames, TaskAssumption
<1>3. CASE u = t
  BY <1>2, <1>3 DEF Counted
<1>4. CASE u # t
  <2>1. /\ enqueued'[u] = enqueued[u]
        /\ refcount'[u] = refcount[u]
        /\ pid'[u] = pid[u]
    BY <1>0, <1>4 DEF EndBuiltin, task_dequeue, Unreferenced, TypeOK
  <2>2. Last(stack) # TaskFrame("task_run_command", u)
    BY <1>1, FrameFields
  <2>3. WaitedFor(u)' <=> WaitedFor(u)
    BY <1>0, <1>1, <2>2, ReturnWaits
  <2>4. QED
    BY <1>0, <2>1, <2>3, KeptCount
<1>5. QED
  BY <1>3, <1>4

LEMMA EndRunCount ==
    ASSUME Lawful, NEW t \in Tasks, EndRun(t)
    PROVE  CountStep
<1> SUFFICES ASSUME NEW u \in Tasks
             PROVE  Counted(u)
  BY DEF CountStep
<1>0. TypeOK /\ KnownFunctions /\ WaitsOnce /\ WaitsCreated
  BY DEF Lawful
<1>1. /\ stack # <<>> /\ stack' = Front(stack)
      /\ Last(stack) = TaskFrame("task_run_command", t)
      /\ stack \in Seq(Frames)
  BY <1>0 DEF EndRun, TypeOK
<1>2. /\ enqueued'[u] = enqueued[u]
      /\ pid'[u] = pid[u]
      /\ refcount'[u] = IF u = t THEN refcount[u] - 1 ELSE refcount[u]
      /\ refcount[u] \in Int
  BY <1>0 DEF EndRun, Unreferenced, TypeOK
<1>3. CASE u # t
  <2>1. Last(stack) # TaskFrame("task_run_command", u)
    BY <1>1, <1>3, FrameFields
  <2>2. WaitedFor(u)' <=> WaitedFor(u)
    BY <1>0, <1>1, <2>1, ReturnWaits
  <2>3. QED
    BY <1>0, <1>2, <1>3, <2>2, KeptCount
<1>4. CASE u = t
  <2> DEFINE f == TaskFrame("task_run_command", t)
  <2>1. /\ Len(stack) \in DOMAIN stack /\ stack[Len(stack)] = f
        /\ f.fn = "task_run_command" /\ f.task = t
    BY <1>0, <1>1, LastFrame, FrameFields
  <2>2. WaitedFor(t) /\ t \in created
    BY <1>0, <2>1 DEF WaitedFor, On, WaitsCreated
  <2>3. ~ On(Front(stack), f)
    <3> SUFFICES ASSUME NEW i \in DOMAIN Front(stack), Front(stack)[i] = f
                 PROVE  FALSE
      BY DEF On
    <3> HIDE DEF f
    <3>1. i \in 1..Len(stack) - 1 /\ stack[i] = f
      BY <1>1, FrontProperties
    <3>2. i \in DOMAIN stack /\ i # Len(stack)
      BY <1>1, <3>1
    <3>3. QED
      BY <1>0, <2>1, <3>1, <3>2 DEF WaitsOnce
  <2>4. ~ WaitedFor(t)'
    BY <1>1, <2>3 DEF WaitedFor, TaskFrame
  <2>5. Due(t)' = Due(t) - 1 /\ Due(t) \in Int
    BY <1>2, <1>4, <2>2, <2>4 DEF Due, Held, Count
  <2>6. t \notin Builtins
    <3>1. f \in Functions
      BY <1>0, <2>1 DEF KnownFunctions
    <3>2. f.task \in Commands
      <4>1. f.fn # "task_start" /\ f.fn # "g_unix_dispatch_reapers"
              /\ f.fn # "task_run_builtin" /\ f.fn # "remove_piddata"
        BY <2>1
      <4> HIDE DEF f
      <4>2. QED
        BY <3>1, <4>1, FrameFields DEF Functions
    <3>3. QED
      BY <2>1, <3>2, TaskAssumption
  <2>7. t \in created'
    BY <2>2 DEF EndRun
  <2>8. Balanced(t)
    BY <1>2, <1>4, <2>5 DEF Balanced
  <2>9. QED
    BY <1>4, <2>6, <2>7, <2>8 DEF Counted
<1>5. QED
  BY <1>3, <1>4

\* The reaper is about to drop the Task it has told.
LEMMA ExitWaits ==
    ASSUME TypeOK, NEW p \in Pids, NEW u,
           \/ stack' = stack \o <<PidFrame("remove_piddata", p)>>
                             \o <<Frame("task_start")>>
           \/ stack' = stack \o <<PidFrame("remove_piddata", p)>> \o <<>>
    PROVE  WaitedFor(u)' <=> WaitedFor(u)
<1> DEFINE f == PidFrame("remove_piddata", p)
           g == Frame("task_start")
           h == TaskFrame("task_run_command", u)
<1>1. f \in Frames /\ g \in Frames
  BY FramesType
<1>2. f # h /\ g # h
  BY FrameFields
<1>3. WaitedFor(u) <=> On(stack, h)
  BY DEF WaitedFor
<1>4. WaitedFor(u)' <=> On(stack', h)
  BY DEF WaitedFor, TaskFrame
<1>5. stack \in Seq(Frames)
  BY DEF TypeOK
<1>6. stack' = stack \o <<f>> \o <<g>> \/ stack' = stack \o <<f>> \o <<>>
  OBVIOUS
<1> HIDE DEF f, g, h
<1>7. stack' = Append(Append(stack, f), g) \/ stack' = Append(stack, f)
  BY <1>1, <1>6, TwoPushed
<1>8. Append(stack, f) \in Seq(Frames)
  BY <1>1, <1>5
<1>9. /\ On(Append(Append(stack, f), g), h) <=> On(Append(stack, f), h) \/ g = h
      /\ On(Append(stack, f), h) <=> On(stack, h) \/ f = h
  BY <1>1, <1>5, <1>8, OnAppend
<1>10. QED
  BY <1>2, <1>3, <1>4, <1>7, <1>9

LEMMA ExitCount ==
    ASSUME Lawful, NEW p \in Pids, NEW t \in Tasks,
           NEW s \in AtMostOne(Commands \cap Fresh), WaitExited(p, t, s)
    PROVE  CountStep
<1> SUFFICES ASSUME NEW u \in Tasks
             PROVE  Counted(u)
  BY DEF CountStep
<1> DEFINE T == ToSet(s)
<1>0. TypeOK
  BY DEF Lawful
<1>1. T \in SUBSET Fresh
  BY AtMostOneType
<1>2. pid[t] = p /\ pid[t] # NoPid
  BY TaskAssumption DEF WaitExited, Lawful, OwnerKnows
<1>3. t \in created /\ t \notin T
  BY <1>1, <1>2 DEF Lawful, CreatedFirst, Fresh
<1>4. /\ \/ stack' = stack \o <<PidFrame("remove_piddata", p)>>
                             \o <<Frame("task_start")>>
         \/ stack' = stack \o <<PidFrame("remove_piddata", p)>> \o <<>>
  BY DEF WaitExited
<1>5. WaitedFor(u)' <=> WaitedFor(u)
  BY <1>0, <1>4, ExitWaits
<1>6. /\ created' = created \cup T
      /\ pid'[u] = IF u = t THEN NoPid ELSE pid[u]
      /\ enqueued'[u] = IF u = t THEN FALSE ELSE (enqueued[u] \/ u \in T)
      /\ refcount'[u] = IF u \in T THEN 1
                        ELSE IF u = t THEN refcount[u] - 1 ELSE refcount[u]
  BY <1>0 DEF WaitExited, Enqueued, TypeOK
<1>7. T \subseteq created'
  BY <1>6
<1> HIDE DEF T
<1>8. CASE u = t
  <2>1. /\ t \in created' /\ Held(t)
        /\ ~ enqueued'[t] /\ pid'[t] = NoPid
        /\ refcount'[t] = refcount[t] - 1
    BY <1>2, <1>3, <1>6, <1>8 DEF Held
  <2>2. QED
    BY <1>5, <1>8, <2>1, DroppedCount
<1>9. CASE u # t
  <2>1. /\ enqueued'[u] = (enqueued[u] \/ u \in T)
        /\ pid'[u] = pid[u]
        /\ u \in T => refcount'[u] = 1
        /\ u \notin T => refcount'[u] = refcount[u]
    BY <1>6, <1>9
  <2>2. QED
    BY <1>1, <1>5, <1>7, <2>1, QueuedCount
<1>10. QED
  BY <1>8, <1>9

LEMMA BuildCount ==
    ASSUME Lawful, NEW s, Build(s)
    PROVE  CountStep
<1> SUFFICES ASSUME NEW u \in Tasks
             PROVE  Counted(u)
  BY DEF CountStep
<1>0. TypeOK
  BY DEF Lawful
<1>1. ToSet(s) \in SUBSET Fresh
  BY BatchesType DEF Build
<1>2. /\ ToSet(s) \subseteq created'
      /\ u \in ToSet(s) => refcount'[u] = 1
      /\ u \notin ToSet(s) => refcount'[u] = refcount[u]
      /\ enqueued'[u] = (enqueued[u] \/ u \in ToSet(s))
      /\ pid'[u] = pid[u]
  BY DEF Build, task_create, Enqueued
<1>3. Frame("task_start") \in Frames /\ Frame("task_start").fn # "task_run_command"
  BY FramesType, FrameFields
<1>4. WaitedFor(u)' <=> WaitedFor(u)
  BY <1>0, <1>3, PushOtherWaits DEF Build
<1>5. QED
  BY <1>1, <1>2, <1>4, QueuedCount

LEMMA MakeMakefileCount ==
    ASSUME Lawful, NEW t \in Commands, MakeMakefile(t)
    PROVE  CountStep
<1> SUFFICES ASSUME NEW u \in Tasks
             PROVE  Counted(u)
  BY DEF CountStep
<1>1. {t} \in SUBSET Fresh /\ ToSet(<<t>>) = {t}
  <2>1. \A x : On(<<t>>, x) <=> x = t
    BY OnSingle
  <2>2. <<t>> \in Seq({t})
    OBVIOUS
  <2>3. ToSet(<<t>>) = {t}
    BY <2>1, <2>2, OnIsToSet DEF ToSet
  <2>4. QED
    BY <2>3 DEF MakeMakefile
<1>2. /\ {t} \subseteq created'
      /\ u \in {t} => refcount'[u] = 1
      /\ u \notin {t} => refcount'[u] = refcount[u]
      /\ enqueued'[u] = (enqueued[u] \/ u \in {t})
      /\ pid'[u] = pid[u]
  BY <1>1 DEF MakeMakefile, task_create, Enqueued
<1>3. WaitedFor(u)' <=> WaitedFor(u)
  BY SameWaits DEF MakeMakefile
<1>4. QED
  BY <1>1, <1>2, <1>3, QueuedCount

LEMMA SpawnCount ==
    ASSUME Lawful, NEW t \in Commands, Spawn(t)
    PROVE  CountStep
<1> SUFFICES ASSUME NEW u \in Tasks
             PROVE  Counted(u)
  BY DEF CountStep
<1>0. TypeOK
  BY DEF Lawful
<1>1. t \in Commands \cap Fresh /\ t \in Tasks /\ t \in created' /\ task_spawn(t)
  BY DEF Spawn, task_create, Tasks
<1>2. /\ refcount'[u] = IF u = t THEN 1 ELSE refcount[u]
      /\ enqueued' = enqueued
  BY DEF Spawn, task_create
<1>3. WaitedFor(u)' <=> WaitedFor(u)
  BY SameWaits DEF Spawn
<1>4. CASE u # t
  <2>1. pid'[u] = pid[u]
    BY <1>0, <1>1, <1>4, SpawnKeepsOthers
  <2>2. QED
    BY <1>0, <1>2, <1>3, <1>4, <2>1, KeptCount
<1>5. CASE u = t /\ pid'[t] # NoPid
  <2>1. 1 + Count(WaitedFor(t)') = 1
    BY <1>1, <1>3, <1>5, FreshTasks DEF Count
  <2>2. QED
    BY <1>1, <1>2, <1>5, <2>1, SpawnedCount
<1>6. CASE u = t /\ pid'[t] = NoPid
  <2>1. ~ enqueued'[t] /\ refcount'[t] \in {0, 1}
    BY <1>1, <1>2, <1>6, FreshTasks
  <2>2. QED
    BY <1>1, <1>3, <1>6, <2>1, UnspawnedCount
<1>7. QED
  BY <1>4, <1>5, <1>6

LEMMA RunCount ==
    ASSUME Lawful, NEW t \in Commands, Run(t)
    PROVE  CountStep
<1> SUFFICES ASSUME NEW u \in Tasks
             PROVE  Counted(u)
  BY DEF CountStep
<1> DEFINE spawned == pid'[t] # NoPid
<1>0. TypeOK
  BY DEF Lawful
<1>1. t \in Commands \cap Fresh /\ t \in Tasks /\ t \in created' /\ task_spawn(t)
  BY DEF Run, Tasks
<1>2. /\ refcount'[u] = IF u # t THEN refcount[u]
                        ELSE IF spawned THEN 2 ELSE 0
      /\ enqueued' = enqueued
  BY <1>0 DEF Run, RunRefcount, TypeOK
<1>3. CASE spawned
  <2>1. stack' = Append(stack, TaskFrame("task_run_command", t))
    BY <1>3 DEF Run
  <2>2. Frame("task_start") \in Frames /\ Frame("task_start").fn # "task_run_command"
    BY FramesType, FrameFields
  <2>3. WaitedFor(u)' <=> WaitedFor(u) \/ u = t
    BY <1>0, <1>1, <2>1, <2>2, RunWaits
  <2>4. CASE u # t
    <3>1. pid'[u] = pid[u]
      BY <1>0, <1>1, <2>4, SpawnKeepsOthers
    <3>2. QED
      BY <1>0, <1>2, <2>3, <2>4, <3>1, KeptCount
  <2>5. CASE u = t
    <3>1. 1 + Count(WaitedFor(t)') = 2
      BY <2>3, <2>5 DEF Count
    <3>2. QED
      BY <1>1, <1>2, <1>3, <2>5, <3>1, SpawnedCount
  <2>6. QED
    BY <2>4, <2>5
<1>4. CASE ~ spawned
  <2>1. WaitedFor(u)' <=> WaitedFor(u)
    BY <1>4, SameWaits DEF Run
  <2>2. CASE u # t
    <3>1. pid'[u] = pid[u]
      BY <1>0, <1>1, <2>2, SpawnKeepsOthers
    <3>2. QED
      BY <1>0, <1>2, <2>1, <2>2, <3>1, KeptCount
  <2>3. CASE u = t
    <3>1. ~ enqueued'[t] /\ refcount'[t] \in {0, 1}
      BY <1>1, <1>2, <1>4, <2>3, FreshTasks
    <3>2. QED
      BY <1>1, <1>4, <2>1, <2>3, <3>1, UnspawnedCount
  <2>4. QED
    BY <2>2, <2>3
<1>5. QED
  BY <1>3, <1>4

\* The other steps leave every Task as it is.
LEMMA OtherCount ==
    ASSUME TypeOK,
           \/ EndStart \/ Dispatch \/ EndDispatch
           \/ \E p \in Pids : \/ WaitStopped(p) \/ WaitUnknown(p)
                              \/ RemovePidData(p) \/ ChildExit(p)
           \/ g_unix_signal_handler \/ Stop \/ Pause \/ Resume
           \/ UNCHANGED vars
    PROVE  CountStep
<1> SUFFICES ASSUME NEW u \in Tasks
             PROVE  Counted(u)
  BY DEF CountStep
<1>1. UNCHANGED <<created, refcount, pid, enqueued>>
  BY DEF EndStart, Dispatch, EndDispatch, WaitStopped, WaitUnknown, RemovePidData,
         ChildExit, g_unix_signal_handler, Stop, Pause, Resume, vars, taskVars
<1> DEFINE Same == WaitedFor(u)' <=> WaitedFor(u)
<1>2. ASSUME UNCHANGED stack
      PROVE  Same
  BY <1>2, SameWaits
<1>3. ASSUME EndStart \/ EndDispatch
      PROVE  Same
  <2>1. stack # <<>> /\ stack' = Front(stack)
    BY <1>3 DEF EndStart, EndDispatch, Running
  <2>2. Last(stack).fn # "task_run_command"
    BY <1>3 DEF EndStart, EndDispatch, Running
  <2>3. Last(stack) # TaskFrame("task_run_command", u)
    BY <2>2, FrameFields
  <2>4. QED
    BY <2>1, <2>3, ReturnWaits
<1>4. ASSUME NEW p \in Pids, RemovePidData(p)
      PROVE  Same
  <2>1. /\ stack # <<>> /\ stack' = Front(stack)
        /\ Last(stack) = PidFrame("remove_piddata", p)
    BY <1>4 DEF RemovePidData
  <2>2. Last(stack) # TaskFrame("task_run_command", u)
    BY <2>1, FrameFields
  <2>3. QED
    BY <2>1, <2>2, ReturnWaits
<1>5. ASSUME Dispatch
      PROVE  Same
  <2> DEFINE f == Frame("g_unix_dispatch_reapers")
  <2>1. f \in Frames /\ f.fn # "task_run_command" /\ stack' = Append(stack, f)
    BY <1>5, FramesType, FrameFields DEF Dispatch
  <2> HIDE DEF f
  <2>2. QED
    BY <2>1, PushOtherWaits
<1>6. Same
  <2>1. \/ UNCHANGED stack
        \/ EndStart \/ EndDispatch \/ Dispatch
        \/ \E p \in Pids : RemovePidData(p)
    BY DEF WaitStopped, WaitUnknown, ChildExit, g_unix_signal_handler, Stop,
           Pause, Resume, vars
  <2>2. QED
    BY <1>2, <1>3, <1>4, <1>5, <2>1
<1>7. QED
  BY <1>1, <1>6, KeptCount

LEMMA EveryCountStep ==
    ASSUME Lawful, [Next]_vars
    PROVE  CountStep
<1>0. TypeOK /\ created \subseteq created'
  BY QueueCreated DEF Lawful
<1>1. ASSUME NEW t \in Tasks,
             StartCommand(t) \/ StartBuiltin(t) \/ EndBuiltin(t) \/ EndRun(t)
      PROVE  CountStep
  BY <1>0, <1>1, CommandCount, BuiltinCount, EndBuiltinCount, EndRunCount
<1>2. ASSUME NEW p \in Pids, NEW t \in Tasks,
             NEW s \in AtMostOne(Commands \cap Fresh), WaitExited(p, t, s)
      PROVE  CountStep
  BY <1>2, ExitCount
<1>3. CASE \E s \in Batches : Build(s)
  BY <1>3, BuildCount
<1>4. ASSUME NEW t \in Commands, MakeMakefile(t) \/ Spawn(t) \/ Run(t)
      PROVE  CountStep
  BY <1>4, MakeMakefileCount, SpawnCount, RunCount
<1>5. CASE \/ EndStart \/ Dispatch \/ EndDispatch
           \/ \E p \in Pids : \/ WaitStopped(p) \/ WaitUnknown(p)
                              \/ RemovePidData(p) \/ ChildExit(p)
           \/ g_unix_signal_handler \/ Stop \/ Pause \/ Resume
           \/ UNCHANGED vars
  BY <1>0, <1>5, OtherCount
<1>6. QED
  BY <1>1, <1>2, <1>3, <1>4, <1>5 DEF Next, Program, Kernel, User

-----------------------------------------------------------------------------
(***************************************************************************)
(* No Task is used after it has been freed.                                *)
(***************************************************************************)
\* There is a reference for every use of a command, and one to each builtin
\* in the queue.
Enough == \A t \in Commands : refcount[t] >= Due(t)
BuiltinsCounted == \A t \in Builtins : enqueued[t] => refcount[t] = 1

LEMMA StepEnough ==
    ASSUME Lawful, Enough, BuiltinsCounted, [Next]_vars
    PROVE  Uncounted' /\ Enough' /\ BuiltinsCounted'
<1>0. CountStep /\ created \subseteq created' /\ TypeOK
  BY EveryCountStep, QueueCreated DEF Lawful
<1>1. ASSUME NEW t \in Commands
      PROVE  /\ t \notin created' => refcount'[t] = 0
             /\ refcount'[t] >= Due(t)'
  <2>1. t \in Tasks /\ Counted(t)
    BY <1>0 DEF CountStep, Tasks
  <2>2. /\ Balanced(t) \/ Leaked(t)
        /\ t \notin created' => refcount'[t] = refcount[t]
    BY <2>1 DEF Counted
  <2>3. t \notin created' => refcount[t] = 0
    BY <1>0 DEF Lawful, Uncounted
  <2>4. refcount[t] >= Due(t) /\ refcount[t] \in Int /\ Due(t) \in Int
    BY <1>0, <2>1 DEF Enough, TypeOK, Due, Count
  <2>5. Due(t)' \in Int
    BY DEF Due, Count
  <2>6. refcount'[t] \in Int
    <3>1. TypeOK'
      BY <1>0, StepType
    <3>2. QED
      BY <2>1, <3>1 DEF TypeOK
  <2>7. refcount'[t] >= Due(t)'
    BY <2>2, <2>4, <2>5, <2>6 DEF Balanced, Leaked
  <2>8. QED
    BY <2>2, <2>3, <2>7
<1>2. ASSUME NEW t \in Builtins, enqueued'[t]
      PROVE  refcount'[t] = 1
  <2>1. Counted(t) /\ t \in Tasks
    BY <1>0 DEF CountStep, Tasks
  <2>2. ~ EndBuiltin(t)
    BY <1>0, <1>2, <2>1 DEF EndBuiltin, task_dequeue, TypeOK
  <2>3. QED
    BY <1>2, <2>1, <2>2 DEF Counted, BuiltinsCounted
<1>3. QED
  BY <1>1, <1>2 DEF Uncounted, Enough, BuiltinsCounted, Due, Held, Count, WaitedFor, On, TaskFrame

LEMMA AlwaysEnough == Spec => [](Uncounted /\ Enough /\ BuiltinsCounted)
<1>1. Init => Uncounted /\ Enough /\ BuiltinsCounted
  <2> SUFFICES ASSUME Init
               PROVE  Uncounted /\ Enough /\ BuiltinsCounted
    OBVIOUS
  <2>1. ASSUME NEW t \in Commands
        PROVE  refcount[t] = 0 /\ ~ Held(t) /\ ~ WaitedFor(t)
    BY DEF Init, Held, WaitedFor, On, Tasks
  <2>2. \A t \in Builtins : ~ enqueued[t]
    BY DEF Init, Tasks
  <2>3. QED
    BY <2>1, <2>2 DEF Uncounted, Enough, BuiltinsCounted, Due, Count
<1>2. TypeOK /\ CreatedFirst /\ QueueDiscipline /\ KnownFunctions
        /\ BuiltinsUnspawned /\ OwnerKnows /\ (WaitsOnce /\ WaitsCreated)
        /\ (Uncounted /\ Enough /\ BuiltinsCounted) /\ [Next]_vars
        => (Uncounted /\ Enough /\ BuiltinsCounted)'
  BY StepEnough DEF Lawful
<1>3. QED
  BY <1>1, <1>2, TypeCorrect, AlwaysCreatedFirst, QueueDisciplined,
     AlwaysKnownFunctions, AlwaysBuiltinsUnspawned, AlwaysOwnerKnows, AlwaysWaits,
     PTL DEF Spec

\* What the queue, the reaper and the stack refer to has a reference.
LEMMA ReferencedAlive ==
    ASSUME TypeOK, CreatedFirst, QueueDiscipline, KnownFunctions,
           BuiltinsUnspawned, OwnerKnows, WaitsCreated, Enough, BuiltinsCounted
    PROVE  NoUseAfterFree
<1> SUFFICES ASSUME NEW t \in Referenced, t # NoTask, t \notin Dropped
             PROVE  t \in created /\ refcount[t] > 0
  BY DEF NoUseAfterFree
<1>0. ASSUME t \in Commands, Held(t) \/ WaitedFor(t)
      PROVE  refcount[t] > 0
  <2>1. refcount[t] \in Int
    BY <1>0 DEF TypeOK, Tasks
  <2>2. QED
    BY <1>0, <2>1 DEF Enough, Due, Count
<1>1. CASE t \in ToSet(task_all)
  <2>1. On(task_all, t)
    BY <1>1, OnIsToSet DEF TypeOK
  <2>2. t \in Tasks /\ enqueued[t] /\ t \in created
    BY <2>1, QueuedHeld DEF CreatedFirst
  <2>3. QED
    BY <1>0, <2>2 DEF Held, BuiltinsCounted, Tasks
<1>2. ASSUME NEW p \in Pids, ~ Dropping(p), t = piddata[p]
      PROVE  t \in created /\ refcount[t] > 0
  <2>1. t \in Tasks
    BY <1>2 DEF TypeOK
  <2>2. pid[t] = p /\ p # NoPid
    BY <1>2, TaskAssumption DEF OwnerKnows
  <2>3. t \in created /\ t \in Commands
    BY <2>1, <2>2 DEF CreatedFirst, BuiltinsUnspawned, Tasks
  <2>4. QED
    BY <1>0, <2>2, <2>3 DEF Held
<1>3. ASSUME NEW i \in DOMAIN stack, t = stack[i].task
      PROVE  t \in created /\ refcount[t] > 0
  <2>1. stack[i] \in Functions
    BY DEF KnownFunctions
  <2>2. \/ t \in Builtins
        \/ t \in Commands /\ stack[i] = TaskFrame("task_run_command", t)
    BY <1>3, <2>1, FrameFields DEF Functions
  <2>3. CASE t \in Builtins
    <3>1. enqueued[t] /\ t \in Tasks
      BY <2>3 DEF Dropped, Tasks
    <3>2. On(task_all, t)
      BY <3>1, ContainsIsOn DEF QueueDiscipline, TypeOK
    <3>3. QED
      BY <2>3, <3>1, <3>2 DEF CreatedFirst, BuiltinsCounted
  <2>4. CASE t \in Commands /\ stack[i] = TaskFrame("task_run_command", t)
    <3>1. WaitedFor(t) /\ t \in Tasks
      BY <2>4 DEF WaitedFor, On, Tasks
    <3>2. QED
      BY <1>0, <2>4, <3>1 DEF WaitsCreated
  <2>5. QED
    BY <2>2, <2>3, <2>4
<1>4. QED
  BY <1>1, <1>2, <1>3 DEF Referenced

\* Whatever goes wrong around the program, a Task that the queue, the reaper
\* or a waiting function will use has not been freed; only a builtin that has
\* aborted the queue is used without a reference. (task_ref, task_unref)
THEOREM TasksStayAlive == Spec => []NoUseAfterFree
<1>1. TypeOK /\ CreatedFirst /\ QueueDiscipline /\ KnownFunctions
        /\ BuiltinsUnspawned /\ OwnerKnows /\ (WaitsOnce /\ WaitsCreated)
        /\ (Uncounted /\ Enough /\ BuiltinsCounted)
        => NoUseAfterFree
  BY ReferencedAlive
<1>2. QED
  BY <1>1, TypeCorrect, AlwaysCreatedFirst, QueueDisciplined,
     AlwaysKnownFunctions, AlwaysBuiltinsUnspawned, AlwaysOwnerKnows, AlwaysWaits,
     AlwaysEnough, PTL

-----------------------------------------------------------------------------
(***************************************************************************)
(* References are exact.                                                   *)
(***************************************************************************)
\* Unless fork() fails, no reference to a command is lost or forgotten.
CommandsExact == \A t \in Commands : refcount[t] = Due(t)

Executing(b) == On(stack, TaskFrame("task_run_builtin", b))

\* Who aborts the queue drops the builtin that is being executed as well;
\* task_start() drops it once more when it has been executed.
BuiltinsExact ==
    \A b \in Builtins :
        \/ enqueued[b] /\ refcount[b] = 1
        \/ ~ enqueued[b] /\ refcount[b] = 0
        \/ ~ enqueued[b] /\ refcount[b] = -1 /\ ~ Executing(b)

LEMMA StepCommandsExact ==
    ASSUME ~ ForkFails, Lawful, CommandsExact, [Next]_vars
    PROVE  CommandsExact'
<1> SUFFICES ASSUME NEW t \in Commands
             PROVE  refcount'[t] = Due(t)'
  BY DEF CommandsExact, Due, Held, Count, WaitedFor, On, TaskFrame
<1>1. t \in Tasks /\ Counted(t)
  BY EveryCountStep DEF CountStep, Tasks
<1>2. Balanced(t)
  BY <1>1 DEF Counted, Leaked
<1>3. refcount[t] = Due(t) /\ Due(t) \in Int /\ Due(t)' \in Int
  BY DEF CommandsExact, Due, Count
<1>4. refcount'[t] \in Int
  <2>1. TypeOK'
    BY StepType DEF Lawful
  <2>2. QED
    BY <1>1, <2>1 DEF TypeOK
<1>5. QED
  BY <1>2, <1>3, <1>4 DEF Balanced

\* task_run_builtin() is called for the head of the queue only ...
LEMMA ExecutingBefore ==
    ASSUME TypeOK, [Next]_vars, NEW b \in Builtins, Executing(b)'
    PROVE  Executing(b) \/ StartBuiltin(b)
<1> DEFINE f == TaskFrame("task_run_builtin", b)
<1>0. StackStep /\ f.fn = "task_run_builtin" /\ f.task = b
  BY EveryStackStep, FrameFields
<1>1. PICK i \in DOMAIN stack' : stack'[i] = f
  BY DEF Executing, On, TaskFrame
<1> HIDE DEF f
<1>2. CASE i \in DOMAIN stack /\ stack'[i] = stack[i]
  BY <1>1, <1>2 DEF Executing, On, f
<1>3. ASSUME CalledOne(f)
      PROVE  StartBuiltin(b)
  BY <1>0, <1>3, FrameFields DEF CalledOne
<1>4. ASSUME NEW g \in Frames, CalledTwo(f, g)
      PROVE  StartBuiltin(b)
  BY <1>0, <1>4, FrameFields DEF CalledTwo
<1>5. ASSUME NEW g \in Frames, CalledTwo(g, f)
      PROVE  FALSE
  BY <1>0, <1>5, FrameFields DEF CalledTwo
<1>6. QED
  BY <1>0, <1>1, <1>2, <1>3, <1>4, <1>5, FrameAfter

\* ... and returns once.
LEMMA ExecutedOnce ==
    ASSUME TypeOK, Alone, NEW b \in Builtins, EndBuiltin(b)
    PROVE  Executing(b) /\ ~ Executing(b)'
<1> DEFINE f == TaskFrame("task_run_builtin", b)
<1>1. /\ stack # <<>> /\ stack' = Front(stack) /\ stack \in Seq(Frames)
      /\ Last(stack) = f /\ f.fn = "task_run_builtin"
  BY FrameFields DEF EndBuiltin, TypeOK
<1> HIDE DEF f
<1>2. Len(stack) \in DOMAIN stack /\ stack[Len(stack)] = f
  BY <1>1, LastFrame
<1>3. Executing(b)
  BY <1>2 DEF Executing, On, f
<1>4. ASSUME Executing(b)'
      PROVE  FALSE
  <2>1. PICK i \in DOMAIN stack' : stack'[i] = f
    BY <1>4 DEF Executing, On, f, TaskFrame
  <2>2. i \in 1..Len(stack) - 1 /\ stack[i] = f
    BY <1>1, <2>1, FrontProperties
  <2>3. i \in DOMAIN stack /\ i # Len(stack)
    BY <1>1, <2>2
  <2>4. QED
    BY <1>1, <1>2, <2>2, <2>3, OneBuiltin
<1>5. QED
  BY <1>3, <1>4

LEMMA StepBuiltinsExact ==
    ASSUME Lawful, Alone, BuiltinsExact, [Next]_vars
    PROVE  BuiltinsExact'
<1> SUFFICES ASSUME NEW b \in Builtins
             PROVE  \/ enqueued'[b] /\ refcount'[b] = 1
                    \/ ~ enqueued'[b] /\ refcount'[b] = 0
                    \/ ~ enqueued'[b] /\ refcount'[b] = -1 /\ ~ Executing(b)'
  BY DEF BuiltinsExact, Executing, On, TaskFrame
<1>0. TypeOK /\ b \in Tasks
  BY DEF Lawful, Tasks
<1>1. \/ enqueued'[b] = enqueued[b] /\ refcount'[b] = refcount[b]
      \/ enqueued'[b] /\ refcount'[b] = 1
      \/ enqueued[b] /\ ~ enqueued'[b] /\ refcount'[b] = refcount[b] - 1
      \/ EndBuiltin(b)
  BY <1>0, EveryCountStep DEF CountStep, Counted
<1>2. ASSUME StartBuiltin(b)
      PROVE  enqueued[b]
  <2>1. task_all # <<>> /\ b = Head(task_all)
    BY <1>2, BuiltinStarts
  <2>2. On(task_all, b)
    BY <1>0, <2>1, HeadOn DEF TypeOK
  <2>3. QED
    BY <1>0, <2>2, QueuedHeld DEF Lawful
<1>3. CASE enqueued'[b] = enqueued[b] /\ refcount'[b] = refcount[b]
  BY <1>0, <1>2, <1>3, ExecutingBefore DEF BuiltinsExact
<1>4. CASE enqueued[b] /\ ~ enqueued'[b] /\ refcount'[b] = refcount[b] - 1
  BY <1>4 DEF BuiltinsExact
<1>5. CASE EndBuiltin(b)
  <2>1. Executing(b) /\ ~ Executing(b)'
    BY <1>0, <1>5, ExecutedOnce
  <2>2. ~ enqueued'[b] /\ refcount'[b] = refcount[b] - 1
    BY <1>0, <1>5 DEF EndBuiltin, task_dequeue, Unreferenced, TypeOK
  <2>3. QED
    BY <2>1, <2>2 DEF BuiltinsExact
<1>6. QED
  BY <1>1, <1>3, <1>4, <1>5

LEMMA ExactThen ==
    ASSUME TypeOK, KnownFunctions, BuiltinsUnspawned, OwnerKnows, DroppedDead,
           ChildRegistered, WaitsOnce, CommandsExact, BuiltinsExact
    PROVE  RefcountExact
<1> DEFINE Owner(t) ==
               enqueued[t] \/ \E p \in Pids : piddata[p] = t /\ ~ Dropping(p)
           Waits(t) ==
               {i \in DOMAIN stack : stack[i] = TaskFrame("task_run_command", t)}
<1> SUFFICES ASSUME NEW t \in created
             PROVE  \/ refcount[t] = (IF Owner(t) THEN 1 ELSE 0) + Cardinality(Waits(t))
                    \/ t \in Dropped /\ refcount[t] = -1
  BY Zenon DEF RefcountExact
<1> DEFINE owner == Owner(t)
           waits == Waits(t)
           f == TaskFrame("task_run_command", t)
<1>1. t \in Tasks /\ t # NoTask
  BY TaskAssumption DEF TypeOK, Tasks
<1>2. owner <=> Held(t)
  <2>1. ASSUME NEW p \in Pids, piddata[p] = t, ~ Dropping(p)
        PROVE  pid[t] # NoPid
    BY <1>1, <2>1, TaskAssumption DEF OwnerKnows
  <2>2. ASSUME pid[t] # NoPid
        PROVE  pid[t] \in Pids /\ piddata[pid[t]] = t /\ ~ Dropping(pid[t])
    BY <1>1, <2>2 DEF ChildRegistered, DroppedDead, TypeOK
  <2>3. QED
    BY <2>1, <2>2 DEF Held
<1>3. Cardinality(waits) = Count(WaitedFor(t))
  <2>1. f.fn = "task_run_command"
    BY FrameFields
  <2>2. CASE WaitedFor(t)
    <3>1. PICK i \in DOMAIN stack : stack[i] = f
      BY <2>2 DEF WaitedFor, On
    <3>2. waits = {j \in DOMAIN stack : stack[j] = f}
      OBVIOUS
    <3> HIDE DEF f, waits
    <3>3. waits = {i}
      BY <2>1, <3>1, <3>2 DEF WaitsOnce
    <3>4. QED
      BY <2>2, <3>3, FS_Singleton DEF Count
  <2>3. CASE ~ WaitedFor(t)
    <3>1. waits = {}
      BY <2>3 DEF WaitedFor, On
    <3>2. QED
      BY <2>3, <3>1, FS_EmptySet DEF Count
  <2>4. QED
    BY <2>2, <2>3
<1>4. CASE t \in Commands
  <2>1. refcount[t] = Count(Held(t)) + Count(WaitedFor(t))
    BY <1>4 DEF CommandsExact, Due
  <2>2. Count(Held(t)) = IF owner THEN 1 ELSE 0
    BY <1>2 DEF Count
  <2> HIDE DEF owner, waits
  <2>3. refcount[t] = (IF owner THEN 1 ELSE 0) + Cardinality(waits)
    BY <1>3, <2>1, <2>2
  <2>4. QED
    BY <2>3, Zenon DEF owner, waits
<1>5. CASE t \in Builtins
  <2>1. ~ WaitedFor(t)
    <3> SUFFICES ASSUME NEW i \in DOMAIN stack, stack[i] = f
                 PROVE  FALSE
      BY DEF WaitedFor, On
    <3>1. f \in Functions /\ f.fn = "task_run_command" /\ f.task = t
      BY FrameFields DEF KnownFunctions
    <3> HIDE DEF f
    <3>2. t \in Commands
      BY <3>1, FrameFields DEF Functions
    <3>3. QED
      BY <1>5, <3>2, TaskAssumption
  <2>2. Cardinality(waits) = 0
    BY <1>3, <2>1 DEF Count
  <2>3. owner <=> enqueued[t]
    BY <1>2, <1>5 DEF Held, BuiltinsUnspawned
  <2> HIDE DEF owner, waits
  <2>4. \/ refcount[t] = (IF owner THEN 1 ELSE 0) + Cardinality(waits)
        \/ t \in Dropped /\ refcount[t] = -1
    BY <1>5, <2>2, <2>3 DEF BuiltinsExact, Dropped
  <2>5. QED
    BY <2>4, Zenon DEF owner, waits
<1>6. QED
  BY <1>1, <1>4, <1>5 DEF Tasks

LEMMA InitExact == Init => CommandsExact /\ BuiltinsExact
<1> SUFFICES ASSUME Init
             PROVE  CommandsExact /\ BuiltinsExact
  OBVIOUS
<1>1. ASSUME NEW t \in Commands
      PROVE  refcount[t] = 0 /\ ~ Held(t) /\ ~ WaitedFor(t)
  BY DEF Init, Held, WaitedFor, On, Tasks
<1>2. \A b \in Builtins : ~ enqueued[b] /\ refcount[b] = 0
  BY DEF Init, Tasks
<1>3. QED
  BY <1>1, <1>2 DEF CommandsExact, BuiltinsExact, Due, Count

\* As long as fork() succeeds - there is a pid left, and no other reason to
\* fail - and no callback is nested in a builtin, a Task is referenced exactly
\* once by the queue or the reaper and once by each function that waits for
\* it: none is freed too early, and none is kept for ever.  (task_ref,
\* task_unref)
THEOREM ReferencesExact ==
    ASSUME "fork fails" \notin Circumstances, "pid reuse" \notin Circumstances,
           Unnested
    PROVE  Spec /\ [](FreshPids # {}) => []RefcountExact
<1>1. FreshPids # {} => ~ ForkFails
  BY DEF ForkFails
<1>2. TypeOK /\ CreatedFirst /\ QueueDiscipline /\ KnownFunctions
        /\ BuiltinsUnspawned /\ OwnerKnows /\ (WaitsOnce /\ WaitsCreated)
        /\ (Uncounted /\ Enough /\ BuiltinsCounted) /\ Alone /\ FreshPids # {}
        /\ CommandsExact /\ BuiltinsExact /\ [Next]_vars
        => CommandsExact' /\ BuiltinsExact'
  BY <1>1, StepCommandsExact, StepBuiltinsExact DEF Lawful
<1>3. TypeOK /\ KnownFunctions /\ BuiltinsUnspawned /\ OwnerKnows
        /\ (DroppedDead /\ ChildRegistered) /\ (WaitsOnce /\ WaitsCreated)
        /\ CommandsExact /\ BuiltinsExact
        => RefcountExact
  BY ExactThen
<1>4. Spec => []Alone /\ [](DroppedDead /\ ChildRegistered)
  BY AlwaysAlone, AlwaysRegistered, PTL
<1>5. QED
  BY <1>2, <1>3, <1>4, InitExact, TypeCorrect, AlwaysCreatedFirst,
     QueueDisciplined, AlwaysKnownFunctions, AlwaysBuiltinsUnspawned,
     AlwaysOwnerKnows, AlwaysWaits, AlwaysEnough, PTL DEF Spec

-----------------------------------------------------------------------------
(***************************************************************************)
(* TASK_PAUSED and the process.                                            *)
(***************************************************************************)
\* A Task keeps the flag after its command has ended, but it is not enqueued
\* then: no command is started with the flag set.
PausedFirst ==
    \A t \in Tasks : paused[t] =>
        t \in created /\ (pid[t] # NoPid \/ ~ enqueued[t])

\* Only new Tasks are enqueued, and who waits for a command dequeues its Task.
OnlyNewEnqueued ==
    \A t \in created :
        /\ enqueued'[t] => enqueued[t]
        /\ pid[t] # NoPid /\ pid'[t] = NoPid => ~ enqueued'[t]

LEMMA ForkedPids ==
    ASSUME TypeOK, NEW t \in Tasks, task_spawn(t), pid[t] = NoPid
    PROVE  \A u \in Tasks : pid[u] # NoPid => pid'[u] = pid[u]
  BY DEF task_spawn, Fork, NoFork, TypeOK

LEMMA StepOnlyNewEnqueued ==
    ASSUME TypeOK, CreatedFirst, [Next]_vars
    PROVE  OnlyNewEnqueued
<1> SUFFICES ASSUME NEW u \in created
             PROVE  /\ enqueued'[u] => enqueued[u]
                    /\ pid[u] # NoPid /\ pid'[u] = NoPid => ~ enqueued'[u]
  BY DEF OnlyNewEnqueued
<1>0. /\ u \in Tasks /\ u \notin Fresh
      /\ enqueued \in [Tasks -> BOOLEAN]
      /\ pid \in [Tasks -> Pids \cup {NoPid}]
  BY DEF TypeOK, Fresh
<1> DEFINE Goal == /\ enqueued'[u] => enqueued[u]
                   /\ pid[u] # NoPid /\ pid'[u] = NoPid => ~ enqueued'[u]
<1>1. ASSUME NEW s \in AtMostOne(Commands \cap Fresh)
      PROVE  u \notin ToSet(s)
  BY <1>0, AtMostOneType
<1>2. ASSUME NEW t \in Tasks, StartCommand(t)
      PROVE  Goal
  <2>1. t \in Commands /\ task_spawn(t) /\ t = Head(task_all) /\ task_all # <<>>
          /\ task_current = NoTask
    BY <1>2 DEF StartCommand, StartsNext
  <2>2. pid[t] = NoPid
    BY <2>1, <1>2, TaskAssumption DEF task_current, Tasks
  <2>3. pid[u] # NoPid => pid'[u] = pid[u]
    BY <1>0, <2>1, <2>2, ForkedPids
  <2>4. enqueued'[u] => enqueued[u]
    BY <1>0, <1>2 DEF StartCommand, task_dequeue
  <2>5. QED
    BY <2>3, <2>4
<1>3. ASSUME NEW t \in Tasks, StartBuiltin(t)
      PROVE  Goal
  <2>1. ASSUME NEW s \in AtMostOne(Commands \cap Fresh), NoTargets(t, s)
        PROVE  Goal
    BY <1>0, <1>1, <2>1 DEF NoTargets, Enqueued
  <2>2. ASSUME NEW s \in AtMostOne(Commands \cap Fresh), NEW c \in Fresh,
               ListTargetsForeground(t, s, c)
        PROVE  Goal
    <3>1. c \in Tasks /\ c \notin created /\ pid[c] = NoPid /\ task_spawn(c)
      BY <2>2 DEF ListTargetsForeground, Fresh, CreatedFirst
    <3>2. pid[u] # NoPid => pid'[u] = pid[u]
      BY <1>0, <3>1, ForkedPids
    <3>3. enqueued'[u] => enqueued[u]
      BY <1>0, <1>1, <2>2 DEF ListTargetsForeground, Enqueued
    <3>4. QED
      BY <3>2, <3>3
  <2>3. CASE AbortQueue(t)
    BY <1>0, <2>3 DEF AbortQueue
  <2>4. QED
    BY <1>3, <2>1, <2>2, <2>3 DEF StartBuiltin
<1>4. ASSUME NEW t \in Tasks, EndBuiltin(t) \/ EndRun(t)
      PROVE  Goal
  BY <1>0, <1>4 DEF EndBuiltin, EndRun, task_dequeue
<1>5. ASSUME NEW p \in Pids, NEW t \in Tasks,
             NEW s \in AtMostOne(Commands \cap Fresh), WaitExited(p, t, s)
      PROVE  Goal
  BY <1>0, <1>1, <1>5 DEF WaitExited, Enqueued
<1>6. ASSUME NEW s \in Batches, Build(s)
      PROVE  Goal
  <2>1. u \notin ToSet(s)
    BY <1>0, <1>6, BatchesType
  <2>2. QED
    BY <1>0, <1>6, <2>1 DEF Build, Enqueued
<1>7. ASSUME NEW t \in Commands, MakeMakefile(t)
      PROVE  Goal
  <2>1. t \in Fresh /\ t # u
    BY <1>0, <1>7 DEF MakeMakefile
  <2>2. u \notin ToSet(<<t>>)
    <3>1. ~ On(<<t>>, u) /\ <<t>> \in Seq(Fresh)
      BY <2>1, OnSingle
    <3>2. QED
      BY <3>1, OnIsToSet
  <2>3. QED
    BY <1>0, <1>7, <2>2 DEF MakeMakefile, Enqueued
<1>8. ASSUME NEW t \in Commands, Spawn(t) \/ Run(t)
      PROVE  Goal
  <2>1. t \in Tasks /\ pid[t] = NoPid /\ task_spawn(t) /\ UNCHANGED enqueued
    BY <1>8 DEF Spawn, Run, Fresh, Tasks, CreatedFirst
  <2>2. QED
    BY <1>0, <2>1, ForkedPids
<1>9. CASE \/ EndStart \/ Dispatch \/ EndDispatch
           \/ \E p \in Pids : \/ WaitStopped(p) \/ WaitUnknown(p)
                              \/ RemovePidData(p) \/ ChildExit(p)
           \/ g_unix_signal_handler \/ Stop \/ Pause \/ Resume
           \/ UNCHANGED vars
  BY <1>9 DEF EndStart, Dispatch, EndDispatch, WaitStopped, WaitUnknown,
     RemovePidData, ChildExit, g_unix_signal_handler, Stop, Pause, Resume, vars, taskVars
<1>10. QED
  BY <1>2, <1>3, <1>4, <1>5, <1>6, <1>7, <1>8, <1>9 DEF Next, Program, Kernel, User

\* A child starts with the flag clear, ...
LEMMA ForkAgrees ==
    ASSUME TypeOK, CreatedFirst, ChildRegistered, PausedFirst, PausedAgrees,
           NEW t \in Tasks, task_spawn(t), t \in Fresh \/ enqueued[t],
           pid[t] = NoPid, UNCHANGED paused
    PROVE  PausedAgrees'
<1> SUFFICES ASSUME NEW u \in Tasks, pid'[u] # NoPid
             PROVE  /\ paused[u] => proc'[pid'[u]] \in {"stopped", "zombie"}
                    /\ proc'[pid'[u]] = "stopped" => paused[u]
  BY DEF PausedAgrees
<1>1. ~ paused[t]
  BY DEF PausedFirst, Fresh
<1>2. CASE NoFork
  BY <1>2 DEF NoFork, PausedAgrees
<1>3. ASSUME NEW p \in FreshPids, Fork(t, p)
      PROVE  /\ paused[u] => proc'[pid'[u]] \in {"stopped", "zombie"}
             /\ proc'[pid'[u]] = "stopped" => paused[u]
  <2>1. p \in Pids /\ proc[p] = "none" /\ p # NoPid
    BY TaskAssumption DEF FreshPids
  <2>2. /\ pid'[u] = IF u = t THEN p ELSE pid[u]
        /\ \A q \in Pids : proc'[q] = IF q = p THEN "running" ELSE proc[q]
    BY <1>3 DEF Fork, TypeOK
  <2>3. CASE u = t
    BY <1>1, <2>1, <2>2, <2>3
  <2>4. CASE u # t
    <3>1. pid[u] # NoPid /\ pid[u] \in Pids /\ pid'[u] = pid[u]
      BY <2>2, <2>4 DEF TypeOK
    <3>2. pid[u] # p
      BY <2>1, <3>1 DEF ChildRegistered
    <3>3. proc'[pid'[u]] = proc[pid[u]]
      BY <2>2, <3>1, <3>2
    <3>4. QED
      BY <3>1, <3>3 DEF PausedAgrees
  <2>5. QED
    BY <2>3, <2>4
<1>4. QED
  BY <1>2, <1>3 DEF task_spawn

\* ... and what happens to one child or its Task leaves the others alone.
LEMMA OneAgrees ==
    ASSUME TypeOK, ChildRegistered, PausedAgrees,
           NEW p \in Pids, NEW t \in Tasks, pid[t] = p, UNCHANGED pid,
           \A q \in Pids \ {p} : proc'[q] = proc[q],
           \A u \in Tasks \ {t} : paused'[u] = paused[u],
           paused'[t] => proc'[p] \in {"stopped", "zombie"},
           proc'[p] = "stopped" => paused'[t]
    PROVE  PausedAgrees'
<1> SUFFICES ASSUME NEW u \in Tasks, pid[u] # NoPid
             PROVE  /\ paused'[u] => proc'[pid[u]] \in {"stopped", "zombie"}
                    /\ proc'[pid[u]] = "stopped" => paused'[u]
  BY DEF PausedAgrees
<1>1. CASE u = t
  BY <1>1
<1>2. CASE u # t
  <2>1. pid[u] \in Pids /\ pid[u] # p
    BY <1>2 DEF ChildRegistered, TypeOK
  <2>2. QED
    BY <1>2, <2>1 DEF PausedAgrees
<1>3. QED
  BY <1>1, <1>2

LEMMA StepPausedAgrees ==
    ASSUME TypeOK, CreatedFirst, QueueDiscipline, ChildRegistered,
           PausedFirst, PausedAgrees, [Next]_vars
    PROVE  PausedAgrees'
<1>0. /\ pid \in [Tasks -> Pids \cup {NoPid}]
      /\ paused \in [Tasks -> BOOLEAN]
      /\ proc \in [Pids -> ProcStates]
      /\ piddata \in [Pids -> Tasks \cup {NoTask}]
  BY DEF TypeOK
\* The Task of a child, and of the button.
<1>1. ASSUME NEW p \in Pids, proc[p] # "none"
      PROVE  piddata[p] \in Tasks /\ pid[piddata[p]] = p /\ piddata[p] # NoTask
  BY <1>0, <1>1 DEF ChildRegistered
<1>2. ASSUME task_current # NoTask
      PROVE  task_current \in Tasks /\ pid[task_current] \in Pids
  <2>1. task_all # <<>> /\ task_current = Head(task_all) /\ pid[task_current] # NoPid
    BY <1>2 DEF task_current
  <2>2. task_current \in Tasks
    BY <2>1, HeadOn DEF TypeOK
  <2>3. QED
    BY <1>0, <2>1, <2>2
<1> HIDE DEF task_current
<1>3. ASSUME UNCHANGED <<pid, proc, paused>>
      PROVE  PausedAgrees'
  BY <1>3 DEF PausedAgrees
<1>4. ASSUME NEW t \in Tasks, StartCommand(t)
      PROVE  PausedAgrees'
  <2>1. task_all # <<>> /\ t = Head(task_all) /\ task_current = NoTask
          /\ task_spawn(t) /\ UNCHANGED paused
    BY <1>4 DEF StartCommand, StartsNext
  <2>2. enqueued[t]
    <3>1. On(task_all, t)
      BY <2>1, HeadOn DEF TypeOK
    <3>2. QED
      BY <3>1, QueuedHeld
  <2>3. pid[t] = NoPid
    BY <2>1, TaskAssumption DEF task_current, Tasks
  <2>4. QED
    BY <2>1, <2>2, <2>3, ForkAgrees
<1>5. ASSUME NEW t \in Tasks, StartBuiltin(t)
      PROVE  PausedAgrees'
  <2>1. ASSUME NEW s, NEW c \in Fresh, ListTargetsForeground(t, s, c)
        PROVE  PausedAgrees'
    <3>1. c \in Tasks /\ pid[c] = NoPid /\ task_spawn(c) /\ UNCHANGED paused
      BY <1>5, <2>1 DEF ListTargetsForeground, StartBuiltin, Fresh, CreatedFirst
    <3>2. QED
      BY <3>1, ForkAgrees
  <2>2. CASE AbortQueue(t) \/ \E s : NoTargets(t, s)
    BY <1>3, <1>5, <2>2 DEF AbortQueue, NoTargets, StartBuiltin
  <2>3. QED
    BY <1>5, <2>1, <2>2 DEF StartBuiltin
<1>6. ASSUME NEW t \in Commands, Spawn(t) \/ Run(t)
      PROVE  PausedAgrees'
  <2>1. t \in Tasks /\ t \in Fresh /\ pid[t] = NoPid /\ task_spawn(t)
          /\ UNCHANGED paused
    BY <1>6 DEF Spawn, Run, Fresh, Tasks, CreatedFirst
  <2>2. QED
    BY <2>1, ForkAgrees
<1>7. ASSUME NEW p \in Pids, NEW t \in Tasks, NEW s, WaitExited(p, t, s)
      PROVE  PausedAgrees'
  <2>1. /\ pid' = [pid EXCEPT ![t] = NoPid]
        /\ proc' = [proc EXCEPT ![p] = "none"]
        /\ UNCHANGED paused
        /\ pid[t] = p
    BY <1>1, <1>7 DEF WaitExited
  <2> SUFFICES ASSUME NEW u \in Tasks, pid'[u] # NoPid
               PROVE  /\ paused[u] => proc'[pid'[u]] \in {"stopped", "zombie"}
                      /\ proc'[pid'[u]] = "stopped" => paused[u]
    BY <2>1 DEF PausedAgrees
  <2>2. u # t /\ pid'[u] = pid[u] /\ pid[u] \in Pids
    BY <1>0, <2>1
  <2>3. pid[u] # p
    BY <2>1, <2>2, TaskAssumption DEF ChildRegistered
  <2>4. proc'[pid'[u]] = proc[pid[u]]
    BY <1>0, <2>1, <2>2, <2>3
  <2>5. QED
    BY <2>2, <2>4, TaskAssumption DEF PausedAgrees
<1>8. ASSUME NEW p \in Pids, ChildExit(p)
      PROVE  PausedAgrees'
  BY <1>0, <1>1, <1>8, OneAgrees DEF ChildExit, taskVars
<1>9. ASSUME NEW p \in Pids, WaitStopped(p)
      PROVE  PausedAgrees'
  <2>1. piddata[p] \in Tasks /\ pid[piddata[p]] = p /\ piddata[p] # NoTask
    BY <1>1, <1>9 DEF WaitStopped
  <2>2. QED
    BY <1>0, <1>9, <2>1, OneAgrees DEF WaitStopped
<1>10. ASSUME NEW p \in Pids, WaitUnknown(p)
       PROVE  PausedAgrees'
  BY <1>1, <1>10 DEF WaitUnknown
<1>11. CASE Stop \/ Pause \/ Resume
  <2> DEFINE t == task_current
             p == pid[t]
  <2>1. t \in Tasks /\ p \in Pids /\ p # NoPid
    BY <1>2, <1>11, TaskAssumption DEF Stop, Pause, Resume
  <2>2. paused[t] => proc[p] \in {"stopped", "zombie"}
    BY <2>1 DEF PausedAgrees
  <2>3. UNCHANGED pid
    BY <1>11 DEF Stop, Pause, Resume, taskVars
  <2>4. /\ \A q \in Pids \ {p} : proc'[q] = proc[q]
        /\ \A u \in Tasks \ {t} : paused'[u] = paused[u]
    BY <1>0, <1>11, <2>1 DEF Stop, Pause, Resume, taskVars
  <2>5. CASE Stop
    BY <1>0, <2>1, <2>2, <2>3, <2>4, <2>5, OneAgrees DEF Stop, taskVars
  <2>6. CASE Pause
    BY <1>0, <2>1, <2>2, <2>3, <2>4, <2>6, OneAgrees DEF Pause, taskVars
  <2>7. CASE Resume
    BY <1>0, <2>1, <2>2, <2>3, <2>4, <2>7, OneAgrees DEF Resume, Dead
  <2>8. QED
    BY <1>11, <2>5, <2>6, <2>7
<1>12. CASE \/ EndStart \/ Dispatch \/ EndDispatch \/ g_unix_signal_handler
            \/ \E t \in Tasks : EndBuiltin(t) \/ EndRun(t)
            \/ \E p \in Pids : RemovePidData(p)
            \/ \E s \in Batches : Build(s)
            \/ \E t \in Commands : MakeMakefile(t)
            \/ UNCHANGED vars
  BY <1>3, <1>12 DEF EndStart, Dispatch, EndDispatch, g_unix_signal_handler,
     EndBuiltin, EndRun, RemovePidData, Build, MakeMakefile, vars, taskVars
<1>13. QED
  BY <1>4, <1>5, <1>6, <1>7, <1>8, <1>9, <1>10, <1>11, <1>12
  DEF Next, Program, Kernel, User

LEMMA StepPausedFirst ==
    ASSUME TypeOK, CreatedFirst, PausedFirst, ChildRegistered, [Next]_vars
    PROVE  PausedFirst'
<1> SUFFICES ASSUME NEW t \in Tasks, paused'[t]
             PROVE  t \in created' /\ (pid'[t] # NoPid \/ ~ enqueued'[t])
  BY DEF PausedFirst
<1>0. /\ created \subseteq created' /\ OnlyNewEnqueued
      /\ paused \in [Tasks -> BOOLEAN]
  BY QueueCreated, StepOnlyNewEnqueued DEF TypeOK
<1>1. CASE paused[t]
  BY <1>0, <1>1 DEF PausedFirst, OnlyNewEnqueued
<1>2. CASE ~ paused[t]
  <2>1. PICK p \in Pids : WaitStopped(p) /\ t = piddata[p]
    <3>1. UNCHANGED paused \/ Resume \/ \E p \in Pids : WaitStopped(p)
      BY DEF Next, Program, Kernel, User, StartCommand, StartBuiltin, EndStart,
         Dispatch, EndDispatch, g_unix_signal_handler, EndBuiltin, EndRun,
         RemovePidData, Build, MakeMakefile, Spawn, Run, WaitUnknown, WaitExited,
         ChildExit, Stop, Pause, vars, taskVars
    <3>2. CASE Resume
      BY <1>0, <1>2, <3>2 DEF Resume
    <3>3. ASSUME NEW p \in Pids, WaitStopped(p)
          PROVE  t = piddata[p]
      BY <1>0, <1>2, <3>3 DEF WaitStopped
    <3>4. QED
      BY <1>2, <3>1, <3>2, <3>3
  <2>2. pid[t] = p /\ p # NoPid
    BY <2>1, TaskAssumption DEF WaitStopped, ChildRegistered
  <2>3. t \in created /\ pid'[t] = p
    BY <2>1, <2>2 DEF CreatedFirst, WaitStopped
  <2>4. QED
    BY <1>0, <2>2, <2>3
<1>3. QED
  BY <1>1, <1>2

\* As long as the kernel does not hand out a pid before its registration is
\* dropped, TASK_PAUSED agrees with the process up to a stop that has not been
\* reported: the Pause button resumes a stopped command and never a running
\* one.  (build_pause_cb, task_reap_func)
THEOREM PausedIsStopped ==
    ASSUME "pid reuse" \notin Circumstances
    PROVE  Spec => []PausedAgrees
<1>1. Init => PausedFirst /\ PausedAgrees
  BY DEF Init, PausedFirst, PausedAgrees
<1>2. TypeOK /\ CreatedFirst /\ QueueDiscipline /\ ChildRegistered
        /\ PausedFirst /\ PausedAgrees /\ [Next]_vars
        => PausedFirst' /\ PausedAgrees'
  BY StepPausedFirst, StepPausedAgrees
<1>3. Spec => []ChildRegistered
  BY ChildrenRegistered
<1>4. QED
  BY <1>1, <1>2, <1>3, TypeCorrect, AlwaysCreatedFirst, QueueDisciplined,
     PTL DEF Spec

==============================================================================
