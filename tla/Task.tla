-------------------------------- MODULE Task --------------------------------
(***************************************************************************)
(* The task queue of maketool (task.c), the SIGCHLD reaper it is built on  *)
(* (glib_extra.c), the child processes, and the callers in main.c as far   *)
(* as the queue can tell them apart.                                       *)
(*                                                                         *)
(* maketool is one thread running a main loop.  A callback runs to its end *)
(* before the next one, except where it calls g_main_iteration() itself:   *)
(* task_run_command() does.  `stack' holds the functions that are on the C *)
(* stack and still have something to do: the last frame runs next, and     *)
(* main loop sources are dispatched when the stack is empty or its last    *)
(* frame is a task_run_command() waiting for its child.                    *)
(***************************************************************************)
EXTENDS Integers, FiniteSets, SequencesExt

CONSTANTS
    Commands,       \* tasks that run a shell command
    Builtins,       \* tasks with command == 0: change_directory_task()
    Pids,           \* process ids the kernel hands out
    NoTask,         \* the null Task pointer
    NoPid,          \* pid -1
    MaxBatch,       \* most tasks one callback enqueues before task_start()
    Circumstances   \* what may happen around the program in this instance

\* "fork fails"    fork() or pipe() may return an error
\* "chdir fails"   a directory dropped on the window cannot be entered
\* "no makefile"   a directory may hold no makefile yet
\* "nested input"  the user acts while a callback waits in a nested main loop
\* "pid reuse"     the kernel may hand out a pid the moment it was waited for
AllCircumstances ==
    {"fork fails", "chdir fails", "no makefile", "nested input", "pid reuse"}

ASSUME TaskAssumption ==
    /\ Commands \cap Builtins = {}
    /\ NoTask \notin Commands \cup Builtins
    /\ NoPid \notin Pids
    /\ MaxBatch \in Nat \ {0}
    /\ Circumstances \subseteq AllCircumstances

Tasks == Commands \cup Builtins

VARIABLES
    created,    \* Tasks that task_create() has initialised
    refcount,   \* Task.refcount; 0 or less once the Task has been freed
    pid,        \* Task.pid
    enqueued,   \* Task.enqueued
    paused,     \* TASK_PAUSED in Task.flags
    task_all,   \* the queue
    working,    \* the static of task_start(): work_start called, work_end not
    piddata,    \* g_unix_piddata: the Task to tell about a child
    got_signal, \* g_unix_got_signal
    proc,       \* kernel: what a pid stands for
    sigchld,    \* kernel: SIGCHLD is pending
    stack       \* functions with something left to do, innermost last

taskVars == <<created, refcount, pid, enqueued, paused>>
vars == <<created, refcount, pid, enqueued, paused, task_all,
          working, piddata, got_signal, proc, sigchld, stack>>

\* A child is "stopping" until its stop has been reported by wait3().
ProcStates == {"none", "running", "stopping", "stopped", "zombie"}

FrameNames == {"task_start", "task_run_builtin", "task_run_command",
               "g_unix_dispatch_reapers", "remove_piddata"}
Frames == [fn : FrameNames, task : Tasks \cup {NoTask}, pid : Pids \cup {NoPid}]

Init ==
    /\ created = {}
    /\ refcount = [t \in Tasks |-> 0]
    /\ pid = [t \in Tasks |-> NoPid]
    /\ enqueued = [t \in Tasks |-> FALSE]
    /\ paused = [t \in Tasks |-> FALSE]
    /\ task_all = <<>>
    /\ working = FALSE
    /\ piddata = [p \in Pids |-> NoTask]
    /\ got_signal = FALSE
    /\ proc = [p \in Pids |-> "none"]
    /\ sigchld = FALSE
    /\ stack = <<>>

-----------------------------------------------------------------------------
(***************************************************************************)
(* The C stack and the main loop.                                          *)
(***************************************************************************)
Frame(f) == [fn |-> f, task |-> NoTask, pid |-> NoPid]
TaskFrame(f, t) == [fn |-> f, task |-> t, pid |-> NoPid]
PidFrame(f, p) == [fn |-> f, task |-> NoTask, pid |-> p]

Running(f) == stack # <<>> /\ Last(stack).fn = f
OnStack(f) == \E i \in DOMAIN stack : stack[i].fn = f

\* The reaper's source is not dispatched by nested main loops.
MutMainLoop == stack = <<>>

\* A source of the main loop may be dispatched.
MainLoop == stack = <<>> \/ Running("task_run_command")

\* A callback of the user interface may be dispatched.
UserInput ==
    \/ stack = <<>>
    \/ Running("task_run_command") /\ "nested input" \in Circumstances

-----------------------------------------------------------------------------
(***************************************************************************)
(* Task objects and the queue.                                             *)
(***************************************************************************)
Fresh == Tasks \ created

\* task_create() of the Tasks in T: refcount 1, no process, not enqueued.
task_create(T) ==
    /\ created' = created \cup T
    /\ refcount' = [t \in Tasks |-> IF t \in T THEN 1 ELSE refcount[t]]

\* The Tasks of s are put in front of those already waiting.
MutQueued(s) == s \o task_all

\* task_enqueue() of the Tasks of s, in order: what it leaves in the queue ...
Queued(s) == task_all \o s

\* task_enqueue() does not set the flag.
MutEnqueued(s) == enqueued

\* ... and in Task.enqueued.
Enqueued(s) == [t \in Tasks |-> enqueued[t] \/ t \in ToSet(s)]

\* g_list_remove(q, t)
Removed(q, t) ==
    IF Contains(q, t)
    THEN RemoveAt(q, CHOOSE i \in DOMAIN q : q[i] = t)
    ELSE q

\* task_unref() is forgotten.
MutUnreferenced(t) == refcount

Unreferenced(t) == [refcount EXCEPT ![t] = @ - 1]

task_dequeue(t) ==
    /\ task_all' = Removed(task_all, t)
    /\ enqueued' = [enqueued EXCEPT ![t] = FALSE]

\* task_current(): the head of the queue if its command has been spawned.
task_current ==
    IF task_all = <<>> \/ pid[Head(task_all)] = NoPid
    THEN NoTask
    ELSE Head(task_all)

\* Callers enqueue nothing, or one more command, along with what they do.
AtMostOne(C) == {<<>>} \cup {<<c>> : c \in C}

-----------------------------------------------------------------------------
(***************************************************************************)
(* Child processes.                                                        *)
(***************************************************************************)
FreshPids ==
    {p \in Pids : /\ proc[p] = "none"
                  /\ \/ "pid reuse" \in Circumstances
                     \/ PidFrame("remove_piddata", p) \notin ToSet(stack)}

\* The pid is registered with itself as user data.
MutForkUserData(t, p) ==
    /\ proc' = [proc EXCEPT ![p] = "running"]
    /\ pid' = [pid EXCEPT ![t] = p]
    /\ piddata' = [piddata EXCEPT ![p] = p]

\* The reap function is not registered.
MutForkUnregistered(t, p) ==
    /\ proc' = [proc EXCEPT ![p] = "running"]
    /\ pid' = [pid EXCEPT ![t] = p]
    /\ UNCHANGED piddata

\* fork() succeeds with pid p and task_spawn() registers the reap function.
Fork(t, p) ==
    /\ proc' = [proc EXCEPT ![p] = "running"]
    /\ pid' = [pid EXCEPT ![t] = p]
    /\ piddata' = [piddata EXCEPT ![p] = t]

\* fork() fails when the kernel has no pid left, and for reasons of its own.
NoFork ==
    /\ "fork fails" \in Circumstances \/ FreshPids = {}
    /\ UNCHANGED <<proc, pid, piddata>>

\* task_spawn() returns TRUE in the steps with pid'[t] # NoPid.  It calls the
\* start operation, which leaves the queue alone, whether or not fork()
\* succeeded.
task_spawn(t) == (\E p \in FreshPids : Fork(t, p)) \/ NoFork

-----------------------------------------------------------------------------
(***************************************************************************)
(* task_start().                                                           *)
(***************************************************************************)
\* The loop of task_start() goes round: the head is waiting to be started.
StartsNext(t) ==
    /\ Running("task_start")
    /\ task_all # <<>>
    /\ task_current = NoTask
    /\ t = Head(task_all)

\* The head is a command: spawn it, or drop it if that fails.
StartCommand(t) ==
    /\ StartsNext(t)
    /\ t \in Commands
    /\ working' = TRUE
    /\ task_spawn(t)
    /\ IF pid'[t] # NoPid
       THEN UNCHANGED <<task_all, enqueued, refcount>>
       ELSE /\ task_dequeue(t)
            /\ refcount' = Unreferenced(t)
    /\ UNCHANGED <<created, paused, got_signal, sigchld, stack>>

\* task_run_command() does not call task_ref().
MutRunRefcount(spawned) == 1

\* A new Task after task_run_command() has tried to spawn it: it is held once
\* by whoever reaps it and once by task_run_command().
RunRefcount(spawned) == IF spawned THEN 2 ELSE 1

\* list_targets(foreground = TRUE) of the builtin t, after an optional
\* make_makefile() has enqueued s: task_run() of the new Task c.
ListTargetsForeground(t, s, c) ==
    /\ c \in Commands \cap Fresh
    /\ c \notin ToSet(s)
    /\ created' = created \cup ToSet(s) \cup {c}
    /\ task_all' = Queued(s)
    /\ enqueued' = Enqueued(s)
    /\ task_spawn(c)
    /\ LET spawned == pid'[c] # NoPid IN
       /\ refcount' = [u \in Tasks |-> IF u = c THEN RunRefcount(spawned)
                                       ELSE IF u \in ToSet(s) THEN 1
                                       ELSE refcount[u]]
       /\ stack' = stack \o <<TaskFrame("task_run_builtin", t)>> \o
                      (IF spawned THEN <<TaskFrame("task_run_command", c)>>
                                  ELSE <<>>)

\* The same without a makefile to list the targets of, as it is also taken to
\* be when the instance has no Task left for the list.
NoTargets(t, s) ==
    /\ "no makefile" \in Circumstances \/ Commands \subseteq created
    /\ task_create(ToSet(s))
    /\ task_all' = Queued(s)
    /\ enqueued' = Enqueued(s)
    /\ stack' = Append(stack, TaskFrame("task_run_builtin", t))
    /\ UNCHANGED <<pid, piddata, proc>>

\* task_abort_queue() leaves the last Task in the queue.
MutAbortQueue(t) ==
    /\ "chdir fails" \in Circumstances
    /\ task_all' = <<Last(task_all)>>
    /\ LET dropped == ToSet(Front(task_all)) IN
       /\ enqueued' = [u \in Tasks |-> enqueued[u] /\ u \notin dropped]
       /\ refcount' = [u \in Tasks |->
                          refcount[u] - (IF u \in dropped THEN 1 ELSE 0)]
    /\ stack' = Append(stack, TaskFrame("task_run_builtin", t))
    /\ UNCHANGED <<created, pid, piddata, proc>>

\* chdir() failed: task_abort_queue() dequeues and unrefs every Task.
AbortQueue(t) ==
    /\ "chdir fails" \in Circumstances
    /\ task_all' = <<>>
    /\ enqueued' = [u \in Tasks |-> enqueued[u] /\ u \notin ToSet(task_all)]
    /\ refcount' = [u \in Tasks |->
                      refcount[u] - (IF u \in ToSet(task_all) THEN 1 ELSE 0)]
    /\ stack' = Append(stack, TaskFrame("task_run_builtin", t))
    /\ UNCHANGED <<created, pid, piddata, proc>>

\* The head is a builtin: change_directory_start() up to where it waits.
StartBuiltin(t) ==
    /\ StartsNext(t)
    /\ t \in Builtins
    /\ working' = TRUE
    /\ \/ \E s \in AtMostOne(Commands \cap Fresh) :
             NoTargets(t, s) \/ \E c \in Fresh : ListTargetsForeground(t, s, c)
       \/ AbortQueue(t)
    /\ UNCHANGED <<paused, got_signal, sigchld>>

\* change_directory_start() returns, then task_run_builtin() and the unref.
EndBuiltin(t) ==
    /\ stack # <<>>
    /\ Last(stack) = TaskFrame("task_run_builtin", t)
    /\ task_dequeue(t)
    /\ refcount' = Unreferenced(t)
    /\ stack' = Front(stack)
    /\ UNCHANGED <<created, pid, paused, working, piddata, got_signal,
                   proc, sigchld>>

\* The end of the work is never announced.
MutEndStart ==
    /\ Running("task_start")
    /\ task_all = <<>> \/ task_current # NoTask
    /\ stack' = Front(stack)
    /\ UNCHANGED <<taskVars, task_all, working, piddata, got_signal, proc,
                   sigchld>>

\* The loop of task_start() ends.
EndStart ==
    /\ Running("task_start")
    /\ task_all = <<>> \/ task_current # NoTask
    /\ working' = (working /\ task_all # <<>>)
    /\ stack' = Front(stack)
    /\ UNCHANGED <<taskVars, task_all, piddata, got_signal, proc, sigchld>>

\* task_run_command() sees that its Task has been reaped.
EndRun(t) ==
    /\ stack # <<>>
    /\ Last(stack) = TaskFrame("task_run_command", t)
    /\ pid[t] = NoPid
    /\ refcount' = Unreferenced(t)
    /\ stack' = Front(stack)
    /\ UNCHANGED <<created, pid, enqueued, paused, task_all, working,
                   piddata, got_signal, proc, sigchld>>

-----------------------------------------------------------------------------
(***************************************************************************)
(* The kernel and the reaper.                                              *)
(***************************************************************************)
\* wait3(WNOHANG|WUNTRACED) would report the child.
Waitable(p) == proc[p] \in {"stopping", "zombie"}

\* kill() and killpg() have no effect.
Dead(p) == proc[p] \in {"none", "zombie"}

\* The command ends: it exits, or a signal from elsewhere kills it.
ChildExit(p) ==
    /\ proc[p] = "running"
    /\ proc' = [proc EXCEPT ![p] = "zombie"]
    /\ sigchld' = TRUE
    /\ UNCHANGED <<taskVars, task_all, working, piddata, got_signal, stack>>

g_unix_signal_handler ==
    /\ sigchld
    /\ sigchld' = FALSE
    /\ got_signal' = TRUE
    /\ UNCHANGED <<taskVars, task_all, working, piddata, proc, stack>>

\* g_unix_source_dispatch(): clear the flag, then wait until nothing is left.
Dispatch ==
    /\ MainLoop
    /\ got_signal
    /\ got_signal' = FALSE
    /\ stack' = Append(stack, Frame("g_unix_dispatch_reapers"))
    /\ UNCHANGED <<taskVars, task_all, working, piddata, proc, sigchld>>

\* One wait3() for each signal: the loop may end with children left.
MutEndDispatch ==
    /\ Running("g_unix_dispatch_reapers")
    /\ stack' = Front(stack)
    /\ UNCHANGED <<taskVars, task_all, working, piddata, got_signal, proc,
                   sigchld>>

EndDispatch ==
    /\ Running("g_unix_dispatch_reapers")
    /\ ~ \E p \in Pids : Waitable(p)
    /\ stack' = Front(stack)
    /\ UNCHANGED <<taskVars, task_all, working, piddata, got_signal, proc,
                   sigchld>>

\* wait3() reports a stop; task_reap_func() notes it.
WaitStopped(p) ==
    /\ Running("g_unix_dispatch_reapers")
    /\ proc[p] = "stopping"
    /\ proc' = [proc EXCEPT ![p] = "stopped"]
    /\ paused' = IF piddata[p] = NoTask
                 THEN paused ELSE [paused EXCEPT ![piddata[p]] = TRUE]
    /\ UNCHANGED <<created, refcount, pid, enqueued, task_all,
                   working, piddata, got_signal, sigchld, stack>>

\* wait3() reports the end of a child nobody registered for.
WaitUnknown(p) ==
    /\ Running("g_unix_dispatch_reapers")
    /\ proc[p] = "zombie"
    /\ piddata[p] = NoTask
    /\ proc' = [proc EXCEPT ![p] = "none"]
    /\ UNCHANGED <<taskVars, task_all, working, piddata, got_signal, sigchld,
                   stack>>

\* wait3() reports the end of t's command: task_reap_func() until the call of
\* task_start(), which is made for an enqueued Task only.  s is what the reap
\* operation enqueues: make_reap() may enqueue the finish command.
WaitExited(p, t, s) ==
    /\ Running("g_unix_dispatch_reapers")
    /\ proc[p] = "zombie"
    /\ piddata[p] = t
    /\ t # NoTask
    /\ s # <<>> => enqueued[t]
    /\ proc' = [proc EXCEPT ![p] = "none"]
    /\ pid' = [pid EXCEPT ![t] = NoPid]
    /\ created' = created \cup ToSet(s)
    /\ task_all' = Removed(task_all, t) \o s
    /\ enqueued' = [Enqueued(s) EXCEPT ![t] = FALSE]
    /\ refcount' = [u \in Tasks |-> IF u \in ToSet(s) THEN 1
                                    ELSE IF u = t THEN refcount[u] - 1
                                    ELSE refcount[u]]
    /\ stack' = stack \o <<PidFrame("remove_piddata", p)>> \o
                   (IF enqueued[t] THEN <<Frame("task_start")>> ELSE <<>>)
    /\ UNCHANGED <<paused, working, piddata, got_signal, sigchld>>

\* g_unix_dispatch_reapers() drops the registration, after the reap function.
RemovePidData(p) ==
    /\ stack # <<>>
    /\ Last(stack) = PidFrame("remove_piddata", p)
    /\ piddata' = [piddata EXCEPT ![p] = NoTask]
    /\ stack' = Front(stack)
    /\ UNCHANGED <<taskVars, task_all, working, got_signal, proc, sigchld>>

-----------------------------------------------------------------------------
(***************************************************************************)
(* Callbacks of the user interface, as far as the queue is concerned.      *)
(***************************************************************************)
\* What one callback may enqueue: a change of directory is always followed
\* by the target to make there.
Batches ==
    {s \in UNION {[1..n -> Fresh] : n \in 1..MaxBatch} :
        /\ IsInjective(s)
        /\ \A i \in DOMAIN s : s[i] \in Builtins =>
              i < Len(s) /\ s[i + 1] \in Commands}

\* Build menu, Again, commands of the makesys, dropped files, a new directory
\* with its list of targets, the targets on the command line.
Build(s) ==
    /\ UserInput
    /\ s \in Batches
    /\ task_create(ToSet(s))
    /\ task_all' = Queued(s)
    /\ enqueued' = Enqueued(s)
    /\ stack' = Append(stack, Frame("task_start"))
    /\ UNCHANGED <<pid, paused, working, piddata, got_signal, proc,
                   sigchld>>

\* list_targets() returns early after make_makefile() if there is no makefile.
MakeMakefile(t) ==
    /\ UserInput
    /\ "no makefile" \in Circumstances
    /\ t \in Commands \cap Fresh
    /\ task_create({t})
    /\ task_all' = Queued(<<t>>)
    /\ enqueued' = Enqueued(<<t>>)
    /\ UNCHANGED <<pid, paused, working, piddata, got_signal, proc,
                   sigchld, stack>>

\* task_spawn() of a Task that is not enqueued: editor, help, configure.
\* Nobody unrefs the Task if fork() fails.
Spawn(t) ==
    /\ UserInput
    /\ t \in Commands \cap Fresh
    /\ task_create({t})
    /\ task_spawn(t)
    /\ UNCHANGED <<enqueued, paused, task_all, working, got_signal, sigchld,
                   stack>>

\* task_run() of a Task from a callback: the configure options.  The caller
\* unrefs the Task if task_run() fails.
Run(t) ==
    /\ UserInput
    /\ t \in Commands \cap Fresh
    /\ created' = created \cup {t}
    /\ task_spawn(t)
    /\ LET spawned == pid'[t] # NoPid IN
       /\ refcount' = [refcount EXCEPT ![t] =
                          RunRefcount(spawned) - (IF spawned THEN 0 ELSE 1)]
       /\ stack' = IF spawned
                   THEN Append(stack, TaskFrame("task_run_command", t))
                   ELSE stack
    /\ UNCHANGED <<enqueued, paused, task_all, working, got_signal, sigchld>>

\* build_stop_cb(): task_kill_current().
Stop ==
    /\ UserInput
    /\ task_current # NoTask
    /\ LET p == pid[task_current] IN
       /\ ~ Dead(p)
       /\ proc' = [proc EXCEPT ![p] = "zombie"]
    /\ sigchld' = TRUE
    /\ UNCHANGED <<taskVars, task_all, working, piddata, got_signal, stack>>

\* build_pause_cb() while the command is not known to be paused.  killpg()
\* finds no group, and nothing happens, unless the child leads one by now.
Pause ==
    /\ UserInput
    /\ task_current # NoTask
    /\ ~ paused[task_current]
    /\ LET p == pid[task_current] IN
       /\ proc[p] = "running"
       /\ proc' = [proc EXCEPT ![p] = "stopping"]
    /\ sigchld' = TRUE
    /\ UNCHANGED <<taskVars, task_all, working, piddata, got_signal, stack>>

\* TASK_PAUSED is left set.
MutResume ==
    /\ UserInput
    /\ task_current # NoTask
    /\ paused[task_current]
    /\ LET p == pid[task_current] IN
       proc' = [proc EXCEPT ![p] = IF Dead(p) THEN @ ELSE "running"]
    /\ UNCHANGED <<taskVars, task_all, working, piddata, got_signal, sigchld,
                   stack>>

\* build_pause_cb() while it is paused: task_resume_current().
Resume ==
    /\ UserInput
    /\ task_current # NoTask
    /\ paused[task_current]
    /\ LET p == pid[task_current] IN
       proc' = [proc EXCEPT ![p] = IF Dead(p) THEN @ ELSE "running"]
    /\ paused' = [paused EXCEPT ![task_current] = FALSE]
    /\ UNCHANGED <<created, refcount, pid, enqueued, task_all,
                   working, piddata, got_signal, sigchld, stack>>

-----------------------------------------------------------------------------
\* What maketool does of its own accord once it has been given work.
Program ==
    \/ \E t \in Tasks : \/ StartCommand(t) \/ StartBuiltin(t)
                        \/ EndBuiltin(t) \/ EndRun(t)
    \/ EndStart
    \/ Dispatch \/ EndDispatch
    \/ \E p \in Pids : \/ WaitStopped(p) \/ WaitUnknown(p) \/ RemovePidData(p)
                       \/ \E t \in Tasks, s \in AtMostOne(Commands \cap Fresh) :
                             WaitExited(p, t, s)

Kernel == g_unix_signal_handler \/ \E p \in Pids : ChildExit(p)

User ==
    \/ \E s \in Batches : Build(s)
    \/ \E t \in Commands : MakeMakefile(t) \/ Spawn(t) \/ Run(t)
    \/ Stop \/ Pause \/ Resume

Next == Program \/ Kernel \/ User

Spec == Init /\ [][Next]_vars

\* maketool keeps running, pending signals are delivered, and a command that
\* is not stopped comes to an end.  The user need not do anything.
Fairness ==
    /\ WF_vars(Program)
    /\ WF_vars(g_unix_signal_handler)
    /\ \A p \in Pids : WF_vars(ChildExit(p))

FairSpec == Spec /\ Fairness

-----------------------------------------------------------------------------
\* Every variable keeps to the values its C counterpart can hold; a pid is
\* registered with a Task and never with anything else.
TypeOK ==
    /\ created \subseteq Tasks
    /\ refcount \in [Tasks -> Int]
    /\ pid \in [Tasks -> Pids \cup {NoPid}]
    /\ enqueued \in [Tasks -> BOOLEAN]
    /\ paused \in [Tasks -> BOOLEAN]
    /\ task_all \in Seq(Tasks)
    /\ working \in BOOLEAN
    /\ piddata \in [Pids -> Tasks \cup {NoTask}]
    /\ got_signal \in BOOLEAN
    /\ proc \in [Pids -> ProcStates]
    /\ sigchld \in BOOLEAN
    /\ stack \in Seq(Frames)

\* The reap function is about to be dropped, its Task may be gone already.
Dropping(p) == \E i \in DOMAIN stack : stack[i] = PidFrame("remove_piddata", p)

\* The Tasks that the queue, the reaper or a function on the stack will use.
Referenced ==
    ToSet(task_all)
        \cup {piddata[p] : p \in {q \in Pids : ~ Dropping(q)}}
        \cup {stack[i].task : i \in DOMAIN stack}

\* Builtins that aborted the queue they were the head of, or have been executed.
Dropped == {t \in Builtins : ~ enqueued[t]}

\* No Task is used after task_unref() has freed it: what the queue, the
\* reaper's table and the functions on the stack point to is a live Task, but
\* for a builtin that has aborted the queue (see RefcountExact).
NoUseAfterFree ==
    \A t \in Referenced \ ({NoTask} \cup Dropped) :
        t \in created /\ refcount[t] > 0

\* A Task is held by the queue or by the reaper, and by each function that
\* waits for it; nothing else keeps it alive.  (task_ref, task_unref)
\* A builtin that has aborted the queue is unreferenced once too often.
RefcountExact ==
    \A t \in created :
        LET owner == enqueued[t] \/ \E p \in Pids : piddata[p] = t /\ ~ Dropping(p)
            waits == {i \in DOMAIN stack :
                        stack[i] = TaskFrame("task_run_command", t)}
        IN \/ refcount[t] = (IF owner THEN 1 ELSE 0) + Cardinality(waits)
           \/ t \in Dropped /\ refcount[t] = -1

\* Task.enqueued tells whether the Task is in the queue, where it is once;
\* of the queued Tasks only the head can have a process.
QueueDiscipline ==
    /\ IsInjective(task_all)
    /\ \A t \in Tasks : enqueued[t] <=> Contains(task_all, t)
    /\ \A i \in DOMAIN task_all : i > 1 => pid[task_all[i]] = NoPid

\* Whenever task_start() has nothing left to do, a queue that is not empty
\* has its head running, and the work callbacks bracket exactly that time.
QueueServed ==
    ~ OnStack("task_start") =>
        /\ task_all # <<>> => task_current # NoTask
        /\ working = (task_all # <<>>)

\* Every child that has not been waited for has its Task registered with the
\* reaper, and a Task's pid is that of its own child, alive or a zombie: so
\* the end of each command reaches its Task, and kill() and killpg() never
\* hit another process.
ChildRegistered ==
    /\ \A p \in Pids : proc[p] # "none" =>
          piddata[p] # NoTask /\ pid[piddata[p]] = p
    /\ \A t \in Tasks : pid[t] # NoPid =>
          piddata[pid[t]] = t /\ proc[pid[t]] # "none"

\* A child that wait3() would report is never forgotten: the signal is
\* pending, noted in the flag, or the waiting loop has yet to go round.
NoLostChild ==
    (\E p \in Pids : Waitable(p)) =>
        sigchld \/ got_signal \/ OnStack("g_unix_dispatch_reapers")

\* TASK_PAUSED agrees with the process, up to a stop not yet reported: the
\* Pause button resumes a stopped command and never "resumes" a running one.
PausedAgrees ==
    \A t \in Tasks : pid[t] # NoPid =>
        /\ paused[t] => proc[pid[t]] \in {"stopped", "zombie"}
        /\ proc[pid[t]] = "stopped" => paused[t]

\* "Enqueue the task for execution *after* all currently enqueued tasks"
\* (maketool_task.h): a queued command runs only when no builtin that was
\* queued before it is still being executed.
StartsInOrder ==
    task_current # NoTask => ~ OnStack("task_run_builtin")

\* The user keeps stopping commands, or leaves one stopped.
KeptPaused == []<>(\E p \in Pids : proc[p] \in {"stopping", "stopped"})

\* Once enqueued, a Task leaves the queue: it is executed or dropped, unless
\* the user keeps commands paused.  (task_start, task_reap_func)
EveryTaskLeaves ==
    \A t \in Tasks : (enqueued[t] ~> ~ enqueued[t]) \/ KeptPaused

\* task_run() returns, however the main loops it nests are entered and left,
\* unless the user keeps commands paused.  (task_run_command)
EveryCallReturns == (stack # <<>> ~> stack = <<>>) \/ KeptPaused
=============================================================================
