# A verification of maketool

maketool is a GTK front end to `make(1)`: it runs make and other commands as
child processes, shows their output in a log with the errors picked out, and
lets the user queue, stop and pause builds. It is one C program with one
thread; what makes it hard is that everything happens in callbacks of a main
loop, that some callbacks run a main loop of their own, that children end and
stop when they like, and that user, children and other programs act in between.

The project models it in TLA+, a module for each part that keeps state of its own
and one for each algorithm worth it; checks the models with TLC on small
instances; and proves, with TLAPS, the invariants of the task queue, of the output of
commands, of the log, of the main window, of messages from clients and of the
preferences, that the queue and the output are what the header promises, and that the
algorithms return what they should, for every number of tasks, pids, bytes, records,
targets, directories, clients, edits and characters.

## 1. Inventory

| component | state it keeps | operations | hard part | correct when | modules |
|---|---|---|---|---|---|
| task queue (`task.c`) | the list `task_all`; in each `Task` a reference count, pid, `enqueued`, `TASK_PAUSED`, input pipe; the static `working` | create, enqueue, start, spawn, run (waits in a nested main loop), reap, abort, kill, pause, resume, read output | nested main loops, failing forks, builtins, lifetime of Tasks, short reads | Tasks run one at a time in order, each is freed exactly when unused, the queue drains, output is told once, in lines, before the end | `Task`, `TaskInput` |
| child reaper (`glib_extra.c`) | table pid to reap function, `g_unix_got_signal` | signal handler, main loop source, `wait3()` loop, registration | coalescing signals, recursion, pid reuse | the end of every child is told once, to its Task | `Task` |
| main program (`main.c`) | targets, target history, menus' sensitivity, current directory and its history | build, again, stop, pause, change directory, drag and drop, go through errors, open and clear the log, messages from the client | what is enabled when; lists that point into each other; a queue that changes directory | menus agree with the queue; no dangling history; targets made where they were chosen | `MainWindow`, and the callers in the others |
| build log (`log.c`) | records, tree of rows, stack of open rows, directory stacks, pending lines, counts | start and end build, add line, clear, view flags, open and save, find | clear during a build, state kept across builds, rows hidden and shown | the tree, the counts and the directories are those of the text | `Log`, `Navigate` |
| error filters (`filter.c`) | filter sets by first character, static result, state of multi-line matches | load, apply | first characters worked out by skimming an expression, and used as an index; results shared between records | each line gets the first filter that matches | `FilterLeads`, `Log` |
| message queue, client (`mqueue.c`, `client.c`) | X properties, received messages, replies | send, receive, reply, wait | one event for several messages, handling that nests, no timeout | each request is handled and answered once | `Messages` |
| configure (`autoconf.c`) | option list, a window with its own main loop, a flag and a result | read options, show, configure | nested loops that share one window, failed spawn | the loop always ends, the result is that of a configure | `Messages`, `Task` |
| make systems, make programs (`makesys.c`, `makeprog.c`, `gmake.c`, ...) | the current ones | probe, needs update, list targets | stale `errno`, output that mixes rules and remarks | a stale makefile is remade, the targets are those of the makefile | `Makefiles` |
| find (`find.c`) | pattern, direction | find, again | wrap-around | every match is visited | `Navigate` |
| preferences (`preferences.c`), settings file (`ui.c`) | `prefs`, the dialog's widgets, the table of texts, `~/.maketoolrc` | load, apply, cancel, set from menus, save | widgets that outlive the dialog, several savers of one table, a kill while saving, a file that cannot be written, numbers beyond the range of their widget, quoting | a start loads what was written last; only what is edited changes; variables reach make unchanged | `Preferences`, `Variables` |
| progress, help, printing, the rest of `ui.c` and `util.c` | windows, strings | | widgets and formatting | | |

How they interact: `main.c` creates Tasks and gives them operations (`start`,
`input`, `reap`) that write to the log, the menus and the target history;
`task.c` calls these, and calls `work_started()` and `work_ended()` of `main.c`
when the queue is started and empty again; `glib_extra.c` calls
`task_reap_func()` from the main loop; the log calls the filters for each line;
`mqueue.c` turns X property events into a shown window of options. Everything
shares the one main loop, which is entered again by `task_run_command()`, by the
configure window and by the progress bar.

## 2. Modules

| module | models | kind |
|---|---|---|
| `Task` | `task.c`, `glib_extra.c`, the children, and the callers of the queue | detailed specification and its properties |
| `TaskQueue`, `TaskImplements` | what `maketool_task.h` promises of the queue, and the mapping of `Task` to it | abstract specification, refinement |
| `TaskInput` | the output of a command: pipe, reads, line mode, the read before the reap operation | detailed specification |
| `CommandOutput` | what `maketool_task.h` promises of a command's output | abstract specification |
| `Log` | the log, its rows, its directories, multi-line messages, and their callers | detailed specification |
| `Transcript` | that the log is what was written | abstract specification |
| `MainWindow` | items, targets, history, directories, over the queue as the window sees it | specification |
| `Messages` | clients, message queue and window of options | specification |
| `Preferences` | settings in use, in the dialog, in the table and in the file | specification |
| `FilterLeads`, `Navigate`, `Makefiles`, `Variables` | algorithms, each with the definition it is checked against | operators |
| `Algorithms` | these together: each input is a state | specification |
| `MCTask`, `MCLog`, `MCMainWindow`, `MCMessages`, `MCPreferences`, `MCAlgorithms` | instances | TLC |
| `TaskProofs` | types, the reaper, children and the queue of `Task`; its stack: the queue is served, in order, as `TaskQueue` has it; reference counts and `TASK_PAUSED` | proofs |
| `LogProofs` | the filters, directories, rows, counts and transcript of `Log` | proofs |
| `InputProofs`, `MainWindowProofs`, `MessagesProofs`, `PreferencesProofs` | `TaskInput`, `MainWindow`, `Messages`, `Preferences` | proofs |
| `AlgorithmProofs` | `FilterLeads`, `Navigate`, `Makefiles`, `Variables`, for every input | proofs |
| `SequenceFacts` | lemmas about sequences, stacks, queues and loops that these share, and that a set of numbers has a least one | proofs |

`Circumstances`, in the modules that have it, names what may happen around the
program in an instance, so that each run says under which of it a property holds.
Operators called `Mut...` are the code with a plausible mistake in it; each
property of a passing run is also checked against one, which it must refute.

### Task

*State.* `created`, `refcount`, `pid`, `enqueued` and `paused` are the fields of
`struct _Task`; `task_all` and `working` the statics of `task.c`; `piddata` and
`got_signal` those of `glib_extra.c`. `proc` and `sigchld` belong to the kernel:
what a pid stands for (`stopping` is a child whose stop `wait3()` has not yet
reported), and whether SIGCHLD is pending.

*The C stack.* C code between two entries of the main loop is one step, except
that functions which call others through the main loop leave a frame on `stack`:
`task_start()` (its loop goes round once per step), `task_run_builtin()` (after
the start operation), `task_run_command()` (in its loop), the `wait3()` loop of
`g_unix_dispatch_reapers()`, and the rest of one round of it, which drops the
registration after the reap function (`remove_piddata`). The last frame runs;
sources are dispatched when the stack is empty or its last frame is a
`task_run_command()`. The reaper's source can recurse. This keeps the order of
the code: in `task_reap_func()` the Task is dequeued, its reap operation may
enqueue the finish command, it is unreferenced, then `task_start()` runs, and
only after that is its registration dropped.

*Actions.*

| action | code |
|---|---|
| `StartCommand`, `StartBuiltin`, `EndStart` | a round of `task_start()`, its end |
| `ListTargetsForeground`, `NoTargets`, `AbortQueue` | `change_directory_start()`: lists the targets of the new directory with `task_run()`, finds no makefile, or fails to enter it |
| `EndBuiltin`, `EndRun` | the return of `task_run_builtin()` and `task_run_command()` |
| `g_unix_signal_handler`, `Dispatch`, `EndDispatch` | the handler, the dispatch of the source, the end of its loop |
| `WaitStopped`, `WaitExited`, `WaitUnknown`, `RemovePidData` | a round of the `wait3()` loop |
| `ChildExit` | a command ends |
| `Build` | every callback that enqueues and starts: build menu, Again, make system commands, dropped files, a changed directory, command line, client message |
| `MakeMakefile` | `list_targets()` without a makefile |
| `Spawn`, `Run` | `task_spawn()` and `task_run()` of a Task that is not queued: editor, help, configure |
| `Stop`, `Pause`, `Resume` | the buttons |

*Abstractions.* A Task is a model value that is either a command or a builtin
(`change_directory_task()` is the only kind) and is created once; command lines and
output are left out; `TaskInput` has the output. `Circumstances` names what
may go wrong around the program in an instance, so that each run says under
which of them a property holds: forks fail, a directory cannot be entered or has
no makefile, the user acts during nested loops, a pid is handed out again the
moment it was waited for.

### TaskQueue

Four sentences of `maketool_task.h` as a state machine: Tasks are executed "after
all currently enqueued tasks", one at a time; builtins at the head are executed,
commands spawned; `task_abort_queue()` drops all; the two callbacks bracket the
work. `TaskImplements` maps the Task being executed to the builtin on the stack or
else to `task_current()`, and what waits to the rest of the queue.

### TaskInput

*State.* One Task that has been spawned with an input operation and
`TASK_LINEMODE`: `fd` and `linebuf` are its fields, `nremain` and `pc` those of
the call of `task_input_func()` that runs, `pipe` what the kernel holds, `writers`
the processes at its other end: the command, and one it may leave in the
background. `status` is the command's as its Task learns it. `text` and `own` record
what was ever written, and how much of it when the command ended; `told` is what
the input operation was called with. The calls are kept as one sequence, each line
followed by the newline that `task_linemode_input()` takes off: two different
sequences of calls of whole lines give two different values of `told`.

*Actions.*

| action | code |
|---|---|
| `Write`, `Background`, `CommandEnds`, `DescendantEnds` | the processes, at any moment, also between two reads |
| `InputReady`, `Read`, `EndInput` | `task_input_func()` called by the main loop: FIONREAD, each `read()` with `task_linemode_input()`, its return |
| `Reap`, `Read`, `EndReap` | `task_reap_func()`: the same function called for pending input; the flush of the last line, the reap operation, `task_unref()` |
| `EndRun` | the end of `task_run_command()`, whose reference kept the Task alive (`Held`) |

*Abstractions.* `task_linemode_input()` is what its loop computes: everything up to
the last newline of `linebuf` and the new bytes is told, the rest kept; a NUL ends
what the string functions see. Failing system calls, output that is not in line
mode, and abandoned pipes of failed forks are left out. How the reaper comes to call
`task_reap_func()` is `Task`'s matter. `Held` also allows more than one input
callback between the reap operation and the end of `task_run_command()`; one is
possible in every iteration of the main loop, more when loops are nested.

### CommandOutput

The comments of `struct _TaskOps`: `input` is "called when command emits output",
with whole lines ("input is split into lines, no newline"), in order, nothing
twice; `reap` is "called when command ends", when all that the command itself wrote
has been told. It does not say when a line is told, nor how output is read, nor what
a Task that is still held (`Held`) is told after its reap operation: what a
descendant writes then is appended to the last line, which is told a second time.

### Log

*State.* `log` is the list of records, `rows` the tree: for each record the row it is
under, and the counts that the text of a build's row tells. `log_node_stack`,
`dir_stack`, `dir_max_depth`, `context`, `context_dirty`, `num_errors`,
`num_warnings` are the statics of `log.c`, `filter_state`, `res` and `pending` those
behind a message of several lines. `counted` is what the status bar shows, `writers`
what feeds the log: a build, a log file that is being read in a loop which runs the
main loop, or both.

*Actions.* `Handle` is `handle_line()` with all it does: the filters, the record or
records it completes, the directories entered or left, the row, the counts.
`StartBuild`, `EndBuild`, `WorkEnds`, `OpenLog`, `CloseLog`, `Clear`, `SetFlags` are the
callbacks; `SetFlags` shows every record anew, as `log_repopulate()` does.

*Abstractions.* A line is its kind, that is the filter that matches it, with the
directory and level it mentions; `Filters` is the part of the list of
`filter_load()` that these kinds meet. What feeds the log is `Orderly`: make leaves
what it entered, at the level it entered it, and the lines of a message follow each
other until it is complete or another build starts, which resets the filters. A record that has been freed is `Freed`, and `astray` is set when one is used.

### MainWindow

The queue is here what the window sees of it: a callback leaves `at` in `task_start()`
until its loop ends; a change of directory runs its list of targets in a nested
main loop. `grey_menu_items()` is what it computes, called where the code calls it
and no oftener: after `work_started()`, when a command has been reaped, when the
queue is empty. Names in the history are pointers to the list of targets:
`set_targets()` turns those it frees into `FreedString`. `hasty` remembers that the
user, or a drop, has given work to a queue at work.

### Messages

X properties as the program uses them: `mq_send()` appends and raises one event;
the event handler reads and deletes the whole property, and goes on handling what
it took until nothing is left; handling "configure" waits in main loops in which
further events are dispatched. `stack` holds these loops, innermost last. `from_client`,
`finished` and `result` are the statics of `autoconf.c` that all of them share.
`configured` remembers, for each message being handled, whether a configure task has
succeeded meanwhile.

### Preferences, Variables

One setting stands for all that are treated like it: one that the command line can
override, one that is saved alone, one that can be empty (a colour, the flags of the
log), the commands, the make program. The first is `run_processes`, since the command
line can also set it to what its spin button cannot hold; `Clamped` is what the button
makes of a value. `config` is the hash table that lives from the load to the last save;
`file` is the file, empty from `fopen()` to `fclose()`; `kept` remembers what the table
was given last, `saved` what the file was written with last. These differ once the file
could not be opened (`Opened` says what may come of that): the table goes on, and
nothing is written. A kill may come at any moment, also while the file is open. `Variables` computes what a series of Set and Unset gives, quotes it, and
reads it back with the rules of the shell.

### Algorithms

| module | computes | checked against |
|---|---|---|
| `FilterLeads` | `filter_calc_leads()`: the first characters of the lines an expression matches, from the skeleton that it skims; `filter_apply()`, which takes the first character of a line, a `char`, for an index | the lines that the expression matches |
| `Navigate` | next and previous error, next file, find again | the list of all errors or matches, in order |
| `Makefiles` | `ms_makefile_needs_update()` with `errno` and `struct stat` as they are left; the parser of `gmake -n -p` and the order of targets | the times of the files; the rules that are neither marked nor hidden |
| `Variables` | words and environment given to make | the last value set in the dialog |

`Algorithms` puts them together: its states are inputs, and its properties say that the
algorithms return what they should for each. Its constants are the sets of inputs.

A loop of the code is a function from the rounds to what has been computed after each
of them (`after` in its definition), so that the provers can reason about it. The
pieces of an expression that `filter_calc_leads()` looks at, up to the first without a
star, are `Seen`; its loop over characters is one over pieces and branches.

## 3. What is checked

| run | properties | shows |
|---|---|---|
| `queue` | `TypeOK`, `QueueDiscipline`, `NoLostChild`, `NoUseAfterFree`, `QueueServed`, `ImplementsQueue` | commands, failing forks, pids handed out again at once, pause and kill, a user who acts in nested loops |
| `builtin` | `RefcountExact`, `ChildRegistered`, `PausedAgrees`, `ImplementsQueue` | changes of directory: nested loops inside the reaper, a directory that cannot be entered |
| `liveness` | `EveryTaskLeaves`, `EveryCallReturns` | the queue drains and nested calls return, with forks that fail and a user who acts in nested loops |
| `input` | `TypeOK`, `NothingLost`, `ReadsWhatIsThere`, `LinesToldAtOnce`, `CommandToldInFull`, `ImplementsOutput`, `NeverStuck`, `EndIsTold` | output in lines, with a background process, in short reads; neither end of the pipe waits for ever |
| `log` | `NoFreedRecordUsed`, `TreeOfDirectories`, `CountsTold`, `LookedUpWhereMakeWas`, `ImplementsTranscript` | tree, counts and directories are those of the text, whatever the view flags and however builds, files and Clear follow each other |
| `menus` | `MenusRightWhenIdle`, `HistoryAvailable`, `MadeWhereChosen` | items, history and directories, for any user and any directory |
| `messages` | `OneCopy`, `WaitEnds`, `ZeroMeansConfigured`, `EveryClientAnswered` | three clients at once, two of which wait for the same window; deadlock is checked |
| `algorithms` | `NoMatchMissed`, `EachErrorOnce`, `EachMatchOnce`, `MakefileMadeWhenStale`, `TargetsOffered`, `VariablesInEffect` | the pure parts, each for every input of a small set |
| `preferences` | `RestartKeeps`, `AppliesOnlyEdits` | editing, saving, killing and loading in any order, with a file that cannot always be opened to be written |

Runs that find a disagreement between the code and what is said of it:

| run | property | what happens |
|---|---|---|
| `nested_builtin` | `StartsInOrder` | a build started while a dropped directory's targets are listed executes that builtin again and overtakes it |
| `dangling_history` | `HistorySaved` | the list of targets of a new directory frees the names that the history has come to point to in the meantime |
| `cancelled` | `CancelDiscards` | a make program chosen and cancelled is applied with whatever is applied next |

*Where a property is narrower than one might wish*, TLC finds it false beyond:

* `RefcountExact` and `NoUseAfterFree` except a builtin that has aborted the queue it
  was the head of, which `task_start()` unreferences once more after it was freed.
* `RefcountExact`, `ChildRegistered`, `PausedAgrees`, `EveryTaskLeaves`: without "pid
  reuse". A registration that is dropped after the reap function may be that of the
  next command, which is then never reaped and never freed.
* A fork that fails leaves a start operation without reap operation: the row of the
  build stays open, and nobody unrefs the Task.
* `EveryTaskLeaves`: without "no makefile", since what `list_targets()` enqueues to
  make one is not started.
* `NoFreedRecordUsed`: "killed between" alone is harmless. Each of "killed inside",
  "stray leave", "mixed output", "late output", "clear while building" and "open while
  building" leaves rows on the stack, or takes too many off it, and Clear or the end of
  a build keep what is there. `CountsTold`: without "stray leave", "mixed output",
  "late output" and "open while building". `TreeOfDirectories` and
  `LookedUpWhereMakeWas` hold with either kind of kill.
* `ImplementsTranscript` as a theorem: for builds and log files that come one after the
  other and end with no message in the air. What a kill leaves held back, or Clear
  meets while a file is read, joins the log after its start or after it was emptied.
* `HistoryAvailable` and `MadeWhereChosen`: for a user who waits for the queue.
* `ZeroMeansConfigured`: without "menu while serving": Configure chosen from the menu
  while the options are read for a client makes the call return at once with an old
  result. `WaitEnds`: without "fork fails".
* `EachErrorOnce`, `EachMatchOnce`: with all records shown; a record that the view flags
  hide cannot be selected, and is found again and again.
* `NoMatchMissed`: for the expressions that `Handled` describes, to which those of
  `filter_load()` belong, and for lines whose first character is in the table of
  filters. Those in `High` are not: `filter_apply()` takes a `char` for an index
  (`src/filter.c:1078`), so that where `char` is signed a line that starts with a byte
  from 0x80 up is looked up before the table. What lies there is anything; the model has
  it run no filter. The filters listed under that byte, as those of all messages that
  start with the name of a file (`src/filter.c:481`), are not tried, and the error is
  shown as information. Where `char` is unsigned `High` is empty.
* `AppliesOnlyEdits`: a setting that was not edited may become the nearest value that its
  widget can hold. `-j` and `-l` set `run_processes` and `run_load` to anything, and to 0
  if they have no number; the dialog shows them in spin buttons that go from 2 to 10 and
  from 0.1 to 5.0, and the next OK or Apply puts into use and saves what these hold.
* `MakefileMadeWhenStale`: a stale makefile is always remade; a fresh one is left
  alone only if `errno` was not `ENOENT` before.
* `CommandToldInFull`, without NULs: `task_linemode_input()` uses string functions, which
  do not see what follows a NUL in the same read, as the TODO at `src/task.c:161` says.
* `RestartKeeps`: no flags at all, empty colours and commands that name gmake count as
  not set at the next start; what could not be written is not expected to be there, and
  after a kill in the middle of a save nothing is. `VariablesInEffect`: for variables set in the dialog.

*Bounds.*

* `Task`: `MaxBatch` is the number of Tasks one callback enqueues (2 is a makefile and a
  target; 4 two directories with their targets). Four commands are enough to have one
  running, one waiting, one spawned beside the queue and one to come; there are as
  many pids as commands, or forks fail for want of pids. Three commands and one change
  of directory for liveness. Every Task is created at most once, so the program
  finally idles in `gtk_main()`: deadlock is not checked. Commands and pids are
  symmetric in the safety runs, not in the liveness run.
* `TaskInput`: the buffer holds 2 bytes instead of 1024 and the pipe 3: a call reads
  more than once, a line takes several reads and several calls, a read can end before,
  at or behind a newline, and the pipe can be full. At most 5 bytes are written.
* `Log`: two directories on two levels, at most five records (`MaxRecords`), which is
  a build, a directory entered, another inside it, a message there and one after; or
  two builds and a message of three lines. Two sets of view flags: everything indented
  by directories, and errors and warnings only, as summaries. When the log is full
  the instance stops: deadlock is not checked.
* `MainWindow`: two directories, three targets of which one is in both, a history of two,
  a queue of four, drops of two files.
* `Messages`: three clients, two of which send "configure"; the menu is used when no loop
  is nested (`MaxDepth` 1); two configure tasks at a time.
* `Preferences`: six settings of two values, and two more of `run_processes` that only the
  command line can set, below and above the range; two directories, of which both fit (that a longer history is cut is left
  to the proof), one widget edited before Apply or Cancel (`MaxEdits`). Each save may
  fail, however many did before. `cancelled` has three directories, two edits, and a file
  that can be written.
* `MCAlgorithms`: three characters of which one is in `High`, lines up to three, expressions of
  up to three pieces (three only if all are of single characters);
  logs of three errors or six lines; four states (missing, unreadable, old, new) of each of three files; outputs of
  four lines; four edits of two variables, and two values of up to three characters
  with quotes, spaces and backslashes.

*Fairness.* In `Task`, `WF_vars(Program)`: the main loop runs, so some step of the
program is taken while one is possible; at most one function can run at a time, so
which step is not a choice. (A dispatch competes with `EndRun` only when both are
enabled, and each leaves the other enabled until it is taken or disables nothing
for ever.) `WF_vars(g_unix_signal_handler)`: pending signals are delivered.
`WF_vars(ChildExit(p))`: a command that is not stopped ends, which is the user's
business to see to with Stop. Nothing is asked of the user: a behaviour in which
some command is paused again and again, or for ever, is excused by `KeptPaused`.

In `TaskInput`, `WF_vars(Input)` and `WF_vars(EndReap)`: a function that runs goes
on, and a ready source is dispatched. `SF_vars(Reap)` and `SF_vars(EndRun)`: while
`task_input_func()` runs neither can happen, so they are not continuously enabled
when a background process keeps the pipe readable (or end of file keeps it ready);
but sources that are ready in one iteration, all of the same priority, are all
dispatched in it, so the input cannot keep the reaper out for ever. Nothing is
asked of the processes: the command may never end, and the background process may
write for ever or not at all.

In `Messages`, the functions of the program go on (`WF_vars` of each group of steps),
the client takes its reply, configure tasks end, and the user answers a window that
is shown, with OK or with Cancel. No client need ever be started. `Log`, `MainWindow`
and `Preferences` have safety properties only.

## 4. What is proved

For every set of commands, builtins and pids, and every `MaxBatch`, from
`TaskAssumption` alone:

* `TypeCorrect`: `Spec => []TypeOK`, under all circumstances. `TypeOK` is inductive.
* `NoChildLost`: `Spec => []NoLostChild`, under all circumstances. Given types the
  invariant is inductive, along three lemmas: a child becomes waitable only with a
  SIGCHLD (`WaitableSignalled`); a signal is not forgotten before the loop is on the
  stack (`SignalKept`); only `EndDispatch` takes the loop off, with nothing left to
  wait for (`DispatchingKept`).
* `ChildrenRegistered`: `Spec => []ChildRegistered`, if "pid reuse" is not among the
  circumstances. `ChildRegistered` is strengthened by `CreatedFirst` (a Task that is
  not created has no child, and the queue holds created Tasks only: otherwise a fork
  could overwrite the pid of a Task that has a child) and `DroppedDead` (a
  registration about to be dropped belongs to a child that was waited for: otherwise
  dropping it would orphan a live child). Each step is first shown to be one of five
  (`ChildStep`): children kept, one forked, one waited for, a registration dropped,
  an unknown child waited for; the last cannot happen. The assumption is needed: with
  "pid reuse" among the circumstances TLC finds the invariant false, because the
  registration dropped after the reap function is then that of the next command.

* `QueueDisciplined`: `Spec => []QueueDiscipline`, under all circumstances. It is
  strengthened by `CreatedFirst` and `RegisteredCreated` (a registered Task was
  created: a reap operation dequeues it, and what is enqueued then is new). The
  step is split into what happens to the list (`Shaped`: no repetition, agreement
  with the flags) and who is spawned (`SpawnsHead`), and rests on lemmas about
  sequences without repetition.

The stack of C functions, on which each of them has something left to do, and so
what the queue does next (second part of `TaskProofs`). The invariants say of every frame, not of the last only,
what holds of it; each step is first shown to push one frame, to return from the last,
to go on in it, or to leave the stack alone (`StackStep`):

* `QueueAlwaysServed`: `Spec => []QueueServed`, if there is a makefile. Strengthened by
  `HeadWorking` (the work callbacks have been called for the head that runs, and by a
  start operation under way) and `StartBelow` (below whoever aborts or waits there is
  still a `task_start()` that will find the rest of the queue). The assumption is
  needed: `list_targets()` leaves a Task on the queue when there is no makefile, and
  calls no `task_start()` (`src/main.c:837`).
* `QueueImplemented`: `Spec => ImplementsQueue`, if the user does nothing while a
  builtin lists targets, or there are no builtins (`Unnested`). Each action is shown
  to be a step of `TaskQueue` or to leave the sequence of Tasks and the one that runs
  alone. It needs that each function knows the Task it was called with
  (`KnownFunctions`, `OwnerKnows`) and that a builtin waits for its list of targets
  alone (`Alone`).
* `StartedInOrder`: `Spec => []StartsInOrder`, under the same assumption. The run
  `nested_builtin` shows TLC's counterexample without it: this is exactly how far the
  promise of the header goes.

The lives of Tasks (last part of `TaskProofs`):

* `TasksStayAlive`: `Spec => []NoUseAfterFree`, under all circumstances. The count of a
  command is not exact when a fork fails, and that of a builtin not when it aborts its
  own queue; it is never too small while somebody uses the Task. `Enough` says so
  of commands, and `BuiltinsCounted` of builtins; both need that whoever waits is on
  the stack once (`WaitsOnce`) and for a Task that was created (`WaitsCreated`), and
  that a Task not created holds no count (`Uncounted`). Each step is shown to keep the
  balance of references taken and given back, or to give back one too few
  (`CountStep`: `Balanced` or `Leaked`).
* `ReferencesExact`: `Spec /\ [](FreshPids # {}) => []RefcountExact`, if forks succeed,
  pids are not reused and user input does not nest in a builtin. Each assumption is
  needed. A fork that fails leaves behind a Task that nobody unreferences
  (`src/task.c:473`), and `[](FreshPids # {})` says of an instance with few pids that
  the kernel never runs out of them; a pid that is reused puts one Task's count on
  another's registration; nested input makes two start operations share one builtin.
* `PausedIsStopped`: `Spec => []PausedAgrees`, without pid reuse. Strengthened by
  `PausedFirst`: a Task without a process is not paused, so that a new one is not
  taken to be.

For every set of bytes, buffer size, pipe size and length of the output, from
`InputAssumption`:

* `InputTypeCorrect`, `ReadsBounded`, `LinesTold`: the type invariant (which needs
  `ReadsWhatIsThere` to be inductive: otherwise `read()` could return less than was
  asked for and `nremain` become negative); `LinesToldAtOnce` follows from what
  `LinesLength` returns.
* `NothingIsLost` and `CommandTold`, if no NUL is written. `CommandToldInFull` is
  strengthened by `EndInv`, which carries the length of what has been told and
  buffered past `own` from the read before the reap operation to the flush. The
  assumption is needed: see section 3.
* `OutputImplemented`: `Spec => ImplementsOutput`, without NULs. The mapping is by
  name;
  each step is shown to be a step of `CommandOutput` or to leave its variables alone.
* That `LinesLength` finds the last newline and `AsString` the first NUL rests on
  `LeastNumber` of `SequenceFacts`, from the library's `WFMin`, which takes a set and not
  an operator.

For every set of clients, nesting of their messages and number of configure tasks:

* `EachMessageOnce`: `Spec => []OneCopy`, if each client sends a command. `OneCopy` adds
  up numbers of copies; the inductive invariant `OnePlace` says where they are: nothing
  is twice on the property, in the queue or on the stack (`Once`), no two of these and
  the replies have the message of one client (`Apart`), and it is somewhere exactly
  while that client waits (`WaitsForIt`). The assumption is needed: a header without a
  command, if it is the last of the property, is dropped by the parser
  (`src/mqueue.c:161`), and its client waits for ever.
* `WaitsHaveAnEnd`: `Spec => []WaitEnds`, if the configure task can be spawned.
  `WaitEnds` speaks of the innermost wait; `WillEnd` says the same of every frame of
  the stack, counting the callbacks above it that are about to set `finished`.
* `ZeroIsTrue`: `Spec => ZeroMeansConfigured`, if the user does not choose the menu item
  while a client is served. Nested waits share `finished` and `result`, and return one
  after the other: `ServedConfigured` says that the answer is true of each of them, and
  that `from_client` is set as long as one is left, so that none returns the `result`
  of earlier times without a wait. It needs `OnePlace`: of two frames for one client
  the first to return would undo `configured` of the other.

For every set of directories and targets, list of each directory, length of the
history, queue and drop, from `WindowAssumption`:

* `MenusAreRight`: `Spec => []MenusRightWhenIdle`, under all circumstances. It rests on
  `StartsWork`: `task_start()` is called only when nothing runs, and once it is under way
  it has something left to start or has called `work_started()`, so that its end calls
  `work_ended()`. Without it a queue could empty itself with the items of a running
  build greyed out for good.
* `HistoryIsAvailable`: `Spec => []HistoryAvailable`. `set_targets()` frees the names
  the history points to; `EmptyUntilListed` says that the history is empty while a list
  of targets is queued or being made, and that no target is queued along with one: such
  a target would enter the history before the list that frees it.
* `TargetsMadeWhereChosen`: `Spec => MadeWhereChosen`. `WillBeMadeWhereChosen` follows
  the directory through the queue: each target was chosen in that of the Task before it,
  or in the current one if it is the first. For dropped files it rests on
  `DroppedProperties`, which counts the changes of directory that come before each file.

Both of the last speak of a user who waits for the queue (`hasty` is false); what
happens otherwise is `dangling_history`.

For every set of directories, length of their history and number of edits, from
`PreferencesAssumption`:

* `WidgetsAlwaysAgree` and `OnlyEditsApplied`. That Apply changes only what the user
  has edited, and what its widget cannot hold to the nearest value that it can, is not
  a property of Apply, which writes every setting of the dialog: it
  holds because what the widgets held before was in use already, or `Clamped` from it.
  The invariant `WidgetsAgree` says so; it needs that no dialog is visible in a program that is not
  running (`SettingsKept`), or a start would change the settings under the widgets, and
  that the settings that menus set are not in the dialog (`NotInDialog`). The make
  program is left out, as its menu is set to the one in use only when the dialog is
  created (`src/preferences.c:1291`) and not each time it is shown.
* `StartsLoadWhatWasSaved`: `Spec => []RestartKeeps`. The table lives from the load to
  the last save: `TableInv` says that it gives `kept` at any time, and that the file gives
  `saved`, which is what it was last written with, unless it is open; a save either brings
  the two together or leaves the file alone (`SyncKeeps`). Of directories, a table may hold more than the history,
  left over from longer ones: `Gives` says that they then begin with the history and, if
  that is not full, repeat what is in it, which reading leaves out. `WrittenGives` shows
  that writing a history over another keeps this. `GivesIsLoaded` is about a loop over
  the file: two readings of it cannot differ at a first place (`ReadAlike`, by
  `LeastNumber`). `ValuesInv` keeps what is set, in the dialog or saved, to values
  whose texts are not those of something else.

For every set of directories, number of levels of make, set of kinds of line, set of view
flags and number of records, from `LogAssumption`:

* `ClearedIsNotUsed`: `Spec => []NoFreedRecordUsed`, if of all circumstances only "killed
  between" occurs. The stack of rows lives on through Clear, which frees what it points
  to; that this is harmless rests on its size when Clear is allowed.
* `CountsAreRight`: `Spec => []CountsTold`, if builds are killed at most (`Calm`). The counts
  are kept while lines are added, the texts of rows are made when a build ends or the
  log is shown anew, and what they must be is counted over the records.
* These two follow from `LogIsSound`: `Calm => (Spec => []LogInv)`. Its parts need each other.
  `FilterInv`: while lines of a message are held, the result of the filters is an error
  that is pending, so that what follows is dealt with as the rest of it. `DirsInv`: the
  code of each record is that of its line, and at every record no more directories have
  been left than entered, of each level and in all. `WritersInv`: no command runs, so make is in no
  directory, unless one was killed there. `StackInv`: the stack of rows is as deep as
  the brackets of directories that are open, if they are indented, above the row of
  the build. `CountInv`: the counts are those of the records since the start of the
  build, and the text of a row tells nothing or what belongs to it. TLC checked `LogInv`
  with "killed between", and with both kinds of kill.
* `LogIsTranscript`: `Spec => ImplementsTranscript`, if of all circumstances only "stray
  leave", "mixed output" and "killed inside" occur (`OneByOne`). A line that the filters
  hold back is not in the log yet: the transcript's state is the text of the log and
  what is pending. `HeldWhileWriting` says that nothing is pending unless somebody
  writes, so that the start of a log and Clear find nothing that would come late.
* `TreeIsOfDirectories`: `Calm => (Spec => []TreeOfDirectories)`. The property counts
  brackets between two records; the code has a stack. `OpenByCount` turns the counts into
  depths: a bracket is open where the depth has not been below its own since. `HoldsOpen`
  says that the stack holds exactly the open brackets, the innermost first, and the start
  of the build below them; `FindsSpot` that the walk down the stack in
  `log_current_unique_node()` ends at the row that the property names; `Placed` is the
  invariant of the loop over the records of a message, and of all records when the flags
  change. `TreeInv` says so of the rows that are there, and adding records does not
  disturb it: `Under` depends only on what comes before a record (`UnderAlike`).
* `ContextsAreRight`: `Calm => (Spec => []LookedUpWhereMakeWas)`. The property speaks of
  the text, the code of stacks by level and a cached context. `LookInv` ties them together:
  a level has a directory exactly if it is in use (`LevelsInv`), a directory is on the
  stack of a level as often as the brackets in the log say (`StacksInv`), the cached
  context is out of date or right (`ContextInv`), and each record was looked up where the
  text up to it says that make was (`RecordsInv`). `LevelsInv` needs that makes enter and
  leave in order: `log_pop_dir()` lowers the number of levels only for the deepest one.
* The rows are built in a loop, `ShowFrom`, and the directories of a record are a
  sequence of sequences laid end to end. `LoopExists` of `SequenceFacts` proves that the function
  that a loop stands for exists, and `EveryRound` that what each round keeps holds after
  the last; `FlattenProperties` applies them to `FlattenSeq`. They speak of sets and
  functions, so that no operator has to be a parameter.

For every set of inputs of the kind the program gives to the algorithms
(`AlgorithmsAssumption`), of any length:

* `MakefileMade`: `Spec => []MakefileMadeWhenStale`, for any list of dependencies, any times, and
  files that are missing or cannot be looked at. What the code keeps from one `stat()`
  to the next is `errno` and the time of the last file it could look at; `IsStating`
  says what they are after each file.
* `OffersTargets`: `Spec => []TargetsOffered`, for any output of gmake, names of targets being
  numbers in their order (`Targets \in SUBSET Int`). `Knows` is the invariant of the
  parser: the targets it has are those whose rule has come, unless a remark came before
  it. A list sorted by rank has each name once (`Rises`).
* `VariablesReachMake`: `Spec => []VariablesInEffect`, for any series of Set and Unset and any
  values, with quotes, spaces and backslashes in any place. It is assumed that no name of
  a variable has one of these characters (`PlainNames`): the code quotes values and not
  names. The rows are shown to hold what was set last, each name once; then the command
  is taken apart by reading its parts one after another (`ReadFrom` of a concatenation
  is the reading of the second part from where the first has left the shell), and a part
  that is quoted adds exactly its value to the word, whichever way of quoting was taken.
* `EditsEachError` and `FindsEachMatch`: `Spec => []EachErrorOnce` and
  `Spec => []EachMatchOnce`, for any log
  whose records all have rows (a record without a row cannot be selected, and the item
  stays where it is: both properties say so), any selection and either direction. The
  records get places on the way through the log (`Places`), so that backwards is the
  same as forward. That nothing is skipped between one choice and the next is shown at
  the furthest place where it could be; a search that goes round is straight on in another
  order (`Rounded`), in which what lies beyond the selection comes first.
* `NoLineWithheld`: `Spec => []NoMatchMissed`, for any characters, any length of lines and any
  expression that `filter_load()` could have (`Handled`), and any set `High` of characters
  that are negative, among them none; lines that start with one are left out. By induction over the parts, a
  word of an expression is empty only if all its pieces can be, and otherwise starts
  with the first item of a piece before which all can be empty (`InTurnLed`); those
  pieces have stars, so the code looks at them (`EmptyBeforeSeen`), and what it adds for
  one is never taken away (`BranchesSuit`), because a complemented set, which
  overwrites, comes first and alone.

Their loops are rounds: `RoundsExist` of `SequenceFacts` gives the function, and
`EveryRound` the induction. The definitions of the property and of the algorithm are
independent: the one is about sets, order and languages, the other about a loop.

Only model-checked: liveness (`EveryTaskLeaves`, `EveryCallReturns`, `NeverStuck`,
`EndIsTold`, `EveryClientAnswered`), which together with ENABLED is out of the prover's
reach; and that the findings of section 3 do happen. Every invariant and every action
property of a passing run is a theorem; each says which assumptions it is proved under.

## 5. Not modelled

* Widgets, their layout, colours, sizes of paper; printing (`print.c`, `ps.c`); progress
  and help: formatting and display. `help.c` spawns a browser as `start_edit()` spawns
  an editor, which is `Spawn` of `Task`.
* Regular expressions themselves: a line is the kind of filter that matches it
  (`Log`), an expression what `filter_calc_leads()` tells apart (`FilterLeads`).
* `log_save()`: it runs the main loop in the middle of its walk of the log, where Clear
  frees the node it stands on; nothing protects it.
* The memory of strings: several records share those of one message; `estring` grows by
  the smaller of 1024 and the shortage (`src/util.c:38`); clock values, where
  `time_elapsed()` borrows a second the wrong way round (`src/util.c:384`).
* Parsers of pmake's and Sun make's output, the options of configure and their texts,
  the parsing of the command line (its effects on settings are in `Preferences`).
* X errors: a client killed while it waits (`src/mqueue.c:194`), properties longer than
  4096 bytes (`src/mqueue.c:139`), messages with an empty command (`src/mqueue.c:161`).
* A file of settings that is there and cannot be read: it counts as none, as in the code;
  text that the user types into a spin button, which GTK brings into the range as it does
  a value that is set; `fprintf()` or `fclose()` that fail on a full disk.
* What lies before the table of filters, where `filter_apply()` looks for a line with a
  negative first character: the model takes it to run no filter.
* Two maketools that share one file of settings: the last to save overwrites.
* Vendored libraries (`lib/`, `intl/`).
