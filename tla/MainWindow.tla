------------------------------ MODULE MainWindow ------------------------------
(***************************************************************************)
(* The main window of maketool (main.c): which of its menu items and tools *)
(* can be chosen, the targets it offers, the history of those made, and    *)
(* the current directory, while the task queue works.                      *)
(*                                                                         *)
(* The queue is that of module Task as the window sees it: a callback that *)
(* calls task_start() leaves `at' there until the loop of task_start() has *)
(* ended, and a change of directory waits for its list of targets in a     *)
(* nested main loop, where this module takes no user into account.         *)
(***************************************************************************)
EXTENDS Integers, FiniteSets, SequencesExt

CONSTANTS
    Dirs,               \* directories
    Targets,            \* names of targets
    TargetsIn,          \* those that the list of each directory reports
    StartActions,       \* values prefs.start_action takes in this instance
    TARGET_HISTORY_MAX,
    MaxQueue,           \* most Tasks in the queue when the user adds some
    MaxDrop,            \* most files dropped together
    Circumstances       \* what may happen around the program

\* "impatient user"  the user gives more work while the queue is at work: by
\*                   a dialog left open, by dropping files, or with an item
\*                   that should not have been offered
\* "chdir fails"     a directory cannot be entered
\* "no makefile"     a directory has no makefile yet, but can have one made
AllCircumstances == {"impatient user", "chdir fails", "no makefile"}

FreedString == "freed string"   \* a target's name that has been freed

ASSUME WindowAssumption ==
    /\ TargetsIn \in [Dirs -> SUBSET Targets]
    /\ FreedString \notin Targets
    /\ StartActions \subseteq {"START_NOTHING", "START_CLEAR", "START_COLLAPSE"}
    /\ TARGET_HISTORY_MAX \in Nat \ {0}
    /\ MaxQueue \in Nat /\ MaxDrop \in Nat
    /\ Circumstances \subseteq AllCircumstances

VARIABLES
    at,                 \* "main_loop", "task_start", or "nested": the list of
                        \* a change of directory runs in the foreground
    task_all,           \* the queue
    running,            \* task_is_running(): the head has a process
    working,            \* the static of task_start()
    cwd,                \* file_current()
    available_targets,
    target_history,     \* the last made first
    log_is_empty,
    sensitive,          \* the groups of items that can be chosen
    hasty               \* the user has given work to a queue at work

vars == <<at, task_all, running, working, cwd, available_targets,
          target_history, log_is_empty, sensitive, hasty>>

\* A Task: dir is the directory that was current when its target was chosen,
\* the directory of a dropped file, or the directory to change to.
Job(kind, target, dir) == [kind |-> kind, target |-> target, dir |-> dir]
NoTarget == "no target"

Groups == {"GR_NOTRUNNING", "GR_RUNNING", "GR_CLEAR_LOG", "GR_NOTEMPTY",
           "GR_AGAIN"}

\* grey_menu_items(): the items that can be chosen from now on.
grey_menu_items(runs, empty, history) ==
    {g \in Groups :
        CASE g = "GR_NOTRUNNING" -> ~ runs
          [] g = "GR_RUNNING" -> runs
          [] g = "GR_CLEAR_LOG" -> ~ runs /\ ~ empty
          [] g = "GR_NOTEMPTY" -> ~ empty
          [] g = "GR_AGAIN" -> ~ runs /\ history # <<>>}

\* The window once the targets of the first directory have been listed.
Init ==
    /\ at = "main_loop"
    /\ task_all = <<>> /\ running = FALSE /\ working = FALSE
    /\ cwd \in Dirs
    /\ available_targets = TargetsIn[cwd]
    /\ target_history = <<>>
    /\ log_is_empty = TRUE
    /\ sensitive = grey_menu_items(FALSE, TRUE, <<>>)
    /\ hasty = FALSE

-----------------------------------------------------------------------------
(***************************************************************************)
(* Targets.                                                                *)
(***************************************************************************)
\* t before the targets made until now, among which it is once at most, and
\* the last of them dropped if there are too many.
Remembered(t) ==
    LET others == IF Contains(target_history, t)
                  THEN RemoveAt(target_history,
                                CHOOSE i \in DOMAIN target_history :
                                    target_history[i] = t)
                  ELSE target_history
    IN SubSeq(<<t>> \o others, 1,
              IF Len(others) < TARGET_HISTORY_MAX
              THEN Len(others) + 1 ELSE TARGET_HISTORY_MAX)

\* Targets that are not available are put into the history, too.
MutAddHistory(t) == Remembered(t)

\* add_target_history(): the history after t has been made.
add_target_history(t) ==
    IF t \in available_targets THEN Remembered(t) ELSE target_history

\* set_targets(): the names found before are freed, whoever points to them.
set_targets(T, history, runs) ==
    /\ available_targets' = T
    /\ target_history' = [i \in DOMAIN history |-> FreedString]
    /\ sensitive' = grey_menu_items(runs, log_is_empty, history)

-----------------------------------------------------------------------------
(***************************************************************************)
(* task_start() and the start operations.                                  *)
(***************************************************************************)
Head1 == Head(task_all)

\* The loop of task_start() goes round.
Starts(k) ==
    /\ at = "task_start"
    /\ ~ running
    /\ task_all # <<>>
    /\ Head1.kind = k
    /\ working' = TRUE
    /\ UNCHANGED hasty

\* What can be chosen after work_started(), which is called before the first
\* Task is spawned.
AfterWorkStarted ==
    IF working THEN sensitive
    ELSE grey_menu_items(running, log_is_empty, target_history)

\* make_start()
StartMake ==
    /\ Starts("make")
    /\ at' = "main_loop" /\ running' = TRUE
    /\ \E action \in StartActions :
          LET cleared == log_is_empty \/ action = "START_CLEAR"
              history == add_target_history(Head1.target)
          IN /\ target_history' = history
             /\ sensitive' = IF cleared
                             THEN grey_menu_items(TRUE, FALSE, history)
                             ELSE AfterWorkStarted
    /\ log_is_empty' = FALSE
    /\ UNCHANGED <<task_all, cwd, available_targets>>

\* logged_task_start()
StartLogged ==
    /\ Starts("logged")
    /\ at' = "main_loop" /\ running' = TRUE
    /\ sensitive' = IF log_is_empty
                    THEN grey_menu_items(TRUE, FALSE, target_history)
                    ELSE AfterWorkStarted
    /\ log_is_empty' = FALSE
    /\ UNCHANGED <<task_all, cwd, available_targets, target_history>>

\* The list of targets and the finish command have no start operation.
StartQuietly ==
    /\ Starts("list") \/ Starts("finish")
    /\ at' = "main_loop" /\ running' = TRUE
    /\ sensitive' = AfterWorkStarted
    /\ UNCHANGED <<task_all, cwd, available_targets, target_history,
                   log_is_empty>>

\* What change_directory() may enqueue by make_makefile().
RemadeMakefile(d) == {<<>>, <<Job("logged", NoTarget, d)>>}

\* change_directory_start() in a directory with no makefile.
StartDirectory ==
    /\ Starts("change_directory")
    /\ cwd' = Head1.dir
    /\ \E s \in RemadeMakefile(cwd') : task_all' = Tail(task_all) \o s
    /\ set_targets({}, <<>>, FALSE)
    /\ UNCHANGED <<at, running, log_is_empty>>

\* change_directory_start() up to the task_run() of the list of targets.
StartDirectoryList ==
    /\ Starts("change_directory")
    /\ cwd' = Head1.dir
    /\ \E s \in RemadeMakefile(cwd') : task_all' = task_all \o s
    /\ target_history' = <<>>
    /\ sensitive' = AfterWorkStarted
    /\ at' = "nested"
    /\ UNCHANGED <<running, available_targets, log_is_empty>>

\* The list is there, or in error: change_directory_start() returns to
\* task_start().
EndDirectory ==
    /\ at = "nested"
    /\ \E T \in {TargetsIn[cwd], {}} : set_targets(T, target_history, FALSE)
    /\ task_all' = Tail(task_all)
    /\ at' = "task_start"
    /\ UNCHANGED <<running, working, cwd, log_is_empty, hasty>>

\* change_directory_start() fails and aborts the queue.
AbortQueue ==
    /\ Starts("change_directory")
    /\ "chdir fails" \in Circumstances
    /\ task_all' = <<>>
    /\ sensitive' = AfterWorkStarted
    /\ UNCHANGED <<at, running, cwd, available_targets, target_history,
                   log_is_empty>>

\* work_ended() does not call grey_menu_items().
MutEndStart ==
    /\ at = "task_start"
    /\ task_all = <<>>
    /\ at' = "main_loop"
    /\ working' = FALSE
    /\ UNCHANGED <<task_all, running, cwd, available_targets, target_history,
                   log_is_empty, sensitive, hasty>>

\* The loop of task_start() ends because the queue is empty.
EndStart ==
    /\ at = "task_start"
    /\ task_all = <<>>
    /\ at' = "main_loop"
    /\ working' = FALSE
    /\ sensitive' = IF working
                    THEN grey_menu_items(FALSE, log_is_empty, target_history)
                    ELSE sensitive
    /\ UNCHANGED <<task_all, running, cwd, available_targets, target_history,
                   log_is_empty, hasty>>

\* task_reap_func() of the command at the head up to its call of task_start().
Reaped(k) ==
    /\ at = "main_loop"
    /\ running
    /\ Head1.kind = k
    /\ running' = FALSE
    /\ at' = "task_start"
    /\ UNCHANGED <<working, cwd, log_is_empty, hasty>>

\* make_reap() may enqueue the finish command.
ReapMake ==
    /\ Reaped("make")
    /\ \E s \in {<<>>, <<Job("finish", NoTarget, cwd)>>} :
          task_all' = Tail(task_all) \o s
    /\ UNCHANGED <<available_targets, target_history, sensitive>>

\* gmake_list_targets_reap() and its like; the list may be in error.
ReapList ==
    /\ Reaped("list")
    /\ task_all' = Tail(task_all)
    /\ \E T \in {TargetsIn[cwd], {}} : set_targets(T, target_history, FALSE)

ReapOther ==
    /\ Reaped("logged") \/ Reaped("finish")
    /\ task_all' = Tail(task_all)
    /\ UNCHANGED <<available_targets, target_history, sensitive>>

-----------------------------------------------------------------------------
(***************************************************************************)
(* The user.                                                               *)
(***************************************************************************)
\* A callback may add the Tasks s to the queue and call task_start(), which
\* has nothing to do if the head of the queue is running.
Gives(s) ==
    /\ at = "main_loop"
    /\ task_all # <<>> => "impatient user" \in Circumstances
    /\ hasty' = (hasty \/ task_all # <<>>)
    /\ Len(task_all \o s) <= MaxQueue
    /\ task_all' = task_all \o s
    /\ at' = IF running THEN "main_loop" ELSE "task_start"
    /\ UNCHANGED <<running, working>>

\* build_start(): the makefile may have to be remade first.
build_start(t) ==
    /\ \E s \in RemadeMakefile(cwd) : Gives(Append(s, Job("make", t, cwd)))
    /\ UNCHANGED <<cwd, available_targets, target_history, log_is_empty,
                   sensitive>>

\* build_cb(), tool_build_idle_fn()
Build ==
    /\ "GR_NOTRUNNING" \in sensitive
    /\ \E t \in available_targets : build_start(t)

\* build_again_cb(), target_history_cb()
BuildAgain ==
    /\ "GR_AGAIN" \in sensitive
    /\ ~ running
    /\ \E i \in DOMAIN target_history : build_start(target_history[i])

\* build_makefile_cb(), build_makesys_command_cb()
BuildOther ==
    /\ "GR_NOTRUNNING" \in sensitive
    /\ Gives(<<Job("logged", NoTarget, cwd)>>)
    /\ UNCHANGED <<cwd, available_targets, target_history, log_is_empty,
                   sensitive>>

\* The dropped files that are not in the directory of the one before, or for
\* the first one in last, which was current: a change of directory comes first.
Elsewhere(files, last) ==
    {i \in DOMAIN files :
        files[i].dir # (IF i = 1 THEN last ELSE files[i - 1].dir)}

\* The place in the queue of the target of file i.
Place(files, last, i) ==
    i + Cardinality({j \in Elsewhere(files, last) : j <= i})

\* The file for which there is a Task at the place p of the queue.
FileAt(files, last, p) ==
    CHOOSE i \in DOMAIN files :
        /\ p <= Place(files, last, i)
        /\ i > 1 => Place(files, last, i - 1) < p

MutDropped(files, last) ==
    [i \in DOMAIN files |-> Job("make", files[i].target, files[i].dir)]

\* The Tasks for the dropped files, each a target in its directory.
Dropped(files, last) ==
    [p \in 1..Place(files, last, Len(files)) |->
        LET i == FileAt(files, last, p)
        IN IF p = Place(files, last, i)
           THEN Job("make", files[i].target, files[i].dir)
           ELSE Job("change_directory", NoTarget, files[i].dir)]

\* dnd_handle_uri_list() of files.
Drop ==
    /\ \E n \in 1..MaxDrop :
          \E files \in [1..n -> [target : Targets, dir : Dirs]] :
             Gives(Dropped(files, cwd))
    /\ UNCHANGED <<cwd, available_targets, target_history, log_is_empty,
                   sensitive>>

\* change_directory() from a menu, the dialog, or a dropped directory, and
\* list_targets() where there is a makefile.
ChangeDirectory(d) ==
    /\ \E s \in RemadeMakefile(d) : Gives(Append(s, Job("list", NoTarget, d)))
    /\ cwd' = d
    /\ target_history' = <<>>
    /\ UNCHANGED <<available_targets, log_is_empty, sensitive>>

\* The same where there is none: what make_makefile() enqueued, if anything,
\* is not started.
ChangeDirectoryOnly(d) ==
    /\ at = "main_loop"
    /\ task_all # <<>> => "impatient user" \in Circumstances
    /\ hasty' = (hasty \/ task_all # <<>>)
    /\ \E s \in RemadeMakefile(d) :
          /\ s # <<>> => "no makefile" \in Circumstances
          /\ Len(task_all \o s) <= MaxQueue
          /\ task_all' = task_all \o s
    /\ cwd' = d
    /\ set_targets({}, <<>>, running)
    /\ UNCHANGED <<at, running, working, log_is_empty>>

\* view_clear_cb(): log_clear() greys the items.
Clear ==
    /\ at = "main_loop"
    /\ "GR_CLEAR_LOG" \in sensitive
    /\ log_is_empty' = TRUE
    /\ sensitive' = grey_menu_items(running, TRUE, target_history)
    /\ UNCHANGED <<at, task_all, running, working, cwd, available_targets,
                   target_history, hasty>>

\* file_open_file_func(): the start line of the file is shown.
OpenLog ==
    /\ at = "main_loop"
    /\ log_is_empty' = FALSE
    /\ sensitive' = IF log_is_empty
                    THEN grey_menu_items(running, FALSE, target_history)
                    ELSE sensitive
    /\ UNCHANGED <<at, task_all, running, working, cwd, available_targets,
                   target_history, hasty>>

\* log_click_cb(): a row of the log is selected or unselected.
Click ==
    /\ at = "main_loop"
    /\ ~ log_is_empty
    /\ sensitive' = grey_menu_items(running, FALSE, target_history)
    /\ UNCHANGED <<at, task_all, running, working, cwd, available_targets,
                   target_history, log_is_empty, hasty>>

Next ==
    \/ StartMake \/ StartLogged \/ StartQuietly
    \/ StartDirectory \/ StartDirectoryList \/ EndDirectory \/ AbortQueue
    \/ EndStart
    \/ ReapMake \/ ReapList \/ ReapOther
    \/ Build \/ BuildAgain \/ BuildOther \/ Drop
    \/ \E d \in Dirs : ChangeDirectory(d) \/ ChangeDirectoryOnly(d)
    \/ Clear \/ OpenLog \/ Click

Spec == Init /\ [][Next]_vars

-----------------------------------------------------------------------------
\* Once the queue is empty, and whatever happened while it was not, the items
\* that can be chosen are those that make sense: nothing stays greyed out and
\* nothing is offered that cannot be done.  (grey_menu_items, work_ended)
MenusRightWhenIdle ==
    at = "main_loop" /\ task_all = <<>> =>
        sensitive = grey_menu_items(FALSE, log_is_empty, target_history)

\* "a saved string in the available_targets list" (main.c) is what the history
\* is made of: targets that can be made in this directory, each once, and none
\* whose name has been freed since.
HistorySaved ==
    /\ ToSet(target_history) \subseteq available_targets
    /\ IsInjective(target_history)

\* So it is for a user who waits for the queue.
\* (add_target_history, clear_target_history, set_targets)
HistoryAvailable == ~ hasty => HistorySaved

\* A target is made in the directory in which it was chosen, or in that of the
\* file that was dropped, for a user who waits for the queue.
\* (dnd_handle_uri_list, change_directory)
MadeWhereChosen ==
    [][StartMake /\ ~ hasty => Head1.dir = cwd]_vars
=============================================================================
