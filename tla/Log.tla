--------------------------------- MODULE Log ---------------------------------
(***************************************************************************)
(* The build log of maketool: log.c, the multi-line matching of filter.c,  *)
(* and their callers in main.c.  Lines of output are classified by the     *)
(* filters, kept as records, and shown as rows of a tree: below the start  *)
(* of their build, and below the directories make was in.                  *)
(*                                                                         *)
(* A LogRec is known by its place in `log', a row by the record shown in   *)
(* it.  What still points to a record after log_clear() points to Freed.   *)
(***************************************************************************)
EXTENDS Integers, FiniteSets, SequencesExt

CONSTANTS
    NoContext,      \* the null LogContext pointer
    Dirs,           \* directories make says it enters and leaves
    MaxDepth,       \* deepest level of make in those messages
    Kinds,          \* the kinds of line that commands write in this instance
    FlagSets,       \* values prefs.log_flags takes in this instance
    MaxRecords,     \* most records in the log, those pending included
    Circumstances   \* what may happen around the program in this instance

\* "stray leave"     make leaves a directory it did not say it had entered
\* "mixed output"    parallel commands write into each other's messages
\* "killed inside"   a command ends while make is in a directory
\* "killed between"  a command ends in the middle of a multi-line message
\* "clear while building"  the log is cleared while a command writes to it
\* "open while building"   a log file is read while a command writes
\* "late output"     a descendant writes after the command was reaped
AllCircumstances ==
    {"stray leave", "mixed output", "killed inside", "killed between",
     "clear while building", "open while building", "late output"}

Flags == {"LF_SHOW_INFO", "LF_SHOW_WARNINGS", "LF_SHOW_ERRORS",
          "LF_SUMMARISE", "LF_INDENT_DIRS"}

\* "cfe", "indented", "caret": the three lines of a MIPSpro message.
AllKinds == {"plain", "compile", "error", "warning", "enter", "leave",
             "cfe", "indented", "caret"}

NoState == ""           \* the state of the filters between messages
NoFile == "no file"
Source == "source file"

ASSUME LogAssumption ==
    /\ {NoFile, Source} \cap Dirs = {}
    /\ Kinds \subseteq AllKinds
    /\ FlagSets \subseteq SUBSET Flags
    /\ MaxDepth \in Nat \ {0}
    /\ MaxRecords \in Nat
    /\ Circumstances \subseteq AllCircumstances

\* A line: its kind, and the file or directory and the level it mentions.
Line(k, f, d) == [kind |-> k, file |-> f, depth |-> d]
Lines ==
    {Line(k, Source, 0) : k \in Kinds \ {"enter", "leave"}}
      \cup {Line(k, f, d) : k \in Kinds \cap {"enter", "leave"},
                            f \in Dirs, d \in 1..MaxDepth}
StartLine == Line("start", NoFile, 0)

Freed == -1     \* a LogRec that has been freed
Hidden == -2    \* LogRec.node = 0
Top == 0        \* a row without parent

VARIABLES
    writers,        \* what feeds lines to the log: "build", "file"
    log,            \* the LogRecs
    rows,           \* for each LogRec, the record its row is under, or
                    \* Hidden, and the counts that the text of the row tells
    log_node_stack, \* the last pushed first
    dir_stack,      \* what is stacked at each level, the last pushed first
    dir_max_depth,
    context,        \* the static of log_get_context()
    context_dirty,
    filter_state,
    res,            \* the statics of log_add_line(): the result so far ...
    pending,        \* ... and the lines it is the result of
    num_errors, num_warnings, num_ew_changed,
    counted,        \* the counts that count_changed() showed last
    log_flags,
    astray          \* a freed record has been used

dirVars == <<dir_stack, dir_max_depth, context, context_dirty>>
countVars == <<num_errors, num_warnings, num_ew_changed>>
filterVars == <<filter_state, res, pending>>
treeVars == <<rows, log_node_stack, astray>>
vars == <<writers, log, treeVars, dirVars, filterVars, countVars, counted,
          log_flags>>

Plain == <<>>
filter_result_init ==
    [code |-> "UNDEFINED", pending |-> FALSE, summary |-> "none",
     file |-> NoFile, depth |-> 0]

Init ==
    /\ writers = {}
    /\ log = <<>> /\ rows = <<>> /\ log_node_stack = <<>>
    /\ dir_stack = [d \in 1..MaxDepth |-> <<>>]
    /\ dir_max_depth = 0
    /\ context = NoContext /\ context_dirty = FALSE
    /\ filter_state = NoState /\ res = filter_result_init /\ pending = <<>>
    /\ num_errors = 0 /\ num_warnings = 0 /\ num_ew_changed = FALSE
    /\ counted = <<0, 0>>
    /\ log_flags \in FlagSets
    /\ astray = FALSE

-----------------------------------------------------------------------------
(***************************************************************************)
(* filter.c: the first filter of the current state that matches a line     *)
(* changes the result and the state.                                       *)
(***************************************************************************)
Filter(in, kinds, code, more, summary, out) ==
    [instate |-> in, kinds |-> kinds, code |-> code, pending |-> more,
     summary |-> summary, outstate |-> out]

\* One filter of filter_load() for each kind of line.
Filters ==
    <<Filter(NoState, {"compile"}, "INFORMATION", FALSE, "text", NoState),
      Filter(NoState, {"enter"}, "PUSHDIR", FALSE, "empty", NoState),
      Filter(NoState, {"leave"}, "POPDIR", FALSE, "empty", NoState),
      Filter(NoState, {"warning"}, "WARNING", FALSE, "text", NoState),
      Filter(NoState, {"error"}, "ERROR", FALSE, "text", NoState),
      Filter(NoState, {"cfe"}, "ERROR", TRUE, "text", "Nmipspro1"),
      Filter("Nmipspro1", {"indented", "caret"}, "UNDEFINED", TRUE, "empty",
             "Nmipspro2"),
      Filter("Nmipspro2", {"caret"}, "DONE", FALSE, "empty", NoState)>>

Matching(line) ==
    {i \in DOMAIN Filters : /\ Filters[i].instate = filter_state
                            /\ line.kind \in Filters[i].kinds}

\* filter_apply_one() of a filter that matches: a filter that has no file
\* of its own, or no code, leaves what is in the result.
filter_apply_one(f, line, r) ==
    LET continues == f.code \in {"UNDEFINED", "DONE"} IN
    [code |-> IF continues THEN r.code ELSE f.code,
     pending |-> f.pending,
     summary |-> f.summary,
     file |-> IF continues THEN r.file ELSE line.file,
     depth |-> IF continues THEN r.depth ELSE line.depth]

\* filter_apply(): the result and the state after a line.
filter_apply(line, r) ==
    IF Matching(line) = {}
    THEN [result |-> [r EXCEPT !.code = "UNDEFINED", !.pending = FALSE],
          state |-> NoState]
    ELSE LET f == Filters[CHOOSE i \in Matching(line) :
                             \A j \in Matching(line) : i <= j]
         IN [result |-> filter_apply_one(f, line, r), state |-> f.outstate]

-----------------------------------------------------------------------------
(***************************************************************************)
(* Directories.  Those of a parallel make are a stack at each level.       *)
(***************************************************************************)
log_push_dir(d, f) ==
    IF d > dir_max_depth + 1
    THEN UNCHANGED <<dir_stack, dir_max_depth, context_dirty>>
    ELSE /\ dir_max_depth' = IF d > dir_max_depth THEN d ELSE dir_max_depth
         /\ dir_stack' = [dir_stack EXCEPT ![d] = <<f>> \o @]
         /\ context_dirty' = TRUE

\* The cached context is not marked as out of date.
MutPopDir(d, f) ==
    IF d > dir_max_depth
    THEN UNCHANGED <<dir_stack, dir_max_depth, context_dirty>>
    ELSE LET rest == IF Contains(dir_stack[d], f)
                     THEN RemoveAt(dir_stack[d],
                            SelectInSeq(dir_stack[d], LAMBDA x : x = f))
                     ELSE dir_stack[d]
         IN /\ dir_stack' = [dir_stack EXCEPT ![d] = rest]
            /\ dir_max_depth' = dir_max_depth -
                   (IF d = dir_max_depth /\ rest = <<>> THEN 1 ELSE 0)
            /\ UNCHANGED context_dirty

log_pop_dir(d, f) ==
    IF d > dir_max_depth
    THEN UNCHANGED <<dir_stack, dir_max_depth, context_dirty>>
    ELSE LET found == Contains(dir_stack[d], f)
             rest == IF found
                     THEN RemoveAt(dir_stack[d],
                            SelectInSeq(dir_stack[d], LAMBDA x : x = f))
                     ELSE dir_stack[d]
         IN /\ dir_stack' = [dir_stack EXCEPT ![d] = rest]
            /\ context_dirty' = (context_dirty \/ found)
            /\ dir_max_depth' = dir_max_depth -
                   (IF d = dir_max_depth /\ rest = <<>> THEN 1 ELSE 0)

log_clear_dirs ==
    /\ dir_stack' = [d \in 1..MaxDepth |->
                        IF d <= dir_max_depth THEN <<>> ELSE dir_stack[d]]
    /\ dir_max_depth' = 0
    /\ context_dirty' = TRUE

\* The directories a relative file name may be in, the deepest level first.
CurrentDirs ==
    FlattenSeq([i \in 1..dir_max_depth |-> dir_stack[dir_max_depth + 1 - i]])

log_get_context ==
    IF ~ context_dirty /\ context # NoContext THEN context ELSE CurrentDirs

-----------------------------------------------------------------------------
(***************************************************************************)
(* The tree.  What log_show_rec() works on is a view: the rows shown so    *)
(* far, the stack of nodes, and whether a freed record has been used.      *)
(***************************************************************************)
Row(parent) == [under |-> parent, says |-> Plain]

\* The places in the stack below the top whose directory is not the top's.
Elsewhere(stk, recs) ==
    {k \in 2..Len(stk) : \/ stk[k] = Freed
                         \/ recs[stk[k]].code # "PUSHDIR"
                         \/ recs[stk[k]].file # recs[stk[1]].file}

\* The node where the search stopped, not the one before it.
MutUniqueNode(stk, recs) ==
    CASE stk = <<>> -> Top
      [] Len(stk) = 1 -> stk[1]
      [] Len(stk) > 1 ->
            IF stk[1] = Freed \/ recs[stk[1]].code # "PUSHDIR" THEN stk[1]
            ELSE IF Elsewhere(stk, recs) = {} THEN Top
            ELSE stk[Min(Elsewhere(stk, recs))]

log_current_unique_node(stk, recs) ==
    CASE stk = <<>> -> Top
      [] Len(stk) = 1 -> stk[1]
      [] Len(stk) > 1 ->
            IF stk[1] = Freed \/ recs[stk[1]].code # "PUSHDIR" THEN stk[1]
            ELSE IF Elsewhere(stk, recs) = {} THEN Top
            ELSE stk[Min(Elsewhere(stk, recs)) - 1]

\* log_current_unique_node() looks at a record that has been freed.
LooksAtFreed(stk, recs) ==
    /\ Len(stk) > 1
    /\ \/ stk[1] = Freed
       \/ /\ recs[stk[1]].code = "PUSHDIR"
          /\ Elsewhere(stk, recs) # {}
          /\ stk[Min(Elsewhere(stk, recs))] = Freed

\* What the flags, and an empty summary, keep from being shown.
Shown(r, flags) ==
    /\ r.code = "INFORMATION" => "LF_SHOW_INFO" \in flags
    /\ r.code = "WARNING" => "LF_SHOW_WARNINGS" \in flags
    /\ r.code = "ERROR" => "LF_SHOW_ERRORS" \in flags
    /\ "LF_SUMMARISE" \in flags => r.summary # "empty"

\* log_clear_nodes() is not called.
MutShowRec(view, recs, flags, i) ==
    LET r == recs[i]
        parent == IF r.code = "BUILDSTART" THEN Top
                  ELSE log_current_unique_node(view.stack, recs)
        indents == "LF_INDENT_DIRS" \in flags
    IN [rows |-> Append(view.rows,
                        Row(IF Shown(r, flags) THEN parent ELSE Hidden)),
        stack |-> CASE r.code = "BUILDSTART" -> <<i>> \o view.stack
                    [] r.code = "PUSHDIR" /\ indents -> <<i>> \o view.stack
                    [] r.code = "POPDIR" /\ indents /\ view.stack # <<>> ->
                          Tail(view.stack)
                    [] OTHER -> view.stack,
        astray |-> \/ view.astray
                   \/ LooksAtFreed(view.stack, recs)
                   \/ Shown(r, flags) /\ parent = Freed]

\* log_show_rec() of the record at place i.
log_show_rec(view, recs, flags, i) ==
    LET r == recs[i]
        parent == IF r.code = "BUILDSTART" THEN Top
                  ELSE log_current_unique_node(view.stack, recs)
        indents == "LF_INDENT_DIRS" \in flags
    IN [rows |-> Append(view.rows,
                        Row(IF Shown(r, flags) THEN parent ELSE Hidden)),
        stack |-> CASE r.code = "BUILDSTART" -> <<i>>
                    [] r.code = "PUSHDIR" /\ indents -> <<i>> \o view.stack
                    [] r.code = "POPDIR" /\ indents /\ view.stack # <<>> ->
                          Tail(view.stack)
                    [] OTHER -> view.stack,
        astray |-> \/ view.astray
                   \/ LooksAtFreed(view.stack, recs)
                   \/ Shown(r, flags) /\ parent = Freed]

\* The records of recs from place i on are shown one after the other: views
\* has what is shown after each of them.
ShowFrom(view, recs, flags, i) ==
    LET views[j \in (i - 1)..Len(recs)] ==
            IF j = i - 1 THEN view
            ELSE log_show_rec(views[j - 1], recs, flags, j)
    IN views[Len(recs)]

View(rws) == [rows |-> rws, stack |-> log_node_stack, astray |-> astray]

\* The callback is called before any error or warning is counted.
MutUpdate(view, e, w, changed, final) ==
    LET root == Last(view.stack)
        updates == /\ final \/ (changed /\ e + w > 0)
                   /\ view.stack # <<>>
    IN /\ rows' = IF updates /\ root # Freed
                  THEN [view.rows EXCEPT ![root].says = <<e, w>>]
                  ELSE view.rows
       /\ astray' = (view.astray \/ (updates /\ root = Freed))
       /\ counted' = IF updates /\ changed
                     THEN <<num_errors, num_warnings>> ELSE counted
       /\ num_ew_changed' = (changed /\ ~ updates)

\* log_update_build_start(), once the tree is as in view.
log_update_build_start(view, e, w, changed, final) ==
    LET root == Last(view.stack)
        updates == /\ final \/ (changed /\ e + w > 0)
                   /\ view.stack # <<>>
    IN /\ rows' = IF updates /\ root # Freed
                  THEN [view.rows EXCEPT ![root].says = <<e, w>>]
                  ELSE view.rows
       /\ astray' = (view.astray \/ (updates /\ root = Freed))
       /\ counted' = IF updates /\ changed THEN <<e, w>> ELSE counted
       /\ num_ew_changed' = (changed /\ ~ updates)

-----------------------------------------------------------------------------
(***************************************************************************)
(* Lines.                                                                  *)
(***************************************************************************)
\* log_add_line() of the line, once the filters have been applied.
Applied(line) ==
    filter_apply(line, IF res.pending THEN res ELSE filter_result_init)

\* The lines held back before are forgotten.
MutHoldLine(line) ==
    /\ Applied(line).result.pending
    /\ res' = Applied(line).result
    /\ filter_state' = Applied(line).state
    /\ pending' = <<line>>
    /\ UNCHANGED <<log, treeVars, dirVars, countVars, counted>>

\* The message goes on: its lines are held back.
HoldLine(line) ==
    /\ Applied(line).result.pending
    /\ res' = Applied(line).result
    /\ filter_state' = Applied(line).state
    /\ pending' = Append(pending, line)
    /\ UNCHANGED <<log, treeVars, dirVars, countVars, counted>>

LogRec(line, r, con) ==
    [line |-> line, code |-> r.code, summary |-> r.summary, file |-> r.file,
     depth |-> r.depth, context |-> con]

\* Of the lines of one message, the first has its code and its summary.
Drained(lines, r, con) ==
    [i \in DOMAIN lines |->
        IF i = 1 THEN LogRec(lines[1], r, con)
        ELSE LogRec(lines[i],
                    [r EXCEPT !.code = "INFORMATION", !.summary = "empty"],
                    con)]

\* The message is complete: all its lines go into the log and are shown.
AddLine(line) ==
    LET a == Applied(line).result
        r == CASE a.code = "UNDEFINED" -> [a EXCEPT !.code = "INFORMATION"]
               [] a.code = "PUSHDIR" -> [a EXCEPT !.summary = "text"]
               [] OTHER -> a
        relative == /\ a.code \in {"INFORMATION", "WARNING", "ERROR"}
                    /\ a.file # NoFile
        recs == log \o Drained(Append(pending, line), r,
                               IF relative THEN log_get_context ELSE NoContext)
        e == num_errors + (IF r.code = "ERROR" THEN 1 ELSE 0)
        w == num_warnings + (IF r.code = "WARNING" THEN 1 ELSE 0)
        view == ShowFrom(View(rows), recs, log_flags, Len(log) + 1)
    IN /\ ~ a.pending
       /\ filter_state' = Applied(line).state
       /\ res' = filter_result_init
       /\ pending' = <<>>
       /\ CASE a.code = "PUSHDIR" -> log_push_dir(a.depth, a.file)
            [] a.code = "POPDIR" -> log_pop_dir(a.depth, a.file)
            [] OTHER -> /\ UNCHANGED <<dir_stack, dir_max_depth>>
                        /\ context_dirty' = (context_dirty /\ ~ relative)
       /\ context' = IF relative THEN log_get_context ELSE context
       /\ log' = recs
       /\ num_errors' = e /\ num_warnings' = w
       /\ log_node_stack' = view.stack
       /\ log_update_build_start(view, e, w,
              num_ew_changed \/ r.code \in {"ERROR", "WARNING"}, FALSE)

\* The last start of a build among the lines, or 0.
LastStart(lines) == Max({0} \cup {i \in DOMAIN lines : lines[i] = StartLine})
SinceStart(lines) == SubSeq(lines, LastStart(lines) + 1, Len(lines))

Text(recs) == [i \in DOMAIN recs |-> recs[i].line]

\* How many makes at level d have said that they are in directory f.
Inside(lines, d, f) ==
    LET Times(k) ==
            Cardinality({i \in DOMAIN lines : lines[i] = Line(k, f, d)})
    IN Times("enter") - Times("leave")
MakesAt(d) ==
    {f \in Dirs : Inside(SinceStart(Text(log) \o pending), d, f) > 0}

\* What make and the compilers write, the circumstances apart: a message goes
\* on until it is complete, or another build starts.
Orderly(line) ==
    /\ line.kind = "enter" =>
          line.depth = 1 \/ MakesAt(line.depth - 1) # {}
    /\ line.kind = "leave" /\ "stray leave" \notin Circumstances =>
          /\ line.file \in MakesAt(line.depth)
          /\ \/ line.depth = MaxDepth
             \/ MakesAt(line.depth + 1) = {}
             \/ MakesAt(line.depth) # {line.file}
    /\ pending # <<>> /\ filter_state # NoState
       /\ "mixed output" \notin Circumstances =>
          line.kind = IF Last(pending).kind = "cfe" THEN "indented" ELSE "caret"

\* handle_line(): a line of a command, or of a log file.
Handle(line) ==
    /\ writers # {} \/ "late output" \in Circumstances
    /\ Len(log) + Len(pending) < MaxRecords
    /\ Orderly(line)
    /\ HoldLine(line) \/ AddLine(line)
    /\ UNCHANGED <<writers, log_flags>>

-----------------------------------------------------------------------------
(***************************************************************************)
(* Builds, log files and the user.                                         *)
(***************************************************************************)
\* log_start_build(), after make_start() has cleared the log or not.
log_start_build(cleared) ==
    LET kept == IF cleared THEN <<>> ELSE log
        stk == IF cleared THEN [i \in DOMAIN log_node_stack |-> Freed]
               ELSE log_node_stack
        recs == Append(kept, [LogRec(StartLine, filter_result_init, NoContext)
                                 EXCEPT !.code = "BUILDSTART"])
        view == log_show_rec([rows |-> IF cleared THEN <<>> ELSE rows,
                              stack |-> stk, astray |-> astray],
                             recs, log_flags, Len(recs))
    IN /\ Len(recs) + Len(pending) <= MaxRecords
       /\ log_clear_dirs
       /\ num_errors' = 0 /\ num_warnings' = 0 /\ num_ew_changed' = FALSE
       /\ filter_state' = NoState
       /\ log' = recs
       /\ rows' = view.rows /\ log_node_stack' = view.stack
       /\ astray' = view.astray
       /\ UNCHANGED <<context, res, pending, log_flags>>

\* make_start(), logged_task_start(): the command at the head of the queue.
StartBuild ==
    /\ "build" \notin writers
    /\ writers # {} => "open while building" \in Circumstances
    /\ writers' = writers \cup {"build"}
    /\ \E cleared \in BOOLEAN : log_start_build(cleared)
    /\ UNCHANGED counted

\* file_open_file_func() and log_open() up to where they enter the main loop.
\* One log file is opened at a time.
OpenLog ==
    /\ "file" \notin writers
    /\ writers # {} => "open while building" \in Circumstances
    /\ writers' = writers \cup {"file"}
    /\ log_start_build(FALSE)
    /\ UNCHANGED counted

\* Nothing is left open by what has been written.
Complete ==
    /\ pending # <<>> => "killed between" \in Circumstances
    /\ (\E d \in 1..MaxDepth : MakesAt(d) # {}) =>
          "killed inside" \in Circumstances

\* make_reap(), logged_task_reap(): log_end_build().
EndBuild ==
    /\ "build" \in writers
    /\ Complete
    /\ writers' = writers \ {"build"}
    /\ log_update_build_start(View(rows), num_errors, num_warnings,
                              num_ew_changed, TRUE)
    /\ UNCHANGED <<log, log_node_stack, dirVars, filterVars, num_errors,
                   num_warnings, log_flags>>

\* The queue is empty after a build: work_ended().
WorkEnds ==
    /\ "build" \notin writers
    /\ counted' = <<0, 0>>
    /\ UNCHANGED <<writers, log, treeVars, dirVars, filterVars, countVars,
                   log_flags>>

\* log_open() has read the file; file_open_file_func() zeroes the counts.
CloseLog ==
    /\ "file" \in writers
    /\ Complete
    /\ writers' = writers \ {"file"}
    /\ counted' = <<0, 0>>
    /\ UNCHANGED <<log, treeVars, dirVars, filterVars, countVars, log_flags>>

\* view_clear_cb(): log_clear().
Clear ==
    /\ writers # {} => "clear while building" \in Circumstances
    /\ log' = <<>>
    /\ rows' = <<>>
    /\ log_node_stack' = [i \in DOMAIN log_node_stack |-> Freed]
    /\ UNCHANGED <<writers, astray, dirVars, filterVars, countVars, counted,
                   log_flags>>

\* log_set_flags(): log_repopulate() shows every record anew.
SetFlags(flags) ==
    LET view == ShowFrom(View(<<>>), log, flags, 1) IN
    /\ log_flags' = flags
    /\ rows' = view.rows /\ log_node_stack' = view.stack
    /\ astray' = view.astray
    /\ UNCHANGED <<writers, log, dirVars, filterVars, countVars, counted>>

Next ==
    \/ \E line \in Lines : Handle(line)
    \/ StartBuild \/ EndBuild \/ WorkEnds
    \/ OpenLog \/ CloseLog
    \/ Clear
    \/ \E flags \in FlagSets : SetFlags(flags)

Spec == Init /\ [][Next]_vars

-----------------------------------------------------------------------------
\* No LogRec is used after log_clear() has freed it, although the stack of
\* nodes still points to it.  (log_clear, log_current_unique_node)
NoFreedRecordUsed == ~ astray

\* What make entered between two records and did not leave: the brackets that
\* are open before record i.
OpenDirs(i, start) ==
    LET Of(c, j, k) == Cardinality({m \in j..k : log[m].code = c})
    IN {j \in (start + 1)..(i - 1) :
            /\ log[j].code = "PUSHDIR"
            /\ \A k \in j..(i - 1) : Of("POPDIR", j, k) < Of("PUSHDIR", j, k)}

\* Under which record the row of record i belongs: the start of its build, or
\* the outermost of the makes that are in the directory of the innermost.
Belongs(i) ==
    LET start == LastStart(SubSeq(Text(log), 1, i))
        open == IF "LF_INDENT_DIRS" \in log_flags
                THEN OpenDirs(i, start) ELSE {}
        here == {j \in open : \A k \in open :
                    k >= j => log[k].file = log[Max(open)].file}
    IN CASE log[i].code = "BUILDSTART" -> Top
         [] here # {} -> Min(here)
         [] OTHER -> start

\* The tree that is built a line at a time, and built anew whenever the flags
\* change, is the tree of the builds and directories in the log.
\* (log_show_rec, log_current_unique_node, log_repopulate)
TreeOfDirectories ==
    \A i \in DOMAIN log :
        rows[i].under = IF Shown(log[i], log_flags) THEN Belongs(i) ELSE Hidden

CountIn(recs, c) == Cardinality({i \in DOMAIN recs : recs[i].code = c})
Counts(recs) == <<CountIn(recs, "ERROR"), CountIn(recs, "WARNING")>>

\* The records of the build that starts at record i.
BuildAt(i) ==
    LET later == {j \in (i + 1)..Len(log) : log[j].code = "BUILDSTART"}
    IN SubSeq(log, i, IF later = {} THEN Len(log) ELSE Min(later) - 1)

\* The counts of the running build are those of its errors and warnings; the
\* status bar shows them once there are any; and the row of each build, old
\* or new, tells the counts of that build or none at all.
\* (log_add_rec, log_update_build_start, count_changed)
CountsTold ==
    LET now == <<num_errors, num_warnings>>
        last == LastStart(Text(log))
    IN /\ last # 0 => Counts(BuildAt(last)) = now
       /\ "build" \in writers /\ now # <<0, 0>> => counted = now
       /\ \A i \in DOMAIN log :
             rows[i].says \in {Plain} \cup
                (IF log[i].code = "BUILDSTART" THEN {Counts(BuildAt(i))} ELSE {})

\* A message with a relative file name is looked up in the directories that
\* the makes, of whatever level, were in when it was written, and in no other.
\* (log_push_dir, log_pop_dir, log_clear_dirs, log_get_context)
LookedUpWhereMakeWas ==
    \A i \in DOMAIN log : log[i].context # NoContext =>
        LET said == SinceStart(SubSeq(Text(log), 1, i))
        IN ToSet(log[i].context) =
              {f \in Dirs : \E d \in 1..MaxDepth : Inside(said, d, f) > 0}

\* The log is the transcript of what was written, in order: a line held back
\* until its message is complete is neither lost, repeated nor overtaken.
\* (log_add_line, log_start_build, log_clear)
Transcribed == INSTANCE Transcript WITH text <- Text(log) \o pending
ImplementsTranscript == Transcribed!Spec
=============================================================================
