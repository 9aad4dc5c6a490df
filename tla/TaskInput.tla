------------------------------ MODULE TaskInput ------------------------------
(***************************************************************************)
(* How the output of a command reaches its Task (task.c): a pipe,          *)
(* task_input_func() called by the main loop and once more when the        *)
(* command is reaped, and task_linemode_input() that cuts the output into  *)
(* lines.  Unlike in Task there is one Task, spawned already, and what     *)
(* happens to its process is only what its output can tell.                *)
(*                                                                         *)
(* The calls of the input operation are kept as one sequence of bytes,     *)
(* `told', each line followed by the newline that task_linemode_input()    *)
(* takes off: so two histories of calls differ when their sequences do.    *)
(***************************************************************************)
EXTENDS Integers, SequencesExt

CONSTANTS
    Bytes,          \* what a command may write
    Newline, Nul,   \* two bytes the code treats apart
    BufSize,        \* sizeof(buf)-1 in task_input_func()
    PipeSize,       \* what the kernel keeps of unread output
    MaxOutput,      \* most bytes written in an instance
    Held            \* task_run(): the Task outlives its reap operation

ASSUME InputAssumption ==
    /\ Newline \in Bytes
    /\ Nul # Newline
    /\ BufSize \in Nat \ {0}
    /\ PipeSize \in Nat \ {0}
    /\ MaxOutput \in Nat
    /\ Held \in BOOLEAN

Writers == {"command", "descendant"}

VARIABLES
    fd,         \* Task.fd is open for reading
    writers,    \* processes that have the other end of the pipe
    pipe,       \* written and not yet read
    linebuf,    \* Task.linebuf
    nremain,    \* what task_input_func() has still to read
    pc,         \* the function that runs: the main loop, or task_input_func()
                \* as called by it or by task_reap_func()
    status,     \* of the command; "reaped" when its reap operation was called
    text,       \* all that was ever written to the pipe
    own,        \* how much of it when the command ended
    told        \* what the input operation was called with

vars == <<fd, writers, pipe, linebuf, nremain, pc, status, text, own, told>>

Init ==
    /\ fd = TRUE
    /\ writers = {"command"}
    /\ pipe = <<>>
    /\ linebuf = <<>>
    /\ nremain = 0
    /\ pc = "main"
    /\ status = "running"
    /\ text = <<>>
    /\ own = 0
    /\ told = <<>>

-----------------------------------------------------------------------------
(***************************************************************************)
(* The processes that write.                                               *)
(***************************************************************************)
\* A full pipe makes its writers wait, a closed one kills them.
Write(w, b) ==
    /\ w \in writers
    /\ fd
    /\ Len(pipe) < PipeSize
    /\ Len(text) < MaxOutput
    /\ pipe' = Append(pipe, b)
    /\ text' = Append(text, b)
    /\ UNCHANGED <<fd, writers, linebuf, nremain, pc, status, own, told>>

\* The command starts a process that inherits its standard output.
Background ==
    /\ status = "running"
    /\ writers' = writers \cup {"descendant"}
    /\ UNCHANGED <<fd, pipe, linebuf, nremain, pc, status, text, own, told>>

CommandEnds ==
    /\ status = "running"
    /\ status' = "ended"
    /\ own' = Len(text)
    /\ writers' = writers \ {"command"}
    /\ UNCHANGED <<fd, pipe, linebuf, nremain, pc, text, told>>

DescendantEnds ==
    /\ "descendant" \in writers
    /\ writers' = writers \ {"descendant"}
    /\ UNCHANGED <<fd, pipe, linebuf, nremain, pc, status, text, own, told>>

-----------------------------------------------------------------------------
(***************************************************************************)
(* task_linemode_input() and task_input_func().                            *)
(***************************************************************************)
\* The length of s up to its last newline, 0 without one.
LinesLength(s) ==
    CHOOSE n \in 0..Len(s) :
        /\ n > 0 => s[n] = Newline
        /\ \A i \in n + 1..Len(s) : s[i] # Newline

\* What the string functions see of the bytes read: they stop at a NUL.
AsString(s) ==
    SubSeq(s, 1, CHOOSE n \in 0..Len(s) :
                    /\ n < Len(s) => s[n + 1] = Nul
                    /\ \A i \in 1..n : s[i] # Nul)

\* The rest of a line that an earlier read ended in is dropped.
MutLinemode(s) ==
    LET n == LinesLength(AsString(s)) IN
    /\ told' = told \o SubSeq(AsString(s), 1, n)
    /\ linebuf' = SubSeq(AsString(s), n + 1, Len(AsString(s)))

\* Only the first of the whole lines is handed on.
MutOneLine(s) ==
    LET line == linebuf \o AsString(s)
        n == CHOOSE n \in 0..Len(line) :
                /\ n > 0 => line[n] = Newline
                /\ n = 0 => ~ Contains(line, Newline)
                /\ \A i \in 1..n - 1 : line[i] # Newline
    IN  /\ told' = told \o SubSeq(line, 1, n)
        /\ linebuf' = SubSeq(line, n + 1, Len(line))

\* task_linemode_input(), given s: the whole lines are handed on.
task_linemode_input(s) ==
    LET line == linebuf \o AsString(s)
        n == LinesLength(line)
    IN  /\ told' = told \o SubSeq(line, 1, n)
        /\ linebuf' = SubSeq(line, n + 1, Len(line))

\* gdk_input_add() is forgotten: the output is seen when the command is reaped.
MutNoInput == FALSE

\* FIONREAD is not asked for.
MutInputReady ==
    /\ pc = "main"
    /\ fd
    /\ pipe # <<>> \/ writers = {}
    /\ nremain' = PipeSize
    /\ pc' = "input"
    /\ UNCHANGED <<fd, writers, pipe, linebuf, status, text, own, told>>

\* The main loop finds the pipe readable: output, or nobody left to write any.
InputReady ==
    /\ pc = "main"
    /\ fd
    /\ pipe # <<>> \/ writers = {}
    /\ nremain' = Len(pipe)
    /\ pc' = "input"
    /\ UNCHANGED <<fd, writers, pipe, linebuf, status, text, own, told>>

\* The bytes asked for are counted, not those read.
MutRead ==
    /\ nremain > 0
    /\ nremain' = nremain - BufSize
    /\ LET n == IF nremain < BufSize THEN nremain ELSE BufSize IN
       /\ pipe' = SubSeq(pipe, n + 1, Len(pipe))
       /\ task_linemode_input(SubSeq(pipe, 1, n))
    /\ UNCHANGED <<fd, writers, pc, status, text, own>>

\* A read() of task_input_func().
Read ==
    /\ nremain > 0
    /\ LET n == IF nremain < BufSize THEN nremain ELSE BufSize IN
       /\ nremain' = nremain - n
       /\ pipe' = SubSeq(pipe, n + 1, Len(pipe))
       /\ task_linemode_input(SubSeq(pipe, 1, n))
    /\ UNCHANGED <<fd, writers, pc, status, text, own>>

EndInput ==
    /\ pc = "input"
    /\ nremain = 0
    /\ pc' = "main"
    /\ UNCHANGED <<fd, writers, pipe, linebuf, nremain, status, text, own, told>>

-----------------------------------------------------------------------------
(***************************************************************************)
(* task_reap_func(): see Task for how it comes to be called.               *)
(***************************************************************************)
\* task_reap_func() up to its call of task_input_func(), to process pending
\* input.
Reap ==
    /\ pc = "main"
    /\ status = "ended"
    /\ nremain' = Len(pipe)
    /\ pc' = "reap"
    /\ UNCHANGED <<fd, writers, pipe, linebuf, status, text, own, told>>

\* The last line is not flushed if it has no newline.
MutEndReap ==
    /\ pc = "reap"
    /\ nremain = 0
    /\ status' = "reaped"
    /\ fd' = Held
    /\ pc' = "main"
    /\ UNCHANGED <<writers, pipe, linebuf, nremain, text, own, told>>

\* The rest of it: the last line, the reap operation, task_unref().
EndReap ==
    /\ pc = "reap"
    /\ nremain = 0
    /\ told' = told \o linebuf
    /\ status' = "reaped"
    /\ fd' = Held
    /\ pc' = "main"
    /\ UNCHANGED <<writers, pipe, linebuf, nremain, text, own>>

\* The pipe is left open.
MutEndRun ==
    /\ pc = "main"
    /\ status = "reaped"
    /\ fd
    /\ UNCHANGED vars

\* task_run_command() gives up the Task it held: task_destroy() closes the pipe.
EndRun ==
    /\ pc = "main"
    /\ status = "reaped"
    /\ fd
    /\ fd' = FALSE
    /\ UNCHANGED <<writers, pipe, linebuf, nremain, pc, status, text, own, told>>

-----------------------------------------------------------------------------
Input == InputReady \/ Read \/ EndInput

Program == Input \/ Reap \/ EndReap \/ EndRun

Processes ==
    \/ \E w \in Writers, b \in Bytes : Write(w, b)
    \/ Background \/ CommandEnds \/ DescendantEnds

Next == Program \/ Processes

Spec == Init /\ [][Next]_vars

\* Sources that are ready in the same iteration of the main loop, at the one
\* priority they all have, are all dispatched.
FairSpec ==
    /\ Spec
    /\ WF_vars(Input) /\ WF_vars(EndReap)
    /\ SF_vars(Reap) /\ SF_vars(EndRun)

-----------------------------------------------------------------------------
\* Every variable keeps to the values its counterpart in the code can hold.
TypeOK ==
    /\ fd \in BOOLEAN
    /\ writers \subseteq Writers
    /\ pipe \in Seq(Bytes)
    /\ linebuf \in Seq(Bytes)
    /\ nremain \in Nat
    /\ pc \in {"main", "input", "reap"}
    /\ status \in {"running", "ended", "reaped"}
    /\ text \in Seq(Bytes)
    /\ own \in Nat
    /\ told \in Seq(Bytes)

\* Until the command is reaped, each byte written is in one place: told to the
\* input operation, in the line buffer, or in the pipe, and in the order it was
\* written in.  (task_input_func, task_linemode_input)
NothingLost == status # "reaped" => text = told \o linebuf \o pipe

\* read() is never asked for more than is there, so it does not block and
\* does not return 0 or an error.  (task_input_func)
ReadsWhatIsThere == nremain <= Len(pipe)

\* No whole line waits in the line buffer for output still to come.
LinesToldAtOnce == \A i \in DOMAIN linebuf : linebuf[i] # Newline

\* "It splits input from the child process's stderr/stderr into lines and
\* feeds individual lines to the task input function" (task.c): all of them,
\* before the reap operation is called, which counts on it.
CommandToldInFull == status = "reaped" => IsPrefix(SubSeq(text, 1, own), told)

\* The command never waits for ever to write to a full pipe, as long as its
\* Task is there to read it.  (task_input_func)
NeverStuck == (Len(pipe) = PipeSize) ~> (Len(pipe) < PipeSize \/ ~ fd)

\* When the command has ended its Task is told and the pipe is closed, also
\* while background processes keep writing.  (task_reap_func)
EndIsTold == (status = "ended") ~> (status = "reaped" /\ ~ fd)

-----------------------------------------------------------------------------
Output == INSTANCE CommandOutput

\* task.c keeps the promises of maketool_task.h about a command's output.
ImplementsOutput == Output!OutputSpec
=============================================================================
