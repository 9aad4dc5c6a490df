---------------------------- MODULE CommandOutput ----------------------------
(***************************************************************************)
(* What maketool_task.h promises of the output of a command run in line    *)
(* mode: the input operation is called with its lines, in order, while the *)
(* command emits them, and all that the command wrote has been seen when   *)
(* the reap operation is called.                                           *)
(***************************************************************************)
EXTENDS Integers, SequencesExt

CONSTANTS
    Bytes, Newline,
    Held    \* the Task outlives its reap operation

VARIABLES
    text,   \* all that was written
    told,   \* what the input operation was called with, newlines put back
    own,    \* how much of the text was there when the command ended
    status  \* of the command, as its Task sees it

outputVars == <<text, told, own, status>>

WholeLines(s) == s = <<>> \/ Last(s) = Newline

OutputInit ==
    /\ text = <<>>
    /\ told = <<>>
    /\ own = 0
    /\ status = "running"

\* The command, or a process it left behind, writes a byte.
Emit ==
    /\ \E b \in Bytes : text' = Append(text, b)
    /\ UNCHANGED <<told, own, status>>

End ==
    /\ status = "running"
    /\ own' = Len(text)
    /\ status' = "ended"
    /\ UNCHANGED <<text, told>>

\* The input operation is called, with one or more lines.
Tell ==
    /\ status # "reaped"
    /\ IsPrefix(told, told')
    /\ IsPrefix(told', text)
    /\ WholeLines(told')
    /\ UNCHANGED <<text, own, status>>

\* The reap operation is called.
Reap ==
    /\ status = "ended"
    /\ IsPrefix(told, told')
    /\ IsPrefix(told', text)
    /\ Len(told') >= own
    /\ status' = "reaped"
    /\ UNCHANGED <<text, own>>

\* What a Task is told after its reap operation nothing is said of.
Late ==
    /\ Held
    /\ status = "reaped"
    /\ IsPrefix(told, told')
    /\ UNCHANGED <<text, own, status>>

OutputNext == Emit \/ End \/ Tell \/ Reap \/ Late

OutputSpec == OutputInit /\ [][OutputNext]_outputVars
=============================================================================
