------------------------------ MODULE Transcript ------------------------------
(***************************************************************************)
(* What the log promises of the lines it is given: it holds every one of   *)
(* them, once, in the order in which they were written, until it is        *)
(* cleared as a whole.                                                     *)
(***************************************************************************)
EXTENDS Sequences

CONSTANTS
    Lines,      \* what may be written
    StartLine   \* what stands for the start of a build

VARIABLE text

Init == text = <<>>

Write == \E line \in Lines : text' = Append(text, line)

Start == text' = Append(text, StartLine)

Clear == text' = <<>>

\* The log is cleared because a build starts.
StartAfresh == text' = <<StartLine>>

Next == Write \/ Start \/ Clear \/ StartAfresh

Spec == Init /\ [][Next]_text
=============================================================================
