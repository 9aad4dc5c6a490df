------------------------------- MODULE MCTask -------------------------------
(***************************************************************************)
(* Instances of Task for TLC.                                              *)
(***************************************************************************)
EXTENDS TaskImplements

\* Commands and pids are interchangeable.
Symmetry == Permutations(Commands) \cup Permutations(Pids)
=============================================================================
