-------------------------------- MODULE MCLog --------------------------------
(***************************************************************************)
(* Instances of Log for TLC.                                               *)
(***************************************************************************)
EXTENDS Log

\* Everything, and a summary of what is wrong in a flat list.
LogFlags == {Flags \ {"LF_SUMMARISE"},
             {"LF_SHOW_WARNINGS", "LF_SHOW_ERRORS", "LF_SUMMARISE"}}

Symmetry == Permutations(Dirs)
=============================================================================
