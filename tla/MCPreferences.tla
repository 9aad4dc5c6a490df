---------------------------- MODULE MCPreferences ----------------------------
(* Directories, of which two fit into the history.                          *)
EXTENDS Preferences

CONSTANTS d1, d2, d3

SomeDirs == {d1, d2, d3}

Symmetry == Permutations(Dirs)
=============================================================================
