----------------------------- MODULE MCMainWindow -----------------------------
(***************************************************************************)
(* Instances of MainWindow for TLC.                                        *)
(***************************************************************************)
EXTENDS MainWindow

\* A directory with several targets, and one with one of them.
SomeTargets == {"all", "install", "clean"}
SomeDirs == {"src", "doc"}
SomeTargetsIn == [d \in SomeDirs |-> IF d = "src" THEN SomeTargets ELSE {"all"}]
=============================================================================
