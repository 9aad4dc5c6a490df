------------------------------ MODULE MCMessages ------------------------------
(* An instance of Messages for TLC: two clients that ask for a configure and *)
(* one whose command is unknown.                                            *)
EXTENDS Messages

CONSTANTS asks1, asks2, other

ClientsDef == {asks1, asks2, other}
commandDef == (asks1 :> "configure") @@ (asks2 :> "configure")
              @@ (other :> "unknown")
===============================================================================
