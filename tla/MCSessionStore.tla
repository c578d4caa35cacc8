--------------------------- MODULE MCSessionStore ---------------------------
(***************************************************************************)
(* Instances of SessionStore for TLC: two runs, one of which has its       *)
(* memory switched off.                                                    *)
(***************************************************************************)
EXTENDS SessionStore, TLC
=============================================================================
