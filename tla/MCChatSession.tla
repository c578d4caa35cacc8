--------------------------- MODULE MCChatSession ---------------------------
(***************************************************************************)
(* Instances of ChatSession for TLC.  Only callers, attempts and, because  *)
(* abandoned streams count up for ever, MaxActive bound the state space.   *)
(***************************************************************************)
EXTENDS ChatSession, TLC

Symmetric == Permutations(Callers)
=============================================================================
