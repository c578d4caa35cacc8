---------------------------- MODULE MCRalphLoop ----------------------------
(* Instances of RalphLoop for TLC.                                          *)
EXTENDS RalphLoop

CONSTANTS i, j, s, t      \* two items and two specifications

(* The text of i occurs in that of j.                                       *)
Overlaps == {<<i, i>>, <<j, j>>, <<i, j>>}

OpenPlans == {<<[item |-> j, mark |-> "open"], [item |-> i, mark |-> "open"]>>}

(* What an agent may write by "replace".                                    *)
Written == {<<[item |-> i, mark |-> "star"], [item |-> j, mark |-> "other"]>>}
=============================================================================
