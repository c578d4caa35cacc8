------------------------------ MODULE RunStore ------------------------------
(***************************************************************************)
(* What the users of Memory take for granted, AgentRun among them: every   *)
(* run has a record of its own, saving one run leaves the records of the   *)
(* others alone, and what a save stores is the run as it is then.          *)
(***************************************************************************)
CONSTANTS Runs, None

VARIABLES
    runs,   \* the runs as the program holds them
    stored  \* the record of each run in storage

Init == stored = [r \in Runs |-> None]

Execute == UNCHANGED stored

Save(r) == /\ stored' = [stored EXCEPT ![r] = runs[r]]
           /\ UNCHANGED runs

Reset == /\ stored' = [r \in Runs |-> None]
         /\ UNCHANGED runs

Next == Execute \/ (\E r \in Runs : Save(r)) \/ Reset

Spec == Init /\ [][Next]_<<runs, stored>>
=============================================================================
