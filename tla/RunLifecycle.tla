---------------------------- MODULE RunLifecycle ----------------------------
(***************************************************************************)
(* What a durable run promises, whatever executes it.  Storage knows of    *)
(* every run whether it stopped and can be continued, or is completed.     *)
(* Completion is final.  A caller that is told how a run ended is told     *)
(* what storage holds: a process that starts afterwards finds the same.    *)
(***************************************************************************)
CONSTANTS Runs, Callers, None,
          KeepsHistory    \* runs whose completion storage is told of

VARIABLES
    durable,  \* what storage holds of each run
    told      \* what each caller's last call told it

Stops == {"paused", "cancelled", "error"}

TypeOK ==
    /\ durable \in [Runs -> Stops \cup {"none", "completed"}]
    /\ told \in [Callers -> {None} \cup
                   [run : Runs, status : Stops \cup {"completed"}]]

Init ==
    /\ durable = [r \in Runs |-> "none"]
    /\ told = [c \in Callers |-> None]

(* A run stops and leaves a checkpoint.                                     *)
Checkpoint(r) ==
    /\ durable[r] # "completed"
    /\ \E s \in Stops : durable' = [durable EXCEPT ![r] = s]
    /\ UNCHANGED told

Complete(r) ==
    /\ durable[r] # "completed"
    /\ durable' = [durable EXCEPT ![r] = "completed"]
    /\ UNCHANGED told

(* A run that never stopped and keeps no history completes unrecorded.      *)
ReportUnrecorded(c, r) ==
    /\ durable[r] = "none" /\ r \notin KeepsHistory
    /\ told' = [told EXCEPT ![c] = [run |-> r, status |-> "completed"]]
    /\ UNCHANGED durable

Report(c, r) ==
    /\ durable[r] # "none"
    /\ told' = [told EXCEPT ![c] = [run |-> r, status |-> durable[r]]]
    /\ UNCHANGED durable

(* Callers make other calls, or their process ends.                         *)
Forget ==
    /\ \E gone \in SUBSET Callers :
         told' = [c \in Callers |-> IF c \in gone THEN None ELSE told[c]]
    /\ UNCHANGED durable

Next == \/ \E r \in Runs : Checkpoint(r) \/ Complete(r)
        \/ \E c \in Callers, r \in Runs : Report(c, r) \/ ReportUnrecorded(c, r)
        \/ Forget

Spec == Init /\ [][Next]_<<durable, told>>
=============================================================================
