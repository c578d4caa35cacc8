----------------------------- MODULE MCAgentRun -----------------------------
(***************************************************************************)
(* Instances of AgentRun for TLC.  The direct pipeline has 18 steps, the   *)
(* ninth of which can pause; what a run can do depends only on which steps *)
(* lie before the model's, which is the model's, and which is the last, so *)
(* a pipeline of 4 steps with the model's second has every case.           *)
(***************************************************************************)
EXTENDS AgentRun, TLC, FiniteSets

Symmetric == Permutations(Runs) \cup Permutations(Objects)
             \cup Permutations(Callers)

\* Where only some runs keep history, runs are not interchangeable.
SymmetricButRuns == Permutations(Objects) \cup Permutations(Callers)
=============================================================================
