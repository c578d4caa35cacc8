-------------------------- MODULE InvocationSlots --------------------------
(***************************************************************************)
(* What Chat(max_concurrent_invocations = n) promises: an invocation takes *)
(* one of n slots, keeps it while it is in progress, and gives it back     *)
(* when it ends, however it ends.                                          *)
(***************************************************************************)
EXTENDS Naturals, FiniteSets

CONSTANTS Callers, MaxConcurrent

VARIABLE holders  \* the callers whose invocation is in progress

Init == holders = {}

Take(c) == /\ c \notin holders
           /\ Cardinality(holders) < MaxConcurrent
           /\ holders' = holders \cup {c}

GiveBack(c) == /\ c \in holders
               /\ holders' = holders \ {c}

Next == \E c \in Callers : Take(c) \/ GiveBack(c)

Spec == Init /\ [][Next]_holders
=============================================================================
