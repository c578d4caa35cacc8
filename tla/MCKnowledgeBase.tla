--------------------------- MODULE MCKnowledgeBase ---------------------------
(***************************************************************************)
(* Instances of KnowledgeBase for TLC: three tasks that ask one base made  *)
(* of two documents, and two bases over one collection.                    *)
(***************************************************************************)
EXTENDS KnowledgeBase, TLC

CONSTANTS a, b, d1, d2, t1, t2, t3

AllAskA == [t \in Tasks |-> a]
OneAsksB == [t \in Tasks |-> IF t = t3 THEN b ELSE a]

OfBoth == [x \in Bases |-> {d1, d2}]
OfOneEach == [x \in Bases |-> IF x = a THEN {d1} ELSE {d2}]

Symmetric == Permutations(Documents) \cup Permutations(Tasks)
=============================================================================
