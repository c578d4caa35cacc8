----------------------------- MODULE GraphWalk -----------------------------
(***************************************************************************)
(* What the checkpoints of a thread promise: each is a place in the graph  *)
(* that was reached, superstep by superstep, from places that are kept.    *)
(***************************************************************************)
EXTENDS Integers, Sequences, FiniteSets, SequencesExt

CONSTANTS Nodes, START, END

VARIABLES
    graph,    \* where a node may lead
    saver,    \* what is kept in memory may be forgotten
    reached   \* the places: what was merged so far, what is next

Input == <<START, FALSE>>
Nowhere == [state |-> <<>>, next |-> {END}]

(* New input goes with a thread that goes on, and restarts one that ended.  *)
Received(p) == [state |-> Append(p.state, Input),
                next |-> IF END \in p.next THEN graph.entry ELSE p.next]

(* Every next node is executed once, and leads somewhere.                   *)
Superstep(p, q) ==
    /\ p.next \subseteq Nodes
    /\ IsPrefix(p.state, q.state)
    /\ Len(q.state) = Len(p.state) + Cardinality(p.next)
    /\ ToSet(SubSeq(q.state, Len(p.state) + 1, Len(q.state))) = {<<n, FALSE>> : n \in p.next}
    /\ \E lead \in [p.next -> SUBSET (Nodes \cup {END})] :
         /\ \A n \in p.next : \E route \in graph.edges[n] \cup graph.gotos[n] : lead[n] = route.to
         /\ q.next = UNION {lead[n] : n \in p.next}

Init == reached = {}

Reach(q) ==
    /\ \E p \in reached \cup {Received(r) : r \in reached \cup {Nowhere}} :
         p = q \/ Superstep(p, q)
    /\ reached' = reached \cup {q}

Forget == saver = "memory" /\ reached' = {}

Next == (\E q \in reached' : Reach(q)) \/ Forget

Spec == Init /\ [][Next]_reached
=============================================================================
