----------------------------- MODULE TaskChain -----------------------------
(***************************************************************************)
(* How the operator >> and the methods add() build a task graph: chains of *)
(* tasks and decisions, whose branches are chains too (graph/graph.py).    *)
(*                                                                         *)
(* A node that is a branch by itself is a chain of its own.  The branches  *)
(* of a decision that is such a chain are not made part of it.             *)
(***************************************************************************)
EXTENDS Naturals, SequencesExt

Empty == [nodes |-> <<>>, edges |-> <<>>]
One(node) == [nodes |-> <<node>>, edges |-> <<>>]

Targets(edges) == UNION {edges[node] : node \in DOMAIN edges}

Leaves(chain) == ToSet(chain.nodes) \ DOMAIN chain.edges
Entries(chain) == ToSet(chain.nodes) \ Targets(chain.edges)

(* list.extend with what is not there yet.                                  *)
Extended(nodes, more) == nodes \o SelectSeq(more, LAMBDA n : n \notin ToSet(nodes))

(* dict.update: the edges of a node that both have are replaced.            *)
Updated(edges, more) ==
    [node \in DOMAIN edges \cup DOMAIN more |->
        IF node \in DOMAIN more THEN more[node] ELSE edges[node]]

Linked(edges, sources, targets) ==
    LET from == IF targets = {} THEN {} ELSE sources
    IN [node \in DOMAIN edges \cup from |->
           (IF node \in DOMAIN edges THEN edges[node] ELSE {})
               \cup (IF node \in from THEN targets ELSE {})]

(* The branch of a decision becomes part of the chain.                      *)
WithBranch(chain, node, branch) ==
    [nodes |-> Extended(chain.nodes, branch.nodes),
     edges |-> Linked(Updated(chain.edges, branch.edges), {node},
                      IF branch.nodes = <<>> THEN {} ELSE {Head(branch.nodes)})]

AddDecision(chain, node, yes, no) ==
    LET alone == [chain EXCEPT !.nodes = Extended(@, <<node>>)]
        whole == WithBranch(WithBranch(alone, node, yes), node, no)
    IN [whole EXCEPT !.edges = Linked(@, Leaves(chain), {node})]

AddTask(chain, node) == AddDecision(chain, node, Empty, Empty)

AddChain(chain, more) ==
    [nodes |-> Extended(chain.nodes, more.nodes),
     edges |-> Linked(Updated(chain.edges, more.edges), Leaves(chain), Entries(more))]

(* Every node of a branch and of the branches within it.                    *)
Within(branch, yes, no) ==
    LET decisions == DOMAIN yes
        Further(some, d) ==
            some \cup UNION {ToSet(yes[i].nodes) \cup ToSet(no[i].nodes) : i \in some \cap decisions}
    IN FoldLeft(Further, ToSet(branch.nodes), SetToSeq(decisions))

(* Graph.add: a chain is added without linking it to what is there.         *)
Union(chain, more) ==
    [nodes |-> Extended(chain.nodes, more.nodes),
     edges |-> [node \in DOMAIN chain.edges \cup DOMAIN more.edges |->
                   (IF node \in DOMAIN chain.edges THEN chain.edges[node] ELSE {})
                       \cup (IF node \in DOMAIN more.edges THEN more.edges[node] ELSE {})]]

(* What a run needs of a graph: nodes, edges, and what each answer of a     *)
(* decision takes out.                                                      *)
GraphOf(chain, yes, no) ==
    [nodes |-> chain.nodes,
     edges |-> {<<m, n>> \in ToSet(chain.nodes) \X ToSet(chain.nodes) :
                   m \in DOMAIN chain.edges /\ n \in chain.edges[m]},
     branch |-> [d \in DOMAIN yes |->
                    [answer \in BOOLEAN |-> Within(IF answer THEN yes[d] ELSE no[d], yes, no)]]]
=============================================================================
