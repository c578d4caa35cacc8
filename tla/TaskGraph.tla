----------------------------- MODULE TaskGraph -----------------------------
(***************************************************************************)
(* Runs of a task graph: a queue of nodes whose predecessors were executed *)
(* or pruned, decisions that prune the branch they do not take, and the    *)
(* State of outputs, which belongs to the Graph and not to the run.        *)
(*                                                                         *)
(* Runs may overlap: several tasks or threads may await run_async.         *)
(***************************************************************************)
EXTENDS Naturals, Sequences, SequencesExt, FiniteSets

CONSTANTS
    Nodes, Decisions,
    Graphs,        \* the graphs considered, as TaskChain builds them
    MaxRuns,
    NoNode

VARIABLES
    graph,         \* never changes
    pc, node, queued, executed, pruned,    \* by run
    queue,         \* by run: when each node was appended that waits
    state,         \* the run whose State object the Graph has
    outputs,       \* by run: its State, in the order of task_outputs
    context,       \* by node: the sources of its Task, which runs share
    task,          \* by node: what became of its Task
    answer,        \* by run: the answers of its decisions so far
    data,          \* by run: the node whose output its last decision was given
    lacking,       \* by run: sources without an output when a task used them
    disturbed      \* runs that overlapped

locals == <<pc, node, queue, queued, executed, pruned>>
shared == <<state, outputs, context, task>>
ghosts == <<answer, data, lacking, disturbed>>
vars == <<graph, locals, shared, ghosts>>
-----------------------------------------------------------------------------
Runs == 1..MaxRuns
NoRun == 0

GraphType ==
    [nodes : Seq(Nodes), edges : SUBSET (Nodes \X Nodes),
     branch : [Decisions -> [BOOLEAN -> SUBSET Nodes]]]

ASSUME NodesAssumption ==
    IsFiniteSet(Nodes) /\ Decisions \subseteq Nodes /\ NoNode \notin Nodes
ASSUME RunsAssumption == MaxRuns \in Nat
ASSUME GraphsAssumption == Graphs \subseteq GraphType

Busy == {"task", "told", "decision"}
Running == Busy \cup {"loop"}
TaskStatus == {"new", "completed", "failed"}

Predecessors(n) == {m \in ToSet(graph.nodes) : <<m, n>> \in graph.edges}
Starting(n) == Predecessors(n) = {}

(* The tasks whose output a decision passes on.                             *)
Sources(n, done) ==
    LET f[k \in 0..Len(graph.nodes)] ==
            IF k = 0 THEN Predecessors(n)
            ELSE LET some == f[k - 1]
                 IN some \cup UNION {Predecessors(d) : d \in some \cap Decisions}
    IN (f[Len(graph.nodes)] \cap done) \ Decisions

Init ==
    /\ graph \in Graphs
    /\ pc = [r \in Runs |-> "idle"] /\ node = [r \in Runs |-> NoNode]
    /\ queue = [r \in Runs |-> [n \in {} |-> 0]]
    /\ queued = [r \in Runs |-> {}] /\ executed = [r \in Runs |-> {}]
    /\ pruned = [r \in Runs |-> {}]
    /\ state = NoRun
    /\ outputs = [r \in Runs |-> <<>>]
    /\ context = [n \in Nodes |-> {}]
    /\ task = [n \in Nodes |-> "new"]
    /\ answer = [r \in Runs |-> [d \in {} |-> TRUE]]
    /\ data = [r \in Runs |-> NoNode] /\ lacking = [r \in Runs |-> {}]
    /\ disturbed = {}
-----------------------------------------------------------------------------
(* Mutant: the State of an earlier run is gone on with.                      *)
StartInOldState(r) ==
    /\ pc[r] = "idle"
    /\ \A s \in Runs : s < r => pc[s] # "idle"
    /\ pc' = [pc EXCEPT ![r] = "loop"]
    /\ queue' = [queue EXCEPT ![r] = [n \in {n \in ToSet(graph.nodes) : Starting(n)} |-> 0]]
    /\ queued' = [queued EXCEPT ![r] = DOMAIN queue'[r]]
    /\ state' = IF state = NoRun THEN r ELSE state
    /\ LET others == {s \in Runs : pc[s] \in Running}
       IN disturbed' = IF others = {} THEN disturbed ELSE disturbed \cup others \cup {r}
    /\ UNCHANGED <<graph, node, executed, pruned, outputs, context, task, answer, data,
                   lacking>>

(* run_async and the beginning of _run_sequential.  Runs are numbered in    *)
(* the order in which they begin.                                          *)
Start(r) ==
    /\ pc[r] = "idle"
    /\ \A s \in Runs : s < r => pc[s] # "idle"
    /\ pc' = [pc EXCEPT ![r] = "loop"]
    /\ queue' = [queue EXCEPT ![r] = [n \in {n \in ToSet(graph.nodes) : Starting(n)} |-> 0]]
    /\ queued' = [queued EXCEPT ![r] = DOMAIN queue'[r]]
    /\ state' = r
    /\ LET others == {s \in Runs : pc[s] \in Running}
       IN disturbed' = IF others = {} THEN disturbed ELSE disturbed \cup others \cup {r}
    /\ UNCHANGED <<graph, node, executed, pruned, outputs, context, task, answer, data,
                   lacking>>

(* State.task_outputs is a dict: an output that is there keeps its place.    *)
Put(entries, entry) ==
    IF \E i \in DOMAIN entries : entries[i].node = entry.node
    THEN [i \in DOMAIN entries |-> IF entries[i].node = entry.node THEN entry ELSE entries[i]]
    ELSE Append(entries, entry)

Outputs(s) == {entry.node : entry \in ToSet(outputs[s])}

Place(n) == CHOOSE k \in DOMAIN graph.nodes : graph.nodes[k] = n

(* What was appended first, and of that the first in the graph.             *)
IsHead(r, n) ==
    /\ n \in DOMAIN queue[r]
    /\ \A m \in DOMAIN queue[r] :
          \/ queue[r][m] > queue[r][n]
          \/ queue[r][m] = queue[r][n] /\ Place(m) >= Place(n)

Pop(r, n) ==
    /\ pc[r] = "loop"
    /\ IsHead(r, n)
    /\ node' = [node EXCEPT ![r] = n]
    /\ queue' = [queue EXCEPT ![r] = [m \in DOMAIN @ \ {n} |-> @[m]]]

(* A Task that completed or failed before is not executed again: its Agent  *)
(* answers with a text that says so.                                        *)
BeginTask(r, n) ==
    /\ Pop(r, n)
    /\ n \notin Decisions
    /\ pc' = [pc EXCEPT ![r] = IF task[n] = "new" THEN "task" ELSE "told"]
    /\ context' = [context EXCEPT ![n] = Sources(n, executed[r])]
    /\ lacking' = [lacking EXCEPT ![r] = @ \cup (Sources(n, executed[r]) \ Outputs(state))]
    /\ UNCHANGED <<graph, queued, executed, pruned, state, outputs, task, answer, data,
                   disturbed>>

(* A decision is given the latest output there is.                          *)
BeginDecision(r, n) ==
    /\ Pop(r, n)
    /\ n \in Decisions
    /\ pc' = [pc EXCEPT ![r] = "decision"]
    /\ data' = [data EXCEPT ![r] = IF outputs[state] = <<>> THEN NoNode
                                   ELSE Last(outputs[state]).node]
    /\ UNCHANGED <<graph, queued, executed, pruned, shared, answer, lacking, disturbed>>

(* Mutant: one predecessor is enough.                                        *)
FreedByOne(r, done, out) ==
    {n \in ToSet(graph.nodes) \ (queued[r] \cup done \cup out) :
        <<node[r], n>> \in graph.edges /\ Predecessors(n) \cap (done \cup out) # {}}

(* Mutant: a pruned predecessor is waited for.                               *)
FreedByExecuted(r, done, out) ==
    {n \in ToSet(graph.nodes) \ (queued[r] \cup done \cup out) :
        <<node[r], n>> \in graph.edges /\ Predecessors(n) \subseteq done}

(* The successors that wait for nothing any more.                           *)
Freed(r, done, out) ==
    {n \in ToSet(graph.nodes) \ (queued[r] \cup done \cup out) :
        <<node[r], n>> \in graph.edges /\ Predecessors(n) \subseteq done \cup out}

Leave(r, out) ==
    /\ executed' = [executed EXCEPT ![r] = @ \cup {node[r]}]
    /\ pruned' = [pruned EXCEPT ![r] = out]
    /\ LET freed == Freed(r, executed[r] \cup {node[r]}, out)
       IN /\ queue' = [queue EXCEPT ![r] =
                           [n \in DOMAIN @ \cup freed |->
                               IF n \in DOMAIN @ THEN @[n] ELSE Cardinality(executed[r]) + 1]]
          /\ queued' = [queued EXCEPT ![r] = @ \cup freed]
    /\ node' = [node EXCEPT ![r] = NoNode]
    /\ pc' = [pc EXCEPT ![r] = "loop"]
    /\ UNCHANGED graph

FinishTask(r) ==
    /\ pc[r] \in {"task", "told"}
    /\ outputs' = [outputs EXCEPT ![state] =
                      Put(@, [node |-> node[r], by |-> r, answered |-> pc[r] = "task"])]
    /\ task' = IF pc[r] = "task" THEN [task EXCEPT ![node[r]] = "completed"] ELSE task
    /\ Leave(r, pruned[r])
    /\ UNCHANGED <<state, context, ghosts>>

Decide(r) ==
    /\ pc[r] = "decision"
    /\ \E yes \in BOOLEAN :
         /\ answer' = [answer EXCEPT ![r] = [d \in DOMAIN @ \cup {node[r]} |->
                                                IF d = node[r] THEN yes ELSE @[d]]]
         /\ Leave(r, pruned[r] \cup graph.branch[node[r]][~yes])
    /\ UNCHANGED <<shared, data, lacking, disturbed>>

(* A task or a decision raises, and so does the run.                        *)
Fail(r) ==
    /\ pc[r] \in {"task", "decision"}
    /\ task' = IF pc[r] = "task" THEN [task EXCEPT ![node[r]] = "failed"] ELSE task
    /\ pc' = [pc EXCEPT ![r] = "failed"]
    /\ UNCHANGED <<graph, node, queue, queued, executed, pruned, state, outputs, context,
                   ghosts>>

Return(r) ==
    /\ pc[r] = "loop"
    /\ DOMAIN queue[r] = {}
    /\ pc' = [pc EXCEPT ![r] = "returned"]
    /\ UNCHANGED <<graph, node, queue, queued, executed, pruned, shared, ghosts>>

Advance(r) ==
    \/ \E n \in Nodes : BeginTask(r, n) \/ BeginDecision(r, n)
    \/ FinishTask(r) \/ Decide(r) \/ Return(r)

Next == \E r \in Runs : Start(r) \/ Advance(r) \/ Fail(r)

Spec == Init /\ [][Next]_vars

(* Agents answer, and the event loop goes on.                               *)
FairSpec == Spec /\ WF_vars(\E r \in Runs : Advance(r))
-----------------------------------------------------------------------------
TypeOK ==
    /\ graph \in GraphType
    /\ pc \in [Runs -> Running \cup {"idle", "failed", "returned"}]
    /\ node \in [Runs -> Nodes \cup {NoNode}]
    /\ DOMAIN queue = Runs
    /\ \A r \in Runs : DOMAIN queue[r] \subseteq Nodes /\ \A n \in DOMAIN queue[r] : queue[r][n] \in Nat
    /\ queued \in [Runs -> SUBSET Nodes] /\ executed \in [Runs -> SUBSET Nodes]
    /\ pruned \in [Runs -> SUBSET Nodes]
    /\ state \in Runs \cup {NoRun}
    /\ outputs \in [Runs -> Seq([node : Nodes, by : Runs, answered : BOOLEAN])]
    /\ context \in [Nodes -> SUBSET Nodes]
    /\ task \in [Nodes -> TaskStatus]
    /\ DOMAIN answer = Runs /\ \A r \in Runs : DOMAIN answer[r] \subseteq Decisions
    /\ data \in [Runs -> Nodes \cup {NoNode}]
    /\ lacking \in [Runs -> SUBSET Nodes] /\ disturbed \subseteq Runs

(* A node is executed once in a run, and not before everything it waits for *)
(* was executed or pruned (graph.py 743-746, 834-840).                      *)
RunsInOrder ==
    \A r \in Runs : pc[r] \in Busy =>
        /\ node[r] \notin executed[r]
        /\ node[r] \notin DOMAIN queue[r]
        /\ Predecessors(node[r]) \subseteq executed[r] \cup pruned[r]

(* From m a run goes on to n, unless m decided otherwise.                   *)
Leads(r, m, n) ==
    /\ <<m, n>> \in graph.edges
    /\ m \in DOMAIN answer[r] => n \notin graph.branch[m][~answer[r][m]]

(* What the answers of a run's decisions lead to.                           *)
Chosen(r) ==
    LET all == ToSet(graph.nodes)
        f[k \in 0..Len(graph.nodes)] ==
            IF k = 0 THEN {n \in all : Starting(n)}
            ELSE LET some == f[k - 1]
                 IN some \cup {n \in all : \E m \in some : Leads(r, m, n)}
    IN f[Len(graph.nodes)]

(* What these answers take out.                                             *)
Excluded(answers) == UNION {graph.branch[d][~answers[d]] : d \in DOMAIN answers}

(* No cycles.                                                               *)
Acyclic ==
    \A some \in SUBSET ToSet(graph.nodes) \ {{}} : \E n \in some : Predecessors(n) \cap some = {}

(* A branch is entered at its decision only.                                *)
BranchesAreClosed ==
    \A d \in Decisions, b \in BOOLEAN : \A n \in ToSet(graph.nodes) \cap graph.branch[d][b] :
        ~Starting(n) /\ Predecessors(n) \subseteq {d} \cup graph.branch[d][b]

(* What waits for a branch waits for nothing else, but for what is executed *)
(* in place of the decision.                                                *)
BranchesAreJoined ==
    \A n \in ToSet(graph.nodes), d \in Decisions, b \in BOOLEAN :
        Predecessors(n) \cap graph.branch[d][b] # {} =>
            \A m \in Predecessors(n) :
                \/ m \in {d} \cup graph.branch[d][TRUE] \cup graph.branch[d][FALSE]
                \/ \E e \in Decisions, c \in BOOLEAN :
                      d \in graph.branch[e][c] /\ m \in graph.branch[e][~c]

(* Answers that take out all a node waits for take it out, too.             *)
BranchesAreWhole ==
    \A some \in SUBSET Decisions : \A answers \in [some -> BOOLEAN] :
        \A n \in ToSet(graph.nodes) :
            (~Starting(n) /\ Predecessors(n) \subseteq Excluded(answers)) => n \in Excluded(answers)

(* A graph in which runs execute exactly what their decisions lead to.  One *)
(* with a branch that is left empty, or whose branches share a node, is not.*)
Orderly == Acyclic /\ BranchesAreClosed /\ BranchesAreJoined /\ BranchesAreWhole

(* A run executes what its decisions lead to, and nothing else.             *)
ChosenIsExecuted == \A r \in Runs : pc[r] = "returned" => executed[r] = Chosen(r)

(* A run ends, and unless something raised it executed what its decisions   *)
(* lead to, and nothing else (graph.py 735-864).                            *)
EveryRunIsWhole ==
    \A r \in Runs :
        pc[r] \in Running ~> (pc[r] = "failed" \/ (pc[r] = "returned" /\ executed[r] = Chosen(r)))

(* A run by itself returns the outputs of its own tasks, and each task was  *)
(* given the outputs of the tasks before it (graph.py 359-379, 780-805).    *)
ReturnsItsOutputs ==
    \A r \in Runs \ disturbed :
        pc[r] = "returned" =>
            /\ Outputs(r) = executed[r] \ Decisions
            /\ \A entry \in ToSet(outputs[r]) : entry.by = r
            /\ lacking[r] = {}

(* Runs that overlap do so, too (run_async: the final state object).        *)
OverlappingRunsReturnTheirs ==
    \A r \in Runs : pc[r] = "returned" => Outputs(r) = executed[r] \ Decisions

(* Every node is executed or pruned when a run returns (287-303).            *)
NothingIsLeftOut ==
    \A r \in Runs : pc[r] = "returned" => ToSet(graph.nodes) \subseteq executed[r] \cup pruned[r]

(* The branch a decision takes is executed (44-46).                         *)
AnswersAreFollowed ==
    \A r \in Runs : pc[r] = "returned" =>
        \A d \in DOMAIN answer[r] :
            LET taken == graph.branch[d][answer[r][d]]
            IN taken = {} \/ taken \cap executed[r] # {}

(* The output of a task is its Agent's answer (471-482).                    *)
OutputsAreAnswers ==
    \A r \in Runs : \A entry \in ToSet(outputs[r]) : entry.answered

(* A decision is given the output of the previous node (95-104).            *)
DecisionSeesPredecessor ==
    \A r \in Runs : (pc[r] = "decision" /\ ~Starting(node[r]) /\ r \notin disturbed) =>
        data[r] \in Sources(node[r], executed[r])
=============================================================================
