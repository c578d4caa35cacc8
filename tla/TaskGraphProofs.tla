------------------------- MODULE TaskGraphProofs -------------------------
(***************************************************************************)
(* TaskGraph is type correct, and its runs execute a node once and not     *)
(* before what it waits for, for every graph, acyclic or not, any number   *)
(* of runs and any way in which they overlap; a run that overlaps none     *)
(* returns the outputs of its own tasks; and a run executes only what its  *)
(* decisions lead to, and in an orderly graph all of that.                 *)
(***************************************************************************)
EXTENDS TaskGraph, FiniteSetTheorems, SequenceTheorems, WellFoundedInduction, TLAPS

(* A run of which nothing was done yet.                                     *)
IdleIsEmpty ==
    \A r \in Runs : pc[r] = "idle" =>
        DOMAIN queue[r] = {} /\ queued[r] = {} /\ executed[r] = {} /\ pruned[r] = {}

(* A run that is going on found the Graph with a State.                     *)
RunningHasState == \A r \in Runs : pc[r] \in Running => state \in Runs

BusyWithNode ==
    \A r \in Runs :
        /\ pc[r] \in Busy => node[r] \in queued[r] \ (executed[r] \cup DOMAIN queue[r])
        /\ pc[r] = "decision" => node[r] \in Decisions

(* What waits was queued and is not executed yet, and waits for the queue   *)
(* alone.                                                                   *)
RunWaits(r) ==
    /\ DOMAIN queue[r] \subseteq queued[r] \ executed[r]
    /\ executed[r] \subseteq queued[r]
    /\ \A n \in DOMAIN queue[r] : Predecessors(n) \subseteq executed[r] \cup pruned[r]
    /\ pc[r] \in Busy => Predecessors(node[r]) \subseteq executed[r] \cup pruned[r]
WaitsForQueue == \A r \in Runs : RunWaits(r)

Inv == TypeOK /\ IdleIsEmpty /\ RunningHasState /\ BusyWithNode /\ WaitsForQueue

LEMMA OrderFromInv == Inv => RunsInOrder
  BY DEF Inv, BusyWithNode, WaitsForQueue, RunWaits, RunsInOrder

LEMMA InitInv == Init => Inv
<1> SUFFICES ASSUME Init PROVE Inv
  OBVIOUS
<1>1. TypeOK
  <2>1. graph \in GraphType
    BY GraphsAssumption DEF Init
  <2>2. DOMAIN answer = Runs /\ \A r \in Runs : DOMAIN answer[r] \subseteq Decisions
    BY DEF Init
  <2>3. outputs \in [Runs -> Seq([node : Nodes, by : Runs, answered : BOOLEAN])]
    BY DEF Init
  <2>4. /\ DOMAIN queue = Runs
        /\ \A r \in Runs : DOMAIN queue[r] \subseteq Nodes /\ \A n \in DOMAIN queue[r] : queue[r][n] \in Nat
    BY DEF Init
  <2> QED
    BY <2>1, <2>2, <2>3, <2>4 DEF Init, TypeOK, NoRun, TaskStatus
<1>2. IdleIsEmpty
  BY DEF Init, IdleIsEmpty
<1>3. RunningHasState /\ BusyWithNode
  BY DEF Init, RunningHasState, BusyWithNode, Running, Busy
<1>4. WaitsForQueue
  BY DEF Init, WaitsForQueue, RunWaits, Busy
<1> QED
  BY <1>1, <1>2, <1>3, <1>4 DEF Inv

(* The round of a waiting node is a number.                                 *)
LEMMA RoundIsNat == ASSUME NEW S \in SUBSET Nodes PROVE Cardinality(S) + 1 \in Nat
<1>1. IsFiniteSet(S)
  BY NodesAssumption, FS_Subset
<1> QED
  BY <1>1, FS_CardinalityType

LEMMA NodesAreNodes == ASSUME graph \in GraphType PROVE ToSet(graph.nodes) \subseteq Nodes
  BY DEF GraphType, ToSet

LEMMA SourcesAreExecuted == ASSUME NEW n, NEW done PROVE Sources(n, done) \subseteq done
  BY DEF Sources

LEMMA PutType ==
  ASSUME NEW E, NEW entries \in Seq(E), NEW entry \in E
  PROVE Put(entries, entry) \in Seq(E)
  BY DEF Put

LEMMA LastType ==
  ASSUME NEW E, NEW entries \in Seq(E), entries # <<>>
  PROVE Last(entries) \in E
<1>1. Len(entries) \in Nat /\ Len(entries) # 0
  BY EmptySeq, LenProperties
<1>2. entries[Len(entries)] \in E
  BY <1>1
<1> QED
  BY <1>2 DEF Last

(* What a run does to the other conjuncts of TypeOK is left alone when it   *)
(* only takes a node from the queue, or only leaves one.                    *)
LEMMA PopInv ==
  ASSUME Inv, NEW r \in Runs, NEW n \in Nodes, Pop(r, n),
         pc' = [pc EXCEPT ![r] = pc'[r]], pc'[r] \in Busy,
         pc'[r] = "decision" => n \in Decisions,
         UNCHANGED <<graph, queued, executed, pruned, state>>
  PROVE  /\ node' \in [Runs -> Nodes \cup {NoNode}]
         /\ pc' \in [Runs -> Running \cup {"idle", "failed", "returned"}]
         /\ DOMAIN queue' = Runs
         /\ \A s \in Runs : DOMAIN queue'[s] \subseteq Nodes
                            /\ \A m \in DOMAIN queue'[s] : queue'[s][m] \in Nat
         /\ IdleIsEmpty' /\ RunningHasState' /\ BusyWithNode' /\ WaitsForQueue'
<1>1. /\ pc[r] = "loop" /\ n \in DOMAIN queue[r]
      /\ node' = [node EXCEPT ![r] = n]
      /\ queue' = [queue EXCEPT ![r] = [m \in DOMAIN queue[r] \ {n} |-> queue[r][m]]]
  BY DEF Pop, IsHead, Inv, TypeOK
<1>2. /\ queue'[r] = [m \in DOMAIN queue[r] \ {n} |-> queue[r][m]]
      /\ node'[r] = n
      /\ \A s \in Runs \ {r} : queue'[s] = queue[s] /\ node'[s] = node[s] /\ pc'[s] = pc[s]
      /\ DOMAIN queue' = Runs
  BY <1>1 DEF Inv, TypeOK
<1>3. \A m : Predecessors(m)' = Predecessors(m)
  BY DEF Predecessors
<1>4. IdleIsEmpty'
  BY <1>1, <1>2 DEF Inv, IdleIsEmpty, Busy
<1>5. RunningHasState'
  BY <1>1, <1>2 DEF Inv, RunningHasState, Running
<1>6. BusyWithNode'
  BY <1>1, <1>2 DEF Inv, BusyWithNode, WaitsForQueue, RunWaits
<1>7. WaitsForQueue'
  BY <1>1, <1>2, <1>3 DEF Inv, WaitsForQueue, RunWaits
<1>8. pc' \in [Runs -> Running \cup {"idle", "failed", "returned"}]
  BY DEF Inv, TypeOK, Running
<1>9. \A s \in Runs : DOMAIN queue'[s] \subseteq Nodes
                      /\ \A m \in DOMAIN queue'[s] : queue'[s][m] \in Nat
  <2>1. ASSUME NEW s \in Runs, s # r
        PROVE DOMAIN queue'[s] \subseteq Nodes /\ \A m \in DOMAIN queue'[s] : queue'[s][m] \in Nat
    BY <1>2, <2>1 DEF Inv, TypeOK
  <2>2. DOMAIN queue'[r] \subseteq Nodes /\ \A m \in DOMAIN queue'[r] : queue'[r][m] \in Nat
    BY <1>2 DEF Inv, TypeOK
  <2> QED
    BY <2>1, <2>2
<1>10. node' \in [Runs -> Nodes \cup {NoNode}]
  BY <1>1 DEF Inv, TypeOK
<1> QED
  BY <1>2, <1>4, <1>5, <1>6, <1>7, <1>8, <1>9, <1>10

LEMMA LeaveInv ==
  ASSUME Inv, NEW r \in Runs, pc[r] \in Busy, NEW out \in SUBSET Nodes, pruned[r] \subseteq out,
         Leave(r, out), UNCHANGED state
  PROVE  /\ node' \in [Runs -> Nodes \cup {NoNode}]
         /\ pc' \in [Runs -> Running \cup {"idle", "failed", "returned"}]
         /\ DOMAIN queue' = Runs
         /\ \A s \in Runs : DOMAIN queue'[s] \subseteq Nodes
                            /\ \A m \in DOMAIN queue'[s] : queue'[s][m] \in Nat
         /\ queued' \in [Runs -> SUBSET Nodes] /\ executed' \in [Runs -> SUBSET Nodes]
         /\ pruned' \in [Runs -> SUBSET Nodes]
         /\ IdleIsEmpty' /\ RunningHasState' /\ BusyWithNode' /\ WaitsForQueue'
<1> DEFINE done == executed[r] \cup {node[r]}
           freed == Freed(r, done, out)
<1>1. /\ executed'[r] = done /\ pruned'[r] = out /\ node'[r] = NoNode /\ pc'[r] = "loop"
      /\ queued'[r] = queued[r] \cup freed
      /\ queue'[r] = [n \in DOMAIN queue[r] \cup freed |->
                         IF n \in DOMAIN queue[r] THEN queue[r][n]
                         ELSE Cardinality(executed[r]) + 1]
      /\ DOMAIN queue' = Runs
      /\ graph' = graph
  BY DEF Leave, Inv, TypeOK
<1>2. \A s \in Runs \ {r} :
        /\ executed'[s] = executed[s] /\ pruned'[s] = pruned[s] /\ node'[s] = node[s]
        /\ pc'[s] = pc[s] /\ queued'[s] = queued[s] /\ queue'[s] = queue[s]
  BY DEF Leave, Inv, TypeOK
<1>3. node[r] \in queued[r] \ (executed[r] \cup DOMAIN queue[r]) /\ queued[r] \subseteq Nodes
  BY DEF Inv, BusyWithNode, TypeOK
<1>4. /\ freed \subseteq Nodes
      /\ freed \cap (queued[r] \cup done) = {}
      /\ \A n \in freed : Predecessors(n) \subseteq done \cup out
  BY NodesAreNodes DEF Freed, Inv, TypeOK
<1>5. \A m : Predecessors(m)' = Predecessors(m)
  BY <1>1 DEF Predecessors
<1>6. /\ node' \in [Runs -> Nodes \cup {NoNode}]
      /\ pc' \in [Runs -> Running \cup {"idle", "failed", "returned"}]
      /\ pruned' \in [Runs -> SUBSET Nodes]
  BY DEF Leave, Inv, TypeOK, Running
<1>7. executed' \in [Runs -> SUBSET Nodes]
  BY <1>3 DEF Leave, Inv, TypeOK
<1>8. queued' \in [Runs -> SUBSET Nodes]
  BY <1>4 DEF Leave, Inv, TypeOK
<1>9. \A s \in Runs : DOMAIN queue'[s] \subseteq Nodes
                      /\ \A m \in DOMAIN queue'[s] : queue'[s][m] \in Nat
  <2>1. executed[r] \in SUBSET Nodes
    BY DEF Inv, TypeOK
  <2>2. Cardinality(executed[r]) + 1 \in Nat
    BY <2>1, RoundIsNat
  <2>3. ASSUME NEW s \in Runs, s # r
        PROVE DOMAIN queue'[s] \subseteq Nodes /\ \A m \in DOMAIN queue'[s] : queue'[s][m] \in Nat
    BY <1>2, <2>3 DEF Inv, TypeOK
  <2>4. DOMAIN queue'[r] \subseteq Nodes /\ \A m \in DOMAIN queue'[r] : queue'[r][m] \in Nat
    BY <1>1, <1>4, <2>2 DEF Inv, TypeOK
  <2> QED
    BY <2>3, <2>4
<1>10. IdleIsEmpty'
  BY <1>1, <1>2 DEF Inv, IdleIsEmpty
<1>11. RunningHasState'
  BY <1>1, <1>2 DEF Inv, RunningHasState, Running
<1>12. BusyWithNode'
  BY <1>1, <1>2 DEF Inv, BusyWithNode, Busy
<1>13. WaitsForQueue'
  <2>1. ASSUME NEW s \in Runs, s # r PROVE RunWaits(s)'
    BY <1>2, <1>5, <2>1 DEF Inv, WaitsForQueue, RunWaits
  <2>2. RunWaits(r)'
    <3>1. RunWaits(r)
      BY DEF Inv, WaitsForQueue
    <3>2. /\ DOMAIN queue'[r] \subseteq queued'[r] \ executed'[r]
          /\ executed'[r] \subseteq queued'[r]
      BY <1>1, <1>3, <1>4, <3>1 DEF RunWaits
    <3>3. \A n \in DOMAIN queue'[r] : Predecessors(n)' \subseteq executed'[r] \cup pruned'[r]
      BY <1>1, <1>4, <1>5, <3>1 DEF RunWaits
    <3>4. pc'[r] \notin Busy
      BY <1>1 DEF Busy
    <3> QED
      BY <3>2, <3>3, <3>4 DEF RunWaits
  <2> QED
    BY <2>1, <2>2 DEF WaitsForQueue
<1> QED
  BY <1>1, <1>6, <1>7, <1>8, <1>9, <1>10, <1>11, <1>12, <1>13

LEMMA StartInv == ASSUME Inv, NEW r \in Runs, Start(r) PROVE Inv'
<1> DEFINE first == {n \in ToSet(graph.nodes) : Starting(n)}
<1>1. /\ queue'[r] = [n \in first |-> 0] /\ queued'[r] = first /\ pc'[r] = "loop" /\ pc[r] = "idle"
      /\ \A s \in Runs \ {r} : queue'[s] = queue[s] /\ queued'[s] = queued[s] /\ pc'[s] = pc[s]
      /\ DOMAIN queue' = Runs
      /\ UNCHANGED <<graph, node, executed, pruned>> /\ state' = r
  BY DEF Start, Inv, TypeOK
<1>2. first \subseteq Nodes
  BY NodesAreNodes DEF Inv, TypeOK
<1>3. \A n : Predecessors(n)' = Predecessors(n)
  BY <1>1 DEF Predecessors
<1>4. TypeOK'
  <2>1. disturbed' \subseteq Runs
    BY DEF Start, Inv, TypeOK
  <2>2. queued' \in [Runs -> SUBSET Nodes]
    BY <1>1, <1>2 DEF Start, Inv, TypeOK
  <2>3. \A s \in Runs : DOMAIN queue'[s] \subseteq Nodes
                        /\ \A m \in DOMAIN queue'[s] : queue'[s][m] \in Nat
    <3>1. ASSUME NEW s \in Runs, s # r
          PROVE DOMAIN queue'[s] \subseteq Nodes /\ \A m \in DOMAIN queue'[s] : queue'[s][m] \in Nat
      BY <1>1, <3>1 DEF Inv, TypeOK
    <3>2. DOMAIN queue'[r] \subseteq Nodes /\ \A m \in DOMAIN queue'[r] : queue'[r][m] \in Nat
      BY <1>1, <1>2
    <3> QED
      BY <3>1, <3>2
  <2>4. pc' \in [Runs -> Running \cup {"idle", "failed", "returned"}]
    BY DEF Start, Inv, TypeOK, Running
  <2> QED
    BY <1>1, <2>1, <2>2, <2>3, <2>4 DEF Start, Inv, TypeOK
<1>5. IdleIsEmpty'
  BY <1>1 DEF Inv, IdleIsEmpty
<1>6. RunningHasState'
  BY <1>1 DEF RunningHasState
<1>7. BusyWithNode'
  BY <1>1 DEF Inv, BusyWithNode, Busy
<1>8. WaitsForQueue'
  BY <1>1, <1>3 DEF Inv, WaitsForQueue, RunWaits, IdleIsEmpty, Starting, Busy
<1> QED
  BY <1>4, <1>5, <1>6, <1>7, <1>8 DEF Inv

LEMMA BeginTaskInv ==
  ASSUME Inv, NEW r \in Runs, NEW n \in Nodes, BeginTask(r, n) PROVE Inv'
<1>1. pc' = [pc EXCEPT ![r] = pc'[r]] /\ pc'[r] \in Busy /\ pc'[r] # "decision"
  BY DEF BeginTask, Inv, TypeOK, Busy
<1>2. /\ node' \in [Runs -> Nodes \cup {NoNode}]
      /\ pc' \in [Runs -> Running \cup {"idle", "failed", "returned"}]
      /\ DOMAIN queue' = Runs
      /\ \A s \in Runs : DOMAIN queue'[s] \subseteq Nodes
                         /\ \A m \in DOMAIN queue'[s] : queue'[s][m] \in Nat
      /\ IdleIsEmpty' /\ RunningHasState' /\ BusyWithNode' /\ WaitsForQueue'
  BY <1>1, PopInv DEF BeginTask
<1>3. Sources(n, executed[r]) \subseteq Nodes
  BY SourcesAreExecuted DEF Inv, TypeOK
<1>4. context' \in [Nodes -> SUBSET Nodes] /\ lacking' \in [Runs -> SUBSET Nodes]
  BY <1>3 DEF BeginTask, Inv, TypeOK
<1> QED
  BY <1>2, <1>4 DEF BeginTask, Inv, TypeOK

LEMMA BeginDecisionInv ==
  ASSUME Inv, NEW r \in Runs, NEW n \in Nodes, BeginDecision(r, n) PROVE Inv'
<1>1. pc' = [pc EXCEPT ![r] = pc'[r]] /\ pc'[r] \in Busy /\ n \in Decisions
  BY DEF BeginDecision, Inv, TypeOK, Busy
<1>2. UNCHANGED <<graph, queued, executed, pruned, state>>
  BY DEF BeginDecision, shared
<1>3. /\ node' \in [Runs -> Nodes \cup {NoNode}]
      /\ pc' \in [Runs -> Running \cup {"idle", "failed", "returned"}]
      /\ DOMAIN queue' = Runs
      /\ \A s \in Runs : DOMAIN queue'[s] \subseteq Nodes
                         /\ \A m \in DOMAIN queue'[s] : queue'[s][m] \in Nat
      /\ IdleIsEmpty' /\ RunningHasState' /\ BusyWithNode' /\ WaitsForQueue'
  BY <1>1, <1>2, PopInv DEF BeginDecision
<1>4. data' \in [Runs -> Nodes \cup {NoNode}]
  <2>1. pc[r] = "loop"
    BY DEF BeginDecision, Pop
  <2>2. outputs[state] \in Seq([node : Nodes, by : Runs, answered : BOOLEAN])
    BY <2>1 DEF Inv, RunningHasState, Running, TypeOK
  <2>3. ASSUME outputs[state] # <<>> PROVE Last(outputs[state]).node \in Nodes
    <3>1. Last(outputs[state]) \in [node : Nodes, by : Runs, answered : BOOLEAN]
      BY <2>2, <2>3, LastType
    <3> QED
      BY <3>1
  <2> QED
    BY <2>3 DEF BeginDecision, Inv, TypeOK
<1> QED
  BY <1>3, <1>4 DEF BeginDecision, shared, Inv, TypeOK

LEMMA FinishTaskInv == ASSUME Inv, NEW r \in Runs, FinishTask(r) PROVE Inv'
<1>1. pc[r] \in Busy /\ pruned[r] \in SUBSET Nodes /\ UNCHANGED state /\ Leave(r, pruned[r])
  BY DEF FinishTask, Busy, Inv, TypeOK
<1>2. /\ node' \in [Runs -> Nodes \cup {NoNode}]
      /\ pc' \in [Runs -> Running \cup {"idle", "failed", "returned"}]
      /\ DOMAIN queue' = Runs
      /\ \A s \in Runs : DOMAIN queue'[s] \subseteq Nodes
                         /\ \A m \in DOMAIN queue'[s] : queue'[s][m] \in Nat
      /\ queued' \in [Runs -> SUBSET Nodes] /\ executed' \in [Runs -> SUBSET Nodes]
      /\ pruned' \in [Runs -> SUBSET Nodes]
      /\ IdleIsEmpty' /\ RunningHasState' /\ BusyWithNode' /\ WaitsForQueue'
  BY <1>1, LeaveInv
<1>3. node[r] \in Nodes
  BY <1>1 DEF Inv, BusyWithNode, TypeOK
<1> DEFINE entry == [node |-> node[r], by |-> r, answered |-> pc[r] = "task"]
           Entry == [node : Nodes, by : Runs, answered : BOOLEAN]
<1>4. entry \in Entry
  BY <1>3
<1>5. state \in Runs /\ outputs[state] \in Seq(Entry)
  BY <1>1 DEF Inv, RunningHasState, Running, TypeOK
<1>6. Put(outputs[state], entry) \in Seq(Entry)
  BY <1>4, <1>5, PutType
<1>7. outputs' \in [Runs -> Seq(Entry)]
  BY <1>5, <1>6 DEF FinishTask, Inv, TypeOK
<1>8. task' \in [Nodes -> TaskStatus]
  BY DEF FinishTask, Inv, TypeOK, TaskStatus
<1> QED
  BY <1>1, <1>2, <1>7, <1>8 DEF FinishTask, Leave, ghosts, Inv, TypeOK

LEMMA DecideInv == ASSUME Inv, NEW r \in Runs, Decide(r) PROVE Inv'
<1>1. PICK yes \in BOOLEAN :
         /\ answer' = [answer EXCEPT ![r] = [d \in DOMAIN answer[r] \cup {node[r]} |->
                                                IF d = node[r] THEN yes ELSE answer[r][d]]]
         /\ Leave(r, pruned[r] \cup graph.branch[node[r]][~yes])
  BY DEF Decide
<1> DEFINE out == pruned[r] \cup graph.branch[node[r]][~yes]
<1>2. node[r] \in Decisions /\ pc[r] \in Busy /\ UNCHANGED state
  BY DEF Decide, Inv, BusyWithNode, Busy, shared
<1>3. out \in SUBSET Nodes
  <2>1. graph.branch \in [Decisions -> [BOOLEAN -> SUBSET Nodes]]
    BY DEF Inv, TypeOK, GraphType
  <2>2. graph.branch[node[r]] \in [BOOLEAN -> SUBSET Nodes]
    BY <1>2, <2>1
  <2>3. (~yes) \in BOOLEAN
    OBVIOUS
  <2>4. graph.branch[node[r]][~yes] \in SUBSET Nodes
    BY <2>2, <2>3, Zenon
  <2> QED
    BY <2>4 DEF Inv, TypeOK
<1>4. /\ node' \in [Runs -> Nodes \cup {NoNode}]
      /\ pc' \in [Runs -> Running \cup {"idle", "failed", "returned"}]
      /\ DOMAIN queue' = Runs
      /\ \A s \in Runs : DOMAIN queue'[s] \subseteq Nodes
                         /\ \A m \in DOMAIN queue'[s] : queue'[s][m] \in Nat
      /\ queued' \in [Runs -> SUBSET Nodes] /\ executed' \in [Runs -> SUBSET Nodes]
      /\ pruned' \in [Runs -> SUBSET Nodes]
      /\ IdleIsEmpty' /\ RunningHasState' /\ BusyWithNode' /\ WaitsForQueue'
  <2> HIDE DEF out
  <2>1. pruned[r] \subseteq out
    BY DEF out
  <2>2. Leave(r, out)
    BY <1>1 DEF out
  <2> QED
    BY <1>2, <1>3, <2>1, <2>2, LeaveInv
<1>5. DOMAIN answer' = Runs /\ \A s \in Runs : DOMAIN answer'[s] \subseteq Decisions
  <2>1. ASSUME NEW s \in Runs PROVE DOMAIN answer'[s] \subseteq Decisions
    <3>1. CASE s = r
      BY <1>1, <1>2, <3>1 DEF Inv, TypeOK
    <3>2. CASE s # r
      BY <1>1, <3>2 DEF Inv, TypeOK
    <3> QED
      BY <3>1, <3>2
  <2> QED
    BY <1>1, <2>1 DEF Inv, TypeOK
<1> QED
  BY <1>1, <1>4, <1>5 DEF Decide, Leave, shared, Inv, TypeOK

LEMMA FailInv == ASSUME Inv, NEW r \in Runs, Fail(r) PROVE Inv'
<1>1. /\ pc[r] \in Running /\ pc'[r] = "failed"
      /\ \A s \in Runs \ {r} : pc'[s] = pc[s]
      /\ pc' \in [Runs -> Running \cup {"idle", "failed", "returned"}]
      /\ UNCHANGED <<graph, node, queue, queued, executed, pruned, state>>
  BY DEF Fail, Inv, TypeOK, Running, Busy
<1>2. task' \in [Nodes -> TaskStatus]
  BY DEF Fail, Inv, TypeOK, TaskStatus
<1>3. TypeOK'
  BY <1>1, <1>2 DEF Fail, ghosts, Inv, TypeOK
<1>4. \A n : Predecessors(n)' = Predecessors(n)
  BY <1>1 DEF Predecessors
<1>5. IdleIsEmpty' /\ RunningHasState' /\ BusyWithNode'
  BY <1>1 DEF Inv, IdleIsEmpty, RunningHasState, BusyWithNode, Running, Busy
<1>6. WaitsForQueue'
  BY <1>1, <1>4 DEF Inv, WaitsForQueue, RunWaits, Busy
<1> QED
  BY <1>3, <1>5, <1>6 DEF Inv

LEMMA ReturnInv == ASSUME Inv, NEW r \in Runs, Return(r) PROVE Inv'
<1>1. /\ pc[r] \in Running /\ pc'[r] = "returned"
      /\ \A s \in Runs \ {r} : pc'[s] = pc[s]
      /\ pc' \in [Runs -> Running \cup {"idle", "failed", "returned"}]
      /\ UNCHANGED <<graph, node, queue, queued, executed, pruned, state>>
  BY DEF Return, shared, Inv, TypeOK, Running
<1>2. TypeOK'
  BY <1>1 DEF Return, shared, ghosts, Inv, TypeOK
<1>3. \A n : Predecessors(n)' = Predecessors(n)
  BY <1>1 DEF Predecessors
<1>4. IdleIsEmpty' /\ RunningHasState' /\ BusyWithNode'
  BY <1>1 DEF Inv, IdleIsEmpty, RunningHasState, BusyWithNode, Running, Busy
<1>5. WaitsForQueue'
  BY <1>1, <1>3 DEF Inv, WaitsForQueue, RunWaits, Busy
<1> QED
  BY <1>2, <1>4, <1>5 DEF Inv

LEMMA StutterInv == ASSUME Inv, UNCHANGED vars PROVE Inv'
<1>1. \A n : Predecessors(n)' = Predecessors(n)
  BY DEF vars, Predecessors
<1>2. TypeOK' /\ IdleIsEmpty' /\ RunningHasState' /\ BusyWithNode'
  BY DEF vars, locals, shared, ghosts, Inv, TypeOK, IdleIsEmpty, RunningHasState, BusyWithNode
<1>3. WaitsForQueue'
  BY <1>1 DEF vars, locals, Inv, WaitsForQueue, RunWaits
<1> QED
  BY <1>2, <1>3 DEF Inv

LEMMA NextInv == Inv /\ [Next]_vars => Inv'
<1> SUFFICES ASSUME Inv, [Next]_vars PROVE Inv'
  OBVIOUS
<1>1. CASE Next
  <2>1. PICK r \in Runs : Start(r) \/ Advance(r) \/ Fail(r)
    BY <1>1 DEF Next
  <2>2. CASE Advance(r)
    BY <2>2, BeginTaskInv, BeginDecisionInv, FinishTaskInv, DecideInv, ReturnInv DEF Advance
  <2> QED
    BY <2>1, <2>2, StartInv, FailInv
<1>2. CASE UNCHANGED vars
  BY <1>2, StutterInv
<1> QED
  BY <1>1, <1>2

(* The types of TaskGraph.                                                  *)
THEOREM TypeCorrect == Spec => []TypeOK
<1>1. Inv => TypeOK
  BY DEF Inv
<1> QED
  BY InitInv, NextInv, <1>1, PTL DEF Spec

(* No run executes a node twice, or before what it waits for is executed or *)
(* pruned (graph.py 743-746, 834-840).                                      *)
THEOREM Order == Spec => []RunsInOrder
  BY InitInv, NextInv, OrderFromInv, PTL DEF Spec
-----------------------------------------------------------------------------
(* A run that does not overlap another one.  Runs are numbered as they      *)
(* begin, and state is the number of the latest; a run that was not         *)
(* disturbed began when no other was going on and, while it goes on, is the *)
(* latest.                                                                  *)
Numbered ==
    \A r \in Runs : pc[r] # "idle" <=> r <= state

ByItself(r) ==
    /\ \A s \in Runs : (s < r /\ pc[r] # "idle") => pc[s] \notin Running
    /\ pc[r] \in Running => state = r

(* Its State has the outputs of the tasks it executed, all put there by it. *)
Own(r) ==
    /\ pc[r] \in {"task", "told"} => node[r] \notin Decisions
    /\ Outputs(r) = executed[r] \ Decisions
    /\ \A entry \in ToSet(outputs[r]) : entry.by = r
    /\ lacking[r] = {}

Untouched(r) == pc[r] = "idle" => outputs[r] = <<>> /\ lacking[r] = {}

OwnInv ==
    /\ state \in Nat
    /\ Numbered
    /\ \A r \in Runs : Untouched(r)
    /\ \A r \in Runs \ disturbed : ByItself(r) /\ Own(r)

LEMMA RunsAreNat == Runs \subseteq Nat /\ 0 \notin Runs
  BY RunsAssumption DEF Runs

(* What Put adds to the entries.                                            *)
LEMMA PutElements ==
  ASSUME NEW E, NEW entries \in Seq(E), NEW entry \in E, NEW e \in ToSet(Put(entries, entry))
  PROVE  e = entry \/ e \in ToSet(entries)
<1>1. CASE \E i \in DOMAIN entries : entries[i].node = entry.node
  BY <1>1 DEF Put, ToSet
<1>2. CASE ~ \E i \in DOMAIN entries : entries[i].node = entry.node
  <2>1. Put(entries, entry) = Append(entries, entry)
    BY <1>2 DEF Put
  <2> QED
    BY <2>1 DEF ToSet
<1> QED
  BY <1>1, <1>2

NodesOf(entries) == {e.node : e \in ToSet(entries)}

LEMMA PutNodes ==
  ASSUME NEW E, NEW entries \in Seq(E), NEW entry \in E
  PROVE  NodesOf(Put(entries, entry)) = NodesOf(entries) \cup {entry.node}
<1>1. CASE \E i \in DOMAIN entries : entries[i].node = entry.node
  <2> DEFINE put == [i \in DOMAIN entries |-> IF entries[i].node = entry.node
                                             THEN entry ELSE entries[i]]
  <2>1. Put(entries, entry) = put
    BY <1>1 DEF Put
  <2>2. \A i \in DOMAIN entries : put[i].node = entries[i].node
    OBVIOUS
  <2>3. DOMAIN put = DOMAIN entries
    OBVIOUS
  <2> HIDE DEF put
  <2>4. NodesOf(put) = NodesOf(entries)
    BY <2>2, <2>3 DEF NodesOf, ToSet
  <2>5. entry.node \in NodesOf(entries)
    BY <1>1 DEF NodesOf, ToSet
  <2> QED
    BY <2>1, <2>4, <2>5
<1>2. CASE ~ \E i \in DOMAIN entries : entries[i].node = entry.node
  <2>1. Put(entries, entry) = Append(entries, entry)
    BY <1>2 DEF Put
  <2> DEFINE put == Append(entries, entry)
  <2>2. /\ Len(entries) \in Nat /\ DOMAIN entries = 1..Len(entries)
        /\ DOMAIN put = 1..(Len(entries) + 1) /\ put[Len(entries) + 1] = entry
        /\ \A i \in 1..Len(entries) : put[i] = entries[i]
    OBVIOUS
  <2> HIDE DEF put
  <2>3. ToSet(put) \subseteq ToSet(entries) \cup {entry}
    BY <2>2 DEF ToSet
  <2>4. entry \in ToSet(put) /\ ToSet(entries) \subseteq ToSet(put)
    BY <2>2 DEF ToSet
  <2>5. ToSet(put) = ToSet(entries) \cup {entry}
    BY <2>3, <2>4
  <2>6. Put(entries, entry) = put
    BY <2>1 DEF put
  <2> QED
    BY <2>5, <2>6 DEF NodesOf
<1> QED
  BY <1>1, <1>2

LEMMA InitOwn == Init => OwnInv
<1> SUFFICES ASSUME Init PROVE OwnInv
  OBVIOUS
<1>1. Numbered /\ state \in Nat
  BY RunsAreNat, RunsAssumption DEF Init, Numbered, NoRun, Runs
<1>2. \A r \in Runs : Untouched(r) /\ ByItself(r) /\ Own(r)
  BY DEF Init, Untouched, ByItself, Own, Running, Busy, Outputs, ToSet
<1> QED
  BY <1>1, <1>2 DEF OwnInv

(* A run whose own variables a step leaves alone.                           *)
LEMMA OwnUntouched ==
  ASSUME NEW r \in Runs, Own(r), pc'[r] = pc[r], node'[r] = node[r],
         executed'[r] = executed[r], outputs'[r] = outputs[r], lacking'[r] = lacking[r]
  PROVE  Own(r)'
  BY DEF Own, Outputs

(* A step of a run that goes on, and starts none.                           *)
LEMMA PlaceKept ==
  ASSUME Inv, OwnInv, NEW r \in Runs, pc[r] \in Running,
         pc' = [pc EXCEPT ![r] = pc'[r]],
         pc'[r] \in Running \cup {"failed", "returned"},
         UNCHANGED <<state, disturbed>>
  PROVE  /\ state' \in Nat /\ Numbered'
         /\ \A s \in Runs \ disturbed' : ByItself(s)'
<1>1. /\ \A s \in Runs \ {r} : pc'[s] = pc[s]
      /\ pc[r] # "idle" /\ pc'[r] # "idle"
  BY DEF Inv, TypeOK, Running, Busy
<1>2. Numbered'
  BY <1>1 DEF OwnInv, Numbered
<1>3. ASSUME NEW s \in Runs \ disturbed PROVE ByItself(s)'
  <2>1. ByItself(s)
    BY DEF OwnInv
  <2>2. \A q \in Runs : pc'[q] \in Running => pc[q] \in Running
    BY <1>1
  <2>3. pc'[s] # "idle" <=> pc[s] # "idle"
    BY <1>1
  <2> QED
    BY <2>1, <2>2, <2>3 DEF ByItself
<1> QED
  BY <1>2, <1>3 DEF OwnInv

(* A run that goes on while the State is that of a run by itself is it.     *)
LEMMA StateIsMine ==
  ASSUME Inv, OwnInv, NEW r \in Runs, pc[r] \in Running, state \notin disturbed
  PROVE  state = r
<1>1. state \in Runs /\ ByItself(state) /\ pc[r] # "idle"
  BY DEF Inv, RunningHasState, OwnInv, Running, Busy
<1>2. r <= state /\ pc[state] # "idle"
  BY <1>1, RunsAreNat DEF OwnInv, Numbered
<1>3. ~(r < state)
  BY <1>1, <1>2 DEF ByItself
<1> QED
  BY <1>1, <1>2, <1>3, RunsAreNat

LEMMA StartOwn == ASSUME Inv, OwnInv, NEW r \in Runs, Start(r) PROVE OwnInv'
<1>1. /\ pc[r] = "idle" /\ pc'[r] = "loop" /\ state' = r
      /\ \A s \in Runs \ {r} : pc'[s] = pc[s]
      /\ \A s \in Runs : s < r => pc[s] # "idle"
      /\ UNCHANGED <<node, executed, outputs, lacking>>
  BY DEF Start, Inv, TypeOK
<1>2. /\ disturbed \subseteq disturbed'
      /\ \A s \in Runs : pc[s] \in Running => s \in disturbed' /\ r \in disturbed'
  BY DEF Start
<1>3. state' \in Nat /\ Numbered'
  <2>1. ASSUME NEW s \in Runs PROVE pc'[s] # "idle" <=> s <= r
    <3>1. ~(r <= state)
      BY <1>1 DEF OwnInv, Numbered
    <3>2. CASE s = r
      BY <1>1, <3>2, RunsAreNat
    <3>3. CASE s # r
      BY <1>1, <3>1, <3>3, RunsAreNat DEF OwnInv, Numbered
    <3> QED
      BY <3>2, <3>3
  <2> QED
    BY <1>1, <2>1, RunsAreNat DEF Numbered
<1>4. \A s \in Runs : Untouched(s)'
  BY <1>1 DEF OwnInv, Untouched
<1>5. ASSUME NEW s \in Runs \ disturbed' PROVE ByItself(s)' /\ Own(s)'
  <2>1. CASE s = r
    <3>1. \A q \in Runs : pc[q] \notin Running
      BY <1>2, <1>5, <2>1
    <3>2. ByItself(r)'
      BY <1>1, <3>1, RunsAreNat DEF ByItself
    <3>3. Own(r)
      BY <1>2, <1>5, <2>1 DEF OwnInv
    <3>4. Own(r)'
      BY <1>1, <3>3 DEF Own, Outputs
    <3> QED
      BY <2>1, <3>2, <3>4
  <2>2. CASE s # r
    <3>1. ByItself(s) /\ Own(s) /\ pc[s] \notin Running
      BY <1>2, <1>5 DEF OwnInv
    <3>2. Own(s)'
      BY <1>1, <2>2, <3>1, OwnUntouched
    <3>3. ASSUME NEW q \in Runs, q < s, pc'[s] # "idle" PROVE pc'[q] \notin Running
      <4>1. q # r
        BY <1>1, <2>2, <3>3, RunsAreNat DEF OwnInv, Numbered
      <4> QED
        BY <1>1, <2>2, <3>1, <3>3, <4>1 DEF ByItself
    <3> QED
      BY <1>1, <2>2, <3>1, <3>2, <3>3 DEF ByItself
  <2> QED
    BY <2>1, <2>2
<1> QED
  BY <1>3, <1>4, <1>5 DEF OwnInv

LEMMA BeginTaskOwn ==
  ASSUME Inv, OwnInv, NEW r \in Runs, NEW n \in Nodes, BeginTask(r, n) PROVE OwnInv'
<1>1. /\ pc[r] = "loop" /\ pc[r] \in Running /\ n \notin Decisions
      /\ pc' = [pc EXCEPT ![r] = pc'[r]] /\ pc'[r] \in Running
      /\ node' = [node EXCEPT ![r] = n]
      /\ lacking' = [lacking EXCEPT ![r] = @ \cup (Sources(n, executed[r]) \ Outputs(state))]
      /\ UNCHANGED <<executed, state, outputs, disturbed>>
  BY DEF BeginTask, Pop, Inv, TypeOK, Running, Busy
<1>2. /\ \A s \in Runs \ {r} : /\ pc'[s] = pc[s] /\ node'[s] = node[s]
                               /\ lacking'[s] = lacking[s]
      /\ node'[r] = n
      /\ lacking'[r] = lacking[r] \cup (Sources(n, executed[r]) \ Outputs(state))
  BY <1>1 DEF Inv, TypeOK
<1>3. state' \in Nat /\ Numbered' /\ \A s \in Runs \ disturbed' : ByItself(s)'
  BY <1>1, PlaceKept
<1>4. \A s \in Runs : Untouched(s)'
  BY <1>1, <1>2 DEF OwnInv, Untouched, Running, Busy
<1>5. ASSUME NEW s \in Runs \ disturbed' PROVE Own(s)'
  <2>1. Own(s) /\ ByItself(s)
    BY <1>1 DEF OwnInv
  <2>2. CASE s = r
    <3>1. state = r
      BY <1>1, <2>1, <2>2 DEF ByItself
    <3>2. Sources(n, executed[r]) \subseteq executed[r] \ Decisions
      BY DEF Sources
    <3>3. lacking'[r] = {}
      BY <1>2, <2>1, <2>2, <3>1, <3>2 DEF Own
    <3> QED
      BY <1>1, <1>2, <2>1, <2>2, <3>3 DEF Own, Outputs
  <2>3. CASE s # r
    BY <1>1, <1>2, <2>1, <2>3, OwnUntouched
  <2> QED
    BY <2>2, <2>3
<1> QED
  BY <1>3, <1>4, <1>5 DEF OwnInv

LEMMA BeginDecisionOwn ==
  ASSUME Inv, OwnInv, NEW r \in Runs, NEW n \in Nodes, BeginDecision(r, n) PROVE OwnInv'
<1>1. /\ pc[r] = "loop" /\ pc[r] \in Running
      /\ pc' = [pc EXCEPT ![r] = pc'[r]] /\ pc'[r] = "decision" /\ pc'[r] \in Running
      /\ node' = [node EXCEPT ![r] = n]
      /\ UNCHANGED <<executed, state, outputs, disturbed, lacking>>
  BY DEF BeginDecision, Pop, shared, Inv, TypeOK, Running, Busy
<1>2. \A s \in Runs \ {r} : pc'[s] = pc[s] /\ node'[s] = node[s]
  BY <1>1 DEF Inv, TypeOK
<1>3. state' \in Nat /\ Numbered' /\ \A s \in Runs \ disturbed' : ByItself(s)'
  BY <1>1, PlaceKept
<1>4. \A s \in Runs : Untouched(s)'
  BY <1>1, <1>2 DEF OwnInv, Untouched
<1>5. ASSUME NEW s \in Runs \ disturbed' PROVE Own(s)'
  <2>1. Own(s)
    BY <1>1 DEF OwnInv
  <2> QED
    BY <1>1, <1>2, <2>1, OwnUntouched DEF Own, Outputs
<1> QED
  BY <1>3, <1>4, <1>5 DEF OwnInv

LEMMA FinishTaskOwn ==
  ASSUME Inv, OwnInv, NEW r \in Runs, FinishTask(r) PROVE OwnInv'
<1> DEFINE entry == [node |-> node[r], by |-> r, answered |-> pc[r] = "task"]
           Entry == [node : Nodes, by : Runs, answered : BOOLEAN]
<1>1. /\ pc[r] \in {"task", "told"} /\ pc[r] \in Running
      /\ pc' = [pc EXCEPT ![r] = "loop"]
      /\ node' = [node EXCEPT ![r] = NoNode]
      /\ executed' = [executed EXCEPT ![r] = @ \cup {node[r]}]
      /\ outputs' = [outputs EXCEPT ![state] = Put(@, entry)]
      /\ UNCHANGED <<state, disturbed, lacking>>
  BY DEF FinishTask, Leave, ghosts, Running, Busy
<1>2. state \in Runs /\ outputs[state] \in Seq(Entry) /\ entry \in Entry
  BY <1>1 DEF Inv, RunningHasState, BusyWithNode, TypeOK, Busy
<1>3. /\ \A s \in Runs \ {r} : /\ pc'[s] = pc[s] /\ node'[s] = node[s]
                               /\ executed'[s] = executed[s]
      /\ \A s \in Runs \ {state} : outputs'[s] = outputs[s]
      /\ outputs'[state] = Put(outputs[state], entry)
      /\ pc'[r] = "loop" /\ pc'[r] \in Running
      /\ executed'[r] = executed[r] \cup {node[r]}
  BY <1>1, <1>2 DEF Inv, TypeOK, Running
<1>4. state' \in Nat /\ Numbered' /\ \A s \in Runs \ disturbed' : ByItself(s)'
  BY <1>1, <1>3, PlaceKept
<1>5. \A s \in Runs : Untouched(s)'
  <2>1. pc[state] # "idle" /\ pc[r] # "idle"
    BY <1>1, <1>2, RunsAreNat DEF OwnInv, Numbered
  <2> QED
    BY <1>1, <1>3, <2>1 DEF OwnInv, Untouched
<1>6. ASSUME NEW s \in Runs \ disturbed' PROVE Own(s)'
  <2>1. Own(s) /\ ByItself(s)
    BY <1>1 DEF OwnInv
  <2>2. CASE s = r
    <3>1. state = r /\ node[r] \notin Decisions
      BY <1>1, <2>1, <2>2 DEF ByItself, Own
    <3>0. /\ entry.node = node[r] /\ entry.by = r
          /\ outputs[r] \in Seq(Entry) /\ entry \in Entry
      BY <1>2, <3>1
    <3> HIDE DEF entry, Entry
    <3>2. Outputs(r)' = Outputs(r) \cup {node[r]}
      <4>1. Outputs(r)' = NodesOf(Put(outputs[r], entry))
        BY <1>3, <3>1 DEF Outputs, NodesOf
      <4>2. NodesOf(Put(outputs[r], entry)) = NodesOf(outputs[r]) \cup {entry.node}
        BY <3>0, PutNodes
      <4> QED
        BY <3>0, <4>1, <4>2 DEF Outputs, NodesOf
    <3>3. \A e \in ToSet(outputs'[r]) : e.by = r
      <4> SUFFICES ASSUME NEW e \in ToSet(Put(outputs[r], entry)) PROVE e.by = r
        BY <1>3, <3>1
      <4>1. e = entry \/ e \in ToSet(outputs[r])
        BY <3>0, PutElements
      <4> QED
        BY <2>1, <2>2, <3>0, <4>1 DEF Own
    <3>4. Outputs(r)' = executed'[r] \ Decisions
      BY <1>3, <2>1, <2>2, <3>1, <3>2 DEF Own
    <3> QED
      BY <1>1, <1>3, <2>1, <2>2, <3>3, <3>4 DEF Own
  <2>3. CASE s # r
    <3>1. s # state
      BY <1>1, <2>3, <1>6, StateIsMine
    <3> QED
      BY <1>1, <1>3, <2>1, <2>3, <3>1, OwnUntouched
  <2> QED
    BY <2>2, <2>3
<1> QED
  BY <1>4, <1>5, <1>6 DEF OwnInv

LEMMA DecideOwn == ASSUME Inv, OwnInv, NEW r \in Runs, Decide(r) PROVE OwnInv'
<1>1. /\ pc[r] = "decision" /\ pc[r] \in Running /\ node[r] \in Decisions
      /\ pc' = [pc EXCEPT ![r] = "loop"]
      /\ node' = [node EXCEPT ![r] = NoNode]
      /\ executed' = [executed EXCEPT ![r] = @ \cup {node[r]}]
      /\ UNCHANGED <<state, outputs, disturbed, lacking>>
  BY DEF Decide, Leave, shared, Running, Busy, Inv, BusyWithNode
<1>2. /\ \A s \in Runs \ {r} : /\ pc'[s] = pc[s] /\ node'[s] = node[s]
                               /\ executed'[s] = executed[s]
      /\ pc'[r] = "loop" /\ pc'[r] \in Running
      /\ executed'[r] = executed[r] \cup {node[r]}
  BY <1>1 DEF Inv, TypeOK, Running
<1>3. state' \in Nat /\ Numbered' /\ \A s \in Runs \ disturbed' : ByItself(s)'
  BY <1>1, <1>2, PlaceKept
<1>4. \A s \in Runs : Untouched(s)'
  BY <1>1, <1>2 DEF OwnInv, Untouched
<1>5. ASSUME NEW s \in Runs \ disturbed' PROVE Own(s)'
  <2>1. Own(s)
    BY <1>1 DEF OwnInv
  <2>2. CASE s = r
    BY <1>1, <1>2, <2>1, <2>2 DEF Own, Outputs
  <2>3. CASE s # r
    BY <1>1, <1>2, <2>1, <2>3, OwnUntouched
  <2> QED
    BY <2>2, <2>3
<1> QED
  BY <1>3, <1>4, <1>5 DEF OwnInv

(* A run ends.                                                              *)
LEMMA EndOwn ==
  ASSUME Inv, OwnInv, NEW r \in Runs, Fail(r) \/ Return(r) PROVE OwnInv'
<1>1. /\ pc[r] \in Running /\ pc' = [pc EXCEPT ![r] = pc'[r]]
      /\ pc'[r] \in {"failed", "returned"}
      /\ UNCHANGED <<node, executed, state, outputs, disturbed, lacking>>
  BY DEF Fail, Return, shared, ghosts, Running, Busy, Inv, TypeOK
<1>2. \A s \in Runs \ {r} : pc'[s] = pc[s]
  BY <1>1 DEF Inv, TypeOK
<1>3. state' \in Nat /\ Numbered' /\ \A s \in Runs \ disturbed' : ByItself(s)'
  BY <1>1, PlaceKept
<1>4. \A s \in Runs : Untouched(s)'
  BY <1>1, <1>2 DEF OwnInv, Untouched
<1>5. ASSUME NEW s \in Runs \ disturbed' PROVE Own(s)'
  BY <1>1, <1>2, OwnUntouched DEF OwnInv, Own, Outputs
<1> QED
  BY <1>3, <1>4, <1>5 DEF OwnInv

LEMMA NextOwn == Inv /\ OwnInv /\ [Next]_vars => OwnInv'
<1> SUFFICES ASSUME Inv, OwnInv, [Next]_vars PROVE OwnInv'
  OBVIOUS
<1>1. CASE Next
  <2>1. PICK r \in Runs : Start(r) \/ Advance(r) \/ Fail(r)
    BY <1>1 DEF Next
  <2>2. CASE Advance(r)
    BY <2>2, BeginTaskOwn, BeginDecisionOwn, FinishTaskOwn, DecideOwn, EndOwn DEF Advance
  <2> QED
    BY <2>1, <2>2, StartOwn, EndOwn
<1>2. CASE UNCHANGED vars
  BY <1>2 DEF vars, locals, shared, ghosts, OwnInv, Numbered, Untouched, ByItself, Own, Outputs
<1> QED
  BY <1>1, <1>2

(* A run that does not overlap another returns the outputs of the tasks it  *)
(* executed, all its own, and gave each task those of the tasks before it   *)
(* (graph.py 359-379, 780-805), also when earlier runs overlapped or failed.*)
THEOREM OutputsAreOwn == Spec => []ReturnsItsOutputs
<1>1. OwnInv => ReturnsItsOutputs
  BY DEF OwnInv, Own, ReturnsItsOutputs
<1> QED
  BY InitInv, NextInv, InitOwn, NextOwn, <1>1, PTL DEF Spec
-----------------------------------------------------------------------------
(* What a run executes.  Sets of numbers have a least member, hence         *)
(* induction over them and functions that are defined step by step.         *)

LEMMA LeastExists ==
  ASSUME NEW T \in SUBSET Nat, T # {}
  PROVE  \E n \in T : \A m \in T : n <= m
<1> DEFINE Down == {0..n : n \in T}
<1>1. \A n \in T : 0..n \in SUBSET Nat /\ IsFiniteSet(0..n)
  BY FS_Interval
<1>2. Down \subseteq FiniteSubsetsOf(Nat) /\ Down # {}
  BY <1>1 DEF FiniteSubsetsOf
<1>3. PICK d \in Down : \A e \in Down : ~(<<e, d>> \in StrictSubsetOrdering(Nat))
  <2> HIDE DEF Down
  <2> QED
    BY <1>2, FS_StrictSubsetOrderingWellFounded, WFMin
<1>4. PICK n \in T : d = 0..n
  OBVIOUS
<1>5. \A m \in T : n <= m
  <2> SUFFICES ASSUME NEW m \in T, m < n PROVE FALSE
    BY <1>4
  <2>1. /\ 0..m \subseteq 0..n /\ n \in 0..n /\ n \notin 0..m
        /\ 0..m \in SUBSET Nat /\ 0..n \in SUBSET Nat /\ 0..m \in Down
    BY <1>4
  <2>2. <<0..m, 0..n>> \in StrictSubsetOrdering(Nat)
    BY <2>1 DEF StrictSubsetOrdering
  <2> QED
    BY <1>3, <1>4, <2>1, <2>2
<1> QED
  BY <1>5

LEMMA UpwardInduction ==
  ASSUME NEW n \in Nat, NEW Q, 0 \in Q, \A k \in 1..n : k - 1 \in Q => k \in Q
  PROVE  0..n \subseteq Q
<1> DEFINE T == (0..n) \ Q
<1> SUFFICES ASSUME T # {} PROVE FALSE
  OBVIOUS
<1>1. PICK k \in T : \A m \in T : k <= m
  <2> HIDE DEF T
  <2>1. T \in SUBSET Nat
    BY DEF T
  <2> QED
    BY <2>1, LeastExists
<1>2. k \in 1..n /\ k - 1 \in 0..n /\ k - 1 \notin T
  BY <1>1
<1> QED
  BY <1>1, <1>2

(* A function that repeats a step.                                          *)
Repeats(n, first, step, f) == f[0] = first /\ \A k \in 1..n : f[k] = step[f[k - 1]]

LEMMA RepeatExists ==
  ASSUME NEW n \in Nat, NEW S, NEW first \in S, NEW step \in [S -> S]
  PROVE  \E f \in [0..n -> S] : Repeats(n, first, step, f)
<1> DEFINE Q == {k \in Nat : \E f \in [0..k -> S] : Repeats(k, first, step, f)}
<1>1. 0 \in Q
  <2>1. [k \in 0..0 |-> first] \in [0..0 -> S]
    OBVIOUS
  <2>2. Repeats(0, first, step, [k \in 0..0 |-> first])
    BY DEF Repeats
  <2> QED
    BY <2>1, <2>2
<1>2. ASSUME NEW k \in 1..n, k - 1 \in Q PROVE k \in Q
  <2>1. PICK f \in [0..(k - 1) -> S] : Repeats(k - 1, first, step, f)
    BY <1>2
  <2> DEFINE g == [j \in 0..k |-> IF j = k THEN step[f[k - 1]] ELSE f[j]]
  <2>2. g \in [0..k -> S]
    OBVIOUS
  <2>3. Repeats(k, first, step, g)
    <3>1. g[0] = first
      BY <2>1 DEF Repeats
    <3>2. ASSUME NEW j \in 1..k PROVE g[j] = step[g[j - 1]]
      <4>1. CASE j = k
        BY <4>1
      <4>2. CASE j # k
        BY <2>1, <4>2 DEF Repeats
      <4> QED
        BY <4>1, <4>2
    <3> HIDE DEF g
    <3> QED
      BY <3>1, <3>2 DEF Repeats
  <2>4. k \in Nat
    OBVIOUS
  <2> HIDE DEF g
  <2> QED
    BY <2>2, <2>3, <2>4
<1>3. n \in Q
  <2> HIDE DEF Q
  <2> QED
    BY <1>1, <1>2, UpwardInduction
<1> QED
  BY <1>3

First == {n \in ToSet(graph.nodes) : Starting(n)}
Led(r, some) == some \cup {n \in ToSet(graph.nodes) : \E m \in some : Leads(r, m, n)}

IsSpread(r, f) ==
    f = [k \in 0..Len(graph.nodes) |-> IF k = 0 THEN First ELSE Led(r, f[k - 1])]

LEMMA SpreadSteps ==
  ASSUME NEW r, NEW f, IsSpread(r, f), Len(graph.nodes) \in Nat
  PROVE  f[0] = First /\ \A k \in 1..Len(graph.nodes) : f[k] = Led(r, f[k - 1])
<1> DEFINE n == Len(graph.nodes)
           G(k) == IF k = 0 THEN First ELSE Led(r, f[k - 1])
<1>1. f = [k \in 0..n |-> G(k)]
  BY DEF IsSpread
<1>2. \A k \in 0..n : f[k] = G(k)
  <2> HIDE DEF G
  <2> QED
    BY <1>1
<1>3. 0 \in 0..n /\ \A k \in 1..n : k \in 0..n /\ k # 0
  OBVIOUS
<1> HIDE DEF n
<1>4. f[0] = First
  BY <1>2, <1>3
<1>5. \A k \in 1..n : f[k] = Led(r, f[k - 1])
  BY <1>2, <1>3
<1> QED
  BY <1>4, <1>5 DEF n

(* How Chosen is reached.                                                   *)
LEMMA ChosenIsReached ==
  ASSUME TypeOK, NEW r \in Runs
  PROVE  \E f : /\ f[0] = First
                /\ \A k \in 1..Len(graph.nodes) : f[k] = Led(r, f[k - 1])
                /\ Chosen(r) = f[Len(graph.nodes)]
<1> DEFINE n == Len(graph.nodes)
           S == SUBSET ToSet(graph.nodes)
           step == [some \in S |-> Led(r, some)]
<1>1. n \in Nat
  BY DEF TypeOK, GraphType
<1>2. First \in S /\ step \in [S -> S]
  BY DEF First, Led
<1>3. PICK g \in [0..n -> S] : Repeats(n, First, step, g)
  <2> HIDE DEF n, step, S
  <2> QED
    BY <1>1, <1>2, RepeatExists
<1>4. IsSpread(r, g)
  <2>1. \A k \in 0..n : g[k] = IF k = 0 THEN First ELSE Led(r, g[k - 1])
    <3>1. ASSUME NEW k \in 1..n PROVE g[k] = Led(r, g[k - 1])
      <4>1. g[k - 1] \in S
        OBVIOUS
      <4>2. g[k] = step[g[k - 1]]
        BY <1>3 DEF Repeats
      <4> HIDE DEF S, n
      <4> QED
        BY <4>1, <4>2
    <3>2. g[0] = First
      BY <1>3 DEF Repeats
    <3> HIDE DEF n
    <3> QED
      BY <1>1, <3>1, <3>2
  <2> HIDE DEF S
  <2> QED
    BY <2>1 DEF IsSpread
<1> DEFINE f == CHOOSE h : IsSpread(r, h)
<1>5. IsSpread(r, f)
  BY <1>4
<1>6. Chosen(r) = f[n]
  BY DEF Chosen, IsSpread, First, Led
<1>7. f[0] = First /\ \A k \in 1..n : f[k] = Led(r, f[k - 1])
  <2> HIDE DEF f
  <2> QED
    BY <1>1, <1>5, SpreadSteps
<1> HIDE DEF f
<1> QED
  BY <1>6, <1>7

(* Every node that was queued is one to start with, or was led to by one    *)
(* that had been executed; so there is a number of steps in which it is     *)
(* reached.                                                                 *)
IsLevel(r, level) ==
    /\ level \in [queued[r] -> Nat]
    /\ \A n \in queued[r] :
          /\ level[n] <= Cardinality(executed[r])
          /\ \/ Starting(n)
             \/ \E m \in executed[r] : level[m] < level[n] /\ Leads(r, m, n)

(* The books of a run, in any graph.                                        *)
Books(r) ==
    /\ \E level : IsLevel(r, level)
    /\ queued[r] \subseteq ToSet(graph.nodes)
    /\ pc[r] # "idle" => First \subseteq queued[r]
    /\ answer[r] \in [executed[r] \cap Decisions -> BOOLEAN]
    /\ pruned[r] = Excluded(answer[r])
    /\ pc[r] \in {"task", "told"} => node[r] \notin Decisions
    /\ pc[r] \in {"loop", "returned"} => queued[r] = executed[r] \cup DOMAIN queue[r]
    /\ pc[r] \in Busy => queued[r] = executed[r] \cup DOMAIN queue[r] \cup {node[r]}
    /\ pc[r] = "returned" => DOMAIN queue[r] = {}

(* In an orderly graph: nothing of a branch is queued before its decision,  *)
(* nothing that is pruned ever is, and what waits for nothing any more has  *)
(* been queued if something it waited for was executed.                     *)
NoneBefore(r) ==
    \A d \in Decisions \ executed[r] : \A b \in BOOLEAN : queued[r] \cap graph.branch[d][b] = {}
NonePruned(r) == queued[r] \cap pruned[r] = {}
NoneMissed(r) ==
    \A n \in ToSet(graph.nodes) \ (queued[r] \cup pruned[r]) :
        Predecessors(n) \cap executed[r] # {} =>
            ~(Predecessors(n) \subseteq executed[r] \cup pruned[r])

WholeRun(r) == Books(r) /\ (Orderly => NoneBefore(r) /\ NonePruned(r) /\ NoneMissed(r))
WholeInv == \A r \in Runs : WholeRun(r)

LEMMA GraphKept ==
  ASSUME UNCHANGED graph
  PROVE  /\ \A n : Predecessors(n)' = Predecessors(n) /\ Starting(n)' = Starting(n)
         /\ First' = First /\ Orderly' = Orderly
         /\ \A answers : Excluded(answers)' = Excluded(answers)
<1>1. \A n : Predecessors(n)' = Predecessors(n) /\ Starting(n)' = Starting(n)
  BY DEF Predecessors, Starting
<1>2. First' = First /\ \A answers : Excluded(answers)' = Excluded(answers)
  BY <1>1 DEF First, Excluded
<1>3. Orderly' = Orderly
  BY <1>1, <1>2 DEF Orderly, Acyclic, BranchesAreClosed, BranchesAreJoined, BranchesAreWhole
<1> QED
  BY <1>1, <1>2, <1>3

LEMMA LeadsKept ==
  ASSUME UNCHANGED graph, NEW r, NEW m,
         m \in DOMAIN answer'[r] <=> m \in DOMAIN answer[r],
         m \in DOMAIN answer[r] => answer'[r][m] = answer[r][m]
  PROVE  \A n : Leads(r, m, n)' = Leads(r, m, n)
BY DEF Leads

LEMMA RunKept ==
  ASSUME NEW r \in Runs, WholeRun(r), UNCHANGED graph, pc'[r] = pc[r], node'[r] = node[r],
         queue'[r] = queue[r], queued'[r] = queued[r], executed'[r] = executed[r],
         pruned'[r] = pruned[r], answer'[r] = answer[r]
  PROVE  WholeRun(r)'
<1>1. \A m, n : Leads(r, m, n)' = Leads(r, m, n)
  BY LeadsKept
<1>2. \A level : IsLevel(r, level) => IsLevel(r, level)'
  BY <1>1, GraphKept DEF IsLevel
<1>3. Books(r)'
  BY <1>2, GraphKept DEF WholeRun, Books
<1>4. Orderly' => NoneBefore(r)' /\ NonePruned(r)' /\ NoneMissed(r)'
  BY GraphKept DEF WholeRun, NoneBefore, NonePruned, NoneMissed
<1> QED
  BY <1>3, <1>4 DEF WholeRun

LEMMA OthersKept ==
  ASSUME WholeInv, NEW r \in Runs, UNCHANGED graph, WholeRun(r)',
         \A s \in Runs \ {r} :
            /\ pc'[s] = pc[s] /\ node'[s] = node[s] /\ queue'[s] = queue[s]
            /\ queued'[s] = queued[s] /\ executed'[s] = executed[s]
            /\ pruned'[s] = pruned[s] /\ answer'[s] = answer[s]
  PROVE  WholeInv'
<1>1. ASSUME NEW s \in Runs, s # r PROVE WholeRun(s)'
  BY <1>1, RunKept DEF WholeInv
<1> QED
  BY <1>1 DEF WholeInv

LEMMA WholeStarts == Init => WholeInv
<1> SUFFICES ASSUME Init, NEW r \in Runs PROVE WholeRun(r)
  BY DEF WholeInv
<1>1. /\ pc[r] = "idle" /\ queued[r] = {} /\ executed[r] = {} /\ pruned[r] = {}
      /\ answer[r] = [d \in {} |-> TRUE]
  BY DEF Init
<1>2. IsLevel(r, [n \in {} |-> 0])
  BY <1>1 DEF IsLevel
<1>3. Excluded(answer[r]) = {}
  BY <1>1 DEF Excluded
<1>4. Books(r)
  BY <1>1, <1>2, <1>3 DEF Books, Busy
<1>5. NoneBefore(r) /\ NonePruned(r) /\ NoneMissed(r)
  BY <1>1 DEF NoneBefore, NonePruned, NoneMissed
<1> QED
  BY <1>4, <1>5 DEF WholeRun

(* A run begins with the nodes that wait for nothing, none of which is of a *)
(* branch.                                                                  *)
LEMMA StartWhole == ASSUME Inv, WholeInv, NEW r \in Runs, Start(r) PROVE WholeInv'
<1>1. /\ pc[r] = "idle" /\ pc'[r] = "loop" /\ queued'[r] = First /\ DOMAIN queue'[r] = First
      /\ UNCHANGED <<graph, node, executed, pruned, answer>>
      /\ \A s \in Runs \ {r} : pc'[s] = pc[s] /\ queue'[s] = queue[s] /\ queued'[s] = queued[s]
  BY DEF Start, First, Inv, TypeOK
<1>2. executed[r] = {} /\ pruned[r] = {}
  BY <1>1 DEF Inv, IdleIsEmpty
<1>3. First \subseteq ToSet(graph.nodes) /\ \A n \in First : Starting(n)
  BY DEF First
<1>4. IsLevel(r, [n \in First |-> 0])'
  <2>1. Cardinality({}) = 0
    BY FS_EmptySet
  <2> QED
    BY <1>1, <1>2, <1>3, <2>1, GraphKept DEF IsLevel
<1>5. Books(r)'
  BY <1>1, <1>2, <1>3, <1>4, GraphKept DEF WholeInv, WholeRun, Books, Busy
<1>6. Orderly => NoneBefore(r)'
  BY <1>1, <1>3 DEF Orderly, BranchesAreClosed, NoneBefore
<1>7. NonePruned(r)' /\ NoneMissed(r)'
  BY <1>1, <1>2 DEF NonePruned, NoneMissed
<1>8. WholeRun(r)'
  BY <1>1, <1>5, <1>6, <1>7, GraphKept DEF WholeRun
<1> QED
  BY <1>1, <1>8, OthersKept

LEMMA PopWhole ==
  ASSUME Inv, WholeInv, NEW r \in Runs, NEW n \in Nodes,
         BeginTask(r, n) \/ BeginDecision(r, n)
  PROVE  WholeInv'
<1>1. /\ pc[r] = "loop" /\ n \in DOMAIN queue[r] /\ node'[r] = n
      /\ DOMAIN queue'[r] = DOMAIN queue[r] \ {n}
      /\ pc'[r] \in Busy /\ (pc'[r] \in {"task", "told"} => n \notin Decisions)
      /\ UNCHANGED <<graph, queued, executed, pruned, answer>>
      /\ \A s \in Runs \ {r} : pc'[s] = pc[s] /\ queue'[s] = queue[s] /\ node'[s] = node[s]
  BY DEF BeginTask, BeginDecision, Pop, IsHead, shared, Busy, Inv, TypeOK
<1>2. WholeRun(r)
  BY DEF WholeInv
<1>3. \A m, k : Leads(r, m, k)' = Leads(r, m, k)
  BY <1>1, LeadsKept
<1>4. \A level : IsLevel(r, level) => IsLevel(r, level)'
  BY <1>1, <1>3, GraphKept DEF IsLevel
<1>5. Books(r)'
  BY <1>1, <1>2, <1>4, GraphKept DEF WholeRun, Books, Busy
<1>6. Orderly' => NoneBefore(r)' /\ NonePruned(r)' /\ NoneMissed(r)'
  <2>1. /\ NoneBefore(r) => NoneBefore(r)'
        /\ NonePruned(r) => NonePruned(r)'
    BY <1>1 DEF NoneBefore, NonePruned
  <2>2. NoneMissed(r) => NoneMissed(r)'
    BY <1>1, GraphKept DEF NoneMissed
  <2>3. Orderly' = Orderly
    BY <1>1, GraphKept
  <2> QED
    BY <1>2, <2>1, <2>2, <2>3 DEF WholeRun
<1>7. WholeRun(r)'
  BY <1>5, <1>6 DEF WholeRun
<1> QED
  BY <1>1, <1>7, OthersKept

LEMMA EndWhole ==
  ASSUME Inv, WholeInv, NEW r \in Runs, Fail(r) \/ Return(r) PROVE WholeInv'
<1>1. /\ \/ pc'[r] = "failed"
         \/ pc[r] = "loop" /\ pc'[r] = "returned" /\ DOMAIN queue[r] = {}
      /\ pc[r] # "idle"
      /\ UNCHANGED <<graph, node, queue, queued, executed, pruned, answer>>
      /\ \A s \in Runs \ {r} : pc'[s] = pc[s]
  BY DEF Fail, Return, shared, ghosts, Inv, TypeOK
<1>2. WholeRun(r)
  BY DEF WholeInv
<1>3. \A m, k : Leads(r, m, k)' = Leads(r, m, k)
  BY <1>1, LeadsKept
<1>4. \A level : IsLevel(r, level) => IsLevel(r, level)'
  BY <1>1, <1>3, GraphKept DEF IsLevel
<1>5. Books(r)'
  BY <1>1, <1>2, <1>4, GraphKept DEF WholeRun, Books, Busy
<1>6. Orderly' => NoneBefore(r)' /\ NonePruned(r)' /\ NoneMissed(r)'
  BY <1>1, <1>2, GraphKept DEF WholeRun, NoneBefore, NonePruned, NoneMissed
<1>7. WholeRun(r)'
  BY <1>5, <1>6 DEF WholeRun
<1> QED
  BY <1>1, <1>7, OthersKept

(* What a node that was executed answers, and what that takes out.          *)
Answers(r, n, out) ==
    \/ n \notin Decisions /\ answer'[r] = answer[r] /\ out = pruned[r]
    \/ /\ n \in Decisions
       /\ \E yes \in BOOLEAN :
            /\ answer'[r] = [d \in DOMAIN answer[r] \cup {n} |-> IF d = n THEN yes ELSE answer[r][d]]
            /\ out = pruned[r] \cup graph.branch[n][~yes]

LEMMA AnswersKept ==
  ASSUME Inv, NEW r \in Runs, Books(r), NEW n \in Nodes, n \notin executed[r],
         NEW out, Answers(r, n, out)
  PROVE  /\ answer'[r] \in [(executed[r] \cup {n}) \cap Decisions -> BOOLEAN]
         /\ \A d \in DOMAIN answer[r] : answer'[r][d] = answer[r][d]
         /\ out = Excluded(answer'[r])
         /\ pruned[r] \subseteq out
         /\ n \in Decisions => out = pruned[r] \cup graph.branch[n][~answer'[r][n]]
<1>1. answer[r] \in [executed[r] \cap Decisions -> BOOLEAN] /\ pruned[r] = Excluded(answer[r])
  BY DEF Books
<1>2. CASE n \notin Decisions
  BY <1>1, <1>2 DEF Answers
<1>3. CASE n \in Decisions
  <2>1. PICK yes \in BOOLEAN :
          /\ answer'[r] = [d \in DOMAIN answer[r] \cup {n} |-> IF d = n THEN yes ELSE answer[r][d]]
          /\ out = pruned[r] \cup graph.branch[n][~yes]
    BY <1>3 DEF Answers
  <2> DEFINE old == answer[r]
             new == answer'[r]
  <2>2. DOMAIN old = executed[r] \cap Decisions /\ n \notin DOMAIN old
    BY <1>1
  <2>3. new = [d \in DOMAIN old \cup {n} |-> IF d = n THEN yes ELSE old[d]]
    BY <2>1
  <2>4. old \in [DOMAIN old -> BOOLEAN]
    BY <1>1, <2>2
  <2> HIDE DEF old, new
  <2>5. DOMAIN new = DOMAIN old \cup {n}
    BY <2>3
  <2>6. new[n] = yes
    BY <2>3, Zenon
  <2>7. ASSUME NEW d \in DOMAIN old PROVE new[d] = old[d] /\ old[d] \in BOOLEAN
    <3>1. d \in DOMAIN old \cup {n} /\ d # n
      BY <2>2, <2>7
    <3>2. new[d] = IF d = n THEN yes ELSE old[d]
      BY <2>3, <3>1, Zenon
    <3>3. new[d] = old[d]
      BY <3>1, <3>2, Zenon
    <3>4. old[d] \in BOOLEAN
      BY <2>4, Zenon
    <3> QED
      BY <3>3, <3>4
  <2>8. new \in [DOMAIN old \cup {n} -> BOOLEAN]
    <3>1. ASSUME NEW d \in DOMAIN old \cup {n}
          PROVE  (IF d = n THEN yes ELSE old[d]) \in BOOLEAN
      <4>1. CASE d = n
        BY <4>1, Zenon
      <4>2. CASE d # n
        BY <2>7, <4>2, Zenon
      <4> QED
        BY <4>1, <4>2
    <3> QED
      BY <2>3, <3>1, Zenon
  <2>9. Excluded(new) = Excluded(old) \cup graph.branch[n][~yes]
    <3>1. \A d \in DOMAIN old : graph.branch[d][~new[d]] = graph.branch[d][~old[d]]
      BY <2>7, Zenon
    <3>2. graph.branch[n][~new[n]] = graph.branch[n][~yes]
      BY <2>6, Zenon
    <3> DEFINE Out(a, d) == graph.branch[d][~a[d]]
    <3>3. /\ \A d \in DOMAIN old : Out(new, d) = Out(old, d)
          /\ Out(new, n) = graph.branch[n][~yes]
      BY <3>1, <3>2, Zenon
    <3>4. \A a : Excluded(a) = UNION {Out(a, d) : d \in DOMAIN a}
      BY DEF Excluded
    <3> HIDE DEF Out
    <3> QED
      BY <2>5, <3>3, <3>4
  <2>10. graph.branch[n][~new[n]] = graph.branch[n][~yes]
    BY <2>6, Zenon
  <2>11. DOMAIN old \cup {n} = (executed[r] \cup {n}) \cap Decisions
    BY <1>3, <2>2
  <2>12. pruned[r] = Excluded(old) /\ out = pruned[r] \cup graph.branch[n][~yes]
    BY <1>1, <2>1 DEF old
  <2>13. /\ new \in [(executed[r] \cup {n}) \cap Decisions -> BOOLEAN]
         /\ out = Excluded(new)
         /\ pruned[r] \subseteq out
         /\ out = pruned[r] \cup graph.branch[n][~new[n]]
    BY <2>8, <2>9, <2>10, <2>11, <2>12, Zenon
  <2> QED
    BY <2>7, <2>13 DEF old, new
<1> QED
  BY <1>2, <1>3

(* What the provers need to know of a run that leaves a node.               *)
LEMMA LeftIs ==
  ASSUME Inv, NEW r \in Runs, pc[r] \in Busy, NEW out, Leave(r, out)
  PROVE  LET done == executed[r] \cup {node[r]}
             freed == Freed(r, done, out)
         IN /\ executed'[r] = done /\ pruned'[r] = out /\ pc'[r] = "loop"
            /\ queued'[r] = queued[r] \cup freed
            /\ DOMAIN queue'[r] = DOMAIN queue[r] \cup freed
            /\ node[r] \in queued[r] \ executed[r] /\ node[r] \in Nodes
            /\ executed[r] \subseteq queued[r]
            /\ graph' = graph
            /\ \A s \in Runs \ {r} :
                 /\ pc'[s] = pc[s] /\ node'[s] = node[s] /\ queue'[s] = queue[s]
                 /\ queued'[s] = queued[s] /\ executed'[s] = executed[s] /\ pruned'[s] = pruned[s]
BY DEF Leave, Inv, TypeOK, BusyWithNode, WaitsForQueue, RunWaits

LEMMA LeaveBooks ==
  ASSUME Inv, NEW r \in Runs, Books(r), pc[r] \in Busy, NEW out,
         Leave(r, out), Answers(r, node[r], out)
  PROVE  Books(r)'
<1>a. PICK n, done, freed, last :
         /\ n = node[r]
         /\ done = executed[r] \cup {n}
         /\ freed = Freed(r, done, out)
         /\ last = Cardinality(executed[r])
  OBVIOUS
<1>1. /\ executed'[r] = done /\ pruned'[r] = out /\ pc'[r] = "loop"
      /\ queued'[r] = queued[r] \cup freed
      /\ DOMAIN queue'[r] = DOMAIN queue[r] \cup freed
      /\ n \in queued[r] \ executed[r] /\ n \in Nodes
      /\ executed[r] \subseteq queued[r]
      /\ graph' = graph
  BY <1>a, LeftIs
<1>2. /\ answer'[r] \in [done \cap Decisions -> BOOLEAN]
      /\ \A d \in DOMAIN answer[r] : answer'[r][d] = answer[r][d]
      /\ out = Excluded(answer'[r])
      /\ n \in Decisions => out = pruned[r] \cup graph.branch[n][~answer'[r][n]]
  <2>1. Answers(r, n, out)
    BY <1>a DEF Answers
  <2>2. n \in Nodes /\ n \notin executed[r]
    BY <1>1
  <2>3. /\ answer'[r] \in [(executed[r] \cup {n}) \cap Decisions -> BOOLEAN]
        /\ \A d \in DOMAIN answer[r] : answer'[r][d] = answer[r][d]
        /\ out = Excluded(answer'[r])
        /\ pruned[r] \subseteq out
        /\ n \in Decisions => out = pruned[r] \cup graph.branch[n][~answer'[r][n]]
    BY <2>1, <2>2, AnswersKept, Zenon
  <2>4. done = executed[r] \cup {n}
    BY <1>a
  <2> QED
    BY <2>3, <2>4, Zenon
<1>3. /\ freed \subseteq ToSet(graph.nodes) \ (queued[r] \cup out)
      /\ \A k \in freed : <<n, k>> \in graph.edges
  BY <1>a DEF Freed
<1>4. last \in Nat /\ Cardinality(done) = last + 1
  <2>1. IsFiniteSet(executed[r])
    BY NodesAssumption, FS_Subset DEF Inv, TypeOK
  <2> QED
    BY <1>1, <1>a, <2>1, FS_AddElement, FS_CardinalityType
<1>5. answer[r] \in [executed[r] \cap Decisions -> BOOLEAN]
  BY DEF Books
<1>6. \A m \in executed[r] : \A k : Leads(r, m, k)' = Leads(r, m, k)
  <2> SUFFICES ASSUME NEW m \in executed[r] PROVE \A k : Leads(r, m, k)' = Leads(r, m, k)
    OBVIOUS
  <2>1. DOMAIN answer[r] = executed[r] \cap Decisions /\ DOMAIN answer'[r] = done \cap Decisions
    BY <1>2, <1>5
  <2>2. m \in DOMAIN answer'[r] <=> m \in DOMAIN answer[r]
    BY <1>a, <2>1
  <2> QED
    BY <1>1, <1>2, <2>2, LeadsKept
<1>7. \A k \in freed : Leads(r, n, k)'
  <2> SUFFICES ASSUME NEW k \in freed PROVE Leads(r, n, k)'
    OBVIOUS
  <2>1. n \in Decisions => k \notin graph.branch[n][~answer'[r][n]]
    BY <1>2, <1>3
  <2>2. n \in DOMAIN answer'[r] => n \in Decisions
    BY <1>2
  <2> QED
    BY <1>1, <1>3, <2>1, <2>2 DEF Leads
<1>8. PICK level : IsLevel(r, level)
  BY DEF Books
<1>b. PICK higher :
         higher = [k \in queued[r] \cup freed |-> IF k \in queued[r] THEN level[k] ELSE last + 1]
  OBVIOUS
<1>9. IsLevel(r, higher)'
  <2>1. /\ level \in [queued[r] -> Nat]
        /\ \A k \in queued[r] : level[k] <= last
    BY <1>8, <1>a DEF IsLevel
  <2>2. higher \in [queued[r] \cup freed -> Nat]
    BY <1>4, <1>b, <2>1
  <2>3. \A k \in queued[r] \cup freed : higher[k] <= last + 1
    BY <1>4, <1>b, <2>1
  <2>4. ASSUME NEW k \in queued[r]
        PROVE  Starting(k) \/ \E m \in done : higher[m] < higher[k] /\ Leads(r, m, k)'
    <3>1. Starting(k) \/ \E m \in executed[r] : level[m] < level[k] /\ Leads(r, m, k)
      BY <1>8 DEF IsLevel
    <3>2. \A m \in executed[r] : m \in done /\ higher[m] = level[m]
      BY <1>1, <1>a, <1>b
    <3>3. higher[k] = level[k]
      BY <1>b
    <3> QED
      BY <1>6, <3>1, <3>2, <3>3
  <2>5. ASSUME NEW k \in freed
        PROVE  Starting(k) \/ \E m \in done : higher[m] < higher[k] /\ Leads(r, m, k)'
    <3>1. higher[n] = level[n] /\ higher[k] = last + 1 /\ n \in done
      BY <1>1, <1>3, <1>a, <1>b
    <3>2. level[n] \in Nat /\ level[n] <= last
      BY <1>1, <2>1
    <3>3. higher[n] < higher[k]
      BY <1>4, <3>1, <3>2
    <3> QED
      BY <1>7, <3>1, <3>3
  <2> QED
    BY <1>1, <1>4, <2>2, <2>3, <2>4, <2>5, GraphKept DEF IsLevel
<1>10. queued'[r] \subseteq ToSet(graph.nodes)' /\ First' \subseteq queued'[r]
  BY <1>1, <1>3, GraphKept DEF Books, Busy
<1>11. pruned'[r] = Excluded(answer[r])'
  BY <1>1, <1>2 DEF Excluded
<1>12. queued'[r] = executed'[r] \cup DOMAIN queue'[r]
  BY <1>1, <1>a DEF Books
<1>13. answer'[r] \in [executed'[r] \cap Decisions -> BOOLEAN]
  BY <1>1, <1>2
<1>14. \E l : IsLevel(r, l)'
  BY <1>9
<1> QED
  BY <1>1, <1>10, <1>11, <1>12, <1>13, <1>14 DEF Books, Busy

(* Nothing of a branch is queued before its decision, so what the decision  *)
(* takes out was not queued; and when it takes out the last that a node     *)
(* waits for, nothing else that the node waits for has been executed.       *)
LEMMA LeaveSettles ==
  ASSUME Inv, NEW r \in Runs, Books(r), Orderly, NoneBefore(r), NonePruned(r), NoneMissed(r),
         pc[r] \in Busy, NEW out, Leave(r, out), Answers(r, node[r], out)
  PROVE  NoneBefore(r)' /\ NonePruned(r)' /\ NoneMissed(r)'
<1>1. PICK n, done, freed :
         /\ n = node[r]
         /\ done = executed[r] \cup {n}
         /\ freed = Freed(r, done, out)
  OBVIOUS
<1>2. /\ executed'[r] = done /\ pruned'[r] = out
      /\ queued'[r] = queued[r] \cup freed
      /\ n \in queued[r] \ executed[r] /\ n \in Nodes
      /\ executed[r] \subseteq queued[r]
      /\ graph' = graph
  BY <1>1, LeftIs
<1>3. /\ pruned[r] \subseteq out
      /\ out # pruned[r] => n \in Decisions /\ \E c \in BOOLEAN : out = pruned[r] \cup graph.branch[n][c]
  BY <1>1 DEF Answers
<1>4. /\ freed = {k \in ToSet(graph.nodes) \ (queued[r] \cup out) :
                    n \in Predecessors(k) /\ Predecessors(k) \subseteq done \cup out}
      /\ queued[r] \subseteq ToSet(graph.nodes)
  BY <1>1, <1>2 DEF Freed, Predecessors, Books
<1>5. NoneBefore(r)'
  <2> SUFFICES ASSUME NEW d \in Decisions \ done, NEW b \in BOOLEAN,
                      NEW k \in queued[r] \cup freed, k \in graph.branch[d][b]
               PROVE  FALSE
    BY <1>2 DEF NoneBefore
  <2>1. d \notin executed[r] /\ d # n
    BY <1>1
  <2>2. queued[r] \cap graph.branch[d][b] = {}
    BY <2>1 DEF NoneBefore
  <2>3. k \in freed
    BY <2>2
  <2>4. Predecessors(k) \subseteq {d} \cup graph.branch[d][b]
    BY <1>4, <2>3 DEF Orderly, BranchesAreClosed
  <2>5. n \in graph.branch[d][b]
    BY <1>4, <2>1, <2>3, <2>4
  <2> QED
    BY <1>2, <2>2, <2>5
<1>6. NonePruned(r)'
  <2>1. queued[r] \cap out = {}
    BY <1>2, <1>3 DEF NonePruned, NoneBefore
  <2> QED
    BY <1>2, <1>4, <2>1 DEF NonePruned
<1>7. NoneMissed(r)'
  <2> SUFFICES ASSUME NEW k \in ToSet(graph.nodes) \ (queued[r] \cup freed \cup out),
                      NEW m \in Predecessors(k) \cap done,
                      Predecessors(k) \subseteq done \cup out
               PROVE  FALSE
    BY <1>2, GraphKept DEF NoneMissed
  <2>1. n \notin Predecessors(k)
    BY <1>4
  <2>2. m \in executed[r] /\ m # n
    BY <1>1, <2>1
  <2>3. PICK p \in Predecessors(k) : p \notin executed[r] \cup pruned[r]
    BY <1>3, <2>2 DEF NoneMissed
  <2>4. p \in out \ pruned[r]
    BY <1>1, <2>1, <2>3
  <2>5. n \in Decisions /\ \E c \in BOOLEAN : p \in graph.branch[n][c]
    BY <1>3, <2>4
  <2>6. PICK c \in BOOLEAN : p \in graph.branch[n][c]
    BY <2>5
  <2>7. \/ m \in {n} \cup graph.branch[n][TRUE] \cup graph.branch[n][FALSE]
        \/ \E e \in Decisions, x \in BOOLEAN : n \in graph.branch[e][x] /\ m \in graph.branch[e][~x]
    BY <2>3, <2>5, <2>6 DEF Orderly, BranchesAreJoined
  <2>8. \A x \in BOOLEAN : m \notin graph.branch[n][x]
    BY <1>2, <2>2, <2>5 DEF NoneBefore
  <2>9. PICK e \in Decisions, x \in BOOLEAN : n \in graph.branch[e][x] /\ m \in graph.branch[e][~x]
    BY <2>2, <2>7, <2>8
  <2>10. e \in executed[r]
    BY <1>2, <2>2, <2>9 DEF NoneBefore
  <2>11. graph.branch[e][~answer[r][e]] \subseteq pruned[r] /\ answer[r][e] \in BOOLEAN
    BY <2>10 DEF Books, Excluded
  <2>12. n \notin pruned[r] /\ m \notin pruned[r]
    BY <1>2, <2>2 DEF NonePruned
  <2>13. CASE answer[r][e] = x
    BY <2>9, <2>11, <2>12, <2>13, Zenon
  <2>14. CASE answer[r][e] = ~x
    <3>1. graph.branch[e][~(~x)] \subseteq pruned[r]
      BY <2>11, <2>14, Zenon
    <3>2. (~(~x)) = x
      OBVIOUS
    <3> QED
      BY <2>9, <2>12, <3>1, <3>2, Zenon
  <2> QED
    BY <2>11, <2>13, <2>14
<1> QED
  BY <1>5, <1>6, <1>7

LEMMA LeaveWhole ==
  ASSUME Inv, WholeInv, NEW r \in Runs, FinishTask(r) \/ Decide(r) PROVE WholeInv'
<1>1. pc[r] \in Busy /\ Books(r) /\ WholeRun(r)
  BY DEF FinishTask, Decide, Busy, WholeInv, WholeRun
<1>2. PICK out : Leave(r, out) /\ Answers(r, node[r], out)
  <2>1. CASE FinishTask(r)
    BY <1>1, <2>1 DEF FinishTask, ghosts, Answers, Books
  <2>2. CASE Decide(r)
    <3>1. node[r] \in Decisions
      BY <2>2 DEF Decide, Inv, BusyWithNode
    <3>2. PICK yes \in BOOLEAN :
            /\ answer' = [answer EXCEPT ![r] = [d \in DOMAIN answer[r] \cup {node[r]} |->
                                                   IF d = node[r] THEN yes ELSE answer[r][d]]]
            /\ Leave(r, pruned[r] \cup graph.branch[node[r]][~yes])
      BY <2>2 DEF Decide
    <3>3. answer'[r] = [d \in DOMAIN answer[r] \cup {node[r]} |->
                           IF d = node[r] THEN yes ELSE answer[r][d]]
      BY <3>2 DEF Inv, TypeOK
    <3> QED
      BY <3>1, <3>2, <3>3 DEF Answers
  <2> QED
    BY <2>1, <2>2
<1>3. Books(r)'
  BY <1>1, <1>2, LeaveBooks
<1>4. Orderly => NoneBefore(r)' /\ NonePruned(r)' /\ NoneMissed(r)'
  BY <1>1, <1>2, LeaveSettles DEF WholeRun
<1>5. /\ graph' = graph
      /\ \A s \in Runs \ {r} :
           /\ pc'[s] = pc[s] /\ node'[s] = node[s] /\ queue'[s] = queue[s]
           /\ queued'[s] = queued[s] /\ executed'[s] = executed[s] /\ pruned'[s] = pruned[s]
  BY <1>1, <1>2, LeftIs
<1>6. \A s \in Runs \ {r} : answer'[s] = answer[s]
  BY DEF FinishTask, Decide, ghosts, Inv, TypeOK
<1>7. Orderly' = Orderly
  BY <1>5, GraphKept
<1>8. WholeRun(r)'
  BY <1>3, <1>4, <1>7 DEF WholeRun
<1> QED
  BY <1>5, <1>6, <1>8, OthersKept

LEMMA NextWhole == Inv /\ WholeInv /\ [Next]_vars => WholeInv'
<1> SUFFICES ASSUME Inv, WholeInv, [Next]_vars PROVE WholeInv'
  OBVIOUS
<1>1. CASE Next
  <2>1. PICK r \in Runs : Start(r) \/ Advance(r) \/ Fail(r)
    BY <1>1 DEF Next
  <2>2. CASE Advance(r)
    BY <2>2, PopWhole, LeaveWhole, EndWhole DEF Advance
  <2> QED
    BY <2>1, <2>2, StartWhole, EndWhole
<1>2. CASE UNCHANGED vars
  <2>1. ASSUME NEW r \in Runs PROVE WholeRun(r)'
    BY <1>2, RunKept DEF vars, locals, ghosts, WholeInv
  <2> QED
    BY <2>1 DEF WholeInv
<1> QED
  BY <1>1, <1>2

LEMMA ExecutedIsReached ==
  ASSUME TypeOK, NEW r \in Runs, Books(r), executed[r] \subseteq queued[r]
  PROVE  executed[r] \subseteq Chosen(r)
<1> DEFINE n == Len(graph.nodes)
<1>1. n \in Nat /\ IsFiniteSet(ToSet(graph.nodes)) /\ Cardinality(ToSet(graph.nodes)) <= n
  <2>1. graph.nodes \in Seq(Nodes) /\ n \in Nat
    BY DEF TypeOK, GraphType
  <2>2. IsFiniteSet(1..n) /\ Cardinality(1..n) = n
    <3> HIDE DEF n
    <3> QED
      BY <2>1, FS_Interval
  <2>3. ToSet(graph.nodes) = {graph.nodes[i] : i \in 1..n}
    BY <2>1 DEF ToSet
  <2> DEFINE at == [i \in 1..n |-> graph.nodes[i]]
  <2>4. at \in [1..n -> ToSet(graph.nodes)] /\ at \in Surjection(1..n, ToSet(graph.nodes))
    BY <2>3 DEF Surjection
  <2> HIDE DEF n, at
  <2> QED
    BY <2>1, <2>2, <2>4, FS_Surjection
<1>2. Cardinality(executed[r]) \in Nat /\ Cardinality(executed[r]) <= n
  <2>1. executed[r] \subseteq ToSet(graph.nodes)
    BY DEF Books
  <2>2. IsFiniteSet(executed[r]) /\ Cardinality(executed[r]) <= Cardinality(ToSet(graph.nodes))
    BY <1>1, <2>1, FS_Subset
  <2> HIDE DEF n
  <2> QED
    BY <1>1, <2>2, FS_CardinalityType
<1>3. PICK f : /\ f[0] = First
               /\ \A k \in 1..n : f[k] = Led(r, f[k - 1])
               /\ Chosen(r) = f[n]
  BY ChosenIsReached
<1>4. PICK level : IsLevel(r, level)
  BY DEF Books
<1>5. /\ level \in [queued[r] -> Nat]
      /\ \A m \in queued[r] :
           /\ level[m] <= Cardinality(executed[r])
           /\ \/ m \in First
              \/ \E l \in executed[r] : level[l] < level[m] /\ Leads(r, l, m)
  BY <1>4 DEF IsLevel, First, Books
<1>6. queued[r] \subseteq ToSet(graph.nodes)
  BY DEF Books
<1> DEFINE Q == {k \in 0..n : First \cup {m \in queued[r] : level[m] <= k} \subseteq f[k]}
<1> HIDE DEF n
<1>7. 0 \in Q
  BY <1>1, <1>3, <1>5
<1>8. ASSUME NEW k \in 1..n, k - 1 \in Q PROVE k \in Q
  <2>1. f[k] = f[k - 1] \cup {m \in ToSet(graph.nodes) : \E l \in f[k - 1] : Leads(r, l, m)}
    BY <1>3 DEF Led
  <2>2. First \subseteq f[k - 1] /\ \A m \in queued[r] : level[m] <= k - 1 => m \in f[k - 1]
    BY <1>8
  <2>3. ASSUME NEW m \in queued[r], level[m] <= k, m \notin First PROVE m \in f[k]
    <3>1. PICK l \in executed[r] : level[l] < level[m] /\ Leads(r, l, m)
      BY <1>5, <2>3
    <3>2. l \in queued[r] /\ level[l] \in Nat /\ level[m] \in Nat
      BY <1>5
    <3>3. level[l] <= k - 1
      BY <2>3, <3>1, <3>2
    <3> QED
      BY <1>6, <2>1, <2>2, <3>1, <3>2, <3>3
  <2>4. k \in 0..n
    BY <1>1
  <2> QED
    BY <2>1, <2>2, <2>3, <2>4
<1>9. n \in Q
  <2> HIDE DEF Q
  <2>1. 0..n \subseteq Q
    BY <1>1, <1>7, <1>8, UpwardInduction
  <2> QED
    BY <1>1, <2>1
<1>10. \A m \in queued[r] : level[m] <= n
  BY <1>1, <1>2, <1>5
<1> QED
  BY <1>3, <1>9, <1>10

(* In an orderly graph a run that returns has settled every node: of those  *)
(* it has not there is one that waits for settled ones only.                *)
LEMMA AllIsSettled ==
  ASSUME NEW r \in Runs, WholeRun(r), Orderly, pc[r] = "returned"
  PROVE  ToSet(graph.nodes) \subseteq executed[r] \cup pruned[r]
<1> DEFINE rest == ToSet(graph.nodes) \ (executed[r] \cup pruned[r])
<1> SUFFICES ASSUME rest # {} PROVE FALSE
  OBVIOUS
<1>1. PICK n \in rest : Predecessors(n) \cap rest = {}
  BY DEF Orderly, Acyclic
<1>2. queued[r] = executed[r] /\ First \subseteq executed[r]
  BY DEF WholeRun, Books
<1>3. n \in ToSet(graph.nodes) /\ n \notin executed[r] /\ n \notin pruned[r] /\ ~Starting(n)
  BY <1>2 DEF First
<1>4. Predecessors(n) \subseteq executed[r] \cup pruned[r]
  BY <1>1 DEF Predecessors
<1>5. Predecessors(n) \cap executed[r] = {}
  BY <1>2, <1>3, <1>4 DEF WholeRun, NoneMissed
<1>6. Predecessors(n) \subseteq Excluded(answer[r])
  BY <1>4, <1>5 DEF WholeRun, Books
<1>7. n \in Excluded(answer[r])
  <2>1. executed[r] \cap Decisions \in SUBSET Decisions
    OBVIOUS
  <2>2. answer[r] \in [executed[r] \cap Decisions -> BOOLEAN]
    BY DEF WholeRun, Books
  <2> QED
    BY <1>3, <1>6, <2>1, <2>2 DEF Orderly, BranchesAreWhole
<1> QED
  BY <1>3, <1>7 DEF WholeRun, Books

(* ... and has executed what its decisions lead to: that is settled, and is *)
(* not pruned, since a branch is entered at its decision only.              *)
LEMMA LedIsExecuted ==
  ASSUME NEW r \in Runs, WholeRun(r), Orderly, pc[r] = "returned",
         NEW m \in executed[r], NEW n \in ToSet(graph.nodes), Leads(r, m, n)
  PROVE  n \in executed[r]
<1> SUFFICES ASSUME n \notin executed[r] PROVE FALSE
  OBVIOUS
<1>1. queued[r] = executed[r] /\ executed[r] \cap pruned[r] = {}
  BY DEF WholeRun, Books, NonePruned
<1>2. n \in Excluded(answer[r])
  BY AllIsSettled DEF WholeRun, Books
<1>3. PICK d \in DOMAIN answer[r] : n \in graph.branch[d][~answer[r][d]]
  BY <1>2 DEF Excluded
<1>4. d \in Decisions /\ (~answer[r][d]) \in BOOLEAN
  BY <1>3 DEF WholeRun, Books
<1>5. Predecessors(n) \subseteq {d} \cup graph.branch[d][~answer[r][d]]
  BY <1>3, <1>4 DEF Orderly, BranchesAreClosed
<1>6. m \in Predecessors(n)
  BY <1>1 DEF Predecessors, Leads, WholeRun, Books
<1>7. m # d
  BY <1>3 DEF Leads
<1>8. graph.branch[d][~answer[r][d]] \subseteq pruned[r]
  BY <1>3 DEF WholeRun, Books, Excluded
<1> QED
  BY <1>1, <1>5, <1>6, <1>7, <1>8

LEMMA ChosenIsReturned ==
  ASSUME TypeOK, NEW r \in Runs, WholeRun(r), Orderly, pc[r] = "returned"
  PROVE  Chosen(r) \subseteq executed[r]
<1> DEFINE n == Len(graph.nodes)
<1>1. n \in Nat
  BY DEF TypeOK, GraphType
<1>2. PICK f : /\ f[0] = First
               /\ \A k \in 1..n : f[k] = Led(r, f[k - 1])
               /\ Chosen(r) = f[n]
  BY ChosenIsReached
<1> DEFINE Q == {k \in 0..n : f[k] \subseteq executed[r]}
<1> HIDE DEF n
<1>3. 0 \in Q
  BY <1>1, <1>2 DEF WholeRun, Books
<1>4. ASSUME NEW k \in 1..n, k - 1 \in Q PROVE k \in Q
  <2>1. f[k] = f[k - 1] \cup {m \in ToSet(graph.nodes) : \E l \in f[k - 1] : Leads(r, l, m)}
    BY <1>2 DEF Led
  <2>2. f[k - 1] \subseteq executed[r] /\ k \in 0..n
    BY <1>1, <1>4
  <2> QED
    BY <2>1, <2>2, LedIsExecuted
<1>5. n \in Q
  <2> HIDE DEF Q
  <2>1. 0..n \subseteq Q
    BY <1>1, <1>3, <1>4, UpwardInduction
  <2> QED
    BY <1>1, <2>1
<1> QED
  BY <1>2, <1>5

LEMMA WholeAlways == Spec => [](Inv /\ WholeInv)
<1>1. Init => Inv /\ WholeInv
  BY InitInv, WholeStarts
<1>2. (Inv /\ WholeInv) /\ [Next]_vars => (Inv /\ WholeInv)'
  BY NextInv, NextWhole
<1> QED
  BY <1>1, <1>2, PTL DEF Spec

(* In any graph, and however runs overlap, a run executes only what its     *)
(* decisions lead to (graph.py 735-864).                                    *)
OnlyChosenIsExecuted == \A r \in Runs : executed[r] \subseteq Chosen(r)

THEOREM ExecutedWasChosen == Spec => []OnlyChosenIsExecuted
<1>1. Inv /\ WholeInv => OnlyChosenIsExecuted
  BY ExecutedIsReached DEF Inv, WaitsForQueue, RunWaits, WholeInv, WholeRun, OnlyChosenIsExecuted
<1> QED
  BY WholeAlways, <1>1, PTL

(* In an orderly graph a run that returns executed all of it, and left no   *)
(* node out (graph.py 287-303, 735-864).                                    *)
THEOREM OrderlyRunsAreWhole == Spec => [](Orderly => ChosenIsExecuted /\ NothingIsLeftOut)
<1>1. Inv /\ WholeInv => (Orderly => ChosenIsExecuted /\ NothingIsLeftOut)
  <2> SUFFICES ASSUME Inv, WholeInv, Orderly, NEW r \in Runs, pc[r] = "returned"
               PROVE  /\ executed[r] = Chosen(r)
                      /\ ToSet(graph.nodes) \subseteq executed[r] \cup pruned[r]
    BY DEF ChosenIsExecuted, NothingIsLeftOut
  <2>1. TypeOK /\ WholeRun(r) /\ Books(r) /\ executed[r] \subseteq queued[r]
    BY DEF Inv, WaitsForQueue, RunWaits, WholeInv, WholeRun
  <2> QED
    BY <2>1, ExecutedIsReached, ChosenIsReturned, AllIsSettled
<1> QED
  BY WholeAlways, <1>1, PTL
=============================================================================
