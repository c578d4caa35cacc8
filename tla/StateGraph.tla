----------------------------- MODULE StateGraph -----------------------------
(***************************************************************************)
(* A compiled StateGraph (graphv2) on one thread_id: invocations that run  *)
(* supersteps, checkpoints under the three durability modes, interrupts,   *)
(* failures and what a later invocation continues from.                    *)
(*                                                                         *)
(* The state dictionary is the sequence of what was merged into it: inputs *)
(* and results of nodes.  Routing functions are pure, so the edge taken    *)
(* behind a node is part of its result.                                    *)
(***************************************************************************)
EXTENDS Integers, Sequences, FiniteSets, SequencesExt

CONSTANTS
    Nodes, START, END,
    None,           \* no Command(goto)
    SendObject,     \* a Send where the name of a node is expected
    Graphs,         \* the graphs considered
    Durabilities,   \* the durability modes considered
    Calls,          \* invocations that may overlap
    Savers,         \* the checkpointers considered
    Blocking,       \* invoke(), which joins the executor, not ainvoke()
    RecursionLimit,
    MaxInvocations, MaxFaults, MaxEdits  \* bounds

VARIABLES
    graph, durability, saver,
    stored,       \* the checkpointer's checkpoints, the last one put first
    writing,      \* per call, checkpoints handed to the executor
    pending,      \* _pending_checkpoints
    made,         \* checkpoints made so far
    call,         \* per call, its context
    invocations, faults,
    edits,        \* edits, and returns to an old checkpoint
    forked        \* somebody went on from a checkpoint that was not the latest,
                  \* or came in, or edited, while an invocation was in progress

config == <<graph, durability, saver>>
checkpoints == <<stored, writing, pending, made>>
bounds == <<invocations, faults, edits, forked>>
vars == <<config, checkpoints, call, bounds>>
-----------------------------------------------------------------------------
Targets == Nodes \cup {START, END, SendObject}

(* Where a node leads: nodes, or Sends, each to another node.               *)
Route ==
    [to : SUBSET (Nodes \cup {END}), send : {FALSE}] \cup [to : SUBSET Nodes, send : {TRUE}]

(* entry: the edges from START; edges: the routes the edges of a node allow; *)
(* gotos: those of its Commands; before, after: the interrupts of compile();*)
(* questions: calls of interrupt() in a node; attempts: of its RetryPolicy. *)
GraphType == [entry : SUBSET Nodes, edges : [Nodes -> SUBSET Route],
              gotos : [Nodes -> SUBSET Route],
              before : SUBSET Nodes, after : SUBSET Nodes,
              questions : [Nodes -> Nat], attempts : [Nodes -> Nat]]

ASSUME NodesAssumption ==
    /\ IsFiniteSet(Nodes)
    /\ START \notin Nodes /\ END \notin Nodes /\ START # END
ASSUME GraphsAssumption == Graphs \subseteq GraphType
ASSUME DurabilitiesAssumption == Durabilities \subseteq {"sync", "async", "exit"}
ASSUME SaversAssumption == Savers \subseteq {"memory", "sqlite"}
ASSUME BlockingAssumption == Blocking \in BOOLEAN
ASSUME LimitAssumption == RecursionLimit \in Nat

(* A node that executes, with a state of its own (Send) or without.         *)
Task == Nodes \X BOOLEAN
Input == <<START, FALSE>>
Merged == Task \cup {Input}
Result == [task : Task, route : Route, goto : Route \cup {None}]

Kinds == {"step", "parallel", "before", "after", "inside", "failed", "resumed"}
CheckpointType == [state : Seq(Merged), next : SUBSET Targets, kind : Kinds,
                   edited : BOOLEAN, at : Nat, parent : Nat]

Outcomes == {"running", "finished", "interrupted", "failed", "limit"}
CallType ==
    [pc : {"idle", "loop", "exec", "closing"}, outcome : Outcomes,
     entry : Seq(Merged), state : Seq(Merged), cur : SUBSET Targets,
     mode : {"nodes", "resume", "send"},
     todo : SUBSET (Task \X Nat),         \* what executes, and its attempt
     got : SUBSET Result, broken : BOOLEAN,
     also : SUBSET Targets,               \* nodes next to those behind Sends
     steps : Nat, parent : Nat, command : BOOLEAN, answers : Nat]

IdleCall ==
    [pc |-> "idle", outcome |-> "running", entry |-> <<>>, state |-> <<>>,
     cur |-> {}, mode |-> "nodes", todo |-> {}, got |-> {}, broken |-> FALSE,
     also |-> {}, steps |-> 0, parent |-> 0, command |-> FALSE, answers |-> 0]

Init ==
    /\ graph \in Graphs
    /\ durability \in Durabilities
    /\ saver \in Savers
    /\ stored = <<>>
    /\ writing = [c \in Calls |-> {}]
    /\ pending = <<>>
    /\ made = 0
    /\ call = [c \in Calls |-> IdleCall]
    /\ invocations = 0 /\ faults = 0 /\ edits = 0
    /\ forked = FALSE
-----------------------------------------------------------------------------
(* Checkpoints.                                                             *)

Newest(cps) == CHOOSE cp \in cps : \A other \in cps : other.at <= cp.at

(* Mutant: SQLite's rows in ascending order.                                *)
Oldest == IF saver = "sqlite"
          THEN CHOOSE cp \in ToSet(stored) : \A other \in ToSet(stored) : cp.at <= other.at
          ELSE Head(stored)

(* get() without checkpoint_id: SqliteCheckpointer goes by the timestamp,    *)
(* MemorySaver by the order of put().                                       *)
Latest == IF saver = "sqlite" THEN Newest(ToSet(stored)) ELSE Head(stored)

Checkpoint(c, kind, state, next) ==
    [state |-> state, next |-> next, kind |-> kind, edited |-> FALSE,
     at |-> made + 1, parent |-> call[c].parent]

(* _save_checkpoint: put at once, in every mode.                            *)
Put(cp) ==
    /\ stored' = <<cp>> \o stored
    /\ made' = made + 1
    /\ UNCHANGED <<writing, pending>>

(* Mutant: at exit only the first checkpoint is kept.                       *)
PutFirst(c, cp) ==
    /\ made' = made + 1
    /\ \/ durability = "sync" /\ stored' = <<cp>> \o stored /\ UNCHANGED <<writing, pending>>
       \/ durability = "async" /\ writing' = [writing EXCEPT ![c] = @ \cup {cp}]
                               /\ UNCHANGED <<stored, pending>>
       \/ durability = "exit" /\ pending' = (IF pending = <<>> THEN <<cp>> ELSE pending)
                              /\ UNCHANGED <<stored, writing>>

(* _save_checkpoint_with_durability.                                        *)
PutDurably(c, cp) ==
    /\ made' = made + 1
    /\ \/ durability = "sync" /\ stored' = <<cp>> \o stored /\ UNCHANGED <<writing, pending>>
       \/ durability = "async" /\ writing' = [writing EXCEPT ![c] = @ \cup {cp}]
                               /\ UNCHANGED <<stored, pending>>
       \/ durability = "exit" /\ pending' = Append(pending, cp)
                              /\ UNCHANGED <<stored, writing>>

(* A thread of the executor, in any order.                                  *)
Write(c) ==
    \E cp \in writing[c] :
        /\ stored' = <<cp>> \o stored
        /\ writing' = [writing EXCEPT ![c] = @ \ {cp}]
        /\ UNCHANGED <<config, pending, made, call, bounds>>

-----------------------------------------------------------------------------
(* Calls of ainvoke().                                                      *)

Entering(c, state, next, parent) ==
    [IdleCall EXCEPT !.pc = "loop", !.entry = state, !.state = state,
                     !.cur = next, !.parent = parent]

MayEnter(c) ==
    /\ call[c].pc = "idle"
    /\ invocations < MaxInvocations
    /\ durability = "exit" => \A d \in Calls : call[d].pc = "idle"

Enter(c, context, cp) ==
    /\ call' = [call EXCEPT ![c] = context]
    /\ invocations' = invocations + 1
    /\ cp # Latest => edits < MaxEdits
    /\ edits' = IF cp = Latest THEN edits ELSE edits + 1
    /\ forked' = (forked \/ cp # Latest \/ \E d \in Calls \ {c} : call[d].pc # "idle")
    /\ UNCHANGED <<config, checkpoints, faults>>

InvokeFresh(c) ==
    /\ MayEnter(c)
    /\ stored = <<>>
    /\ call' = [call EXCEPT ![c] = Entering(c, <<Input>>, {START}, 0)]
    /\ invocations' = invocations + 1
    /\ forked' = (forked \/ \E d \in Calls \ {c} : call[d].pc # "idle")
    /\ UNCHANGED <<config, checkpoints, faults, edits>>

(* New input for a thread: a finished one starts again, another goes on.    *)
InvokeInput(c) ==
    /\ MayEnter(c)
    /\ \E cp \in ToSet(stored) :
         Enter(c, Entering(c, Append(cp.state, Input),
                           IF END \in cp.next THEN {START} ELSE cp.next, cp.at), cp)

(* invoke(None) resumes from a failure.                                     *)
InvokeNone(c) ==
    /\ MayEnter(c)
    /\ \E cp \in ToSet(stored) : Enter(c, Entering(c, cp.state, cp.next, cp.at), cp)

(* _resume_from_interrupt of an interrupted thread: at an interrupt of      *)
(* compile() that nobody has edited the loop goes on; elsewhere the first   *)
(* of the next nodes is executed with the answers, without the policies.    *)
InvokeCommand(c, answers) ==
    /\ MayEnter(c)
    /\ \E cp \in {x \in ToSet(stored) : x.kind \in {"before", "after", "inside"}} :
         LET context == [Entering(c, cp.state, cp.next, cp.at) EXCEPT !.command = TRUE]
             goesOn == cp.kind # "inside" /\ ~cp.edited
         IN \/ goesOn /\ Enter(c, context, cp)
            \/ /\ ~goesOn
               /\ \E n \in cp.next \cap Nodes :
                    Enter(c, [context EXCEPT !.pc = "exec", !.mode = "resume",
                                             !.todo = {<<<<n, FALSE>>, 1>>},
                                             !.answers = answers], cp)

(* update_state: a new checkpoint, which does not say how the last came     *)
(* about.                                                                   *)
UpdateState ==
    /\ edits < MaxEdits
    /\ stored # <<>>
    /\ Put([Latest EXCEPT !.edited = TRUE, !.at = made + 1, !.parent = Latest.at])
    /\ edits' = edits + 1
    /\ forked' = (forked \/ \E c \in Calls : call[c].pc # "idle")
    /\ UNCHANGED <<config, call, invocations, faults>>

Stop(c, outcome) == [call[c] EXCEPT !.pc = "closing", !.outcome = outcome,
                                    !.todo = {}, !.got = {}, !.also = {}]

(* The end of ainvoke(), and of invoke(), whose event loop waits for the    *)
(* executor.  An error of a Command leaves the pending checkpoints behind.  *)
Return(c) ==
    /\ call[c].pc = "closing"
    /\ Blocking => writing[c] = {}
    /\ IF durability = "exit"
          /\ ~(call[c].command /\ call[c].outcome \in {"failed", "limit"})
       THEN stored' = Reverse(pending) \o stored /\ pending' = <<>>
       ELSE UNCHANGED <<stored, pending>>
    /\ call' = [call EXCEPT ![c] = IdleCall]
    /\ UNCHANGED <<config, writing, made, bounds>>

(* The state an interrupted call returns: that of the latest checkpoint if  *)
(* it was a Command, otherwise the one it began with.                       *)
ShownState(c) == IF call[c].command THEN Latest'.state ELSE call[c].entry

-----------------------------------------------------------------------------
(* _execute_graph: the loop.                                                *)

Looping(c) == call[c].pc = "loop" /\ call[c].steps < RecursionLimit

HitLimit(c) ==
    /\ call[c].pc = "loop"
    /\ call[c].steps >= RecursionLimit
    /\ call' = [call EXCEPT ![c] = Stop(c, "limit")]
    /\ UNCHANGED <<config, checkpoints, bounds>>

FromStart(c) ==
    /\ Looping(c)
    /\ START \in call[c].cur
    /\ call' = [call EXCEPT ![c].cur = graph.entry, ![c].steps = @ + 1]
    /\ UNCHANGED <<config, checkpoints, bounds>>

(* END among the next nodes ends the loop, whatever else is among them.     *)
ReachEnd(c) ==
    /\ Looping(c)
    /\ START \notin call[c].cur
    /\ END \in call[c].cur
    /\ call' = [call EXCEPT ![c] = Stop(c, "finished")]
    /\ UNCHANGED <<config, checkpoints, bounds>>

(* A resumed node led to Sends: they stand where names are looked up.       *)
LookUpSend(c) ==
    /\ Looping(c)
    /\ SendObject \in call[c].cur
    /\ call' = [call EXCEPT ![c] = Stop(c, "failed")]
    /\ UNCHANGED <<config, checkpoints, bounds>>

InterruptBefore(c) ==
    /\ Looping(c)
    /\ \E n \in graph.before : call[c].cur = {n}
    /\ Put(Checkpoint(c, "before", call[c].state, call[c].cur))
    /\ call' = [call EXCEPT ![c] = Stop(c, "interrupted")]
    /\ UNCHANGED <<config, bounds>>

Begin(c) ==
    /\ Looping(c)
    /\ call[c].cur # {} /\ call[c].cur \subseteq Nodes
    /\ \A n \in graph.before : call[c].cur # {n}
    /\ call' = [call EXCEPT ![c].pc = "exec", ![c].mode = "nodes",
                            ![c].todo = {<<<<n, FALSE>>, 1>> : n \in call[c].cur},
                            ![c].steps = @ + 1]
    /\ UNCHANGED <<config, checkpoints, bounds>>

-----------------------------------------------------------------------------
(* Nodes.  Those of a superstep, and Sends, execute side by side; each sees *)
(* the state of before.  A node that is resumed gets answers, is tried once *)
(* and fails when it asks more.                                             *)

Node(t) == t[1][1]

Attempts(c, n) == IF call[c].mode = "resume" THEN 1 ELSE graph.attempts[n]

Done(c, t, result) ==
    /\ call[c].pc = "exec"
    /\ t \in call[c].todo
    /\ call' = [call EXCEPT ![c].todo = @ \ {t}, ![c].got = @ \cup {result}]
    /\ UNCHANGED <<config, checkpoints, bounds>>

Succeed(c) ==
    \E t \in call[c].todo :
        /\ graph.questions[Node(t)] <= call[c].answers
        /\ \E route \in graph.edges[Node(t)], goto \in graph.gotos[Node(t)] \cup {None} :
              Done(c, t, [task |-> t[1], route |-> route, goto |-> goto])

(* An exception of a node that is not tried again.                          *)
Raised(c, t) == t[2] >= Attempts(c, Node(t))

(* The retry policy makes no difference between a failure and interrupt().  *)
TryAgain(c, t) ==
    /\ ~Raised(c, t)
    /\ call' = [call EXCEPT ![c].todo = (@ \ {t}) \cup {<<t[1], t[2] + 1>>}]
    /\ UNCHANGED checkpoints

(* A node that executes alone leaves a checkpoint to execute it again from. *)
Alone(c) == call[c].mode = "nodes" /\ Cardinality(call[c].cur) = 1

RaiseAlone(c, t, kind, outcome) ==
    /\ Raised(c, t)
    /\ Alone(c)
    /\ Put(Checkpoint(c, kind, call[c].state, {Node(t)}))
    /\ call' = [call EXCEPT ![c] = Stop(c, outcome)]

(* The others of a superstep go on; their results will be dropped.          *)
RaiseAmong(c, t) ==
    /\ Raised(c, t)
    /\ ~Alone(c)
    /\ call' = [call EXCEPT ![c].todo = @ \ {t}, ![c].broken = TRUE]
    /\ UNCHANGED checkpoints

Fail(c) ==
    /\ call[c].pc = "exec"
    /\ faults < MaxFaults
    /\ \E t \in call[c].todo :
          TryAgain(c, t) \/ RaiseAlone(c, t, "failed", "failed") \/ RaiseAmong(c, t)
    /\ faults' = faults + 1
    /\ UNCHANGED <<config, invocations, edits, forked>>

Ask(c) ==
    /\ call[c].pc = "exec"
    /\ \E t \in call[c].todo :
          /\ graph.questions[Node(t)] > call[c].answers
          /\ TryAgain(c, t) \/ RaiseAlone(c, t, "inside", "interrupted") \/ RaiseAmong(c, t)
    /\ UNCHANGED <<config, bounds>>

(* Mutant: errors of Sends are gathered and not looked at.                  *)
GiveUpButSends(c) ==
    /\ call[c].pc = "exec"
    /\ call[c].todo = {}
    /\ call[c].broken
    /\ call[c].mode # "send"
    /\ call' = [call EXCEPT ![c] = Stop(c, "failed")]
    /\ UNCHANGED <<config, checkpoints, bounds>>

(* A superstep, a round of Sends or a resumed node of which some raised.    *)
GiveUp(c) ==
    /\ call[c].pc = "exec"
    /\ call[c].todo = {}
    /\ call[c].broken
    /\ call' = [call EXCEPT ![c] = Stop(c, "failed")]
    /\ UNCHANGED <<config, checkpoints, bounds>>

-----------------------------------------------------------------------------
(* What nodes return is merged, and the next nodes are determined.          *)

MergedState(c) == call[c].state \o SetToSeq({r.task : r \in call[c].got})

Merging(c, mode) ==
    /\ call[c].pc = "exec"
    /\ call[c].mode = mode
    /\ call[c].todo = {}
    /\ ~call[c].broken

(* The route of a result by its Command, or by the edges of its node.       *)
Chosen(r) == IF r.goto = None THEN r.route ELSE r.goto

(* Nodes next to the routes; if Sends are among them, they go first.        *)
Proceed(c, state, routes, parent) ==
    LET plain == UNION {r.to : r \in {x \in routes : ~x.send}}
        sent == UNION {r.to : r \in {x \in routes : x.send}}
        next == [call[c] EXCEPT !.state = state, !.parent = parent, !.got = {}]
    IN call' = [call EXCEPT ![c] =
           IF sent = {}
           THEN [next EXCEPT !.pc = "loop", !.cur = IF plain = {} THEN {END} ELSE plain]
           ELSE [next EXCEPT !.mode = "send", !.also = plain,
                             !.todo = {<<<<n, TRUE>>, 1>> : n \in sent}]]

(* A checkpoint has the names of the nodes that Sends go to.                *)
Names(routes) == UNION {r.to : r \in routes}

FinishNode(c) ==
    /\ Merging(c, "nodes")
    /\ Alone(c)
    /\ \E r \in call[c].got :
          LET state == MergedState(c)
              next == Names({Chosen(r)})
          IN IF r.task[1] \in graph.after
             THEN /\ Put(Checkpoint(c, "after", state, next))
                  /\ call' = [call EXCEPT ![c] = Stop(c, "interrupted")]
             ELSE /\ PutDurably(c, Checkpoint(c, "step", state, next))
                  /\ Proceed(c, state, {Chosen(r)}, made + 1)
    /\ UNCHANGED <<config, bounds>>

(* Mutant: the checkpoint has the nodes that were executed.                  *)
FinishParallelAgain(c) ==
    /\ Merging(c, "nodes")
    /\ ~Alone(c)
    /\ LET routes == {r.route : r \in call[c].got}
       IN /\ Put(Checkpoint(c, "parallel", MergedState(c), call[c].cur))
          /\ Proceed(c, MergedState(c), routes, made + 1)
    /\ UNCHANGED <<config, bounds>>

(* A Command among parallel nodes updates the state; its goto is not read.  *)
FinishParallel(c) ==
    /\ Merging(c, "nodes")
    /\ ~Alone(c)
    /\ LET routes == {r.route : r \in call[c].got}
       IN /\ Put(Checkpoint(c, "parallel", MergedState(c), Names(routes)))
          /\ Proceed(c, MergedState(c), routes, made + 1)
    /\ UNCHANGED <<config, bounds>>

(* Sends leave no checkpoint.  Sends behind Sends are not followed.         *)
FinishSends(c) ==
    /\ Merging(c, "send")
    /\ LET routes == {r.route : r \in call[c].got}
           plain == {x \in routes : ~x.send} \cup {[to |-> call[c].also, send |-> FALSE]}
       IN Proceed(c, MergedState(c), plain, call[c].parent)
    /\ UNCHANGED <<config, checkpoints, bounds>>

(* Sends behind a resumed node are kept as they are, which SQLite refuses.  *)
FinishResumed(c) ==
    /\ Merging(c, "resume")
    /\ \E r \in call[c].got :
          LET next == IF Chosen(r).send THEN {SendObject} ELSE Chosen(r).to
          IN \/ /\ SendObject \in next /\ saver = "sqlite"
                /\ call' = [call EXCEPT ![c] = Stop(c, "failed")]
                /\ UNCHANGED checkpoints
             \/ /\ SendObject \notin next \/ saver = "memory"
                /\ Put(Checkpoint(c, "resumed", MergedState(c), next))
                /\ call' = [call EXCEPT ![c].pc = "loop", ![c].cur = next, ![c].got = {},
                                        ![c].state = MergedState(c),
                                        ![c].parent = made + 1, ![c].answers = 0]
    /\ UNCHANGED <<config, bounds>>

-----------------------------------------------------------------------------
(* The process ends; what MemorySaver holds goes with it.                   *)
Crash ==
    /\ faults < MaxFaults
    /\ \E c \in Calls : call[c].pc # "idle"
    /\ call' = [c \in Calls |-> IdleCall]
    /\ stored' = IF saver = "sqlite" THEN stored ELSE <<>>
    /\ writing' = [c \in Calls |-> {}]
    /\ pending' = <<>>
    /\ faults' = faults + 1
    /\ UNCHANGED <<config, made, invocations, edits, forked>>

Invoke(c) ==
    \/ InvokeFresh(c)
    \/ InvokeInput(c)
    \/ InvokeNone(c)
    \/ \E answers \in 1..2 : InvokeCommand(c, answers)

(* What the process does once a call is made.                               *)
Advance(c) ==
    \/ HitLimit(c) \/ FromStart(c) \/ ReachEnd(c) \/ LookUpSend(c)
    \/ InterruptBefore(c) \/ Begin(c)
    \/ Succeed(c) \/ Ask(c) \/ GiveUp(c)
    \/ FinishNode(c) \/ FinishParallel(c) \/ FinishSends(c) \/ FinishResumed(c)
    \/ Return(c)

Next ==
    \/ \E c \in Calls : Invoke(c) \/ Advance(c) \/ Fail(c) \/ Write(c)
    \/ UpdateState
    \/ Crash

Spec == Init /\ [][Next]_vars

(* Nodes return, and the executor's threads run.                            *)
FairSpec == Spec /\ \A c \in Calls : WF_vars(Advance(c)) /\ WF_vars(Write(c))
-----------------------------------------------------------------------------
TypeOK ==
    /\ graph \in Graphs /\ durability \in Durabilities /\ saver \in Savers
    /\ stored \in Seq(CheckpointType) /\ pending \in Seq(CheckpointType)
    /\ writing \in [Calls -> SUBSET CheckpointType]
    /\ call \in [Calls -> CallType]
    /\ made \in Nat /\ invocations \in Nat /\ faults \in Nat /\ edits \in Nat
    /\ forked \in BOOLEAN

HasSends ==
    \E n \in Nodes : \E route \in graph.edges[n] \cup graph.gotos[n] : route.send

ForksBehindAfter ==
    \E n \in graph.after : \E route \in graph.edges[n] \cup graph.gotos[n] :
        \E m, k \in route.to : m # k

(* Under "sync" every stored checkpoint is where some stored checkpoint, or  *)
(* an input to it, leads in one superstep: nothing is skipped, merged twice *)
(* or executed from a state that was not saved (state_graph.py 545-838),    *)
(* also when invocations overlap.  Sends have no checkpoints of their own,  *)
(* and a thread that was edited behind a fork loses a branch (see below).   *)
Kept == durability = "sync" /\ ~HasSends /\ ~ForksBehindAfter
Saved == IF Kept
         THEN {[state |-> cp.state, next |-> cp.next] : cp \in ToSet(stored)}
         ELSE {}
Walk == INSTANCE GraphWalk WITH reached <- Saved
ImplementsWalk == Walk!Spec

KeepsOrder ==
    \/ durability = "sync"
    \/ durability = "async" /\ saver = "sqlite" /\ Blocking

(* Unless somebody goes back to an old checkpoint, the history is one line: *)
(* no superstep that was stored is executed again, whatever stops, fails,   *)
(* or is edited in between (state_graph.py 433-460, 1282-1420).             *)
HistoryIsLinear ==
    KeepsOrder /\ ~forked =>
        \A i, j \in 1..Len(stored) :
            \/ IsPrefix(stored[i].state, stored[j].state)
            \/ IsPrefix(stored[j].state, stored[i].state)

(* What a finished invocation returns is what the thread goes on from, in   *)
(* every mode (state_graph.py 1115-1180).                                   *)
FinishedIsStored ==
    [][\A c \in Calls :
          (/\ Return(c) /\ call[c].outcome = "finished" /\ ~forked /\ ~HasSends
           /\ (durability = "sync" \/ (saver = "sqlite" /\ Blocking)))
              => Latest'.state = call[c].state]_vars

(* Every invocation comes to an end, also in a graph with a loop: the       *)
(* recursion limit sees to it (state_graph.py 574-580).                     *)
EveryInvocationEnds == \A c \in Calls : call[c].pc # "idle" ~> call[c].pc = "idle"

(* A resumed thread does not stop before the same node again (1322-1324).   *)
NotStoppedTwice ==
    \A i, j \in 1..Len(stored) :
        (stored[i].kind = "before" /\ stored[j].kind = "before")
            => stored[i].parent # stored[j].at

(* A thread that was edited at an interrupt goes on with all that is next   *)
(* (1295, 1335-1337).                                                       *)
EditedGoesOn ==
    \A i, j \in 1..Len(stored) :
        (stored[i].kind = "resumed" /\ stored[i].parent = stored[j].at)
            => Len(stored[i].state) = Len(stored[j].state) + Cardinality(stored[j].next)

(* A Command's goto is followed also in parallel (783).                     *)
GotoIsFollowed ==
    [][\A c \in Calls : \A r \in call[c].got :
          (FinishParallel(c) /\ r.goto # None) => r.goto.to \subseteq call'[c].cur]_vars

(* The graph ends when nothing is left to execute.                          *)
NothingLeftBehind == [][\A c \in Calls : ReachEnd(c) => call[c].cur = {END}]_vars

(* interrupt() pauses the graph at once (primitives.py 43-44).              *)
AskingPauses ==
    [][\A c \in Calls : (Ask(c) /\ Alone(c)) => call'[c].pc = "closing"]_vars

(* The latest checkpoint is the newest (checkpoint.py 169, 190).            *)
LatestIsNewest ==
    (stored # <<>> /\ \A c \in Calls : call[c].pc = "idle")
        => Latest = Newest(ToSet(stored))

(* A node that Sends go to does not run without what they carry.            *)
SendsKeepTheirState ==
    \A c \in Calls : \A n \in Nodes :
        (\A m \in Nodes : \A route \in graph.edges[m] : n \in route.to => route.send)
            => <<n, FALSE>> \notin ToSet(call[c].state)

(* The limit refuses nothing that is already over (562, 574-580).           *)
LimitIsForSupersteps == [][\A c \in Calls : HitLimit(c) => END \notin call[c].cur]_vars

(* An interrupted call returns the current state (485-489).                 *)
ShownIsCurrent ==
    [][\A c \in Calls :
          (Return(c) /\ call[c].outcome = "interrupted" /\ ~forked /\ durability = "sync")
              => ShownState(c) = Latest'.state]_vars
=============================================================================
