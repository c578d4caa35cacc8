------------------------------ MODULE ToolLoop ------------------------------
(***************************************************************************)
(* A run's conversation with the model: responses that call tools, batches *)
(* of calls executed in sequence and side by side, the limit of calls,     *)
(* calls to be executed outside the program, which pause the run, and what *)
(* a continuation puts into the conversation before the model is asked.    *)
(*                                                                         *)
(* What tools return is abstracted to which calls are answered.            *)
(***************************************************************************)
EXTENDS Integers, Sequences, FiniteSets, SequencesExt

CONSTANTS
    Tools,
    Setups,        \* the configurations of the tools considered
    ToolCallLimit,
    MaxRounds,     \* of external_tool_executor; 10 in the code
    None, Empty, Text,   \* the result of an external call: none yet, "", another
    MaxRuns, MaxContinuations,
    MaxFaults      \* bounds; the last of faults and steps of other runs, together

VARIABLES
    setup,         \* tool configs: sequential, external_execution, stop_after_tool_call
    pc,
    history,       \* chat_history
    response,      \* context.response: the first response since the run went on
    current,       \* the response that is handled
    todo, results, \* calls of the batch: not yet done, answered
    pauses,        \* ExternalExecutionPauses of the batch
    requirements,  \* result by external call
    rounds,        \* of the executor; 0 without one
    count, limited, equipped,   \* the Agent: _tool_call_count, _tool_limit_reached, _tool_metrics
    registry,      \* what the cancellation registry has of the run
    runs, continuations, faults, others,
    replies, asked,    \* responses so far; requests since the run went on
    executed,      \* calls whose tool was executed
    uncounted,     \* calls answered without being executed or counted
    spoilt         \* the run stopped or went on in a way that loses or repeats answers

agent == <<count, limited, equipped>>
batch == <<current, todo, results, pauses>>
bounds == <<runs, continuations, faults, others>>
ghosts == <<replies, asked, executed, uncounted, spoilt>>
vars == <<setup, pc, history, response, batch, requirements, rounds, agent, registry,
          bounds, ghosts>>
-----------------------------------------------------------------------------
SetupType == [sequential : SUBSET Tools, external : SUBSET Tools, stopping : SUBSET Tools]

ASSUME ToolsAssumption == IsFiniteSet(Tools)
ASSUME SetupsAssumption == Setups \subseteq SetupType
ASSUME LimitAssumption == ToolCallLimit \in Nat \ {0}
ASSUME RoundsAssumption == MaxRounds \in Nat \ {0}
ASSUME ResultsAssumption == None \notin {Empty, Text} /\ Empty # Text

Call == Nat \X Tools
Message == [by : {"user", "model", "tools"}, id : Nat, calls : SUBSET Call]

Prompt == [by |-> "user", id |-> 0, calls |-> {}]
Response(id, tools) == [by |-> "model", id |-> id, calls |-> {id} \X tools]
Answers(calls) == [by |-> "tools", id |-> 0, calls |-> calls]

Asking == {"ask", "follow"}
Running == Asking \cup {"handle", "execute", "append"}
Stopped == {"paused", "failed", "cancelled"}

Sequential(call) == call[2] \in setup.sequential
External(call) == call[2] \in setup.external
Stopping(call) == call[2] \in setup.stopping

Init ==
    /\ setup \in Setups
    /\ pc = "idle"
    /\ history = <<>> /\ response = Prompt /\ current = Prompt
    /\ todo = {} /\ results = {} /\ pauses = {}
    /\ requirements = <<>>
    /\ rounds = 0
    /\ count = 0 /\ limited = FALSE /\ equipped = FALSE
    /\ registry = "unknown"
    /\ runs = 0 /\ continuations = 0 /\ faults = 0 /\ others = 0
    /\ replies = 0 /\ asked = 0 /\ executed = {} /\ uncounted = 0 /\ spoilt = FALSE
-----------------------------------------------------------------------------
StartRun ==
    /\ pc \notin Running
    /\ runs < MaxRuns
    /\ pc' = "ask"
    /\ history' = <<Prompt>>
    /\ response' = Prompt /\ current' = Prompt
    /\ requirements' = <<>>
    /\ rounds' = 0
    /\ limited' = FALSE /\ equipped' = TRUE
    /\ registry' = "known"
    /\ runs' = runs + 1
    /\ continuations' = 0
    /\ replies' = 0 /\ asked' = 0 /\ executed' = {} /\ uncounted' = 0 /\ spoilt' = FALSE
    /\ UNCHANGED <<setup, todo, results, pauses, count, faults, others>>

(* The registry forgets a run that ends without an exception.               *)
EndCall(outcome) ==
    /\ pc' = outcome
    /\ registry' = IF outcome = "failed" THEN registry ELSE "unknown"
    /\ todo' = {} /\ results' = {} /\ pauses' = {}

CancelAsked ==
    /\ registry = "known"
    /\ registry' = "asked"
    /\ UNCHANGED <<setup, pc, history, response, batch, requirements, rounds, agent,
                   bounds, ghosts>>

(* Polled when the model step begins and before a batch.                    *)
PollCancel ==
    /\ registry = "asked"
    /\ \/ pc = "ask"
       \/ pc = "handle" /\ ~limited /\ current.calls # {}
    /\ EndCall("cancelled")
    /\ UNCHANGED <<setup, history, response, current, requirements, rounds, agent,
                   bounds, ghosts>>

(* Mutant: tools are offered at the limit.                                   *)
PastLimit == limited \/ count > ToolCallLimit

(* _build_model_request_parameters: no tools are offered at the limit.      *)
AtLimit == limited \/ count >= ToolCallLimit

(* A model is assumed to call what it is offered, and to leave sequential   *)
(* tools alone that failed MaxFaults times in a row.                        *)
Offered ==
    IF AtLimit THEN {}
    ELSE IF equipped \/ uncounted < MaxFaults THEN Tools ELSE Tools \ setup.sequential

(* model.request; the first response since the run went on is kept.         *)
Request ==
    /\ pc \in Asking
    /\ pc = "ask" => registry # "asked"
    /\ replies' = replies + 1 /\ asked' = asked + 1
    /\ limited' = AtLimit
    /\ \E tools \in SUBSET Offered :
         /\ current' = Response(replies + 1, tools)
         /\ response' = IF pc = "ask" THEN current' ELSE response
    /\ pc' = "handle"
    /\ UNCHANGED <<setup, history, todo, results, pauses, requirements, rounds, count,
                   equipped, registry, bounds, executed, uncounted, spoilt>>

RequestFails ==
    /\ pc \in Asking
    /\ pc = "ask" => registry # "asked"
    /\ faults + others < MaxFaults
    /\ faults' = faults + 1
    /\ limited' = AtLimit
    /\ EndCall("failed")
    /\ UNCHANGED <<setup, history, response, current, requirements, rounds, count, equipped,
                   runs, continuations, others, ghosts>>

(* Nothing to execute, or nothing that may be: the response is the last.    *)
Deliver ==
    /\ pc = "handle"
    /\ limited \/ current.calls = {}
    /\ history' = Append(history, current)
    /\ response' = current
    /\ EndCall("completed")
    /\ UNCHANGED <<setup, current, requirements, rounds, agent, bounds, ghosts>>

MayHandle == pc = "handle" /\ ~limited /\ current.calls # {} /\ registry # "asked"

(* Mutant: the results of parallel calls take the place of the others.       *)
DialogueOfGathered(answers) ==
    history \o <<current, Answers({call \in answers : call[2] \notin setup.sequential})>>

(* The response goes into the conversation with the answers to its calls.   *)
Dialogue(answers) == history \o <<current, Answers(answers)>>

(* Only another run on the same Agent can bring the count to the limit      *)
(* after the request: the calls are answered with errors, and the model is  *)
(* told and asked for a last time.                                          *)
Refuse ==
    /\ MayHandle
    /\ count >= ToolCallLimit
    /\ limited' = TRUE
    /\ history' = Append(Dialogue(current.calls), Prompt)
    /\ pc' = "follow"
    /\ UNCHANGED <<setup, response, batch, requirements, rounds, count, equipped, registry,
                   bounds, ghosts>>

Execute ==
    /\ MayHandle
    /\ count < ToolCallLimit
    /\ todo' = current.calls
    /\ results' = {} /\ pauses' = {}
    /\ pc' = "execute"
    /\ UNCHANGED <<setup, history, response, current, requirements, rounds, agent, registry,
                   bounds, ghosts>>

-----------------------------------------------------------------------------
(* _execute_tool_calls: sequential calls first, one by one, then the others *)
(* side by side.  A new Agent object that continues a run has not set its   *)
(* tools up, and answers every call with an error.                          *)

Turn(call) ==
    /\ pc = "execute"
    /\ call \in todo
    /\ ~Sequential(call) => \A other \in todo : ~Sequential(other)

Done(call) ==
    /\ todo' = todo \ {call}
    /\ results' = results \cup {call}
    /\ UNCHANGED <<setup, pc, history, response, current, pauses, requirements, rounds,
                   limited, equipped, registry, runs, continuations, others, replies, asked,
                   spoilt>>

(* A tool that fails answers with its error, which is a result.             *)
RunTool(call) ==
    /\ Turn(call)
    /\ equipped
    /\ ~External(call)
    /\ Done(call)
    /\ executed' = executed \cup {call}
    /\ count' = IF Sequential(call) THEN count + 1 ELSE count
    /\ UNCHANGED <<faults, uncounted>>

(* A policy blocks the call, its arguments are malformed, or the tools are  *)
(* not set up.  Parallel calls are counted all the same, and one that a     *)
(* policy disallows by an exception is answered like one that is blocked.   *)
AnswerWithError(call) ==
    /\ Turn(call)
    /\ equipped => faults + others < MaxFaults
    /\ Done(call)
    /\ faults' = IF equipped THEN faults + 1 ELSE faults
    /\ uncounted' = IF Sequential(call) THEN uncounted + 1 ELSE uncounted
    /\ UNCHANGED <<count, executed>>

(* The exception of a policy ends the run, unless the call is parallel.     *)
Disallow(call) ==
    /\ Turn(call)
    /\ Sequential(call)
    /\ faults + others < MaxFaults
    /\ EndCall("failed")
    /\ faults' = faults + 1
    /\ spoilt' = (spoilt \/ results \cap executed # {})
    /\ UNCHANGED <<setup, history, response, current, requirements, rounds, agent, runs,
                   continuations, others, replies, asked, executed, uncounted>>

(* _handle_external_tool_pause: one requirement for each external call.     *)
Pause(external) ==
    /\ EndCall("paused")
    /\ requirements' = [call \in DOMAIN requirements \cup external |->
                           IF call \in external THEN None ELSE requirements[call]]
    /\ spoilt' = (spoilt \/ current # response \/ current.calls # external
                         \/ DOMAIN requirements # {})
    /\ UNCHANGED <<setup, history, response, current, rounds, agent, bounds,
                   replies, asked, executed, uncounted>>

(* An external call among the sequential ones pauses the run at once.       *)
PauseAlone(call) ==
    /\ Turn(call)
    /\ equipped
    /\ External(call) /\ Sequential(call)
    /\ Pause({call})

(* Among the parallel ones it lets the others finish first.                 *)
PauseAmong(call) ==
    /\ Turn(call)
    /\ equipped
    /\ External(call) /\ ~Sequential(call)
    /\ todo' = todo \ {call}
    /\ pauses' = pauses \cup {call}
    /\ UNCHANGED <<setup, pc, history, response, current, results, requirements, rounds, agent,
                   registry, bounds, ghosts>>

Parallel == {call \in current.calls : ~Sequential(call)}

(* Mutant: a pause is raised if no other call was gathered.                  *)
GatherOnlyPauses ==
    /\ pc = "execute" /\ todo = {}
    /\ pauses # {} /\ results = {}
    /\ Pause(pauses)

(* asyncio.gather: one pause stands for all, and drops the other results.   *)
GatherPauses ==
    /\ pc = "execute" /\ todo = {}
    /\ pauses # {}
    /\ Pause(pauses)

(* Mutant: the whole batch is counted behind the sequential calls.           *)
GatherAndCountAll ==
    /\ pc = "execute" /\ todo = {}
    /\ pauses = {}
    /\ count' = count + Cardinality(current.calls)
    /\ pc' = "append"
    /\ UNCHANGED <<setup, history, response, batch, requirements, rounds, limited, equipped,
                   registry, bounds, ghosts>>

GatherResults ==
    /\ pc = "execute" /\ todo = {}
    /\ pauses = {}
    /\ count' = count + Cardinality(Parallel)
    /\ pc' = "append"
    /\ UNCHANGED <<setup, history, response, batch, requirements, rounds, limited, equipped,
                   registry, bounds, ghosts>>

(* A tool with stop_after_tool_call has the last word; at the limit, which  *)
(* another run may have reached, the model is told and asked once more.     *)
Stops == ~limited /\ \E call \in results \cap executed : Stopping(call)

StopAfterCall ==
    /\ pc = "append"
    /\ Stops
    /\ replies' = replies + 1
    /\ response' = Response(replies + 1, {})
    /\ history' = Append(Dialogue(results), response')
    /\ EndCall("completed")
    /\ UNCHANGED <<setup, current, requirements, rounds, agent, bounds, asked, executed,
                   uncounted, spoilt>>

FollowUp ==
    /\ pc = "append"
    /\ ~Stops
    /\ history' = IF limited THEN Append(Dialogue(results), Prompt) ELSE Dialogue(results)
    /\ pc' = "follow"
    /\ UNCHANGED <<setup, response, batch, requirements, rounds, agent, registry, bounds,
                   ghosts>>
-----------------------------------------------------------------------------
(* Continuations.                                                           *)

Given(reqs) == {call \in DOMAIN reqs : reqs[call] # None}
Open(reqs) == {call \in DOMAIN reqs : reqs[call] = None}

(* Mutant: answers are injected without the response that asked for them.   *)
InjectedAlone(reqs) ==
    LET told == {call \in DOMAIN reqs : reqs[call] = Text}
    IN IF told = {} THEN history ELSE Append(history, Answers(told))

(* _inject_external_tool_results: of every requirement that has a result,   *)
(* also of an earlier pause, but not of one whose result is "".             *)
Injected(reqs) ==
    LET told == {call \in DOMAIN reqs : reqs[call] = Text}
        asking == IF response = Prompt \/ Last(history) = response
                  THEN history ELSE Append(history, response)
    IN IF told = {} THEN asking ELSE Append(asking, Answers(told))

GoOn(reqs) ==
    /\ requirements' = reqs
    /\ history' = IF pc = "paused" THEN Injected(reqs) ELSE history
    /\ spoilt' = (spoilt \/ (pc = "paused" /\ \E call \in DOMAIN reqs : reqs[call] # Text))
    /\ pc' = "ask"
    /\ asked' = 0
    /\ UNCHANGED <<setup, response, batch, agent, registry, runs, faults, others, replies,
                   executed, uncounted>>

SetResult ==
    /\ pc = "paused"
    /\ \E call \in Open(requirements), result \in {Empty, Text} :
          /\ result = Empty => equipped
          /\ requirements' = [requirements EXCEPT ![call] = result]
    /\ UNCHANGED <<setup, pc, history, response, batch, rounds, agent, registry, bounds, ghosts>>

(* continue_run_async, with external_tool_executor or without.              *)
Continue ==
    /\ pc \in Stopped
    /\ continuations < MaxContinuations
    /\ pc = "paused" => Given(requirements) # {}
    /\ continuations' = continuations + 1
    /\ rounds' \in {0, 1}
    /\ GoOn(requirements)

(* _continue_run_direct_impl: the executor is called for what is open.      *)
ExecutorRound ==
    /\ pc = "paused"
    /\ rounds \in 1..(MaxRounds - 1)
    /\ Open(requirements) # {}
    /\ rounds' = rounds + 1
    /\ \E result \in [Open(requirements) -> {Empty, Text}] :
          GoOn([call \in DOMAIN requirements |->
                   IF call \in Open(requirements) THEN result[call] ELSE requirements[call]])
    /\ UNCHANGED continuations

(* Another Agent object is to continue the run, from storage.  Results are  *)
(* handed to it, but those that are "" only if they were stored.            *)
NewAgent ==
    /\ pc \in Stopped
    /\ rounds = 0
    /\ equipped
    /\ \E lost \in SUBSET {call \in DOMAIN requirements : requirements[call] = Empty} :
          requirements' = [call \in DOMAIN requirements |->
                              IF call \in lost THEN None ELSE requirements[call]]
    /\ count' = 0 /\ limited' = FALSE /\ equipped' = FALSE
    /\ UNCHANGED <<setup, pc, history, response, batch, rounds, registry, bounds, ghosts>>

(* Other runs on this Agent begin, or count a call, and may ask next.       *)
OtherRun ==
    /\ pc \in Running
    /\ faults + others < MaxFaults
    /\ others' = others + 1
    /\ \/ limited' = FALSE /\ equipped' = TRUE /\ UNCHANGED count
       \/ /\ count' = count + 1
          /\ limited' \in {limited, limited \/ count' >= ToolCallLimit}
          /\ UNCHANGED equipped
    /\ UNCHANGED <<setup, pc, history, response, batch, requirements, rounds, registry, runs,
                   continuations, faults, ghosts>>

Advance ==
    \/ PollCancel \/ Request \/ Deliver \/ Refuse \/ Execute
    \/ \E call \in todo :
          RunTool(call) \/ AnswerWithError(call) \/ PauseAlone(call) \/ PauseAmong(call)
    \/ GatherPauses \/ GatherResults \/ StopAfterCall \/ FollowUp

Environment ==
    \/ StartRun \/ CancelAsked \/ RequestFails \/ (\E call \in todo : Disallow(call))
    \/ SetResult \/ Continue \/ ExecutorRound \/ NewAgent \/ OtherRun

Next == Advance \/ Environment

Spec == Init /\ [][Next]_vars

(* The model and the tools answer, and the event loop runs.                 *)
FairSpec == Spec /\ WF_vars(Advance)
-----------------------------------------------------------------------------
TypeOK ==
    /\ setup \in Setups
    /\ pc \in {"idle", "completed"} \cup Running \cup Stopped
    /\ history \in Seq(Message) /\ response \in Message /\ current \in Message
    /\ todo \subseteq Call /\ results \subseteq Call /\ pauses \subseteq Call
    /\ DOMAIN requirements \subseteq Call
    /\ \A call \in DOMAIN requirements : requirements[call] \in {None, Empty, Text}
    /\ rounds \in Nat /\ count \in Nat /\ runs \in Nat /\ continuations \in Nat
    /\ faults \in Nat /\ others \in Nat /\ replies \in Nat /\ asked \in Nat /\ uncounted \in Nat
    /\ registry \in {"unknown", "known", "asked"}
    /\ executed \subseteq Call
    /\ limited \in BOOLEAN /\ equipped \in BOOLEAN /\ spoilt \in BOOLEAN

(* Each response that makes calls has its answers right behind it, and no   *)
(* answers are anywhere else.                                               *)
WellAnswered(messages) ==
    /\ \A i \in 1..Len(messages) :
          /\ (messages[i].by = "model" /\ messages[i].calls # {}) =>
                 i < Len(messages) /\ messages[i + 1] = Answers(messages[i].calls)
          /\ messages[i].by = "tools" =>
                 i > 1 /\ messages[i - 1].by = "model"
                       /\ messages[i - 1].calls = messages[i].calls
    /\ \A i, j \in 1..Len(messages) :
          (i # j /\ messages[i].by = "model" /\ messages[j].by = "model")
              => messages[i].id # messages[j].id

(* Whenever the model is asked, each of its calls was answered once, right  *)
(* behind the response that made it, however often the run stopped, unless  *)
(* the run is spoilt: a pause came late, twice, or with other calls, a      *)
(* policy's exception came behind a call that was executed, or a paused run *)
(* went on with a result that is missing or "" (agent.py 1409-1808,         *)
(* 3198-3247).                                                              *)
AnsweredOnce == (pc \in Asking /\ ~spoilt) => WellAnswered(history)

Told == UNION {m.calls : m \in {x \in ToSet(history) : x.by = "tools"}}

(* Whenever the model of a run that is not spoilt is asked, it has been     *)
(* told of every tool that was executed on its behalf, over failures,       *)
(* pauses of a single external call and continuations.  In spoilt runs the  *)
(* code does lose what calls returned that were executed in the same batch  *)
(* as one that pauses or raises: see PauseKeepsResults (agent.py            *)
(* 1446-1683).                                                              *)
EffectsAreTold == (pc \in Asking /\ ~spoilt) => executed \subseteq Told

(* However the model answers, it is asked no more often than the limit of   *)
(* calls, and calls that do not count towards it, allow (1326-1342, 1694).  *)
RequestsAreBounded == asked <= ToolCallLimit + uncounted + 1

(* The limit is tested before a batch: it is exceeded by less than one      *)
(* batch, and by what other runs count (agent.py 1426, 1677).               *)
LimitHoldsButForABatch == count < ToolCallLimit + Cardinality(Tools) + others

(* A run that executes comes to an end (agent.py 1685-1808, 3693).          *)
EveryRunEnds == pc \in Running ~> pc \notin Running

(* A pause keeps what the other calls of its response returned (1446).      *)
PauseKeepsResults ==
    pc = "paused" => \A call \in executed : call \in Told \/ call \in DOMAIN requirements

(* The model sees its call before the answer to it (3203-3204).             *)
AnswersFollowCalls ==
    \A i \in 1..Len(history) : history[i].by = "tools" =>
        i > 1 /\ history[i].calls \subseteq history[i - 1].calls

(* An external call is answered once (3717-3741).                           *)
NotToldTwice ==
    \A i, j \in 1..Len(history) :
        (i # j /\ history[i].by = "tools" /\ history[j].by = "tools")
            => history[i].calls \cap history[j].calls = {}

(* A result that was set is injected, "" too (3205, 3231).                  *)
GivenResultsAreTold == pc \in Asking => Given(requirements) \subseteq Told

(* No run executes more tools than the limit (204).                         *)
LimitHolds == count <= ToolCallLimit

(* The limit is that of an execution (204).                                 *)
LimitIsPerRun == (pc = "ask" /\ replies = 0) => ~AtLimit

(* A run that a new Agent object continues has its tools (3467-3468).       *)
ContinuedRunHasTools == pc \in Running => equipped
=============================================================================
