# Upsonic in TLA+

This directory models the parts of Upsonic (`src/src/upsonic`, a Python framework for
AI agents) whose correctness depends on the order of things: runs that stop and are
resumed, checkpoints, cancellation, retries, and calls that overlap. TLC checks
the models on small instances; TLAPS proves what matters most for every instance.

## 1. The system

| Component | State it keeps | Operations | What is hard |
|---|---|---|---|
| **Agent runs** (`agent/agent.py`, `agent/pipeline/`, `run/`, `utils/retry.py`) | per Agent object: `_agent_run_output`, `run_id`; per run: status, `step_results`, requirements; per process: the cancellation registry; in storage: `session.runs` | `do_async`, `continue_run_async`, `cancel_run`, the 18 steps of the direct pipeline, `@retryable` | one Agent object shared by overlapping calls; resumption from a list of results that only grows; retries after state has changed; crashes between stop and resumption |
| **External tools and conversation** (`tools/`, `agent/agent.py`, `run/requirements.py`) | `chat_history`, requirements, tool-call budget | `_execute_tool_calls`, `_handle_model_response`, `_inject_external_tool_results` | a pause in the middle of a batch of tool calls; results set out of order; a second pause; the call limit |
| **Session store** (`storage/memory/`, `session/agent.py`) | `AgentSession`: runs, messages, usage | `asave`, `load_resumable_run`, `update_usage_from_run`, `append_new_messages` | load-modify-upsert without a lock; every checkpoint of a run adds to the session's totals |
| **Chat** (`chat/`) | session state, number of concurrent invocations | `invoke`, `stream`, retry, `close`, `reopen` | overlapping invocations; generators that are never iterated; closing while calls are in flight |
| **State graph** (`graphv2/`) | checkpoint history per thread, pending writes, interrupts, cache | `invoke`, parallel `Send`, `interrupt`, resume, durability modes | checkpoints written asynchronously and out of order; resuming at an interrupt; parallel nodes of which one fails |
| **Task graph** (`graph/`) | node status, results, decisions | `run_async`, `_run_sequential`, decisions | branches pruned or not, a failing node |
| **Ralph loop** (`ralph/`) | plan file, iteration counter, phase | `run`, the backpressure gate, state files | files that an agent edits between two reads; a loop that must end |
| **Safety engine** (`safety_engine/`, policy managers) | feedback-loop counter, anonymisation map | policy execution, feedback retries | retries that must end; de-anonymising what was anonymised |
| **Tool processing** (`tools/processor.py`, `tools/wrappers`) | cache files, per-call timeout and retry | the behavioural wrapper of a tool | order of hooks, cache, retry and timeout |
| **Cache** (`cache/`) | cached answers with expiry | get, store, cleanup | stale entries |
| **Team** (`team/`) | assignments, results, memory | sequential, coordinate, route | hand-over of results between agents |
| **Knowledge base** (`knowledge_base/`, `vectordb/`, `loaders/`, `text_splitter/`, `embeddings/`) | index state, document ids | `setup_async`, query | set-up by several callers; partial indexing |
| **Storage providers** (`storage/*`) | tables of sessions and user memories | get, upsert, delete | adapters of external databases |
| **Models and providers** (`models/`, `providers/`, `profiles/`) | none | requests | adapters of external services |
| **Deep agent** (`agent/deepagent/`) | virtual files, to-do list | planning and file tools, sub-agents | sub-agents that write the same files |
| **UEL** (`uel/`) | none | composition of runnables | pure composition |
| **Interfaces, CLI** (`interfaces/`, `cli/`) | connections, queues | HTTP and WebSocket handlers | I/O |
| **Evaluation, simulation, reflection, reliability layer, culture, canvas, OCR** | per-call | batch computations around model calls | few ordering hazards |

An Agent executes a Task by running a *pipeline* over one `AgentRunOutput`. The pipeline
saves the session through `Memory` when the run stops and, at the end, when it completes;
the steps poll the process-wide cancellation registry; `@retryable` wraps the whole
call. `Chat`, `Team`, graphs and Ralph call agents. A run that stopped is continued
by `continue_run_async`, on the same Agent, on a new one, or in another process that
shares the storage.

What would make each part correct (sections 3 and 4 say under which provisos the code keeps it, section 5
where it does not):

* *Agent runs*: a completed run executed every step; a stopped run can be continued, in
  this process or another, from where it stopped; a confirmed cancellation is
  honoured; a call is answered with its own run; every call ends.
* *External tools*: every tool call of the model is answered exactly once before the
  model is asked again.
* *Session store*: a session holds every run and message once, and usage adds up.
* *Chat*: at most the permitted number of invocations, and the state reflects them.
* *State graph*: what a checkpoint says is what a resumption continues; every node
  runs as often as its policy says; an interrupt is passed once answered.
* *Ralph, safety engine*: loops end; nothing is reported done that the gate refused.

## 2. Modules

### `AgentRun` — runs on one Agent object

State: `out` (the `AgentRunOutput` objects of the process), `agentOut` and `agentRun`
(`agent._agent_run_output`, `agent.run_id`), `task` (status of each Task), `registry`,
`stored` (`session.runs`), and per caller the context of the call that executes
(`call`) and the answer to the last one (`reply`). The constant `KeepsHistory` is the set of runs
whose Agent keeps memory; of the others storage holds checkpoints only.

| Action | Code |
|---|---|
| `Start`, `StartRefused` | `do_async` of a Task without, and with, a status |
| `CompleteStep`, `MemorySave` | a step of `PipelineManager.execute` that works, the last one of which completes and saves the run |
| `CancelStep`, `PauseStep`, `FailStep` | `RunCancelledException`, `ExternalExecutionPause`, any other exception, with the status, the result and the save that follow |
| `Return`, `Unwind`, `Reenter` | the end of `do_async`, the exception through `@retryable`, the next attempt |
| `ContinueTask`, `ContinueRun`, `ContinueUnknown`, `ContinueRefused` | `continue_run_async` by Task or by run id: from the agent's own output, from storage, unknown, completed |
| `Cancel` | `cancel_run(run_id)` from any thread |
| `SetResult`, `NewAgent`, `Crash` | the program around: it sets the result of a requirement, replaces the Agent object, dies and restarts |

Abstractions: a run is named by its Task, which is started at most once because
`do_async` refuses a Task with a status (two overlapping `do_async` calls with the *same*
Task, and strings, which become a new Task at every attempt, are left out). A step is one
action: it polls, works and records; a cancellation during a step is seen by the next poll.
A pause creates one requirement. Memory is configured (without it nothing can be
resumed from storage). Steps skipped for a cache hit or a policy block complete like
the others. `mode="return_false"` counts as having raised. What happens inside the model step is
`ToolLoop`, what the policy steps do is `PolicyCheck`. The streaming pipeline is not modelled.

### `RunLifecycle` — what a run promises

The abstract specification: storage knows of every run whether it stopped or
completed, completion is final, and a caller that is told how a run ended is told what
storage holds. `AgentRun` implements it for one caller and a storage that works
(`ImplementsLifecycle`): `durable` is the status in `stored`, `told` the answer of the last
call.

### `ChatSession` — invocations of one Chat

State: the session's `_state` and `_concurrent_invocations` (`active`); per caller the
invocation it makes (`inv`: its kind, how far it is, the attempt, the attempts that delivered
chunks, and whether the agent has marked its Task) and how the last one ended (`reply`); whose
output the agent holds in `_agent_run_output` (`current`).

| Action | Code |
|---|---|
| `Invoke`, `InvokeRefused`, `Stream` | `invoke()` when the chat accepts, `invoke()` when it does not, `stream()`, which does not ask |
| `Begin`, `Yield`, `Mark` | a generator is iterated, a chunk arrives, the streaming pipeline marks the Task of a failed stream |
| `AgentRefuses`, `Answer`, `Fail`, `FailEarly` | how one attempt ends |
| `Retry`, `GiveUp` | `_execute_with_retry` and its counterpart for streams |
| `Interrupt`, `Drop` | cancellation or `GeneratorExit`; a generator that is never iterated |
| `Close` | `close_session`, `reset_session` |

Abstractions: time, back-off, metrics, attachments and history are left out. `Uses` says
which of `stream()`, dropping a generator and closing in flight the program does; without
them only `invoke()` is used, its generators are iterated, and the chat is closed when idle.

### `InvocationSlots` — what a limit promises

A set of callers that hold a slot, never more than the limit; a caller is refused only when all
are taken. `ChatSession` without `Uses` implements it (`ImplementsSlots`).

### `SessionStore` — one session in storage

State: `session` (records of runs, messages, usage), the `AgentRunOutput` of each run in
the process (`run`), who is in `asave()` and the copy of the session it loaded (`copy`).
`entry` is the step index that `continue_run_async` holds: where it entered the pipeline with the run.
`stops` and `edits` count towards the bounds; the others are history variables: `unmarked` has the
runs that went on behind their messages without marking them, `restarted` those that began again
after their messages were built, `erased` the messages the user removed, `excused` the runs whose
record storage refused or was told to drop.

| Action | Code |
|---|---|
| `Start`, `Build`, `Ask` | a run begins, `MessageBuildStep`, a call of the model, whose response may be lost to a failure behind it |
| `Stop`, `Complete` | pause, error or cancellation; `MemorySaveStep` |
| `Load`, `Write`, `SaveFails` | `asave()`: load, change and upsert, or the exception it swallows |
| `LoadToEdit`, `Edit`, `Reset` | `delete_message`, `clear_history`, `reset_session` of Chat |
| `Resume`, `ResumeStored` | `_prepare_continuation_context` from memory and from storage, which calls `start_new_run()` when the run goes on behind `message_build` |
| `GoOn` | the next round of `_continue_run_direct_impl` with `external_tool_executor`, and the next attempt of `@retryable` in a continued run: they enter the pipeline again after a save and leave the boundary where it was |
| `Crash` | the end of the process |

Abstractions: messages are numbered within their run, so that what precedes them in
`chat_history` (history loaded from earlier runs) is left out. Where a run stops matters only as
before or behind `message_build`; `get_problematic_step` returns the first error, or else the first
other stop, which `point` and `failed` keep. Results of external tools that a continuation injects count
with the response to them. Usage is the number of model calls. No session is the same as an empty one. The
constant `Overlap` says whether something is awaited between `get` and `upsert`: it is with an
`AsyncStorage`, and is not with a synchronous one, where `asave` runs from load to upsert
without yielding to the event loop. (With the summary enabled it yields in any storage; the summary is
not modelled.)

### `RunStore` — what the users of Memory assume

Every run has a record of its own and a save stores it as it is, leaving the others alone: the
shape of `stored` in `AgentRun`. `SessionStore` without `Overlap` implements it
(`ImplementsRunStore`), which is the licence for `AgentRun` to model storage as it does.

### `ToolLoop` — a run's conversation with the model

State: `history` (`chat_history`), `response` (the first response since the run went on, which
`output.response` keeps) and `current` (the one that is handled); the batch that executes (`todo`,
`results`, `pauses`); `requirements` with the results set for external calls; `count`, `limited`,
`equipped` of the Agent; what the cancellation registry has of the run.

| Action | Code |
|---|---|
| `Request`, `RequestFails`, `Deliver` | the model step and `_handle_model_response` of a response without calls, or at the limit |
| `Refuse`, `Execute` | `_handle_model_response` when the limit is reached, and when it is not |
| `RunTool`, `AnswerWithError`, `Disallow`, `PauseAlone`, `PauseAmong` | `_execute_tool_calls`: sequential calls, then parallel ones; errors, policies, external tools |
| `GatherPauses`, `GatherResults` | `asyncio.gather` of the parallel calls |
| `StopAfterCall`, `FollowUp` | the answers join the conversation; `stop_after_tool_call` or the next request |
| `SetResult`, `Continue`, `ExecutorRound`, `NewAgent` | results of requirements; `continue_run_async` with and without `external_tool_executor`; another Agent object |
| `CancelAsked`, `PollCancel`, `OtherRun` | cancellation; other runs on the same Agent |

`spoilt` is a history variable: the run stopped or went on in a way in which the code loses, repeats or
misplaces answers. That is a pause behind a follow-up request, a second one, or one beside other calls of its
response; a policy's exception behind a call that was executed; a continuation with a result that is
missing or empty. `AnsweredOnce` and `EffectsAreTold` exempt such runs; findings 16 to 19 say what becomes
of them.

Abstractions: a message is who sent it and which calls it makes or answers. A model calls only what
it is offered, one call per tool in a response, and gives up tools that fail `MaxFaults` times on
an Agent that has not set them up. Guardrails, culture messages and the streaming step are left out.

### `StateGraph`, `GraphWalk` — invocations on one thread of a compiled graph

State: `stored` (what the checkpointer has), `writing` (checkpoints that executor threads are to put),
`pending` (those kept until exit), per invocation its context (`call`). The state dictionary is the
sequence of what was merged into it, and the edge taken behind a node is part of its result.

| Action | Code |
|---|---|
| `InvokeFresh`, `InvokeInput`, `InvokeNone`, `InvokeCommand` | `ainvoke` on a new thread, with input, with `None`, with `Command(resume)` |
| `HitLimit`, `FromStart`, `ReachEnd`, `LookUpSend`, `InterruptBefore`, `Begin` | the loop of `_execute_graph` |
| `Succeed`, `Fail`, `Ask`, `GiveUp` | nodes, with their retry policy, side by side |
| `FinishNode`, `FinishParallel`, `FinishSends`, `FinishResumed` | merging, routing and the checkpoint |
| `Write`, `Return`, `UpdateState`, `Crash` | the executor's threads, the end of an invocation, `update_state`, the end of the process |

`GraphWalk` is what checkpoints promise: each is a place that is reached from one that is kept by
a whole superstep in which every next node runs once. `StateGraph` implements it under `sync`,
without Sends and without a fork behind `interrupt_after` (`ImplementsWalk`).

Abstractions: the Sends of one routing go to different nodes; with `exit` invocations do not overlap
(they share one list of pending checkpoints on the graph object); a Command is given to interrupted
threads only; START has no conditional edges; node caching is not modelled.

### `TaskGraph`, `TaskChain` — runs of a task graph

`TaskChain` is how `>>`, `if_true` and `if_false` build a graph, edges and branches, from which the
instances take theirs. `TaskGraph` has per run its queue, what was executed and pruned; and what runs
share: the Graph's `state`, the `context` and the status of its Tasks.

| Action | Code |
|---|---|
| `Start` | `run_async`, the beginning of `_run_sequential` |
| `BeginTask`, `BeginDecision` | the next node of the queue, its sources, the input of a decision |
| `FinishTask`, `Decide` | the output, or the answer and what it prunes; successors that wait for nothing more are queued |
| `Fail`, `Return` | an exception; the end of the queue |

Abstractions: the queue is the set of waiting nodes with the round in which they were appended, which is
the order of the list; runs are numbered in the order they start; a Task is in a graph once;
answers of decisions are arbitrary; paused and cancelled tasks are not modelled. A cyclic graph has
no start and runs nothing.

### `RalphLoop` — specifications, plan, iterations

State: the files (`specs`, `prompt`, `plan`, a sequence of items with the mark of their line), the loop's
variables, and the tool calls in progress, which are threads. The marks are those the parser tells apart,
and `other`: a line such as `- [~] item` or `- [API] item`, which it takes neither as pending nor as
completed, though `update_fix_plan` marks and deletes it like one that starts with `- `. (`- [x]item`, without the blank, is
left out.)

| Action | Code |
|---|---|
| `Run`, `SpecsExist`, `HaveSpecs`, `SaveSpec`, `SavePrompt`, `LookForPlan`, `MakePlan`, `PhaseFails` | `arun` and the phases before the loop, which look at the files to see what is done |
| `BeginIteration`, `EndIteration`, `IterationFails`, `LimitReached`, `StopLooping`, `LoopFails`, `Leave` | the incremental phase |
| `CallTool`, `ReadPlan`, `FindNothing`, `Truncate`, `WritePlan`, `TimeOut` | `update_fix_plan`: it reads the plan, empties the file and writes it, in a thread that outlives its timeout |
| `Stop`, `Crash` | `stop()`; the end of the process |

Abstractions: which text a name is found in is the relation `Covers`. `run()` is the special case in
which the threads end before it returns. Sub-agents, gate commands, learnings, and an agent
that writes files without the tool are not modelled. `disturbed` is set when a call reads the
plan while another changes it, or a process ends there.

### `PolicyCheck` — policies around one question

State: `prompt` and `built` of each run's input, the Agent's `current` output and its count of
feedback `retries`, the attributes of `action` objects, and per call where it is. The constant
`Sharings` says whether calls are of one Agent, and whether they use the same policy objects.

| Action | Code |
|---|---|
| `Start`, `Accept`, `Send` | a new run, the user's policies applied to its prompt, the request and the restoration of its answer |
| `Check`, `Act`, `Fail`, `Explain` | `execute_policies_async`: a rule, the thread that runs its action, an exception, feedback |
| `Refuse`, `Deliver`, `AskAgain` | the verdict on a prompt or an answer, the feedback loop |

Abstractions: a text is a set of words; an answer mentions what was asked and may add `Spoken` words.
Placeholders are of one length, so that entries are undone in the order they were made. Both managers have
the same `LoopCount`; resetting the count is part of `Send`. What an action object holds is forgotten
when nobody is about to read it. Policies on tools and the rules themselves are left out.

### `KnowledgeBase` — set-up on first use

State: the `collection` in the database, which outlives the process; per base `connected`, `closed`,
`ready` and the `holder` of `_setup_lock`; per task where it is and the `chunks` it has yet to store.
`loaded` is what set-ups loaded and nobody deleted; `abandoned` says that one ended and left a part.

| Action | Code |
|---|---|
| `Request`, `Acquire` | `query_async` or `delete_document`, which wait for the lock; one that finds the base ready goes on |
| `Connect`, `Find`, `Load`, `LoadNothing`, `Embed`, `Create`, `Store` | `setup_async`, step by step; `Store` batch by batch |
| `FailSetup`, `Raise`, `CleanUp`, `CleanNothing` | exceptions, and the cleanup, which may fail |
| `Search`, `Delete`, `Close` | queries, deletion, `close()` |
| `Cancel`, `Crash` | `CancelledError`, which is not an `Exception`; the end of the process |

Abstractions: the lock goes to any waiting task (asyncio's is first come, first served); a test for the
collection and what follows from it are one step; a task makes one request.

### Proof modules and instances

`AgentRunProofs`, `ChatSessionProofs`, `SessionStoreProofs`, `ToolLoopProofs`, `StateGraphProofs`,
`TaskGraphProofs`, `RalphLoopProofs` and `PolicyKnowledgeProofs` hold the theorems of section 4;
`MC<module>` and its configurations are the instances TLC checks. `PolicyKnowledgeProofs` is about two
modules that share nothing; for it to extend both, what `KnowledgeBase` has beside `PolicyCheck` (its
specification, failures and bounds) has names of its own: `KBSpec`, `KBNext`, `failures`, `MaxFailures`.

## 3. Runs

Bounds of `MCAgentRun`: the pipeline of 18 steps is cut to 2 to 4. What a
run can do depends on whether a step lies before the one that can pause
(`ModelStep`), is it, lies after it, or is the last (`LastStep`), and on having two steps
that can fail in either order, which 4 steps give. `MaxFaults` bounds the stops, cancellations,
new agents and crashes of a behaviour; 3 is enough to stop a run, resume it, stop it
elsewhere and resume it again, or to fail, retry, and be cancelled. Two objects suffice
for one caller (the output it executes and one it loads), three for two callers.

Bounds of `MCChatSession`: two retries are one more than it takes to see an attempt that follows a
marked Task; three callers are one more than two that compete for a slot. `MaxActive` bounds the
invocations `stream()` may start above the limit; it is two above the limit.

Bounds of `MCSessionStore`: two runs, one with full session memory and one without, are what
an update that is lost needs; the request and one answer give a run messages on both sides of a
boundary; three stops, crashes or failed saves stop a run early, late, and once more, or have it go on
unmarked twice; one edit. (Two answers for each run, 6.9 million states, held by hand.)

Bounds of `MCToolLoop`: a sequential, a parallel and an external tool and every way to configure them;
a limit of two is passed by a batch of three and reached by two batches; one run with one
continuation beside what an executor does, and one fault or step of another run. (930,578 states. Two
runs without other runs, 812,047 states, held by hand.)

Bounds of `MCStateGraph`: three nodes suffice to fork, join and loop, for each interrupt in front
of, in and behind a node, and for Sends; five such graphs under three durability modes and two
checkpointers. Two invocations, one fault and one edit or return to an old checkpoint; the limit of 4
ends the loop. (Three invocations, 2,992,931 states, and two that overlap under `sync`, 56,882
states, held by hand.)

Bounds of `MCTaskGraph`: three graphs, one that fans out and in, one with a decision beside an
independent task, one with nested decisions; two runs, which may overlap.

Bounds of `MCRalphLoop`: two items, one of which has the other's text in its own; two slots for two
calls, the second of which may be the first tried again; two iterations, two processes; what a
"replace" writes has a line that is pending and that no call can mark, and one of the other kind.

Bounds of `MCPolicyCheck`: two calls, three user policies (two that replace, one that refuses) and two
agent policies, one feedback round, one failure.

Bounds of `MCKnowledgeBase`: three tasks, of which one sets up, one waits and one deletes; two documents,
the least that can be stored in part; two failures, cancellations or crashes.

| Run | Instance | What it shows |
|---|---|---|
| `agent_run` | 1 caller, 2 runs of which one keeps history, 4 steps, 2 attempts, 3 faults | answers are of the run asked for, stops are durable with and without memory, cancellations honoured, and the lifecycle is implemented |
| `agent_two_callers` | 2 callers, 2 runs, 3 steps, 1 fault | completed runs are whole although both callers share the Agent's output, run id and registry |
| `agent_liveness` | fair scheduling, every save may be lost | calls end; a cancelled run's call says so; what storage holds of a run never goes back |
| `chat` | 3 callers of `invoke()`, limit 1, 2 retries | slots come back as in `InvocationSlots`, the state tells what goes on, a stream is heard once |
| `chat_liveness` | 2 callers, `stream()`, closing in flight, dropped generators | every invocation that is driven ends; the count never goes below zero |
| `session_store` | 2 runs, saves do not overlap | the session holds each record and misses no message, and `RunStore` is implemented; of runs whose every continuation marked what they had and that built nothing anew, it holds each message once, and edits last |
| `tool_loop` | 3 tools, limit 2 | unless the run is spoilt, every call is answered once, right behind the response that made it, and every effect is told, over failures, pauses of one external call and continuations; for every run, requests and calls are bounded; runs end |
| `state_graph` | 5 graphs, 3 durabilities, 2 checkpointers | the history is one line, `GraphWalk` is implemented, what a finished invocation returns is what is stored, invocations end |
| `task_graph` | 3 graphs, 2 runs | a node runs once, behind what it waits for; a run returns its own outputs, ends, and executed what its decisions chose |
| `ralph_loop` | 2 items, 2 calls, 2 processes | a loop that says completed, undisturbed, has every planned item marked, taken out, or on a line that the parser takes for no item; loops with a limit end |
| `policy_check` | 2 calls, 5 policies | the model is asked what the policies made of the prompt, answers are checked, originals come back, calls end |
| `knowledge_base` | 3 tasks, 1 base, 2 documents | who searches finds the whole index, and requests end |

All of these pass. `CHECK_DEADLOCK FALSE` is set where the system may stop: every run
completed or gone, and no edits or calls left.

Fairness: `FairSpec` of each module asks weak fairness of the steps of what executes: each call in
`AgentRun` and `ChatSession`; `Advance` in `ToolLoop`; each invocation and each executor thread in
`StateGraph`; some run in `TaskGraph`; the loop, and each tool thread, in `RalphLoop`; each call in
`PolicyCheck`; each task in `KnowledgeBase`. An event loop gives that to a coroutine that is not blocked, and an
operating system to a thread, provided what it awaits (the model, a tool, storage) answers or raises; for
a stream, also that its consumer goes on once it began to iterate. Nothing is assumed of users,
cancellations, edits, failures and crashes.

## 4. Proofs

Assumed are only the named assumptions on the constants, and what the statements themselves say.
Each proof module proves the type invariant as well, so that it is not repeated in every run.

**`AgentRunProofs`**, for any number of callers, runs, objects and attempts, and any
pipeline length and pausing step: `TypeOK`, `NoStepSkipped` and `CompletedRanEveryStep`.
`CompletedRanEveryStep` is not inductive: that a run has no gap when it completes
follows from there being none behind the step it is at, and that follows, for a run that
is resumed, from there being none behind any recorded result, whether in memory, in
storage or under another call that executes the same output. `NoStepSkipped` says
that, and `TypeOK /\ NoStepSkipped` is inductive. The argument does not depend on
which result `get_problematic_step` picks: any recorded result was reached over
completed steps. Hence resuming at the wrong step (section 5) repeats work but
never skips any. With one caller (`OneCaller`): `RepliesAreOwn`, since a call executes the
agent's own output, of the run it was asked for (`Alone`); `CancellationIsHonoured`, since the run that is
polled is the run that is executed (`Polled`); `ProgressIsKept`, since what the agent has of
a run contains what storage has of it (`Ahead`). If storage works as well (`SavesWork`):
`StopsAreDurable` and the refinement `RunsImplementLifecycle`, by `Durable`: while a step
is executed storage has no completion of the run, and otherwise it has what the agent has. They
use `OutputAssumption`, that `None` is not an output.

**`ChatSessionProofs`**, for any callers, limit and retries: `ChatTypeCorrect`; and for a
program that uses `invoke()` only, `LimitHolds`, `ChatImplementsSlots` and
`OneAttemptHeard`. The limit and the slots rest on `Counted`: the counter never falls behind the invocations in
progress (it is ahead of them when a generator was abandoned). `OneAttemptHeard` (for a limit of one) rests on `Heard`: the invocation that executes is the
one whose output the agent holds, so its failure marks its own Task, and one that delivered a chunk
and is to be tried again has a marked Task, which the agent refuses. `StateTellsUse`, for a limit of one
and no abandoned generator: the session's state is written by the only invocation there is.

**`SessionStoreProofs`**, for any runs and bounds: `SessionTypeCorrect` and `UsageIsCovered`, with overlapping
saves too. `UsageCovered` is not inductive: an overlapping save puts an older copy in place of the session,
and that must not count less than its own runs. So `AllCount` says it of the session and of every copy that
is out: a save that is overwritten loses the usage it counted and its record together. A save adds to its copy
all that the run used, and puts it in place of what the copy had of the run, so the copy counts more only. The
sums are over the finite set of runs (`RunsAssumption`), and how one changes with one run is proved by
induction over its subsets. Without overlapping saves: `StoreImplementsRecords` and
`CheckpointsAreStored`. Both rest on `Serial`: a copy that is out equals the session in storage, and
there is at most one. That is exactly what a lock, or a version checked by `upsert`, would restore for asynchronous storages. With it,
`ConversationsAreWhole` follows from `History` (while a run is
new, running or being saved, its messages up to the boundary where its last save ended are in the
session or were erased and, unless its first stop was early, none behind it is).
`MessagesAreInOrder` and `ErasedIsGone` use it in `Tidy`, the two invariants together: what a save adds is in order and behind that
boundary, so nothing is stored twice or brought back after it was erased. Both speak of the runs that are
neither `unmarked` nor `restarted`: the boundary of the others is behind what is stored, and the theorems
do not hold of them (findings 14 and 15). `ConversationsAreWhole` needs no such proviso.

**`ToolLoopProofs`**, for any tools, configurations, limit and bounds: `RequestsBounded` and
`LimitHeld` rest on counting: what is counted, answered without being counted, and left of the batch
accounts for every request (`CountIsBounded`, `RequestsAreCounted`). `Answered` and `EffectsTold`
speak of runs that are not spoilt (section 2), and
rest on the shape of the conversation between requests: it is well answered but for the response in hand,
whose calls are split into those done and those left (`BatchIsSplit`), and a paused run that was
not spoilt lacks the answers to exactly one response.

**`StateGraphProofs`**, for any nodes, graphs, durability modes, checkpointers and invocations that
overlap: `TypeCorrect`, and the refinement `CheckpointsWalk`, that `Spec` implements `ImplementsWalk`. The
invariant says of the stored checkpoints that their next nodes are nodes or the end, and one node
for the interrupts that are of one node; of every invocation that it is at a stored checkpoint or at
an input received at one; and that what executes and what has a result partition the nodes of
its superstep. Every checkpoint that is put is then one superstep from a stored one. While nobody goes back or comes in
between, `HistoryIsOneLine` rests on `InLine`: a checkpoint, stored or still with the
executor, extends all that were made before it, and what executes extends all of them. `WhatFinishesIsStored`
covers the exit mode as well, where a failed Command leaves checkpoints behind that are newer than the
latest: then the latest is not at the end of the graph (`LeftBehind`), so no invocation finishes from it
without making a newer one.

**`TaskGraphProofs`**, for any graphs, cyclic ones too, and any overlap of runs: `TypeCorrect` and `Order`. A
run's queue has only nodes whose predecessors it executed or pruned, and neither has what was executed
(`WaitsForQueue`); a node leaves the queue when it becomes the run's node (`BusyWithNode`). `OutputsAreOwn`: runs are
numbered as they begin, and an undisturbed run, which began when no other was going on, is the latest
for as long as it goes on (`OwnInv`). `ExecutedWasChosen`: a run executes only what its decisions lead to,
in any graph; each queued node is a start or was led to by one executed before it, so it is reached in
no more steps than there are nodes (`IsLevel`). `OrderlyRunsAreWhole`: a run that returns executed all
of that, and settled every node, if the graph is `Orderly`: it has no cycles, a branch is entered
at its decision only, what waits for a branch waits for nothing that may be executed before the decision, and
what takes out all predecessors of a node takes out the node. Then nothing of a branch is queued before
its decision (`NoneBefore`), nothing that is pruned ever is (`NonePruned`), and no node is forgotten because a
decision, rather than a task, settled the last it waited for (`NoneMissed`). Without `Orderly` each part
fails: the graphs `OneSided` and `Meeting` of finding 30 are not orderly. TLC confirmed that the graphs of the
run are, and that runs of every orderly graph on four nodes, in two orders of the nodes, with one or two
decisions and branches among two of the nodes, do what the theorem says.

**`RalphLoopProofs`**, for any items, relations between their texts, slots and bounds: `TypeCorrect` and
`CompletedIsDone`. `PlanIsKept`: in an undisturbed workspace every item planned and not dropped is in
the plan or in the text that the one call in the middle of its write is about to put there, so a plan
with nothing pending has it marked, or on a line that the parser takes for no item.

**`PolicyKnowledgeProofs`**, of `PolicyCheck`, for any calls, policies, words and rounds:
`PolicyTypesCorrect`; unless calls share an Agent, `AnswersChecked`; and for calls that share nothing, while no
policy failed, `AskedIsProcessed` and `OriginalsReturn`. None of the three properties is inductive:
- `AnswersAreChecked` needs where a call is in its chain of policies (`InChain`), and `Passing`: at
  policy `k` exactly the policies before it passed the answer in hand, or failed to, and the rounds of the call
  and the Agent's count of retries agree. So an answer that feedback is about, and that only a part of
  the policies saw, is replaced by another one or by a message, and never returned.
- `ModelIsAsked` needs `Asking`: the run the Agent holds is the call's own; at policy `k` the text is what the first
  `k - 1` policies made of the call's prompt (`After`); and what its action object holds, while the
  thread works on it, is what the call put there.
- `OriginalsComeBack` needs `Telling`: an entry for a word has the placeholder that the policies so far
  made of it, and they left words without an entry alone (`TellsOf`). Undoing the entries in their order
  then takes each placeholder back to its word (`WordsComeBack`).

`OriginalsReturn` has a hypothesis on the policies, `PlaceholdersTell`: no policy finds a placeholder, no two
words get the same, no prompt has one. TLC confirms it of the instance that is checked. It cannot be
dropped: policies that break it break the property (finding 35).

Of `KnowledgeBase`, for any tasks, documents and interruptions: `BaseTypesCorrect` and `IndexIsWhole`. The
lock is held exactly by the task in set-up, and is free once a base is ready, so with one base nobody
searches while another fills the collection (`LockInv`); and unless a set-up is unfinished
the collection has what was loaded, while one that stores has the rest among its chunks (`IndexInv`).

Induction over data: the library's induction theorems take an operator as a parameter, which the provers
here cannot instantiate. What the proofs need of sums, folds and reachability is proved without them: the
strict subset ordering of finite sets is well-founded, so a nonempty set of subsets (or of numbers) for
which a fact fails has a least member, which contradicts the step (`LeastExists`, `UpwardInduction`,
`FoldExists`, `RepeatExists`). Only then does the recursive definition of a fold or of `Chosen` have a value that can be reasoned about.

Only model-checked: the liveness properties, `CancelIsAnswered` among them, since fairness and ENABLED
are out of the prover's reach. Every invariant that a run checks is a theorem, and of `EveryRunIsWhole` the
safety part is one (`OrderlyRunsAreWhole`); that runs end is left to TLC.

## 5. Findings

Each is a property that the code's own documentation states and the code violates; PROJECT.json quotes
the lines. They are found by configurations to be run by hand, one property at a time
(`tlc -config <cfg> <module>`); where a constant must be set differently, it is said here.

`MCAgentRun_findings.cfg`, one caller:
1. `ResumesWhereItStopped`: `get_problematic_step` returns the first stop of the run, not the one
   that stopped it last.
2. `RetryExecutesAgain`: the second attempt of a new run is refused because the first one marked the Task.
3. `StopSaysWhere`: a cancellation polled by `memory_save` leaves no step result; the run cannot be continued.
4. `CurrentRunIsCancellable`: a resumed run is not in the registry and cannot be cancelled.
5. `TaskContinuesItsRun`: continuing by Task continues the agent's last run.

`MCAgentRun_findings_two.cfg`, two callers:

6. `ReplyOfOwnRun`, `CancelIsHonoured`: overlapping calls on one Agent take each other's output and run id.

`MCChatSession_findings.cfg`:

7. `FailureIsRaised`: Chat's retry is answered by the agent's refusal of the marked Task.
8. `FailureLeavesError`: the ERROR state is overwritten by the `finally` around it.
9. `StateReflectsUse`, `OneAttemptIsHeard` with a limit of two: overlapping invocations overwrite each
   other's session state, and mark each other's Task.

`MCChatSession_findings_uses.cfg`, with one of the `Uses` at a time:

10. `LimitRespected`: `stream()` does not ask for a slot; closing a chat in flight frees slots that
    are still in use.
11. `RefusedOnlyWhenFull` (`drop`): a generator that is never iterated keeps its slot.

`MCSessionStore_findings.cfg` (saves overlap) and `MCSessionStore_findings_serial.cfg`:

12. `CheckpointIsStored`, `ErasedStaysErased`: a concurrent save removes a checkpoint; one brings back
    history that was erased while it waited.
13. `UsageAddsUp` (serial): a run's usage is added again at each of its saves.
14. `EveryMessageOnce` (serial): a run that first stopped before `message_build` saves its request at
    every stop.
15. `RoundsOnceInOrder`, `ErasedInRounds` (serial): a run that goes on in a round of `external_tool_executor`
    or in an attempt of `@retryable` stores again what was stored when it stopped once more, also what the
    user erased in between.

`MCToolLoop_findings.cfg`:

16. `PauseKeepsResults`: a pause drops the results of the other calls of its response.
17. `AnswersFollowCalls`: a run that pauses behind a follow-up request continues with its first response.
18. `NotToldTwice`: a second pause injects the results of the first one again.
19. `GivenResultsAreTold`: a result that is the empty string is not injected.
20. `LimitHolds`, `LimitIsPerRun`: the limit is tested once for a batch, and the count is never reset.
21. `ContinuedRunHasTools`: a new Agent that continues a paused run answers every call with an error.
22. By reading: the exception of a RAISE policy ends the run for a sequential call and is a tool result
    for a parallel one.

`MCStateGraph_findings.cfg`:

23. `NotStoppedTwice`: a thread resumed at `interrupt_before` stops before the same node again.
24. `GotoIsFollowed`, `NothingLeftBehind`: among parallel nodes the goto of a Command is dropped, and one
    that leads to END ends the graph for the others.
25. `AskingPauses`: a retry policy executes a node that asks again before the interrupt is seen.
26. `SendsKeepTheirState`: a thread resumed before Sends runs their nodes without what was sent.
27. `LimitIsForSupersteps`, `ShownIsCurrent`, `LatestIsNewest`: the limit counts START and END; an
    interrupted invocation shows an older state; `MemorySaver` takes the last one put for the latest.
28. `EditedGoesOn` (`Graphs <- ForkedGraphs`): a thread edited behind `interrupt_after` loses a branch.

`MCTaskGraph_findings.cfg`:

29. `OverlappingRunsReturnTheirs`, `OutputsAreAnswers`, `DecisionSeesPredecessor` (`Graphs <- Whole`): runs
    share the State; a Task that ran before answers with a text that says so; a decision gets the
    latest output, not its predecessor's.
30. `NothingIsLeftOut`, `AnswersAreFollowed`, `ChosenIsExecuted` (`OneSided`, `Bare`, `Meeting`): what a
    decision with one branch, with a bare decision as a branch, or with branches that share a node does
    (the first and the last are not `Orderly`).

`MCRalphLoop_findings.cfg`:

31. `NothingIsForgotten`, `CompletedMeansMarked`, `SuccessIsAMark`, `MarksWhatItNames`, `PendingIsCompletable`:
    a plan read while it is written counts as done; so does an item on a line such as `- [~] item`; deleting a line is a success; a name that occurs in another item marks that
    one; lines with `*` or numbers are pending but cannot be marked.
32. `CompletedIsReported`, `IterationsHaveAPrompt`: a stop hides the completion; a process that ended
    between the specifications and the prompt leaves iterations without one.

`MCPolicyCheck_findings.cfg`:

33. `ModelIsAskedProcessed`: overlapping calls on one Agent write each other's prompt (`OneAgent`), and
    checks that share a policy object get each other's text (`PoliciesOnly`).
34. `ReturnedIsChecked` (`OneAgent`): a call that starts resets the count of another one's retries, whose
    last answer is returned unchecked.
35. `RestoredIsOriginal` (`Alone`): the answer to feedback keeps the placeholders. `OriginalsComeBack` fails
    when policies replace each other's placeholders or two words by one. By reading: so does a stream.

`MCKnowledgeBase_findings.cfg`:

36. `SearchedIsWhole`: a part of a collection that a set-up left behind counts as the index.
37. `SourcesAreIndexed`: a base takes over the collection of another one with other sources.
38. `OnlyPartsAreDeleted`: a set-up that fails early deletes a complete collection.
39. `ReadyIsConnected`: a base that was closed is still ready, and is not connected again.

## 6. Plan

Done: `AgentRun` with `RunLifecycle`, `ChatSession` with `InvocationSlots`, `SessionStore` with `RunStore`,
`ToolLoop`, `StateGraph` with `GraphWalk`, `TaskGraph` with `TaskChain`, `RalphLoop`, `PolicyCheck`,
`KnowledgeBase`.

Left, in this order: `TeamDelegation` (the memory of a member under parallel delegations, the hazard at
`team/delegation_manager.py:91`); `ToolWrapper` (hooks, cache, timeout and retry of a tool,
`tools/processor.py:378`); the streaming pipeline in `AgentRun`.

### Not modelled

Most of the code is adapters: of model providers, vector databases, storages, loaders, splitters,
embeddings, tools of external services, HTTP and WebSocket front ends. What such code promises is
a format and not an order of steps. Nor are formats of messages, printing and logging, and
the batch computations around model calls (evaluation, simulation, reflection, reliability layer,
culture, canvas, OCR), whose state lives for one call. That is why the models cover a small share of the
lines of the repository: they cover the parts that hold state across steps, calls or processes.
