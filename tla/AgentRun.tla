------------------------------ MODULE AgentRun ------------------------------
(***************************************************************************)
(* The life of agent runs: one Agent object, the calls that execute runs   *)
(* on it (do_async, continue_run_async), the pipeline that executes a run  *)
(* step by step, the cancellation registry, and the checkpoints that the   *)
(* pipeline leaves in storage.                                             *)
(*                                                                         *)
(* A run is named by the Task object it was started for: a Task is started *)
(* at most once, because do_async refuses a Task that has a status.  A run *)
(* lives in AgentRunOutput objects; several objects of one run may exist   *)
(* in a process, the one it was started with and those that                *)
(* continue_run_async loads from storage.                                  *)
(*                                                                         *)
(* A step of the pipeline is one action: it polls the registry, works and  *)
(* records its result.  A cancellation that arrives while a step works is  *)
(* seen by the next poll, which is also what happens in the code.          *)
(***************************************************************************)
EXTENDS Naturals, Sequences

CONSTANTS
    Callers,       \* the threads or coroutines that call the agent
    Runs,          \* the runs, each the run of one Task object
    Objects,       \* the identities of AgentRunOutput objects
    None,          \* Python's None
    ModelStep,     \* index of model_execution, the step that can pause
    LastStep,      \* index of memory_save, the last step of the pipeline
    Retry,         \* attempts of @retryable (Agent(retry = ...))
    KeepsHistory,  \* runs of Agents with full session or summary memory
    Saves,         \* outcomes of a save: FALSE when storage raised
    MaxFaults      \* bound on stops, cancellations, new agents and crashes

ASSUME PipelineAssumption == /\ LastStep \in Nat
                             /\ ModelStep \in 0..(LastStep - 1)
ASSUME RetryAssumption == Retry \in Nat \ {0}
ASSUME SavesAssumption == Saves \subseteq BOOLEAN
ASSUME MemoryAssumption == KeepsHistory \subseteq Runs
ASSUME MaxFaultsAssumption == MaxFaults \in Nat
ASSUME NoneAssumption == None \notin Runs \cup Objects

VARIABLES
    out,       \* the AgentRunOutput objects of the process
    agentOut,  \* agent._agent_run_output
    agentRun,  \* agent.run_id
    task,      \* the status of each run's Task object
    issued,    \* the runs that were started (task.run_id is set)
    registry,  \* RunCancellationManager._cancelled_runs
    stored,    \* session.runs in storage
    call,      \* what each caller is executing
    reply,     \* what each caller's last call gave it
    faults     \* how much of MaxFaults is used up

vars == <<out, agentOut, agentRun, task, issued, registry, stored, call,
          reply, faults>>

-----------------------------------------------------------------------------
Steps == 0..LastStep
Problematic == {"paused", "cancelled", "error"}
RunStatus == Problematic \cup {"running", "completed"}
StepStatus == {"COMPLETED", "PAUSED", "CANCELLED", "ERROR"}
StepResult == [step : Steps, status : StepStatus]

\* task: the Task object the output points to, None for one that was
\* deserialised with it; answered: for every external tool requirement,
\* whether its result has been set.
Output == [run : Runs, task : Runs \cup {None}, status : RunStatus,
           results : Seq(StepResult), answered : Seq(BOOLEAN)]

ASSUME OutputAssumption == None \notin Output

Free == [run |-> None]
Idle == [pc |-> "idle"]
Executing == [pc : {"step", "returning", "failed", "backoff"},
              entry : {"do", "task", "run"}, asked : Runs, obj : Objects,
              resumed : BOOLEAN, first : Steps, step : Steps,
              attempt : 1..Retry]
Reply == [kind : {"output"}, entry : {"do", "task", "run"}, asked : Runs,
          got : Runs, status : RunStatus]
         \cup [kind : {"none", "refused", "rejected", "raised"}]

Busy(c) == call[c].pc # "idle"
Obj(c) == call[c].obj
RunOf(c) == out[Obj(c)].run

-----------------------------------------------------------------------------
(* AgentRunOutput.get_problematic_step: the FIRST result with status ERROR, *)
(* else the first CANCELLED one, else the first PAUSED one.                 *)
Has(rs, s) == \E i \in DOMAIN rs : rs[i].status = s

FirstWith(rs, i, s) == /\ rs[i].status = s
                       /\ \A j \in 1..(i - 1) : rs[j].status # s

ProblematicResult(rs, i) ==
    \/ FirstWith(rs, i, "ERROR")
    \/ ~Has(rs, "ERROR") /\ FirstWith(rs, i, "CANCELLED")
    \/ ~Has(rs, "ERROR") /\ ~Has(rs, "CANCELLED") /\ FirstWith(rs, i, "PAUSED")

\* Mutant: resumes after the step that stopped the run.
ResumePointNext(o, p) ==
    \E i \in DOMAIN o.results : /\ ProblematicResult(o.results, i)
                                /\ o.results[i].step + 1 = p

ResumePoint(o, p) ==
    \E i \in DOMAIN o.results : /\ ProblematicResult(o.results, i)
                                /\ o.results[i].step = p

-----------------------------------------------------------------------------
Init ==
    /\ out = [o \in Objects |-> Free]
    /\ agentOut = None
    /\ agentRun = None
    /\ task = [r \in Runs |-> None]
    /\ issued = {}
    /\ registry = [r \in Runs |-> "untracked"]
    /\ stored = [r \in Runs |-> None]
    /\ call = [c \in Callers |-> Idle]
    /\ reply = [c \in Callers |-> [kind |-> "none"]]
    /\ faults = 0

Fault == faults < MaxFaults /\ faults' = faults + 1

Answer(c, k) == reply' = [reply EXCEPT ![c] = [kind |-> k]]

\* Mutant: the retry loop goes on after its verdict.
EndCallLater(c, k) == Answer(c, k) /\ UNCHANGED call

EndCall(c, k) == Answer(c, k) /\ call' = [call EXCEPT ![c] = Idle]

(* A new object takes an identity that nothing refers to; the object that  *)
(* agent._agent_run_output gives up is garbage unless a call executes it.  *)
InUse(o) == \E c \in Callers : Busy(c) /\ Obj(c) = o

Allocate(o, rec) ==
    /\ ~InUse(o) /\ o # agentOut
    /\ out' = [x \in Objects |-> IF x = o THEN rec
                                 ELSE IF InUse(x) THEN out[x] ELSE Free]

Enter(c, e, r, o, resumed, p) ==
    call' = [call EXCEPT ![c] =
               [pc |-> "step", entry |-> e, asked |-> r, obj |-> o,
                resumed |-> resumed, first |-> p, step |-> p, attempt |-> 1]]

(* do_async of a Task without a status: a new run.                          *)
Start(c, r) ==
    /\ ~Busy(c)
    /\ r \notin issued
    /\ issued' = issued \cup {r}
    /\ registry' = [registry EXCEPT ![r] = "live"]
    /\ agentRun' = r
    /\ \E o \in Objects :
         /\ Allocate(o, [run |-> r, task |-> r, status |-> "running",
                         results |-> <<>>, answered |-> <<>>])
         /\ agentOut' = o
         /\ Enter(c, "do", r, o, FALSE, 0)
    /\ Answer(c, "none")
    /\ UNCHANGED <<task, stored, faults>>

(* do_async of a Task that has a status returns an explanation instead.     *)
StartRefused(c, r) ==
    /\ ~Busy(c)
    /\ task[r] \in Problematic \cup {"completed"}
    /\ Answer(c, "refused")
    /\ UNCHANGED <<out, agentOut, agentRun, task, issued, registry, stored,
                   call, faults>>

-----------------------------------------------------------------------------
(* Stopping: the output and its Task take the status, then the session is  *)
(* saved.  AgentSessionMemory.asave swallows what storage raises, and skips *)
(* a completed run that was never saved when memory keeps no history.        *)
\* Mutant: a cancelled run leaves no checkpoint.
PersistUnlessCancelled(rec) ==
    \E saved \in Saves :
        stored' = IF saved /\ rec.status # "cancelled"
                  THEN [stored EXCEPT ![rec.run] = [rec EXCEPT !.task = None]]
                  ELSE stored

Persist(rec) ==
    \E saved \in Saves :
        stored' = IF /\ saved
                     /\ \/ rec.status # "completed"
                        \/ rec.run \in KeepsHistory
                        \/ stored[rec.run] # None
                  THEN [stored EXCEPT ![rec.run] = [rec EXCEPT !.task = None]]
                  ELSE stored

SyncTask(rec) ==
    task' = IF rec.task = None THEN task
            ELSE [task EXCEPT ![rec.task] = rec.status]

Stop(c, rec, pc) ==
    /\ out' = [out EXCEPT ![Obj(c)] = rec]
    /\ SyncTask(rec)
    /\ Persist(rec)
    /\ call' = [call EXCEPT ![c].pc = pc]

\* Mutant: the results of earlier attempts are dropped.
RecordOnly(c, s) == <<[step |-> call[c].step, status |-> s]>>

Record(c, s) == Append(out[Obj(c)].results,
                       [step |-> call[c].step, status |-> s])

(* raise_if_cancelled(agent.run_id): the run polled is the one the agent    *)
(* currently points to.                                                     *)
CancelSeen == agentRun # None /\ registry[agentRun] = "cancelled"

AtStep(c) == call[c].pc = "step"

CompleteStep(c) ==
    /\ AtStep(c) /\ ~CancelSeen
    /\ call[c].step < LastStep
    /\ out' = [out EXCEPT ![Obj(c)].results = Record(c, "COMPLETED")]
    /\ call' = [call EXCEPT ![c].step = @ + 1]
    /\ UNCHANGED <<agentOut, agentRun, task, issued, registry, stored, reply,
                   faults>>

(* memory_save marks the run completed and saves it; unlike the other steps *)
(* it does not record its result.                                           *)
\* Mutant: the status is set after the save.
MemorySaveEarly(c) ==
    /\ AtStep(c) /\ ~CancelSeen
    /\ call[c].step = LastStep
    /\ out' = [out EXCEPT ![Obj(c)].status = "completed"]
    /\ SyncTask([out[Obj(c)] EXCEPT !.status = "completed"])
    /\ Persist(out[Obj(c)])
    /\ call' = [call EXCEPT ![c].pc = "returning"]
    /\ UNCHANGED <<agentOut, agentRun, issued, registry, reply, faults>>

MemorySave(c) ==
    /\ AtStep(c) /\ ~CancelSeen
    /\ call[c].step = LastStep
    /\ Stop(c, [out[Obj(c)] EXCEPT !.status = "completed"], "returning")
    /\ UNCHANGED <<agentOut, agentRun, issued, registry, reply, faults>>

\* Mutant: the cancellation is handled like any other exception.
CancelStepRaises(c) ==
    /\ AtStep(c) /\ CancelSeen
    /\ Stop(c, [out[Obj(c)] EXCEPT !.status = "cancelled",
                                   !.results = Record(c, "CANCELLED")], "failed")
    /\ UNCHANGED <<agentOut, agentRun, issued, registry, reply, faults>>

CancelStep(c) ==
    /\ AtStep(c) /\ CancelSeen
    /\ Stop(c, [out[Obj(c)] EXCEPT
                  !.status = "cancelled",
                  !.results = IF call[c].step = LastStep THEN @
                              ELSE Record(c, "CANCELLED")], "returning")
    /\ UNCHANGED <<agentOut, agentRun, issued, registry, reply, faults>>

(* The model asked for an external tool: one more requirement, unanswered.  *)
PauseStep(c) ==
    /\ AtStep(c) /\ ~CancelSeen
    /\ call[c].step = ModelStep
    /\ Fault
    /\ Stop(c, [out[Obj(c)] EXCEPT !.status = "paused",
                                   !.results = Record(c, "PAUSED"),
                                   !.answered = Append(@, FALSE)], "returning")
    /\ UNCHANGED <<agentOut, agentRun, issued, registry, reply>>

FailStep(c) ==
    /\ AtStep(c) /\ ~CancelSeen
    /\ call[c].step < LastStep
    /\ Fault
    /\ Stop(c, [out[Obj(c)] EXCEPT !.status = "error",
                                   !.results = Record(c, "ERROR")], "failed")
    /\ UNCHANGED <<agentOut, agentRun, issued, registry, reply>>

-----------------------------------------------------------------------------
(* The pipeline returned: the registry forgets the run, the caller gets     *)
(* whatever agent._agent_run_output is by now, and agent.run_id is cleared. *)
Return(c) ==
    /\ call[c].pc = "returning"
    /\ registry' = [registry EXCEPT ![RunOf(c)] = "untracked"]
    /\ reply' = [reply EXCEPT ![c] =
                   [kind |-> "output", entry |-> call[c].entry,
                    asked |-> call[c].asked, got |-> out[agentOut].run,
                    status |-> out[agentOut].status]]
    /\ agentRun' = None
    /\ call' = [call EXCEPT ![c] = Idle]
    /\ UNCHANGED <<out, agentOut, task, issued, stored, faults>>

(* The pipeline raised: agent.run_id is cleared, the run stays registered,  *)
(* and @retryable gives up or waits for another attempt.  It never retries  *)
(* a GuardrailValidationError, which only model_execution raises.           *)
Unwind(c) ==
    /\ call[c].pc = "failed"
    /\ agentRun' = None
    /\ \/ /\ call[c].attempt < Retry
          /\ call' = [call EXCEPT ![c].pc = "backoff",
                                  ![c].attempt = @ + 1]
          /\ UNCHANGED reply
       \/ /\ call[c].attempt = Retry \/ call[c].step = ModelStep
          /\ EndCall(c, "raised")
    /\ UNCHANGED <<out, agentOut, task, issued, registry, stored, faults>>

TaskStatus(rec) == IF rec.task = None THEN rec.status ELSE task[rec.task]

\* Mutant: agent.run_id stays cleared.
RetakeOutput(c) == agentOut' = Obj(c) /\ UNCHANGED agentRun

Retake(c) == agentOut' = Obj(c) /\ agentRun' = RunOf(c)

(* Another attempt calls do_async with the same arguments.  A resumed run   *)
(* starts again at the step it was resumed at, a new run is refused because *)
(* its Task has a status now.                                               *)
Reenter(c) ==
    /\ call[c].pc = "backoff"
    /\ IF call[c].resumed /\ TaskStatus(out[Obj(c)]) # "completed"
       THEN /\ call' = [call EXCEPT ![c].pc = "step",
                                    ![c].step = call[c].first]
            /\ Retake(c)
            /\ UNCHANGED reply
       ELSE /\ EndCall(c, "refused")
            /\ UNCHANGED <<agentRun, agentOut>>
    /\ UNCHANGED <<out, task, issued, registry, stored, faults>>

-----------------------------------------------------------------------------
(* continue_run_async.  _prepare_continuation_context accepts an output     *)
(* that stopped, that says where, and, when it is paused, of which some     *)
(* requirement has a result.                                                *)
Resumable(rec) ==
    /\ rec.status \in Problematic
    /\ \E p \in Steps : ResumePoint(rec, p)
    /\ rec.status = "paused" => \E i \in DOMAIN rec.answered : rec.answered[i]

(* The call resumes object o with contents rec; t is the Task it was given. *)
Accept(c, e, r, o, rec, t) ==
    LET new == [rec EXCEPT !.task = IF t = None THEN @ ELSE t]
    IN /\ Resumable(rec)
       /\ out' = [out EXCEPT ![o] = new]
       /\ IF TaskStatus(new) = "completed"
          THEN Answer(c, "refused") /\ UNCHANGED <<call, agentRun>>
          ELSE /\ \E p \in Steps : /\ ResumePoint(rec, p)
                                   /\ Enter(c, e, r, o, TRUE, p)
               /\ agentRun' = rec.run
               /\ Answer(c, "none")

Reject(c) == Answer(c, "rejected") /\ UNCHANGED <<call, agentRun>>

ResumeInMemory(c, e, r, t) ==
    LET rec == out[agentOut]
    IN /\ agentOut # None
       /\ \/ Accept(c, e, r, agentOut, rec, t)
          \/ ~Resumable(rec) /\ Reject(c) /\ UNCHANGED out
       /\ UNCHANGED <<agentOut, task, issued, registry, stored, faults>>

(* results: the requirements that the caller passes with their results.     *)
Loaded(r, results) ==
    [stored[r] EXCEPT !.answered = [i \in DOMAIN @ |-> @[i] \/ i \in results]]

ResumeFromStorage(c, e, r, t) ==
    /\ stored[r] # None
    /\ stored[r].status \in Problematic
    /\ \E o \in Objects, results \in SUBSET DOMAIN stored[r].answered :
         LET rec == Loaded(r, results)
         IN /\ ~InUse(o) /\ o # agentOut
            /\ agentOut' = o
            /\ \/ /\ Resumable(rec)
                  /\ Allocate(o, [rec EXCEPT !.task = t])
                  /\ \E p \in Steps : /\ ResumePoint(rec, p)
                                      /\ Enter(c, e, r, o, TRUE, p)
                  /\ agentRun' = r
                  /\ Answer(c, "none")
               \/ ~Resumable(rec) /\ Allocate(o, rec) /\ Reject(c)
    /\ UNCHANGED <<task, issued, registry, stored, faults>>

(* With a Task only: the Task's status decides, then the agent's own output *)
(* is used whatever run it belongs to; storage only when there is none.     *)
ContinueTask(c, r) ==
    /\ ~Busy(c)
    /\ task[r] \in Problematic
    /\ \/ ResumeInMemory(c, "task", r, r)
       \/ agentOut = None /\ ResumeFromStorage(c, "task", r, r)

\* Mutant: the run_id is not compared.
AnyOwnRun(r) == agentOut # None

OwnRun(r) == agentOut # None /\ out[agentOut].run = r

(* With a run_id only: the agent's own output if it is of that run.         *)
ContinueRun(c, r) ==
    /\ ~Busy(c)
    /\ r \in issued
    /\ \/ /\ OwnRun(r)
          /\ out[agentOut].status \in Problematic
          /\ ResumeInMemory(c, "run", r, None)
       \/ ~OwnRun(r) /\ ResumeFromStorage(c, "run", r, None)

(* A run_id that neither the agent nor storage knows as completed or        *)
(* stopped: continue_run_async calls do_async without a Task, which raises. *)
ContinueUnknown(c, r) ==
    /\ ~Busy(c)
    /\ r \in issued
    /\ IF OwnRun(r) THEN out[agentOut].status = "running" ELSE stored[r] = None
    /\ Answer(c, "raised")
    /\ UNCHANGED <<out, agentOut, agentRun, task, issued, registry, stored,
                   call, faults>>

(* The run is completed: continue_run_async says so and does nothing.       *)
ContinueRefused(c, r) ==
    /\ ~Busy(c)
    /\ r \in issued
    /\ \/ task[r] = "completed"
       \/ OwnRun(r) /\ out[agentOut].status = "completed"
       \/ ~OwnRun(r) /\ stored[r] # None /\ stored[r].status = "completed"
    /\ Answer(c, "refused")
    /\ UNCHANGED <<out, agentOut, agentRun, task, issued, registry, stored,
                   call, faults>>

-----------------------------------------------------------------------------
(* cancel_run(run_id), from any thread, of a run that is registered.        *)
Cancel(r) ==
    /\ registry[r] = "live"
    /\ Fault
    /\ registry' = [registry EXCEPT ![r] = "cancelled"]
    /\ UNCHANGED <<out, agentOut, agentRun, task, issued, stored, call, reply>>

(* The user sets the result of a requirement of the output it was handed.   *)
SetResult(o) ==
    /\ o = agentOut
    /\ out[o].status = "paused"
    /\ ~InUse(o)
    /\ \E i \in DOMAIN out[o].answered :
         /\ ~out[o].answered[i]
         /\ out' = [out EXCEPT ![o].answered[i] = TRUE]
    /\ UNCHANGED <<agentOut, agentRun, task, issued, registry, stored, call,
                   reply, faults>>

(* A new Agent object with the same storage, in the same process: the Task  *)
(* objects and the registry survive.                                        *)
NewAgent ==
    /\ \A c \in Callers : ~Busy(c)
    /\ agentOut # None
    /\ Fault
    /\ agentOut' = None
    /\ agentRun' = None
    /\ out' = [o \in Objects |-> Free]
    /\ UNCHANGED <<task, issued, registry, stored, call, reply>>

(* The process ends and another one starts: only storage survives.          *)
Crash ==
    /\ issued # {}
    /\ Fault
    /\ out' = [o \in Objects |-> Free]
    /\ agentOut' = None
    /\ agentRun' = None
    /\ task' = [r \in Runs |-> None]
    /\ registry' = [r \in Runs |-> "untracked"]
    /\ call' = [c \in Callers |-> Idle]
    /\ reply' = [c \in Callers |-> [kind |-> "none"]]
    /\ UNCHANGED <<issued, stored>>

-----------------------------------------------------------------------------
Pipeline(c) == \/ CompleteStep(c) \/ MemorySave(c) \/ CancelStep(c)
               \/ PauseStep(c) \/ FailStep(c)

Progress(c) == Pipeline(c) \/ Return(c) \/ Unwind(c) \/ Reenter(c)

Call(c, r) == \/ Start(c, r) \/ StartRefused(c, r)
              \/ ContinueTask(c, r) \/ ContinueRun(c, r)
              \/ ContinueUnknown(c, r) \/ ContinueRefused(c, r)

Next == \/ \E c \in Callers : Progress(c)
        \/ \E c \in Callers, r \in Runs : Call(c, r)
        \/ \E r \in Runs : Cancel(r)
        \/ \E o \in Objects : SetResult(o)
        \/ NewAgent
        \/ Crash

Spec == Init /\ [][Next]_vars

(* A call that is executing keeps being scheduled, and what it awaits (the  *)
(* model, a tool, storage) answers or raises.                               *)
FairSpec == Spec /\ \A c \in Callers : WF_vars(Progress(c))

-----------------------------------------------------------------------------
TypeOK ==
    /\ out \in [Objects -> Output \cup {Free}]
    /\ agentOut \in Objects \cup {None}
    /\ agentRun \in Runs \cup {None}
    /\ task \in [Runs -> RunStatus \cup {None}]
    /\ issued \in SUBSET Runs
    /\ registry \in [Runs -> {"untracked", "live", "cancelled"}]
    /\ stored \in [Runs -> Output \cup {None}]
    /\ call \in [Callers -> Executing \cup {Idle}]
    /\ reply \in [Callers -> Reply]
    /\ faults \in 0..MaxFaults

Covered(rs, p) ==
    \A q \in 0..(p - 1) :
        \E i \in DOMAIN rs : rs[i] = [step |-> q, status |-> "COMPLETED"]

RanEveryStep(rec) == rec.status = "completed" => Covered(rec.results, LastStep)

(* However often a run was stopped, resumed, retried or reloaded, and       *)
(* whatever other calls did to the agent meanwhile, a run that is marked    *)
(* completed executed every step of the pipeline to its end: resuming at    *)
(* get_problematic_step never jumps over work (agent.py 3517).              *)
CompletedRanEveryStep ==
    /\ \A o \in Objects : out[o] # Free => RanEveryStep(out[o])
    /\ \A r \in Runs : stored[r] # None => RanEveryStep(stored[r])

(* Nothing that is executed or kept has a gap: a recorded step was reached  *)
(* over completed steps, and so was the step a call is at and the one it    *)
(* would start again at.  What a call executes, and what the agent points   *)
(* to, exists.  This is why a completed run executed every step.            *)
Gapless(rec) ==
    /\ \A i \in DOMAIN rec.results : Covered(rec.results, rec.results[i].step)
    /\ RanEveryStep(rec)

NoStepSkipped ==
    /\ agentOut # None => out[agentOut] # Free
    /\ \A o \in Objects : out[o] # Free => Gapless(out[o])
    /\ \A r \in Runs : stored[r] # None => Gapless(stored[r])
    /\ \A c \in Callers : Busy(c) =>
         /\ agentOut # None
         /\ out[Obj(c)] # Free
         /\ Covered(out[Obj(c)].results, call[c].step)
         /\ Covered(out[Obj(c)].results, call[c].first)

(* do_async and continue_run_async(run_id) answer with the output of the    *)
(* run they were asked for, not with another that the agent executed.       *)
ReplyOfOwnRun ==
    \A c \in Callers : (reply[c].kind = "output" /\ reply[c].entry # "task")
                           => reply[c].got = reply[c].asked

(* continue_run_async(task) continues the run of that Task.                 *)
TaskContinuesItsRun ==
    \A c \in Callers : (reply[c].kind = "output" /\ reply[c].entry = "task")
                           => reply[c].got = reply[c].asked

(* When no call is executing, a crash destroys nothing of a run that can    *)
(* still be wanted: storage holds the agent's output as memory does, step   *)
(* by step.  Only one that completed at once and keeps no history is missing. *)
StopIsDurable ==
    (agentOut # None /\ \A c \in Callers : ~Busy(c)) =>
        LET rec == out[agentOut]
        IN IF stored[rec.run] = None
           THEN rec.status = "completed" /\ rec.run \notin KeepsHistory
           ELSE /\ stored[rec.run].status = rec.status
                /\ stored[rec.run].results = rec.results

(* With one caller, storage may miss checkpoints but never goes back: what  *)
(* is known to be executed of a run stays known, through failed saves,      *)
(* reloads of old checkpoints and crashes.                                  *)
StoredProgressIsKept ==
    [][\A r \in Runs : stored[r] # None =>
         /\ stored'[r] # None
         /\ Len(stored[r].results) <= Len(stored'[r].results)
         /\ SubSeq(stored'[r].results, 1, Len(stored[r].results))
              = stored[r].results]_vars

(* Once a run that is being executed is registered as cancelled, none of    *)
(* its remaining steps is executed and it is not completed.                 *)
CancelIsHonoured ==
    [][\A c \in Callers :
         (AtStep(c) /\ registry[RunOf(c)] = "cancelled")
             => ~(CompleteStep(c) \/ MemorySave(c))]_vars

(* A run that stopped says where: continue_run_async can resume it.         *)
StopSaysWhere ==
    \A o \in Objects : (out[o] # Free /\ out[o].status \in Problematic)
                           => \E p \in Steps : ResumePoint(out[o], p)

(* A run is resumed at the step that stopped it last.                       *)
ResumesWhereItStopped ==
    [][\A c \in Callers :
         (~Busy(c) /\ Busy(c)' /\ call'[c].resumed) =>
             LET rs == out'[call'[c].obj].results
             IN call'[c].first = rs[Len(rs)].step]_vars

(* The agent's current run can be cancelled.                                *)
CurrentRunIsCancellable == agentRun # None => registry[agentRun] # "untracked"

(* After an attempt that failed, the next attempt executes the run again.   *)
RetryExecutesAgain ==
    [][\A c \in Callers : (call[c].pc = "backoff" /\ call'[c].pc # "backoff")
                              => (AtStep(c)' \/ agentOut' = None)]_vars

(* The durable view of the runs.                                            *)
Lifecycle == INSTANCE RunLifecycle WITH
    durable <- [r \in Runs |-> IF stored[r] = None THEN "none"
                               ELSE stored[r].status],
    told <- [c \in Callers |-> IF reply[c].kind # "output" THEN None
                               ELSE [run |-> reply[c].got,
                                     status |-> reply[c].status]]

(* With one caller and a storage that works, callers and crashes see an     *)
(* atomic, durable life of each run, in which completion is final.          *)
ImplementsLifecycle == Lifecycle!Spec

(* Every call ends, whatever stops, fails or is retried.                    *)
EveryCallEnds == \A c \in Callers : Busy(c) ~> ~Busy(c)

(* A registered cancellation of a run that is being executed ends the call, *)
(* which says so, unless the process ends first.                            *)
CancelIsAnswered ==
    \A c \in Callers :
        (AtStep(c) /\ registry[RunOf(c)] = "cancelled") ~>
            \/ reply[c].kind = "output" /\ reply[c].status = "cancelled"
            \/ agentOut = None
=============================================================================
