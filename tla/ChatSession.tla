---------------------------- MODULE ChatSession ----------------------------
(***************************************************************************)
(* The invocations of one Chat: the session state and the number of        *)
(* invocations that SessionManager keeps, the retries of Chat around the   *)
(* agent, and the three ways an invocation is made: invoke(), which        *)
(* blocks, invoke(stream=True) and stream(), which return a generator.     *)
(*                                                                         *)
(* All of it runs on one event loop.  Between the check of the limit and   *)
(* the increment, and between the steps of a `finally`, nothing is         *)
(* awaited, so each is one action.                                         *)
(*                                                                         *)
(* Every invocation is for a Task of its own (a string becomes a new Task). *)
(* Of the agent below the model keeps what decides the fate of a retry:    *)
(* which Task has been given a final status, and whose output is           *)
(* agent._agent_run_output, because the streaming pipeline marks that one. *)
(* The Agent has retry = 1, its default.                                   *)
(***************************************************************************)
EXTENDS Naturals, FiniteSets

CONSTANTS
    Callers,        \* coroutines that use the chat
    MaxConcurrent,  \* max_concurrent_invocations
    RetryAttempts,  \* retry_attempts
    None,           \* Python's None
    Uses,           \* what the program does besides calling invoke(), see below
    MaxActive       \* bound on the count of invocations that stream() starts

(* "stream": it calls chat.stream();                                        *)
(* "drop":   it abandons a generator before iterating it;                   *)
(* "close":  it closes or resets the session while invocations go on.       *)
ASSUME LimitAssumption == MaxConcurrent \in Nat \ {0}
ASSUME RetryAttemptsAssumption == RetryAttempts \in Nat
ASSUME UsesAssumption == Uses \subseteq {"stream", "drop", "close"}
ASSUME NoneAssumption == None \notin Callers

VARIABLES
    state,    \* SessionManager._state
    active,   \* SessionManager._concurrent_invocations
    inv,      \* what each caller's invocation is doing
    current,  \* whose output the agent holds in _agent_run_output
    reply     \* how each caller's last invocation ended

vars == <<state, active, inv, current, reply>>

-----------------------------------------------------------------------------
SessionState == {"idle", "awaiting_response", "streaming", "error"}

(* starting:  the agent is about to be called; a generator that is not yet  *)
(*            iterated stays here;                                          *)
(* executing: the agent's pipeline runs;                                    *)
(* waiting:   asyncio.sleep before the next attempt.                        *)
Invocation == [kind : {"none", "blocking", "stream"},
               pc : {"none", "starting", "executing", "waiting"},
               attempt : 0..RetryAttempts,
               marked : BOOLEAN,                 \* the Task is error or completed
               sent : SUBSET (0..RetryAttempts)] \* attempts that yielded a chunk

NoInvocation == [kind |-> "none", pc |-> "none", attempt |-> 0,
                 marked |-> FALSE, sent |-> {}]

(* A blocking call that raises a connection error or the like is retried;   *)
(* a stream is retried whatever it raised, and once more often after        *)
(* "context manager is already active".                                     *)
Errors == {"transient", "conflict", "other"}

Reply == {"none", "answer", "failure", "refusal", "silence", "busy",
          "interrupted", "dropped"}

InProgress == {c \in Callers : inv[c].pc # "none"}

CanAccept == state # "error" /\ active < MaxConcurrent

Init ==
    /\ state = "idle"
    /\ active = 0
    /\ inv = [c \in Callers |-> NoInvocation]
    /\ current = None
    /\ reply = [c \in Callers |-> "none"]

-----------------------------------------------------------------------------
(* start_invocation and the transition to the busy state.                   *)
Open(c, kind) ==
    /\ c \notin InProgress
    /\ inv' = [inv EXCEPT ![c] = [NoInvocation EXCEPT !.kind = kind,
                                                      !.pc = "starting"]]
    /\ active' = active + 1
    /\ state' = IF kind = "stream" THEN "streaming" ELSE "awaiting_response"
    /\ reply' = [reply EXCEPT ![c] = "none"]
    /\ UNCHANGED current

(* Mutant: the limit is tested against the count after the increment.       *)
InvokeOneMore(c, kind) ==
    /\ state # "error" /\ active <= MaxConcurrent
    /\ Open(c, kind)

Invoke(c, kind) == CanAccept /\ Open(c, kind)

InvokeRefused(c) ==
    /\ c \notin InProgress
    /\ ~CanAccept
    /\ reply' = [reply EXCEPT ![c] = "busy"]
    /\ UNCHANGED <<state, active, inv, current>>

(* chat.stream() starts an invocation without asking can_accept_invocation. *)
Stream(c) ==
    /\ "stream" \in Uses
    /\ active < MaxActive
    /\ Open(c, "stream")

(* Mutant: the state is put back only by invocations that succeed.          *)
FinishIdle(c, r, after) ==
    /\ inv' = [after EXCEPT ![c] = NoInvocation]
    /\ active' = IF active > 0 THEN active - 1 ELSE 0
    /\ state' = IF r = "answer" THEN "idle" ELSE state
    /\ current' = IF current = c THEN None ELSE current
    /\ reply' = [reply EXCEPT ![c] = r]

(* Mutant: end_invocation without max(0, ...).                              *)
FinishUnclamped(c, r, after) ==
    /\ inv' = [after EXCEPT ![c] = NoInvocation]
    /\ active' = active - 1
    /\ state' = "idle"
    /\ current' = IF current = c THEN None ELSE current
    /\ reply' = [reply EXCEPT ![c] = r]

(* The `finally` of every kind of invocation: end_invocation, then IDLE,    *)
(* which also replaces the ERROR that _execute_with_retry has just set.     *)
Finish(c, r, after) ==
    /\ inv' = [after EXCEPT ![c] = NoInvocation]
    /\ active' = IF active > 0 THEN active - 1 ELSE 0
    /\ state' = "idle"
    /\ current' = IF current = c THEN None ELSE current
    /\ reply' = [reply EXCEPT ![c] = r]

-----------------------------------------------------------------------------
(* The agent is called with a Task that has no final status: it replaces    *)
(* its output by a new one for this Task and runs the pipeline.             *)
Begin(c) ==
    /\ inv[c].pc = "starting"
    /\ ~inv[c].marked
    /\ inv' = [inv EXCEPT ![c].pc = "executing"]
    /\ current' = c
    /\ UNCHANGED <<state, active, reply>>

(* _validate_task_for_new_run: do_async returns a text that refuses the     *)
(* Task, astream returns without a word.                                    *)
AgentRefuses(c) ==
    /\ inv[c].pc = "starting"
    /\ inv[c].marked
    /\ Finish(c, IF inv[c].kind = "blocking" THEN "refusal" ELSE "silence", inv)

(* The first chunk of an attempt reaches the consumer.                      *)
Yield(c) ==
    /\ inv[c].kind = "stream"
    /\ inv[c].pc = "executing"
    /\ inv[c].attempt \notin inv[c].sent
    /\ inv' = [inv EXCEPT ![c].sent = @ \cup {inv[c].attempt}]
    /\ UNCHANGED <<state, active, current, reply>>

(* Mutant: the streaming pipeline leaves the Task of a failed run alone.    *)
MarkBlocking(c) ==
    IF inv[c].kind = "blocking" THEN [inv EXCEPT ![c].marked = TRUE] ELSE inv

(* The invocations after c's pipeline gave a final status to a Task: its    *)
(* own when blocking, that of agent._agent_run_output when streaming.       *)
Mark(c) ==
    LET d == IF inv[c].kind = "blocking" THEN c ELSE current
    IN [x \in Callers |-> IF x = d /\ x \in InProgress
                          THEN [inv[x] EXCEPT !.marked = TRUE] ELSE inv[x]]

Answer(c) == inv[c].pc = "executing" /\ Finish(c, "answer", Mark(c))

Retries(c, e) ==
    CASE inv[c].kind = "blocking" -> e = "transient" /\ inv[c].attempt < RetryAttempts
      [] OTHER -> e = "conflict" \/ inv[c].attempt < RetryAttempts

Raise(c, e, after) ==
    \/ /\ Retries(c, e)
       /\ inv' = [after EXCEPT ![c].pc = "waiting"]
       /\ UNCHANGED <<state, active, current, reply>>
    \/ /\ ~Retries(c, e)
       /\ Finish(c, "failure", after)

(* The pipeline raises, or its run is cancelled while streaming.            *)
Fail(c) ==
    /\ inv[c].pc = "executing"
    /\ \E e \in Errors : Raise(c, e, Mark(c))

(* The agent raises before its pipeline runs, and marks nothing.            *)
FailEarly(c) ==
    /\ inv[c].pc = "starting"
    /\ ~inv[c].marked
    /\ \E e \in Errors : Raise(c, e, inv)

(* Mutant: the attempts are not counted.                                    *)
RetryUncounted(c) ==
    /\ inv[c].pc = "waiting"
    /\ inv[c].attempt < RetryAttempts
    /\ inv' = [inv EXCEPT ![c].pc = "starting"]
    /\ UNCHANGED <<state, active, current, reply>>

Retry(c) ==
    /\ inv[c].pc = "waiting"
    /\ inv[c].attempt < RetryAttempts
    /\ inv' = [inv EXCEPT ![c].pc = "starting", ![c].attempt = @ + 1]
    /\ UNCHANGED <<state, active, current, reply>>

(* A stream waited after its last attempt, and the loop over the attempts   *)
(* ends without having answered or raised.                                  *)
GiveUp(c) ==
    /\ inv[c].pc = "waiting"
    /\ inv[c].attempt = RetryAttempts
    /\ Finish(c, "silence", inv)

-----------------------------------------------------------------------------
(* The caller's coroutine is cancelled, or its generator closed.            *)
Interrupt(c) ==
    /\ inv[c].pc \in {"executing", "waiting"}
    /\ Finish(c, "interrupted", inv)

(* The caller abandons a generator that never ran: there is no `finally`    *)
(* to execute, and the invocation stays counted.                            *)
Drop(c) ==
    /\ "drop" \in Uses
    /\ inv[c].kind = "stream"
    /\ inv[c].pc = "starting"
    /\ inv[c].attempt = 0
    /\ inv' = [inv EXCEPT ![c] = NoInvocation]
    /\ reply' = [reply EXCEPT ![c] = "dropped"]
    /\ UNCHANGED <<state, active, current>>

(* close(), reset_session(): invocations in progress are forgotten, not     *)
(* stopped.  A closed chat accepts invocations like an open one.            *)
Close ==
    /\ "close" \in Uses \/ InProgress = {}
    /\ state' = "idle"
    /\ active' = 0
    /\ UNCHANGED <<inv, current, reply>>

-----------------------------------------------------------------------------
Executes(c) == \/ Begin(c) \/ AgentRefuses(c) \/ Yield(c) \/ Answer(c)
               \/ Fail(c) \/ FailEarly(c) \/ Retry(c) \/ GiveUp(c)

Next == \/ \E c \in Callers :
             \/ Invoke(c, "blocking") \/ Invoke(c, "stream")
             \/ InvokeRefused(c) \/ Stream(c)
             \/ Executes(c) \/ Interrupt(c) \/ Drop(c)
        \/ Close

Spec == Init /\ [][Next]_vars

(* An invocation goes on by itself unless it is a generator that its        *)
(* consumer has not begun to iterate.                                       *)
Driven(c) == /\ c \in InProgress
             /\ ~(/\ inv[c].kind = "stream"
                  /\ inv[c].pc = "starting"
                  /\ inv[c].attempt = 0)

(* The event loop schedules what can run, the agent answers or raises, and  *)
(* a consumer that began to iterate a stream goes on.                       *)
FairSpec == Spec /\ \A c \in Callers : WF_vars(Driven(c) /\ Executes(c))

-----------------------------------------------------------------------------
TypeOK ==
    /\ state \in SessionState
    /\ active \in Nat
    /\ inv \in [Callers -> Invocation]
    /\ current \in Callers \cup {None}
    /\ reply \in [Callers -> Reply]

(* No more invocations are in progress than max_concurrent_invocations      *)
(* allows (session_manager.py 284).                                         *)
LimitRespected == Cardinality(InProgress) <= MaxConcurrent

(* The chat gives slots to invocations and gets them back (chat.py 700,     *)
(* 719, 781), provided only invoke() is used and sessions are closed when   *)
(* nothing is in progress.  Abandoned generators do not break this.         *)
Slots == INSTANCE InvocationSlots WITH holders <- InProgress
ImplementsSlots == Slots!Spec

(* A caller is refused only while as many invocations as the limit allows   *)
(* are in progress: every way an invocation can end gives its slot back     *)
(* (chat.py 698-714).                                                       *)
RefusedOnlyWhenFull == ~CanAccept => Cardinality(InProgress) >= MaxConcurrent

(* chat.state tells whether an invocation is in progress, and which kind.   *)
StateReflectsUse ==
    /\ state = "idle" <=> InProgress = {}
    /\ state = "streaming" => \E c \in InProgress : inv[c].kind = "stream"
    /\ state = "awaiting_response" => \E c \in InProgress : inv[c].kind = "blocking"

(* What the consumer of a stream hears comes from one attempt: a stream     *)
(* that broke off is never started over behind the consumer's back          *)
(* (chat.py 801-830), because the attempt that broke off marked the Task.   *)
OneAttemptIsHeard ==
    \A c \in Callers : \A i, j \in inv[c].sent : i = j

(* An invocation that was not answered raises (chat.py 682-685).            *)
FailureIsRaised == \A c \in Callers : reply[c] \notin {"refusal", "silence"}

(* After an invocation failed for good the chat is in its error state       *)
(* (chat.py 556, 577), until it is reset or another invocation changes it.  *)
FailureLeavesError ==
    [][\A c \in Callers :
         (inv[c].kind = "blocking" /\ c \notin InProgress' /\ reply'[c] = "failure")
             => state' = "error"]_vars

(* Every invocation ends, and in doing so is answered, refused or raised,   *)
(* however often the agent fails, unless its consumer never iterates it.    *)
EveryInvocationEnds == \A c \in Callers : Driven(c) ~> c \notin InProgress
=============================================================================
