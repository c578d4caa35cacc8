---------------------------- MODULE SessionStore ----------------------------
(***************************************************************************)
(* One session in storage, shared by the runs that have its session_id and *)
(* by the history editing of Chat.  Everyone who changes the session loads *)
(* all of it, changes the copy, and puts the copy back.                    *)
(*                                                                         *)
(* A run's messages are numbered 1 (the request), 2, ... (responses); those *)
(* of earlier runs that precede them in chat_history are left out.         *)
(***************************************************************************)
EXTENDS Integers, Sequences, FiniteSets, SequencesExt

CONSTANTS
    Runs,          \* runs with this session_id
    KeepsHistory,  \* those whose Memory has full_session_memory enabled
    Editor,        \* the Chat that edits the history
    None,          \* no record, no copy
    Overlap,       \* something is awaited between load and upsert
    MaxCalls, MaxStops, MaxEdits  \* bounds

ASSUME RunsAssumption == IsFiniteSet(Runs)
ASSUME KeepsHistoryAssumption == KeepsHistory \subseteq Runs
ASSUME EditorAssumption == Editor \notin Runs
ASSUME OverlapAssumption == Overlap \in BOOLEAN

VARIABLES
    session,   \* the session in storage
    run,       \* each run's AgentRunOutput
    saving,    \* runs that are in asave()
    copy,      \* the session that asave() or an edit has loaded
    stops,     \* stops, crashes and failed saves so far
    edits,     \* edits and resets so far
    entry,     \* where continue_run_async entered the pipeline with a run
    unmarked,  \* runs that went on behind messages without marking them
    restarted, \* runs that began again after their messages were built
    erased,    \* messages removed by the user
    excused    \* runs whose record storage refused, or was told to drop

vars == <<session, run, saving, copy, stops, edits, entry, unmarked, restarted,
          erased, excused>>

-----------------------------------------------------------------------------
(* made:   messages in chat_history, all of them the run's own here;        *)
(* from:   the last of _run_boundaries;                                     *)
(* point:  where get_problematic_step resumes it, before ("early") or after *)
(*         its messages were built: at its first error, if it has one       *)
(*         (failed), and else where it stopped first.                       *)
Output ==
    {o \in [status : {"new", "starting", "running", "stopped", "completed", "gone"},
            made : Nat, from : Nat, usage : Nat,
            point : {"none", "early", "late"}, failed : BOOLEAN] : o.from <= o.made}

ASSUME NoneAssumption == None \notin Output

NewOutput == [status |-> "new", made |-> 0, from |-> 0, usage |-> 0,
              point |-> "none", failed |-> FALSE]

Session == [runs : [Runs -> Output \cup {None}],
            messages : Seq(Runs \X Nat),
            usage : Nat]

EmptySession == [runs |-> [r \in Runs |-> None], messages |-> <<>>, usage |-> 0]

Writers == Runs \cup {Editor}

(* Mutant: every message of the run counts as new.                          *)
NewMessagesAll(r) == [i \in 1..run[r].made |-> <<r, i>>]

(* new_messages(): those after the boundary.                                *)
NewMessages(r) ==
    [i \in 1..(run[r].made - run[r].from) |-> <<r, run[r].from + i>>]

(* Mutant: a memory that is switched off saves no new run at all.           *)
SkipsDisabled(s, r) == r \notin KeepsHistory /\ s.runs[r] = None

(* A completed run that was never saved stays so when memory is off.        *)
Skips(s, r) == /\ run[r].status = "completed"
               /\ r \notin KeepsHistory
               /\ s.runs[r] = None

(* Mutant: messages are appended when the run completes, not at its stops.  *)
SavedAtEnd(s, r) ==
    [runs |-> [s.runs EXCEPT ![r] = run[r]],
     messages |-> IF run[r].status = "completed" /\ r \in KeepsHistory
                  THEN s.messages \o NewMessages(r) ELSE s.messages,
     usage |-> s.usage + run[r].usage]

(* Mutant: the session counts the usage of completed runs only.             *)
SavedUsageAtEnd(s, r) ==
    [runs |-> [s.runs EXCEPT ![r] = run[r]],
     messages |-> IF run[r].status = "completed" /\ r \notin KeepsHistory
                  THEN s.messages ELSE s.messages \o NewMessages(r),
     usage |-> IF run[r].status = "completed" THEN s.usage + run[r].usage ELSE s.usage]

(* Mutant: a session that is saved starts with no other runs.               *)
SavedAlone(s, r) ==
    [runs |-> [EmptySession.runs EXCEPT ![r] = run[r]],
     messages |-> s.messages \o NewMessages(r),
     usage |-> s.usage + run[r].usage]

(* The session s after run r was put into it.                               *)
Saved(s, r) ==
    [runs |-> [s.runs EXCEPT ![r] = run[r]],
     messages |-> IF run[r].status = "completed" /\ r \notin KeepsHistory
                  THEN s.messages ELSE s.messages \o NewMessages(r),
     usage |-> s.usage + run[r].usage]

Init ==
    /\ session = EmptySession
    /\ run = [r \in Runs |-> NewOutput]
    /\ saving = {}
    /\ copy = [w \in Writers |-> None]
    /\ stops = 0
    /\ edits = 0
    /\ entry = [r \in Runs |-> "none"]
    /\ unmarked = {}
    /\ restarted = {}
    /\ erased = {}
    /\ excused = {}

-----------------------------------------------------------------------------
(* A run up to its save.                                                    *)

Executing(r) == run[r].status \in {"starting", "running"}

Start(r) ==
    /\ run[r].status = "new"
    /\ run' = [run EXCEPT ![r].status = "starting"]
    /\ UNCHANGED <<session, saving, copy, stops, edits, entry, unmarked, restarted,
                   erased, excused>>

(* MessageBuildStep: the stored history, the boundary, the request.         *)
Build(r) ==
    /\ run[r].status = "starting"
    /\ run' = [run EXCEPT ![r].status = "running", ![r].made = 1, ![r].from = 0]
    /\ UNCHANGED <<session, saving, copy, stops, edits, entry, unmarked, restarted,
                   erased, excused>>

(* A model call, whose usage counts even if its response is not kept.       *)
Ask(r, kept) ==
    /\ run[r].status = "running"
    /\ run[r].usage < MaxCalls
    /\ run' = [run EXCEPT ![r].usage = @ + 1, ![r].made = @ + kept]
    /\ UNCHANGED <<session, saving, copy, stops, edits, entry, unmarked, restarted,
                   erased, excused>>

(* Where a run is resumed that stops now, with an error or otherwise.       *)
Point(r, error) ==
    IF run[r].point = "none" \/ (error /\ ~run[r].failed)
    THEN IF run[r].status = "starting" THEN "early" ELSE "late"
    ELSE run[r].point

(* Paused or cancelled, or failed: the checkpoint is saved.                 *)
Stop(r, error) ==
    /\ Executing(r)
    /\ stops < MaxStops
    /\ run' = [run EXCEPT ![r].status = "stopped", ![r].point = Point(r, error),
                          ![r].failed = @ \/ error]
    /\ saving' = saving \cup {r}
    /\ stops' = stops + 1
    /\ UNCHANGED <<session, copy, edits, entry, unmarked, restarted, erased, excused>>

(* MemorySaveStep.  A run answered from a cache builds no messages.         *)
Complete(r) ==
    /\ run[r].status = "starting" \/ (run[r].status = "running" /\ run[r].made > 1)
    /\ run' = [run EXCEPT ![r].status = "completed"]
    /\ saving' = saving \cup {r}
    /\ UNCHANGED <<session, copy, stops, edits, entry, unmarked, restarted, erased,
                   excused>>

-----------------------------------------------------------------------------
(* asave(), and the edits, which load and write in the same way.            *)

MayLoad == Overlap \/ \A w \in Writers : copy[w] = None

Load(r) ==
    /\ r \in saving
    /\ copy[r] = None
    /\ MayLoad
    /\ copy' = [copy EXCEPT ![r] = session]
    /\ UNCHANGED <<session, run, saving, stops, edits, entry, unmarked, restarted,
                   erased, excused>>

Write(r) ==
    /\ copy[r] # None
    /\ session' = IF Skips(copy[r], r) THEN session ELSE Saved(copy[r], r)
    /\ saving' = saving \ {r}
    /\ copy' = [copy EXCEPT ![r] = None]
    /\ UNCHANGED <<run, stops, edits, entry, unmarked, restarted, erased, excused>>

(* Whatever storage raises is swallowed.                                    *)
SaveFails(r) ==
    /\ r \in saving
    /\ stops < MaxStops
    /\ saving' = saving \ {r}
    /\ copy' = [copy EXCEPT ![r] = None]
    /\ stops' = stops + 1
    /\ excused' = excused \cup {r}
    /\ UNCHANGED <<session, run, edits, entry, unmarked, restarted, erased>>

LoadToEdit ==
    /\ copy[Editor] = None
    /\ MayLoad
    /\ edits < MaxEdits
    /\ session.messages # <<>>
    /\ copy' = [copy EXCEPT ![Editor] = session]
    /\ edits' = edits + 1
    /\ UNCHANGED <<session, run, saving, stops, entry, unmarked, restarted, erased, excused>>

(* aclear_history(), or adelete_message(i).                                 *)
Edit(kept) ==
    /\ copy[Editor] # None
    /\ session' = [copy[Editor] EXCEPT !.messages = kept]
    /\ erased' = erased \cup (ToSet(copy[Editor].messages) \ ToSet(kept))
    /\ copy' = [copy EXCEPT ![Editor] = None]
    /\ UNCHANGED <<run, saving, stops, edits, entry, unmarked, restarted, excused>>

Edits(messages) ==
    {<<>>} \cup {RemoveAt(messages, i) : i \in 1..Len(messages)}

(* areset_session() deletes the session; runs in progress save into a new   *)
(* one later.                                                               *)
Reset ==
    /\ MayLoad
    /\ edits < MaxEdits
    /\ session' = EmptySession
    /\ erased' = erased \cup ToSet(session.messages)
    /\ excused' = excused \cup {r \in Runs : run[r].status # "new"}
    /\ edits' = edits + 1
    /\ UNCHANGED <<run, saving, copy, stops, entry, unmarked, restarted>>

-----------------------------------------------------------------------------
(* A stopped run that enters the pipeline again, its boundary where it was.  *)
Continued(o, at) ==
    [o EXCEPT !.status = IF at = "early" THEN "starting" ELSE "running"]

(* Mutant: a continuation never moves the boundary.                         *)
ResumedUnmarked(o) == Continued(o, o.point)

(* _prepare_continuation_context: a run that goes on behind MessageBuildStep *)
(* marks what it has so far as old, another is to build its messages anew.  *)
Resumed(o) ==
    IF o.point = "early" THEN Continued(o, "early")
    ELSE [Continued(o, "late") EXCEPT !.from = o.made]

(* Whether run r, continued as o, builds messages it had built before.      *)
StartsOver(r, o, at) == IF at = "early" /\ o.made > 0 THEN {r} ELSE {}

Resume(r) ==
    /\ run[r].status = "stopped"
    /\ r \notin saving
    /\ run' = [run EXCEPT ![r] = Resumed(run[r])]
    /\ entry' = [entry EXCEPT ![r] = run[r].point]
    /\ restarted' = restarted \cup StartsOver(r, run[r], run[r].point)
    /\ UNCHANGED <<session, saving, copy, stops, edits, unmarked, erased, excused>>

(* Another Agent, or another process, continues a stored run.               *)
ResumeStored(r) ==
    /\ run[r].status \in {"stopped", "gone"}
    /\ r \notin saving
    /\ session.runs[r] # None
    /\ session.runs[r].status = "stopped"
    /\ run' = [run EXCEPT ![r] = Resumed(session.runs[r])]
    /\ entry' = [entry EXCEPT ![r] = session.runs[r].point]
    /\ restarted' = restarted \cup StartsOver(r, session.runs[r], session.runs[r].point)
    /\ UNCHANGED <<session, saving, copy, stops, edits, unmarked, erased, excused>>

(* continue_run_async goes on by itself after a save, without a call of     *)
(* start_new_run(): with the results of external_tool_executor at the       *)
(* problematic step, or, when @retryable enters do_async again, where it    *)
(* entered before.                                                          *)
GoOn(r, at) ==
    /\ run[r].status = "stopped"
    /\ r \notin saving
    /\ entry[r] # "none"
    /\ at \in {run[r].point, entry[r]}
    /\ run' = [run EXCEPT ![r] = Continued(run[r], at)]
    /\ entry' = [entry EXCEPT ![r] = at]
    /\ unmarked' = IF at = "late" /\ run[r].from < run[r].made
                   THEN unmarked \cup {r} ELSE unmarked
    /\ restarted' = restarted \cup StartsOver(r, run[r], at)
    /\ UNCHANGED <<session, saving, copy, stops, edits, erased, excused>>

(* The process ends, and every run in it.                                   *)
Crash ==
    /\ stops < MaxStops
    /\ run' = [r \in Runs |-> IF run[r].status = "new" THEN run[r]
                              ELSE [NewOutput EXCEPT !.status = "gone"]]
    /\ saving' = {}
    /\ copy' = [w \in Writers |-> None]
    /\ stops' = stops + 1
    /\ entry' = [r \in Runs |-> "none"]
    /\ UNCHANGED <<session, edits, unmarked, restarted, erased, excused>>

-----------------------------------------------------------------------------
Next ==
    \/ \E r \in Runs :
         \/ Start(r) \/ Build(r) \/ (\E kept \in {0, 1} : Ask(r, kept))
         \/ (\E error \in BOOLEAN : Stop(r, error)) \/ Complete(r)
         \/ Load(r) \/ Write(r) \/ SaveFails(r)
         \/ Resume(r) \/ ResumeStored(r) \/ (\E at \in {"early", "late"} : GoOn(r, at))
    \/ LoadToEdit
    \/ copy[Editor] # None /\ \E kept \in Edits(copy[Editor].messages) : Edit(kept)
    \/ Reset
    \/ Crash

Spec == Init /\ [][Next]_vars
-----------------------------------------------------------------------------
TypeOK ==
    /\ session \in Session
    /\ run \in [Runs -> Output]
    /\ saving \subseteq Runs
    /\ copy \in [Writers -> Session \cup {None}]
    /\ {stops, edits} \subseteq Nat
    /\ entry \in [Runs -> {"none", "early", "late"}]
    /\ unmarked \subseteq Runs
    /\ restarted \subseteq Runs
    /\ erased \subseteq Runs \X Nat
    /\ excused \subseteq Runs

(* While saves do not overlap, storage keeps one record per run, whatever   *)
(* other runs and the history editing do (storage/memory/session/agent.py   *)
(* 192-251).                                                                *)
RecordsOfRuns == INSTANCE RunStore WITH runs <- run, stored <- session.runs
ImplementsRunStore == RecordsOfRuns!Spec

(* A run that stopped, and whose save is over, can be resumed from storage  *)
(* as it is, even with full session memory off (asave, 176-178).            *)
CheckpointIsStored ==
    \A r \in Runs \ excused :
        (run[r].status = "stopped" /\ r \notin saving) => session.runs[r] = run[r]

InOrder(r) ==
    \A i, j \in 1..Len(session.messages) :
        (i < j /\ session.messages[i][1] = r /\ session.messages[j][1] = r)
            => session.messages[i][2] < session.messages[j][2]

(* However often a run stops, is resumed here or elsewhere, and is saved,   *)
(* the session holds its messages once and in their order (session/agent.py *)
(* 937-945), if every continuation behind its messages marked them          *)
(* (agent.py 3516-3522) and none built them a second time.                  *)
MessagesOnceInOrder == \A r \in Runs \ (unmarked \cup restarted) : InOrder(r)

(* The same of runs that went on unmarked, after a pause with an executor   *)
(* (agent.py 3719-3737) or because of @retryable (2499): their next save    *)
(* appends what was stored when they stopped once more.                     *)
RoundsOnceInOrder == \A r \in Runs \ restarted : InOrder(r)

(* The same of runs that are resumed early whenever they stop, and build    *)
(* and save their request again.                                            *)
EveryMessageOnce == \A r \in Runs \ unmarked : InOrder(r)

(* No message of a stored run is missing, unless the user erased it: the    *)
(* boundaries of a resumed run leave no gap (agent.py 3511-3522).           *)
ConversationIsWhole ==
    \A r \in Runs \ excused :
        (session.runs[r] # None /\ (session.runs[r].status = "stopped" \/ r \in KeepsHistory))
            => \A n \in 1..session.runs[r].made :
                   <<r, n>> \in ToSet(session.messages) \cup erased

(* What the user erased does not come back with a later save                *)
(* (chat/session_manager.py 769-785) of a run whose messages every          *)
(* continuation marked, and none built a second time.                       *)
ErasedStaysErased ==
    \A m \in ToSet(session.messages) \cap erased : m[1] \in unmarked \cup restarted

(* The same of runs that went on unmarked.                                  *)
ErasedInRounds ==
    \A m \in ToSet(session.messages) \cap erased : m[1] \in restarted

UsageOfRuns ==
    SumFunction([r \in Runs |-> IF session.runs[r] = None THEN 0
                                ELSE session.runs[r].usage])

(* The session never counts less than its runs used.                        *)
UsageCovered == session.usage >= UsageOfRuns

(* The usage of the session is that of all its runs (session/agent.py       *)
(* 741-748).                                                                *)
UsageAddsUp == session.usage = UsageOfRuns
=============================================================================
