----------------------------- MODULE RalphLoop -----------------------------
(***************************************************************************)
(* RalphLoop: specifications, then a plan, then iterations of an agent     *)
(* that changes the plan by tool calls, until nothing in it is pending.    *)
(*                                                                         *)
(* All state is in files.  A process may end between any two steps, and    *)
(* the next one goes on from the files.  Each tool call is a thread: it    *)
(* may overlap with others, and go on when the agent gave it up.           *)
(***************************************************************************)
EXTENDS Naturals, Sequences, SequencesExt, FiniteSets

CONSTANTS
    Items,
    Covers,        \* <<i, j>>: the text of item i occurs in that of item j
    Specs,         \* the specifications that a goal leads to
    Plans,         \* what the todo phase makes of an answer
    Contents,      \* what "replace" may write
    Slots, NoCall,
    MaxIterations, \* 0: no limit
    MaxCalls, MaxRuns

VARIABLES
    specs, prompt, plan,      \* the files
    pc, limit, count, pending, stop, status,
    calls,         \* by slot: a tool call and how far it is
    awaited,       \* slots the agent waits for
    runs, made,    \* bounded by MaxRuns and MaxCalls
    planned,       \* items that were written to the plan
    dropped,       \* ... and deleted or replaced
    marked,        \* a line was marked in this iteration
    success,       \* what was recorded of the last iteration
    disturbed      \* a plan was read or lost while a call was writing it

files == <<specs, prompt, plan>>
loop == <<pc, limit, count, pending, stop, status>>
tools == <<calls, awaited, made>>
ghosts == <<planned, dropped, marked, success, disturbed>>
vars == <<files, loop, tools, runs, ghosts>>
-----------------------------------------------------------------------------
(* "- [ ] ", "- [x] ", "- ", "* ", "1. ", and "other": a line that starts   *)
(* with "- [" and goes on otherwise, such as "- [~] item" or "- [API] item". *)
Marks == {"open", "done", "dash", "star", "number", "other"}
Line == [item : Items, mark : Marks]

Ops == {"add", "complete", "delete", "replace"}
Call ==
    [op : Ops, item : Items, step : {"begun", "read", "torn"}, text : Seq(Line)]

Requests ==
    {[op |-> op, item |-> i, step |-> "begun", text |-> <<>>] : op \in Ops \ {"replace"}, i \in Items}
        \cup {[op |-> "replace", item |-> CHOOSE i \in Items : TRUE, step |-> "begun", text |-> text] :
                  text \in Contents}

ASSUME CoversAssumption ==
    /\ Items # {}
    /\ Covers \subseteq Items \X Items
    /\ \A i \in Items : <<i, i>> \in Covers
ASSUME PlansAssumption == Plans \subseteq Seq(Line) \ {<<>>} /\ Contents \subseteq Seq(Line)
ASSUME BoundsAssumption ==
    MaxIterations \in Nat /\ MaxCalls \in Nat /\ MaxRuns \in Nat /\ Slots \subseteq Nat
ASSUME NoCallAssumption == NoCall \notin Call

Phases == {"specs", "saving", "plan", "planning"}
Live == Phases \cup {"top", "agent", "leave"}
Statuses == {"none", "completed", "max_iterations", "stopped", "error"}

ItemsOf(text) == {line.item : line \in ToSet(text)}

(* Mutant: the parser of the loop leaves out what the tools cannot mark.     *)
PendingBoxes(text) == {k \in DOMAIN text : text[k].mark \in {"open", "dash"}}

(* The parser takes a line of the other kind neither as pending nor as done. *)
Settled == {"done", "other"}

PendingLines(text) == {k \in DOMAIN text : text[k].mark \notin Settled}

(* complete_fix_plan_item and remove_pending_item take the first line that  *)
(* contains the text and has a mark they know; "other" is a dash to both.   *)
Known(op) ==
    IF op = "complete" THEN {"open", "dash", "other"} ELSE {"open", "dash", "star", "other"}

Matches(text, op, i) ==
    {k \in DOMAIN text : <<i, text[k].item>> \in Covers /\ text[k].mark \in Known(op)}

First(set) == CHOOSE k \in set : \A l \in set : k <= l

Applied(text, op, i) ==
    IF op = "add" THEN Append(text, [item |-> i, mark |-> "open"])
    ELSE LET k == First(Matches(text, op, i))
         IN IF op = "complete" THEN [text EXCEPT ![k].mark = "done"] ELSE RemoveAt(text, k)

Init ==
    /\ specs = {} /\ prompt = FALSE /\ plan = <<>>
    /\ pc = "idle" /\ limit = 0 /\ count = 0 /\ pending = 0
    /\ stop = FALSE /\ status = "none"
    /\ calls = [c \in Slots |-> NoCall] /\ awaited = {}
    /\ runs = 0 /\ made = 0
    /\ planned = {} /\ dropped = {} /\ marked = FALSE
    /\ success = FALSE /\ disturbed = FALSE
-----------------------------------------------------------------------------
Active == {c \in Slots : calls[c] # NoCall}
Torn == {c \in Active : calls[c].step = "torn"}

(* The plan is read.  While it is being written it reads as empty.          *)
Look == disturbed' = (disturbed \/ Torn # {})

(* The argument max_iterations or else the configuration's; 0 is no limit.  *)
Run ==
    /\ pc \in {"idle", "over"}
    /\ runs < MaxRuns
    /\ runs' = runs + 1
    /\ limit' \in 0..MaxIterations
    /\ pc' = "specs" /\ count' = 0 /\ stop' = FALSE /\ status' = "none"
    /\ UNCHANGED <<files, pending, tools, ghosts>>

Go(to) ==
    /\ pc' = to
    /\ UNCHANGED <<limit, count, pending, stop, status>>

SpecsExist ==
    /\ pc = "specs"
    /\ specs # {}
    /\ Go("plan")
    /\ UNCHANGED <<files, tools, runs, ghosts>>

(* Specifications of the configuration are saved whether or not some exist. *)
HaveSpecs ==
    /\ pc = "specs"
    /\ Go("saving")
    /\ UNCHANGED <<files, tools, runs, ghosts>>

(* They are saved one by one, then the prompt.                              *)
SaveSpec ==
    /\ pc = "saving"
    /\ \E s \in Specs \ specs : specs' = specs \cup {s}
    /\ UNCHANGED <<prompt, plan, loop, tools, runs, ghosts>>

SavePrompt ==
    /\ pc = "saving"
    /\ Specs \subseteq specs
    /\ prompt' = TRUE
    /\ Go("plan")
    /\ UNCHANGED <<specs, plan, tools, runs, ghosts>>

(* A plan is made unless there is one.                                      *)
LookForPlan ==
    /\ pc = "plan"
    /\ Go(IF plan = <<>> THEN "planning" ELSE "top")
    /\ disturbed' = (disturbed \/ (plan = <<>> /\ Active # {}))
    /\ UNCHANGED <<files, tools, runs, planned, dropped, marked, success>>

MakePlan ==
    /\ pc = "planning"
    /\ plan' \in Plans
    /\ planned' = planned \cup ItemsOf(plan')
    /\ dropped' = dropped \ ItemsOf(plan')
    /\ Go("top")
    /\ UNCHANGED <<specs, prompt, tools, runs, marked, success, disturbed>>

(* The agent's answer holds no specification or no item, or it raises.      *)
PhaseFails ==
    /\ pc \in {"saving", "planning"}
    /\ pc = "saving" => specs = {}
    /\ pc' = "over" /\ status' = "error"
    /\ UNCHANGED <<files, limit, count, pending, stop, tools, runs, ghosts>>
-----------------------------------------------------------------------------
Finish(how) ==
    /\ pc' = "leave" /\ status' = how
    /\ UNCHANGED <<limit, pending, stop>>

StopLooping ==
    /\ pc = "top"
    /\ stop
    /\ Finish(status)
    /\ UNCHANGED <<files, count, tools, runs, ghosts>>

(* count is kept up to the limit only.                                      *)
Counted == IF limit = 0 THEN 0 ELSE count + 1

LimitReached ==
    /\ pc = "top"
    /\ ~stop
    /\ Counted > limit
    /\ Finish("max_iterations")
    /\ count' = Counted
    /\ UNCHANGED <<files, tools, runs, ghosts>>

(* Mutant: an iteration that did not succeed is not counted.                *)
BeginUncounted ==
    /\ pc = "top"
    /\ ~stop /\ Counted <= limit
    /\ count' = IF success THEN Counted ELSE count
    /\ Look
    /\ IF PendingLines(plan) = {}
       THEN /\ success' = TRUE
            /\ Finish("completed")
            /\ UNCHANGED marked
       ELSE /\ marked' = FALSE /\ success' = FALSE
            /\ pending' = Cardinality(PendingLines(plan))
            /\ pc' = "agent"
            /\ UNCHANGED <<limit, stop, status>>
    /\ UNCHANGED <<files, tools, runs, planned, dropped>>

(* An iteration begins with the plan as it is; a finished one ends the loop. *)
BeginIteration ==
    /\ pc = "top"
    /\ ~stop /\ Counted <= limit
    /\ count' = Counted
    /\ Look
    /\ IF PendingLines(plan) = {}
       THEN /\ success' = TRUE
            /\ Finish("completed")
            /\ UNCHANGED marked
       ELSE /\ marked' = FALSE /\ success' = FALSE
            /\ pending' = Cardinality(PendingLines(plan))
            /\ pc' = "agent"
            /\ UNCHANGED <<limit, stop, status>>
    /\ UNCHANGED <<files, tools, runs, planned, dropped>>

(* It succeeded if fewer lines are pending than before.                     *)
EndIteration ==
    /\ pc = "agent"
    /\ awaited = {}
    /\ Look
    /\ success' = (Cardinality(PendingLines(plan)) < pending)
    /\ IF PendingLines(plan) = {} THEN pc' = "leave" /\ status' = "completed"
       ELSE pc' = "top" /\ UNCHANGED status
    /\ pending' = 0
    /\ UNCHANGED <<files, limit, count, stop, tools, runs, planned, dropped, marked>>

IterationFails ==
    /\ pc = "agent"
    /\ awaited = {}
    /\ success' = FALSE
    /\ pc' = "top" /\ pending' = 0
    /\ UNCHANGED <<files, limit, count, stop, status, tools, runs, planned, dropped, marked,
                   disturbed>>

(* A callback raises, or a file cannot be read.                             *)
LoopFails ==
    /\ pc = "top"
    /\ pc' = "over" /\ status' = "error"
    /\ UNCHANGED <<files, limit, count, pending, stop, tools, runs, ghosts>>

Leave ==
    /\ pc = "leave"
    /\ pc' = "over"
    /\ status' = IF stop THEN "stopped" ELSE status
    /\ UNCHANGED <<files, limit, count, pending, stop, tools, runs, ghosts>>

Stop ==
    /\ pc \in Live
    /\ ~stop
    /\ stop' = TRUE
    /\ UNCHANGED <<files, pc, limit, count, pending, status, tools, runs, ghosts>>

Crash ==
    /\ pc # "idle"
    /\ pc' = "idle"
    /\ calls' = [c \in Slots |-> NoCall] /\ awaited' = {}
    /\ disturbed' = (disturbed \/ Torn # {})
    /\ UNCHANGED <<files, limit, count, pending, stop, status, made, runs, planned, dropped,
                   marked, success>>
-----------------------------------------------------------------------------
(* The agent calls update_fix_plan, maybe more than once in a response.     *)
CallTool(c) ==
    /\ pc = "agent"
    /\ c \notin Active
    /\ made < MaxCalls
    /\ made' = made + 1
    /\ \E call \in Requests : calls' = [calls EXCEPT ![c] = call]
    /\ awaited' = awaited \cup {c}
    /\ UNCHANGED <<files, loop, runs, ghosts>>

End(c) ==
    /\ calls' = [calls EXCEPT ![c] = NoCall]
    /\ awaited' = awaited \ {c}

ReadPlan(c) ==
    /\ c \in Active
    /\ calls[c].step = "begun"
    /\ calls[c].op = "replace" \/ calls[c].op = "add" \/ Matches(plan, calls[c].op, calls[c].item) # {}
    /\ LET new == IF calls[c].op = "replace" THEN calls[c].text
                  ELSE Applied(plan, calls[c].op, calls[c].item)
       IN /\ calls' = [calls EXCEPT ![c].step = "read", ![c].text = new]
          /\ dropped' = dropped \cup (ItemsOf(plan) \ ItemsOf(new))
    /\ disturbed' = (disturbed \/ \E d \in Active \ {c} : calls[d].step # "begun")
    /\ UNCHANGED <<files, loop, awaited, made, runs, planned, marked, success>>

FindNothing(c) ==
    /\ c \in Active
    /\ calls[c].step = "begun"
    /\ calls[c].op \in {"complete", "delete"} /\ Matches(plan, calls[c].op, calls[c].item) = {}
    /\ End(c)
    /\ UNCHANGED <<files, loop, made, runs, ghosts>>

(* write_text empties the file before it writes.                            *)
Truncate(c) ==
    /\ c \in Active
    /\ calls[c].step = "read"
    /\ plan' = <<>>
    /\ calls' = [calls EXCEPT ![c].step = "torn"]
    /\ UNCHANGED <<specs, prompt, loop, awaited, made, runs, ghosts>>

WritePlan(c) ==
    /\ c \in Torn
    /\ plan' = calls[c].text
    /\ planned' = planned \cup ItemsOf(plan')
    /\ dropped' = dropped \ ItemsOf(plan')
    /\ marked' = (marked \/ calls[c].op = "complete")
    /\ End(c)
    /\ UNCHANGED <<specs, prompt, loop, made, runs, success, disturbed>>

(* The agent gives a call up, whose thread goes on, and may try again.      *)
TimeOut(c) ==
    /\ c \in awaited
    /\ \/ /\ awaited' = awaited \ {c}
          /\ UNCHANGED <<calls, made>>
       \/ /\ made < MaxCalls
          /\ made' = made + 1
          /\ \E d \in Slots \ Active :
                /\ calls' = [calls EXCEPT ![d] = [calls[c] EXCEPT !.step = "begun"]]
                /\ awaited' = (awaited \ {c}) \cup {d}
    /\ UNCHANGED <<files, loop, runs, ghosts>>

Phase ==
    \/ SpecsExist \/ HaveSpecs \/ SaveSpec \/ SavePrompt
    \/ LookForPlan \/ MakePlan \/ PhaseFails
Looping ==
    \/ StopLooping \/ LimitReached \/ BeginIteration
    \/ EndIteration \/ IterationFails \/ LoopFails \/ Leave
Work(c) == ReadPlan(c) \/ FindNothing(c) \/ Truncate(c) \/ WritePlan(c)

Next ==
    \/ Run \/ Phase \/ Looping \/ Stop \/ Crash
    \/ \E c \in Slots : CallTool(c) \/ Work(c) \/ TimeOut(c)

Spec == Init /\ [][Next]_vars

(* The loop goes on, agents answer, and threads run.                        *)
FairSpec == Spec /\ WF_vars(Phase \/ Looping) /\ \A c \in Slots : WF_vars(Work(c))
-----------------------------------------------------------------------------
TypeOK ==
    /\ specs \subseteq Specs /\ prompt \in BOOLEAN /\ plan \in Seq(Line)
    /\ pc \in Live \cup {"idle", "over"} /\ limit \in 0..MaxIterations
    /\ count \in Nat /\ pending \in Nat /\ stop \in BOOLEAN /\ status \in Statuses
    /\ calls \in [Slots -> Call \cup {NoCall}] /\ awaited \subseteq Active
    /\ runs \in 0..MaxRuns /\ made \in 0..MaxCalls
    /\ planned \subseteq Items /\ dropped \subseteq Items
    /\ marked \in BOOLEAN /\ success \in BOOLEAN /\ disturbed \in BOOLEAN

(* When the loop declares the goal complete, every item that was ever in    *)
(* the plan was taken out by a call, is marked there, or stands on a line   *)
(* that the parser does not take for an item, whatever crashes, failures    *)
(* and retries there were.  The provisos: no call read the plan in the      *)
(* middle of another's change, no process ended there, and what a           *)
(* "replace" wrote as "- [~] item" is not counted as left to do             *)
(* (incremental.py:305-321, loop.py:384-387, models.py:104-112).            *)
CompletedMeansDone ==
    [][(status' = "completed" /\ status # "completed" /\ ~disturbed')
          => \A i \in planned \ dropped : \E mark \in Settled :
                [item |-> i, mark |-> mark] \in ToSet(plan)]_vars

(* A loop with a limit, or one that is asked to stop, ends                  *)
(* (loop.py:349-353, 389-390).                                              *)
LoopEnds == (pc \in Live /\ (limit # 0 \/ stop)) ~> pc \notin Live

(* Less of the same, but of disturbed plans too.                            *)
NothingIsForgotten ==
    [][(status' = "completed" /\ status # "completed")
          => planned \ dropped \subseteq ItemsOf(plan)]_vars

(* The same of lines of the other kind too: they are marked as well.        *)
CompletedMeansMarked ==
    [][(status' = "completed" /\ status # "completed" /\ ~disturbed')
          => \A i \in planned \ dropped :
                [item |-> i, mark |-> "done"] \in ToSet(plan)]_vars

(* An iteration that succeeded marked an item.                              *)
SuccessIsAMark == [][pc = "agent" /\ success' /\ ~disturbed' => marked]_vars

(* A call marks a line of the item it names.                                *)
MarksWhatItNames ==
    [][\A c \in Torn :
          (calls[c].op = "complete" /\ plan' = calls[c].text /\ calls'[c] = NoCall /\ ~disturbed)
              => [item |-> calls[c].item, mark |-> "done"] \in ToSet(plan')]_vars

(* What is pending can be completed by its name.                            *)
PendingIsCompletable ==
    ~disturbed => \A k \in PendingLines(plan) : Matches(plan, "complete", plan[k].item) # {}

(* A loop whose plan is done reports that it is.                            *)
CompletedIsReported == [][status = "completed" /\ pc = "leave" /\ pc' = "over" => status' = "completed"]_vars

(* Iterations have a prompt.                                                *)
IterationsHaveAPrompt == pc = "agent" => prompt
=============================================================================
