----------------------------- MODULE PolicyCheck -----------------------------
(***************************************************************************)
(* PolicyCheck: the safety policies around one question to the model.      *)
(* User policies rewrite the prompt or refuse it; what they replaced is    *)
(* put back into the answer; agent policies rewrite the answer, refuse it, *)
(* or have the model try again with feedback.                              *)
(*                                                                         *)
(* Calls of one Agent share its current output and the manager's count of  *)
(* retries.  Calls of any Agents share the policies that the program uses: *)
(* an action object holds the text it works on in its attributes.          *)
(***************************************************************************)
EXTENDS Naturals, Sequences, FiniteSets, SequencesExt

CONSTANTS
    Calls,
    Words, Spoken,   \* a text is a set of words; Spoken are those of the model
    Prompts,
    UserPolicies, AgentPolicies,   \* sequences of policies
    Kind,            \* of a policy: "transform", "block" or "raise"
    Finds,           \* the words that the rule of a policy finds
    Cover,           \* what its action puts in place of a word
    LoopCount,       \* feedback rounds; 0 when feedback is switched off
    Sharings,        \* what calls may share: sets of "agent" and "policies"
    MaxFaults

Policies == ToSet(UserPolicies) \cup ToSet(AgentPolicies)
Texts == SUBSET Words
Verdicts == {"allow", "transform", "block", "raise"}

ASSUME PolicyAssumption ==
    /\ IsFiniteSet(Words) /\ Prompts \subseteq Texts /\ Spoken \in Texts
    /\ UserPolicies \in Seq(Policies) /\ AgentPolicies \in Seq(Policies)
    /\ Kind \in [Policies -> Verdicts \ {"allow"}]
    /\ Finds \in [Policies -> Texts]
    /\ Cover \in [Policies -> [Words -> Words]]
    /\ LoopCount \in Nat /\ MaxFaults \in Nat
    /\ Sharings \subseteq SUBSET {"agent", "policies"}

VARIABLES
    shared,          \* what the calls share, as the program is written
    prompt, built,   \* AgentRunInput: user_prompt, and the input built from it
    current,         \* agent._agent_run_output
    retries,         \* agent_policy_manager._current_retry_count
    action,          \* the attributes of action objects
    call, reply,     \* by call: where it is, and how it ended
    faults,
    asked, sent,     \* what the user asked, and the model was asked
    answer,          \* the last answer of the model
    passed           \* agent policies that checked it or failed, by position

shares == <<current, retries, action>>
history == <<asked, sent, answer>>
vars == <<shared, prompt, built, shares, call, reply, faults, history, passed>>

NotBuilt == [text |-> {}, done |-> FALSE]
Built(text) == [text |-> text, done |-> TRUE]
NoWork == [text |-> {}, hits |-> {}]
Idle == [pc |-> "idle", phase |-> "user", k |-> 1, text |-> {}, hits |-> {},
         verdict |-> "allow", told |-> FALSE, map |-> <<>>, round |-> 0]

(* The calls whose output, count or action object c uses.                   *)
Common == CHOOSE c \in Calls : TRUE
AgentOf(c) == IF "agent" \in shared THEN Common ELSE c
ActionOf(c, p) == <<IF "policies" \in shared THEN Common ELSE c, p>>

Init ==
    /\ shared \in Sharings
    /\ prompt = [c \in Calls |-> {}]
    /\ built = [c \in Calls |-> NotBuilt]
    /\ current = [c \in Calls |-> c]
    /\ retries = [c \in Calls |-> 0]
    /\ action = [o \in Calls \X Policies |-> NoWork]
    /\ call = [c \in Calls |-> Idle]
    /\ reply = [c \in Calls |-> "none"]
    /\ faults = 0
    /\ asked = [c \in Calls |-> {}] /\ sent = [c \in Calls |-> {}]
    /\ answer = [c \in Calls |-> {}] /\ passed = [c \in Calls |-> {}]
-----------------------------------------------------------------------------
Chain(c) == IF call[c].phase = "user" THEN UserPolicies ELSE AgentPolicies
Here(c) == Chain(c)[call[c].k]
AtPolicy(c, pc) == call[c].pc = pc /\ call[c].k <= Len(Chain(c))
AtVerdict(c, phase) ==
    call[c].pc = "rule" /\ call[c].phase = phase /\ call[c].k > Len(Chain(c))

(* execute_policies_async on a text.                                        *)
Checking(rec, phase, text) ==
    [rec EXCEPT !.pc = "rule", !.phase = phase, !.k = 1, !.text = text,
                !.hits = {}, !.verdict = "allow", !.told = FALSE, !.map = <<>>]

NextPolicy(rec) == [rec EXCEPT !.pc = "rule", !.k = @ + 1, !.hits = {}]

Stop(rec, c) == [rec EXCEPT !.pc = "rule", !.k = Len(Chain(c)) + 1, !.hits = {}]

(* A new run: its output becomes the agent's.                               *)
Start(c) ==
    /\ call[c].pc = "idle"
    /\ \E text \in Prompts :
         /\ prompt' = [prompt EXCEPT ![c] = text]
         /\ asked' = [asked EXCEPT ![c] = text]
         /\ call' = [call EXCEPT ![c] = Checking(@, "user", text)]
    /\ current' = [current EXCEPT ![AgentOf(c)] = c]
    /\ UNCHANGED <<shared, built, retries, action, reply, faults, sent, answer, passed>>

(* The rule looks at the text; its result and the text are put in the       *)
(* action object, and a thread is asked to run it.                          *)
Check(c) ==
    /\ AtPolicy(c, "rule")
    /\ LET hits == call[c].text \cap Finds[Here(c)]
       IN /\ action' = [action EXCEPT ![ActionOf(c, Here(c))] =
                          [text |-> call[c].text, hits |-> hits]]
          /\ call' = [call EXCEPT ![c].pc = "action", ![c].hits = hits]
    /\ UNCHANGED <<shared, prompt, built, current, retries, reply, faults, history, passed>>

Pass(c) ==
    passed' = IF call[c].phase = "user" THEN passed
              ELSE [passed EXCEPT ![c] = @ \cup {call[c].k}]

(* What an object holds is of no use once no call is about to read it.      *)
Leave(c) ==
    LET o == ActionOf(c, Here(c))
        InUse == \E d \in Calls \ {c} : AtPolicy(d, "action") /\ ActionOf(d, Here(d)) = o
    IN action' = IF InUse THEN action ELSE [action EXCEPT ![o] = NoWork]

(* An exception in a policy is logged and the next one goes on.             *)
Fail(c) ==
    /\ AtPolicy(c, "rule") \/ AtPolicy(c, "action")
    /\ faults < MaxFaults
    /\ Leave(c)
    /\ faults' = faults + 1
    /\ call' = [call EXCEPT ![c] = NextPolicy(@)]
    /\ Pass(c)
    /\ UNCHANGED <<shared, prompt, built, current, retries, reply, history>>

Transformed(p, work) ==
    {IF w \in work.hits THEN Cover[p][w] ELSE w : w \in work.text}

Entries(p, work) ==
    [i \in DOMAIN SetToSeq(work.hits) |->
        [original |-> SetToSeq(work.hits)[i], anonymous |-> Cover[p][SetToSeq(work.hits)[i]]]]

\* Mutant: the entries of two policies are not renumbered, so the last stay.
MergedOver(map, entries) ==
    [i \in 1..(IF Len(map) > Len(entries) THEN Len(map) ELSE Len(entries)) |->
        IF i <= Len(entries) THEN entries[i] ELSE map[i]]

Merged(map, entries) == map \o entries

(* Feedback is generated while retries are left.  (The count of the user's  *)
(* manager stays 0.)                                                        *)
CanRetry(c) ==
    IF call[c].phase = "user" THEN 0 < LoopCount ELSE retries[AgentOf(c)] < LoopCount

(* The thread runs the action: on what the object holds by now.             *)
Act(c) ==
    /\ AtPolicy(c, "action")
    /\ LET p == Here(c)
           work == action[ActionOf(c, p)]
           rec == [call[c] EXCEPT !.verdict = Kind[p],
                                  !.pc = IF CanRetry(c) THEN "feedback" ELSE "rule"]
       IN call' = [call EXCEPT ![c] =
             IF call[c].hits = {} THEN NextPolicy(@)
             ELSE IF Kind[p] = "transform"
             THEN LET done == [rec EXCEPT !.text = Transformed(p, work),
                                          !.map = Merged(@, Entries(p, work))]
                  IN IF CanRetry(c) THEN done ELSE NextPolicy(done)
             ELSE IF CanRetry(c) THEN rec ELSE Stop(rec, c)]
    /\ Pass(c)
    /\ Leave(c)
    /\ UNCHANGED <<shared, prompt, built, current, retries, reply, faults, history>>

(* A model words the feedback, or fails to.                                 *)
Explain(c) ==
    /\ AtPolicy(c, "feedback")
    /\ \E fails \in {f \in 0..1 : faults + f <= MaxFaults} :
         /\ faults' = faults + fails
         /\ LET rec == [call[c] EXCEPT !.told = @ \/ fails = 0]
            IN call' = [call EXCEPT ![c] = IF rec.verdict = "transform" THEN NextPolicy(rec)
                                           ELSE Stop(rec, c)]
    /\ UNCHANGED <<shared, prompt, built, shares, reply, history, passed>>

(* What the properties say of a call is over when it returns.               *)
Return(c, kind) ==
    /\ reply' = [reply EXCEPT ![c] = kind]
    /\ call' = [call EXCEPT ![c] = [Idle EXCEPT !.pc = "done"]]
    /\ asked' = [asked EXCEPT ![c] = {}]
    /\ sent' = [sent EXCEPT ![c] = {}]
    /\ answer' = [answer EXCEPT ![c] = {}]

Refusing(c) == call[c].verdict \in {"block", "raise"}
AsksForRetry(c) == call[c].phase = "agent" /\ call[c].told /\ CanRetry(c)

(* A refused text is answered by a message, which is the feedback if there  *)
(* is any; DisallowedOperation is raised if there is none.                  *)
Refuse(c) ==
    /\ AtVerdict(c, "user") \/ AtVerdict(c, "agent")
    /\ Refusing(c) /\ ~AsksForRetry(c)
    /\ Return(c, IF call[c].verdict = "raise" /\ ~call[c].told THEN "raised" ELSE "message")
    /\ UNCHANGED <<shared, prompt, built, shares, faults, passed>>

\* Mutant: the prompt is the one the user wrote.
AcceptUnchanged(c) ==
    /\ AtVerdict(c, "user") /\ ~Refusing(c)
    /\ call' = [call EXCEPT ![c].pc = "send"]
    /\ UNCHANGED <<shared, prompt, built, shares, reply, faults, history, passed>>

(* The prompt that the policies changed is written to the agent's output.   *)
Accept(c) ==
    /\ AtVerdict(c, "user") /\ ~Refusing(c)
    /\ prompt' = IF call[c].verdict = "transform"
                 THEN [prompt EXCEPT ![current[AgentOf(c)]] = call[c].text] ELSE prompt
    /\ call' = [call EXCEPT ![c].pc = "send"]
    /\ UNCHANGED <<shared, built, shares, reply, faults, history, passed>>

(* An answer mentions what it was asked, and may say words of its own.      *)
Answers(text) == {text \cup said : said \in SUBSET Spoken}

Restored(text, map) ==
    FoldLeft(LAMBDA t, e : {IF w = e.anonymous THEN e.original ELSE w : w \in t}, text, map)

(* The input is built once, from the agent's current output; the model is   *)
(* asked; what was replaced is put back.  Then the agent's policies start.  *)
Send(c) ==
    /\ call[c].pc = "send"
    /\ LET owner == current[AgentOf(c)]
           text == IF built[owner].done THEN built[owner].text ELSE prompt[owner]
       IN /\ built' = [built EXCEPT ![owner] = Built(text)]
          /\ sent' = [sent EXCEPT ![c] = text]
          /\ \E said \in Answers(text) :
               /\ answer' = [answer EXCEPT ![c] = said]
               /\ call' = [call EXCEPT ![c] = [Checking(@, "agent", Restored(said, @.map))
                                                 EXCEPT !.round = 1]]
    /\ retries' = [retries EXCEPT ![AgentOf(c)] = 0]
    /\ UNCHANGED <<shared, prompt, current, action, reply, faults, asked, passed>>

Deliver(c) ==
    /\ AtVerdict(c, "agent")
    /\ ~Refusing(c) /\ ~AsksForRetry(c)
    /\ Return(c, "answer")
    /\ UNCHANGED <<shared, prompt, built, shares, faults, passed>>

\* Mutant: the answer to the last feedback is not checked.
FewerRounds == LoopCount

Rounds == LoopCount + 1

\* Mutant: a new answer starts the check, and its count, anew.
AskAnew(c) ==
    /\ AtVerdict(c, "agent") /\ AsksForRetry(c)
    /\ \E said \in Answers(sent[c]) :
         /\ answer' = [answer EXCEPT ![c] = said]
         /\ call' = [call EXCEPT ![c] = Checking(@, "agent", said)]
    /\ retries' = [retries EXCEPT ![AgentOf(c)] = 0]
    /\ passed' = [passed EXCEPT ![c] = {}]
    /\ UNCHANGED <<shared, prompt, built, current, action, reply, faults, asked, sent>>

(* The retry is counted, and the model answers the feedback: the answer is  *)
(* checked if a round is left, and is returned as it is if none is.         *)
AskAgain(c) ==
    /\ AtVerdict(c, "agent") /\ AsksForRetry(c)
    /\ IF call[c].round < Rounds
       THEN /\ \E said \in Answers(sent[c]) :
                 /\ answer' = [answer EXCEPT ![c] = said]
                 /\ call' = [call EXCEPT ![c] = [Checking(@, "agent", said)
                                                   EXCEPT !.round = call[c].round + 1]]
            /\ UNCHANGED <<reply, asked, sent>>
       ELSE Return(c, "answer")
    /\ retries' = [retries EXCEPT ![AgentOf(c)] = @ + 1]
    /\ passed' = [passed EXCEPT ![c] = {}]
    /\ UNCHANGED <<shared, prompt, built, current, action, faults>>

Step(c) ==
    \/ Check(c) \/ Fail(c) \/ Act(c) \/ Explain(c)
    \/ Refuse(c) \/ Accept(c) \/ Send(c)
    \/ Deliver(c) \/ AskAgain(c)

Next == \E c \in Calls : Start(c) \/ Step(c)

Spec == Init /\ [][Next]_vars
FairSpec == Spec /\ \A c \in Calls : WF_vars(Step(c))
-----------------------------------------------------------------------------
(* What the user's policies make of a text when none of them fails.         *)
Processed(text) ==
    FoldLeft(LAMBDA t, p : {IF w \in Finds[p] THEN Cover[p][w] ELSE w : w \in t},
             text, UserPolicies)

(* The model is asked what the policies made of what the user asked: not    *)
(* another call's text, and not the text before a policy.                   *)
ModelIsAskedProcessed ==
    \A c \in Calls : call[c].phase = "agent" => sent[c] = Processed(asked[c])

ModelIsAsked ==
    (shared = {} /\ faults = 0) => ModelIsAskedProcessed

(* Every agent policy has checked the answer that a call returns, or failed *)
(* to; or the call returns a message instead.                               *)
ReturnedIsChecked ==
    \A c \in Calls : reply[c] = "answer" => passed[c] = DOMAIN AgentPolicies

AnswersAreChecked == "agent" \notin shared => ReturnedIsChecked

(* What the user gets back in place of the words the model uses is what the *)
(* user wrote.                                                              *)
RestoredIsOriginal ==
    \A c \in Calls : (call[c].phase = "agent" /\ call[c].k = 1 /\ call[c].pc = "rule") =>
        call[c].text = (answer[c] \ sent[c])
                         \cup {w \in asked[c] : Processed({w}) \subseteq answer[c]}

OriginalsComeBack ==
    (shared = {} /\ faults = 0) =>
        \A c \in Calls : (call[c].round = 1 /\ call[c].phase = "agent"
                             /\ call[c].k = 1 /\ call[c].pc = "rule") =>
            call[c].text = (answer[c] \ sent[c])
                             \cup {w \in asked[c] : Processed({w}) \subseteq answer[c]}

(* Every call ends: the rounds of one are bounded even when others reset    *)
(* the count they share.                                                    *)
EveryCheckEnds ==
    \A c \in Calls : (call[c].pc # "idle") ~> (call[c].pc = "done")
=============================================================================
