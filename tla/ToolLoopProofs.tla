--------------------------- MODULE ToolLoopProofs ---------------------------
(***************************************************************************)
(* What ToolLoop promises for any tools, configurations, limit and bounds: *)
(* every call is answered once, effects are told, and the requests of an   *)
(* execution and the count of calls are bounded.                           *)
(***************************************************************************)
EXTENDS ToolLoop, FiniteSetTheorems, SequenceTheorems, TLAPS

(* The calls of a batch are done, to be done, or pause the run.             *)
BatchIsSplit ==
    /\ current.calls # {} => current.by = "model"
    /\ IsFiniteSet(current.calls) /\ Cardinality(current.calls) <= Cardinality(Tools)
    /\ pc = "execute" =>
          /\ current.calls # {}
          /\ todo \cup results \cup pauses = current.calls
          /\ todo \cap results = {} /\ todo \cap pauses = {} /\ results \cap pauses = {}
    /\ pc = "append" => results = current.calls

(* The calls of the batch that may still be counted.                        *)
Due == {call \in current.calls : call \in todo \/ ~Sequential(call)}

CountIsBounded ==
    /\ count < ToolCallLimit + Cardinality(Tools) + others
    /\ pc = "execute" => count + Cardinality(Due) < ToolCallLimit + Cardinality(Tools) + others

(* Every request but the last one of an execution led to a call that counts *)
(* or is answered with an error.                                            *)
RequestsAreCounted ==
    /\ asked <= ToolCallLimit + uncounted + 1
    /\ pc = "ask" => asked = 0
    /\ pc = "handle" =>
          /\ asked <= count + uncounted + 1
          /\ current.calls # {} => asked <= ToolCallLimit + uncounted
    /\ pc = "execute" =>
          /\ asked <= count + uncounted + Cardinality(Due)
          /\ asked <= ToolCallLimit + uncounted
    /\ pc \in {"append", "follow"} =>
          asked <= count + uncounted /\ asked <= ToolCallLimit + uncounted

Inv == TypeOK /\ BatchIsSplit /\ CountIsBounded /\ RequestsAreCounted
-----------------------------------------------------------------------------
LEMMA ToolsAreFinite == IsFiniteSet(Tools) /\ Cardinality(Tools) \in Nat
  BY ToolsAssumption, FS_CardinalityType

LEMMA ResponseType ==
  ASSUME NEW id \in Nat, NEW tools \in SUBSET Tools
  PROVE  /\ Response(id, tools) \in Message
         /\ IsFiniteSet(Response(id, tools).calls)
         /\ Cardinality(Response(id, tools).calls) <= Cardinality(Tools)
<1>1. {id} \X tools \in SUBSET Call
  BY DEF Call
<1>2. IsFiniteSet(tools) /\ Cardinality(tools) <= Cardinality(Tools) /\ Cardinality(tools) \in Nat
  BY ToolsAreFinite, FS_Subset, FS_CardinalityType
<1>3. IsFiniteSet({id}) /\ Cardinality({id}) = 1
  BY FS_Singleton
<1>4. IsFiniteSet({id} \X tools) /\ Cardinality({id} \X tools) = 1 * Cardinality(tools)
  BY <1>2, <1>3, FS_Product
<1> QED
  BY <1>1, <1>2, <1>4 DEF Response, Message

LEMMA PromptType ==
  /\ Prompt \in Message /\ Prompt.calls = {} /\ Prompt.by = "user"
  /\ IsFiniteSet({}) /\ Cardinality({}) <= Cardinality(Tools)
  BY ToolsAreFinite, FS_EmptySet DEF Prompt, Message

LEMMA AnswersType == ASSUME NEW calls \in SUBSET Call PROVE Answers(calls) \in Message
  BY DEF Answers, Message

LEMMA DialogueType ==
  ASSUME TypeOK, NEW answers \in SUBSET Call
  PROVE  Dialogue(answers) \in Seq(Message)
  BY AnswersType, ConcatProperties DEF Dialogue, TypeOK

(* What is due is finite, at most the batch, and never more than it was.    *)
LEMMA DueType ==
  ASSUME TypeOK, BatchIsSplit
  PROVE  IsFiniteSet(Due) /\ Cardinality(Due) \in Nat /\ Cardinality(Due) <= Cardinality(current.calls)
<1>1. Due \subseteq current.calls
  BY DEF Due
<1> QED
  BY <1>1, FS_Subset, FS_CardinalityType DEF BatchIsSplit

LEMMA InitInv == Init => Inv
<1> SUFFICES ASSUME Init PROVE Inv
  OBVIOUS
<1>1. TypeOK
  <2>1. history \in Seq(Message) /\ response \in Message /\ current \in Message
    BY PromptType DEF Init
  <2>2. DOMAIN requirements = {}
    BY DEF Init
  <2> QED
    BY <2>1, <2>2, SetupsAssumption DEF Init, TypeOK
<1>2. BatchIsSplit
  BY PromptType DEF Init, BatchIsSplit
<1>3. CountIsBounded
  BY ToolsAreFinite, LimitAssumption DEF Init, CountIsBounded
<1>4. RequestsAreCounted
  BY LimitAssumption DEF Init, RequestsAreCounted
<1> QED
  BY <1>1, <1>2, <1>3, <1>4 DEF Inv
-----------------------------------------------------------------------------
(* Where nothing executes, only the response and the counters matter.       *)
LEMMA StopInv ==
  ASSUME Inv, pc' \in {"completed"} \cup Stopped, UNCHANGED <<current, count, others, asked, uncounted>>
  PROVE  BatchIsSplit' /\ CountIsBounded' /\ RequestsAreCounted'
  BY DEF Inv, BatchIsSplit, CountIsBounded, RequestsAreCounted, Stopped

LEMMA StartRunInv == ASSUME Inv, StartRun PROVE Inv'
<1> USE DEF StartRun, Running, Asking
<1>1. TypeOK'
  <2>1. history' \in Seq(Message) /\ response' \in Message /\ current' \in Message
    BY PromptType
  <2>2. requirements' = <<>> /\ DOMAIN requirements' = {}
    OBVIOUS
  <2>3. \A call \in DOMAIN requirements' : requirements'[call] \in {None, Empty, Text}
    BY <2>2
  <2>4. rounds' \in Nat /\ runs' \in Nat /\ continuations' \in Nat /\ replies' \in Nat
        /\ asked' \in Nat /\ uncounted' \in Nat /\ count' \in Nat /\ faults' \in Nat /\ others' \in Nat
    BY DEF Inv, TypeOK
  <2> QED
    BY <2>1, <2>2, <2>3, <2>4 DEF Inv, TypeOK
<1>2. BatchIsSplit'
  BY PromptType DEF BatchIsSplit
<1>3. CountIsBounded'
  BY DEF Inv, CountIsBounded
<1>4. RequestsAreCounted'
  BY LimitAssumption DEF RequestsAreCounted
<1> QED
  BY <1>1, <1>2, <1>3, <1>4 DEF Inv

LEMMA CancelAskedInv == ASSUME Inv, CancelAsked PROVE Inv'
<1> USE DEF CancelAsked, batch, agent, bounds, ghosts
<1>1. Due' = Due
  BY DEF Due, Sequential
<1> QED
  BY <1>1 DEF Inv, TypeOK, BatchIsSplit, CountIsBounded, RequestsAreCounted

LEMMA PollCancelInv == ASSUME Inv, PollCancel PROVE Inv'
<1> USE DEF PollCancel, EndCall, agent, bounds, ghosts
<1>1. BatchIsSplit' /\ CountIsBounded' /\ RequestsAreCounted'
  BY StopInv DEF Stopped
<1>2. TypeOK'
  BY DEF Inv, TypeOK, Stopped
<1> QED
  BY <1>1, <1>2 DEF Inv

LEMMA RequestInv == ASSUME Inv, Request PROVE Inv'
<1> USE DEF Request, bounds
<1>1. PICK tools \in SUBSET Offered : current' = Response(replies + 1, tools)
                                      /\ response' = IF pc = "ask" THEN current' ELSE response
  OBVIOUS
<1>2. tools \in SUBSET Tools
  BY <1>1 DEF Offered
<1>3. replies + 1 \in Nat
  BY DEF Inv, TypeOK
<1>4. /\ current' \in Message /\ IsFiniteSet(current'.calls)
      /\ Cardinality(current'.calls) <= Cardinality(Tools)
  BY <1>1, <1>2, <1>3, ResponseType
<1>5. current'.by = "model"
  BY <1>1 DEF Response
<1>6. limited' \in BOOLEAN
  BY DEF AtLimit, Inv, TypeOK
<1>7. TypeOK'
  BY <1>1, <1>4, <1>6 DEF Inv, TypeOK, Running, Asking
<1>8. BatchIsSplit'
  BY <1>4, <1>5 DEF BatchIsSplit
<1>9. CountIsBounded'
  BY DEF Inv, CountIsBounded
<1>10. RequestsAreCounted'
  <2>1. asked <= count + uncounted
    BY DEF Inv, TypeOK, RequestsAreCounted, Asking
  <2>2. asked <= ToolCallLimit + uncounted
    BY LimitAssumption DEF Inv, TypeOK, RequestsAreCounted, Asking
  <2>3. current'.calls # {} => count < ToolCallLimit
    <3> SUFFICES ASSUME current'.calls # {} PROVE count < ToolCallLimit
      OBVIOUS
    <3>1. tools # {}
      BY <1>1 DEF Response
    <3> QED
      BY <3>1, LimitAssumption DEF Offered, AtLimit, Inv, TypeOK
  <2>4. /\ asked \in Nat /\ count \in Nat /\ uncounted \in Nat /\ ToolCallLimit \in Nat
        /\ asked' = asked + 1 /\ count' = count /\ uncounted' = uncounted /\ pc' = "handle"
    BY LimitAssumption DEF Inv, TypeOK
  <2>5. asked' <= count' + uncounted' + 1 /\ asked' <= ToolCallLimit + uncounted' + 1
    BY <2>1, <2>2, <2>4
  <2>6. current'.calls # {} => asked' <= ToolCallLimit + uncounted'
    BY <2>1, <2>3, <2>4
  <2> HIDE DEF Request
  <2> QED
    BY <2>4, <2>5, <2>6 DEF RequestsAreCounted
<1> QED
  BY <1>7, <1>8, <1>9, <1>10 DEF Inv

LEMMA RequestFailsInv == ASSUME Inv, RequestFails PROVE Inv'
<1> USE DEF RequestFails, EndCall, ghosts
<1>1. BatchIsSplit' /\ CountIsBounded' /\ RequestsAreCounted'
  BY StopInv DEF Stopped
<1>2. limited' \in BOOLEAN
  BY DEF AtLimit, Inv, TypeOK
<1>3. TypeOK'
  BY <1>2 DEF Inv, TypeOK, Stopped
<1> QED
  BY <1>1, <1>3 DEF Inv

LEMMA DeliverInv == ASSUME Inv, Deliver PROVE Inv'
<1> USE DEF Deliver, EndCall, agent, bounds, ghosts
<1>1. BatchIsSplit' /\ CountIsBounded' /\ RequestsAreCounted'
  BY StopInv
<1>2. history' \in Seq(Message) /\ response' \in Message
  BY AppendProperties DEF Inv, TypeOK
<1>3. TypeOK'
  BY <1>2 DEF Inv, TypeOK
<1> QED
  BY <1>1, <1>3 DEF Inv

LEMMA RefuseInv == ASSUME Inv, Refuse PROVE Inv'
<1> USE DEF Refuse, MayHandle, batch, bounds, ghosts
<1>1. current.calls \in SUBSET Call
  BY DEF Inv, TypeOK, Message
<1>2. Dialogue(current.calls) \in Seq(Message)
  BY <1>1, DialogueType DEF Inv
<1>3. history' \in Seq(Message)
  BY <1>2, PromptType, AppendProperties
<1>4. TypeOK'
  BY <1>3 DEF Inv, TypeOK, Running, Asking
<1>5. BatchIsSplit' /\ CountIsBounded'
  BY DEF Inv, BatchIsSplit, CountIsBounded
<1>6. RequestsAreCounted'
  BY LimitAssumption DEF Inv, TypeOK, RequestsAreCounted
<1> QED
  BY <1>4, <1>5, <1>6 DEF Inv

LEMMA ExecuteInv == ASSUME Inv, Execute PROVE Inv'
<1> USE DEF Execute, MayHandle, agent, bounds, ghosts
<1>1. todo' \subseteq Call
  BY DEF Inv, TypeOK, Message
<1>2. TypeOK'
  BY <1>1 DEF Inv, TypeOK, Running
<1>3. BatchIsSplit'
  BY DEF Inv, BatchIsSplit
<1>4. Due' = current.calls
  BY DEF Due
<1>5. Cardinality(current.calls) \in Nat /\ Cardinality(current.calls) <= Cardinality(Tools)
  BY FS_CardinalityType DEF Inv, BatchIsSplit
<1>6. Cardinality(current.calls) # 0
  BY FS_EmptySet DEF Inv, BatchIsSplit
<1>7. CountIsBounded'
  BY <1>4, <1>5, ToolsAreFinite, LimitAssumption DEF Inv, TypeOK, CountIsBounded
<1>8. RequestsAreCounted'
  BY <1>4, <1>5, <1>6, LimitAssumption DEF Inv, TypeOK, RequestsAreCounted
<1> QED
  BY <1>2, <1>3, <1>7, <1>8 DEF Inv
-----------------------------------------------------------------------------
(* A call that is done leaves the batch split, and is due no longer if it   *)
(* is sequential.                                                           *)
LEMMA DoneInv ==
  ASSUME Inv, NEW call \in todo, Turn(call), Done(call)
  PROVE  /\ BatchIsSplit' /\ results' \subseteq Call /\ todo' \subseteq Call
         /\ Sequential(call) => /\ Cardinality(Due') = Cardinality(Due) - 1
                                /\ Cardinality(Due) \in Nat /\ Cardinality(Due') \in Nat
         /\ ~Sequential(call) => Due' = Due
<1> USE DEF Turn, Done
<1>1. call \in current.calls /\ call \notin results /\ call \notin pauses
  BY DEF Inv, BatchIsSplit
<1>2. BatchIsSplit'
  BY <1>1 DEF Inv, BatchIsSplit
<1>3. results' \subseteq Call /\ todo' \subseteq Call
  BY DEF Inv, TypeOK
<1>4. ASSUME Sequential(call)
      PROVE  Cardinality(Due') = Cardinality(Due) - 1 /\ Cardinality(Due) \in Nat /\ Cardinality(Due') \in Nat
  <2>1. Due' = Due \ {call} /\ call \in Due
    BY <1>1, <1>4 DEF Due, Sequential
  <2>2. IsFiniteSet(Due)
    BY DueType DEF Inv
  <2> QED
    BY <2>1, <2>2, FS_RemoveElement, FS_CardinalityType
<1>5. ASSUME ~Sequential(call) PROVE Due' = Due
  BY <1>5 DEF Due, Sequential
<1> QED
  BY <1>2, <1>3, <1>4, <1>5

LEMMA RunToolInv == ASSUME Inv, NEW call \in todo, RunTool(call) PROVE Inv'
<1>1. /\ Turn(call) /\ Done(call) /\ UNCHANGED <<faults, uncounted>>
      /\ executed' = executed \cup {call}
      /\ count' = IF Sequential(call) THEN count + 1 ELSE count
  BY DEF RunTool
<1>2. pc = "execute" /\ UNCHANGED <<pc, others, asked>>
  BY <1>1 DEF Turn, Done
<1>3. BatchIsSplit' /\ results' \subseteq Call /\ todo' \subseteq Call
  BY <1>1, DoneInv
<1>4. count \in Nat /\ others \in Nat /\ asked \in Nat /\ uncounted \in Nat /\ count' \in Nat
  BY <1>1 DEF Inv, TypeOK
<1>5. TypeOK'
  BY <1>1, <1>3, <1>4 DEF Inv, TypeOK, Done
<1>6. count' + Cardinality(Due') = count + Cardinality(Due) /\ Cardinality(Due') \in Nat
  <2>1. CASE Sequential(call)
    BY <2>1, <1>1, <1>4, DoneInv
  <2>2. CASE ~Sequential(call)
    BY <2>2, <1>1, <1>4, DoneInv, DueType DEF Inv
  <2> QED
    BY <2>1, <2>2
<1>7. CountIsBounded'
  BY <1>1, <1>2, <1>4, <1>6, ToolsAreFinite, LimitAssumption DEF Inv, CountIsBounded
<1>8. RequestsAreCounted'
  BY <1>1, <1>2, <1>4, <1>6, DueType, LimitAssumption DEF Inv, RequestsAreCounted
<1> QED
  BY <1>3, <1>5, <1>7, <1>8 DEF Inv

LEMMA AnswerWithErrorInv == ASSUME Inv, NEW call \in todo, AnswerWithError(call) PROVE Inv'
<1>1. /\ Turn(call) /\ Done(call) /\ UNCHANGED <<count, executed>>
      /\ faults' = IF equipped THEN faults + 1 ELSE faults
      /\ uncounted' = IF Sequential(call) THEN uncounted + 1 ELSE uncounted
  BY DEF AnswerWithError
<1>2. pc = "execute" /\ UNCHANGED <<pc, others, asked>>
  BY <1>1 DEF Turn, Done
<1>3. BatchIsSplit' /\ results' \subseteq Call /\ todo' \subseteq Call
  BY <1>1, DoneInv
<1>4. count \in Nat /\ others \in Nat /\ asked \in Nat /\ uncounted \in Nat /\ uncounted' \in Nat
      /\ faults' \in Nat
  BY <1>1 DEF Inv, TypeOK
<1>5. TypeOK'
  BY <1>1, <1>3, <1>4 DEF Inv, TypeOK, Done
<1>6. /\ uncounted' + Cardinality(Due') = uncounted + Cardinality(Due)
      /\ Cardinality(Due') \in Nat /\ Cardinality(Due) \in Nat
      /\ Cardinality(Due') <= Cardinality(Due) /\ uncounted <= uncounted'
  <2>1. CASE Sequential(call)
    BY <2>1, <1>1, <1>4, DoneInv
  <2>2. CASE ~Sequential(call)
    BY <2>2, <1>1, <1>4, DoneInv, DueType DEF Inv
  <2> QED
    BY <2>1, <2>2
<1>7. CountIsBounded'
  BY <1>1, <1>2, <1>4, <1>6, ToolsAreFinite, LimitAssumption DEF Inv, CountIsBounded
<1>8. RequestsAreCounted'
  BY <1>1, <1>2, <1>4, <1>6, LimitAssumption DEF Inv, RequestsAreCounted
<1> QED
  BY <1>3, <1>5, <1>7, <1>8 DEF Inv

LEMMA DisallowInv == ASSUME Inv, NEW call \in todo, Disallow(call) PROVE Inv'
<1> USE DEF Disallow, EndCall, agent
<1>1. BatchIsSplit' /\ CountIsBounded' /\ RequestsAreCounted'
  BY StopInv DEF Stopped
<1>2. spoilt' \in BOOLEAN
  BY DEF Inv, TypeOK
<1>3. TypeOK'
  BY <1>2 DEF Inv, TypeOK, Stopped
<1> QED
  BY <1>1, <1>3 DEF Inv

LEMMA PauseInv == ASSUME Inv, NEW external \in SUBSET Call, Pause(external) PROVE Inv'
<1> USE DEF Pause, EndCall, agent, bounds
<1>1. BatchIsSplit' /\ CountIsBounded' /\ RequestsAreCounted'
  BY StopInv DEF Stopped
<1>2. spoilt' \in BOOLEAN
  BY DEF Inv, TypeOK
<1>3. DOMAIN requirements' = DOMAIN requirements \cup external
  OBVIOUS
<1>4. \A call \in DOMAIN requirements' : requirements'[call] \in {None, Empty, Text}
  BY DEF Inv, TypeOK
<1>5. TypeOK'
  BY <1>2, <1>3, <1>4 DEF Inv, TypeOK, Stopped
<1> QED
  BY <1>1, <1>5 DEF Inv

LEMMA PauseAloneInv == ASSUME Inv, NEW call \in todo, PauseAlone(call) PROVE Inv'
  BY PauseInv DEF PauseAlone, Inv, TypeOK

LEMMA GatherPausesInv == ASSUME Inv, GatherPauses PROVE Inv'
  BY PauseInv DEF GatherPauses, Inv, TypeOK

LEMMA PauseAmongInv == ASSUME Inv, NEW call \in todo, PauseAmong(call) PROVE Inv'
<1> USE DEF PauseAmong, Turn, agent, bounds, ghosts
<1>1. call \in current.calls /\ call \notin results /\ call \notin pauses
  BY DEF Inv, BatchIsSplit
<1>2. BatchIsSplit'
  BY <1>1 DEF Inv, BatchIsSplit
<1>3. Due' = Due
  BY DEF Due, Sequential
<1>4. TypeOK'
  BY DEF Inv, TypeOK
<1>5. CountIsBounded' /\ RequestsAreCounted'
  BY <1>3 DEF Inv, CountIsBounded, RequestsAreCounted
<1> QED
  BY <1>2, <1>4, <1>5 DEF Inv

LEMMA GatherResultsInv == ASSUME Inv, GatherResults PROVE Inv'
<1> USE DEF GatherResults, batch, bounds, ghosts
<1>1. Due = Parallel
  BY DEF Due, Parallel
<1>2. count' = count + Cardinality(Due) /\ Cardinality(Due) \in Nat
  BY <1>1, DueType DEF Inv
<1>3. TypeOK'
  BY <1>2 DEF Inv, TypeOK, Running
<1>4. BatchIsSplit'
  BY DEF Inv, BatchIsSplit
<1>5. CountIsBounded'
  BY <1>2 DEF Inv, CountIsBounded
<1>6. RequestsAreCounted'
  BY <1>2, LimitAssumption DEF Inv, TypeOK, RequestsAreCounted
<1> QED
  BY <1>3, <1>4, <1>5, <1>6 DEF Inv

LEMMA StopAfterCallInv == ASSUME Inv, StopAfterCall PROVE Inv'
<1> USE DEF StopAfterCall, EndCall, agent, bounds
<1>1. BatchIsSplit' /\ CountIsBounded' /\ RequestsAreCounted'
  BY StopInv
<1>2. replies + 1 \in Nat
  BY DEF Inv, TypeOK
<1>3. response' \in Message
  BY <1>2, ResponseType
<1>4. Dialogue(results) \in Seq(Message)
  BY DialogueType DEF Inv, TypeOK
<1>5. history' \in Seq(Message)
  BY <1>3, <1>4, AppendProperties
<1>6. TypeOK'
  BY <1>2, <1>3, <1>5 DEF Inv, TypeOK
<1> QED
  BY <1>1, <1>6 DEF Inv

LEMMA FollowUpInv == ASSUME Inv, FollowUp PROVE Inv'
<1> USE DEF FollowUp, batch, agent, bounds, ghosts
<1>1. Dialogue(results) \in Seq(Message)
  BY DialogueType DEF Inv, TypeOK
<1>2. history' \in Seq(Message)
  BY <1>1, PromptType, AppendProperties
<1>3. TypeOK'
  BY <1>2 DEF Inv, TypeOK, Running, Asking
<1>4. BatchIsSplit' /\ CountIsBounded' /\ RequestsAreCounted'
  BY DEF Inv, BatchIsSplit, CountIsBounded, RequestsAreCounted
<1> QED
  BY <1>3, <1>4 DEF Inv
-----------------------------------------------------------------------------
(* What a requirement can hold.                                             *)
Requirements(reqs) ==
    DOMAIN reqs \subseteq Call /\ \A call \in DOMAIN reqs : reqs[call] \in {None, Empty, Text}

LEMMA InjectedType ==
  ASSUME TypeOK, NEW reqs, Requirements(reqs)
  PROVE  Injected(reqs) \in Seq(Message)
<1> DEFINE told == {call \in DOMAIN reqs : reqs[call] = Text}
<1> DEFINE asking == IF response = Prompt \/ Last(history) = response
                     THEN history ELSE Append(history, response)
<1>1. asking \in Seq(Message)
  BY AppendProperties DEF TypeOK
<1>2. Answers(told) \in Message
  BY AnswersType DEF Requirements
<1>3. Append(asking, Answers(told)) \in Seq(Message)
  BY <1>1, <1>2, AppendProperties
<1> HIDE DEF told, asking
<1>4. Injected(reqs) = IF told = {} THEN asking ELSE Append(asking, Answers(told))
  BY DEF Injected, told, asking
<1> QED
  BY <1>1, <1>3, <1>4

LEMMA GoOnInv ==
  ASSUME Inv, pc \in Stopped, NEW reqs, Requirements(reqs), GoOn(reqs),
         rounds' \in Nat, continuations' \in Nat
  PROVE  Inv'
<1> USE DEF GoOn, batch, agent
<1>1. history' \in Seq(Message)
  BY InjectedType DEF Inv, TypeOK
<1>2. spoilt' \in BOOLEAN
  BY DEF Inv, TypeOK
<1>3. TypeOK'
  BY <1>1, <1>2 DEF Inv, TypeOK, Requirements, Running, Asking
<1>4. BatchIsSplit' /\ CountIsBounded'
  BY DEF Inv, BatchIsSplit, CountIsBounded
<1>5. RequestsAreCounted'
  BY LimitAssumption DEF Inv, TypeOK, RequestsAreCounted
<1> QED
  BY <1>3, <1>4, <1>5 DEF Inv

LEMMA SetResultInv == ASSUME Inv, SetResult PROVE Inv'
<1> USE DEF SetResult, batch, agent, bounds, ghosts
<1>1. DOMAIN requirements' = DOMAIN requirements
  OBVIOUS
<1>2. \A call \in DOMAIN requirements' : requirements'[call] \in {None, Empty, Text}
  BY DEF Inv, TypeOK
<1>3. TypeOK'
  BY <1>1, <1>2 DEF Inv, TypeOK
<1>4. BatchIsSplit' /\ CountIsBounded' /\ RequestsAreCounted'
  BY DEF Inv, BatchIsSplit, CountIsBounded, RequestsAreCounted
<1> QED
  BY <1>3, <1>4 DEF Inv

LEMMA ContinueInv == ASSUME Inv, Continue PROVE Inv'
<1>1. Requirements(requirements)
  BY DEF Inv, TypeOK, Requirements
<1>2. pc \in Stopped /\ GoOn(requirements) /\ rounds' \in Nat /\ continuations' \in Nat
  BY DEF Continue, Inv, TypeOK
<1> QED
  BY <1>1, <1>2, GoOnInv

LEMMA ExecutorRoundInv == ASSUME Inv, ExecutorRound PROVE Inv'
<1>1. PICK result \in [Open(requirements) -> {Empty, Text}] :
         GoOn([call \in DOMAIN requirements |->
                  IF call \in Open(requirements) THEN result[call] ELSE requirements[call]])
  BY DEF ExecutorRound
<1> DEFINE reqs == [call \in DOMAIN requirements |->
                       IF call \in Open(requirements) THEN result[call] ELSE requirements[call]]
<1>2. Requirements(reqs)
  BY DEF Requirements, Inv, TypeOK
<1>3. rounds' \in Nat /\ continuations' \in Nat /\ pc \in Stopped
  BY DEF ExecutorRound, Inv, TypeOK, Stopped
<1>4. GoOn(reqs)
  BY <1>1
<1> HIDE DEF reqs
<1> QED
  BY <1>2, <1>3, <1>4, GoOnInv

LEMMA NewAgentInv == ASSUME Inv, NewAgent PROVE Inv'
<1> USE DEF NewAgent, batch, bounds, ghosts
<1>1. DOMAIN requirements' = DOMAIN requirements
  OBVIOUS
<1>2. \A call \in DOMAIN requirements' : requirements'[call] \in {None, Empty, Text}
  BY DEF Inv, TypeOK
<1>3. TypeOK'
  BY <1>1, <1>2 DEF Inv, TypeOK
<1>4. BatchIsSplit'
  BY DEF Inv, BatchIsSplit, Stopped
<1>5. CountIsBounded'
  BY ToolsAreFinite, LimitAssumption DEF Inv, TypeOK, CountIsBounded, Stopped
<1>6. RequestsAreCounted'
  BY DEF Inv, RequestsAreCounted, Stopped
<1> QED
  BY <1>3, <1>4, <1>5, <1>6 DEF Inv

LEMMA OtherRunInv == ASSUME Inv, OtherRun PROVE Inv'
<1> USE DEF OtherRun, batch
<1>1. count' \in Nat /\ others' \in Nat /\ limited' \in BOOLEAN /\ equipped' \in BOOLEAN
  <2>1. count' \in Nat /\ others' \in Nat
    BY DEF Inv, TypeOK
  <2>2. limited \in BOOLEAN /\ equipped \in BOOLEAN
    BY DEF Inv, TypeOK
  <2>3. equipped' = TRUE \/ equipped' = equipped
    OBVIOUS
  <2>4. limited' = FALSE \/ limited' = limited \/ limited' = (limited \/ count' >= ToolCallLimit)
    OBVIOUS
  <2>5. limited' \in BOOLEAN
    BY <2>2, <2>4, Zenon
  <2> QED
    BY <2>1, <2>2, <2>3, <2>5
<1>2. /\ count' = count \/ count' = count + 1
      /\ others' = others + 1
  OBVIOUS
<1>3. /\ UNCHANGED <<setup, pc, history, response, current, todo, results, pauses, requirements,
                     rounds, registry, runs, continuations, faults, replies, asked, executed,
                     uncounted, spoilt>>
  BY DEF ghosts
<1> HIDE DEF OtherRun
<1>4. TypeOK'
  BY <1>1, <1>3 DEF Inv, TypeOK
<1>5. BatchIsSplit'
  BY <1>3 DEF Inv, BatchIsSplit
<1>6. Due' = Due
  BY <1>3 DEF Due, Sequential
<1>7. CountIsBounded'
  BY <1>2, <1>3, <1>6, ToolsAreFinite, DueType, LimitAssumption DEF Inv, TypeOK, CountIsBounded
<1>8. RequestsAreCounted'
  BY <1>2, <1>3, <1>6, DueType, LimitAssumption DEF Inv, TypeOK, RequestsAreCounted
<1> QED
  BY <1>4, <1>5, <1>7, <1>8 DEF Inv

LEMMA StutterInv == ASSUME Inv, UNCHANGED vars PROVE Inv'
<1> USE DEF vars, batch, agent, bounds, ghosts
<1>1. Due' = Due
  BY DEF Due, Sequential
<1> QED
  BY <1>1 DEF Inv, TypeOK, BatchIsSplit, CountIsBounded, RequestsAreCounted

LEMMA NextInv == Inv /\ [Next]_vars => Inv'
<1> SUFFICES ASSUME Inv, [Next]_vars PROVE Inv'
  OBVIOUS
<1>1. CASE Advance
  BY <1>1, PollCancelInv, RequestInv, DeliverInv, RefuseInv, ExecuteInv, RunToolInv,
     AnswerWithErrorInv, PauseAloneInv, PauseAmongInv, GatherPausesInv, GatherResultsInv,
     StopAfterCallInv, FollowUpInv DEF Advance
<1>2. CASE Environment
  BY <1>2, StartRunInv, CancelAskedInv, RequestFailsInv, DisallowInv, SetResultInv, ContinueInv,
     ExecutorRoundInv, NewAgentInv, OtherRunInv DEF Environment
<1>3. CASE UNCHANGED vars
  BY <1>3, StutterInv
<1> QED
  BY <1>1, <1>2, <1>3 DEF Next

(* The model is type correct, for any tools and bounds.                     *)
THEOREM TypeCorrect == Spec => []TypeOK
<1>1. Inv => TypeOK
  BY DEF Inv
<1> QED
  BY InitInv, NextInv, <1>1, PTL DEF Spec

(* An execution asks the model no more often than the limit and the calls   *)
(* answered with errors allow (agent.py 1326-1342, 1694-1808).              *)
THEOREM RequestsBounded == Spec => []RequestsAreBounded
<1>1. Inv => RequestsAreBounded
  BY DEF Inv, RequestsAreCounted, RequestsAreBounded
<1> QED
  BY InitInv, NextInv, <1>1, PTL DEF Spec

(* The count exceeds the limit by less than one batch and what other runs   *)
(* count (agent.py 1426-1683).                                              *)
THEOREM LimitHeld == Spec => []LimitHoldsButForABatch
<1>1. Inv => LimitHoldsButForABatch
  BY DEF Inv, CountIsBounded, LimitHoldsButForABatch
<1> QED
  BY InitInv, NextInv, <1>1, PTL DEF Spec
-----------------------------------------------------------------------------
(* The conversation: while a run can go on, its history is well answered,   *)
(* the response at hand is newer than all in it, and what pauses the run is *)
(* that response.                                                           *)
Going == pc \notin {"idle", "completed"} /\ ~spoilt

IdsBelow(messages, id) ==
    \A i \in 1..Len(messages) : messages[i].by = "model" => messages[i].id < id

ConversationIsWhole ==
    Going =>
        /\ WellAnswered(history)
        /\ history # <<>>
        /\ IdsBelow(history, replies + 1)
        /\ pc \in {"handle", "execute", "append", "paused"} =>
              current.by = "model" /\ current.id = replies /\ IdsBelow(history, replies)
        /\ pc = "paused" =>
              response = current /\ current.calls # {} /\ DOMAIN requirements = current.calls

ToldIn(messages) == UNION {m.calls : m \in {x \in ToSet(messages) : x.by = "tools"}}

EffectsAreKept ==
    Going =>
        executed \subseteq ToldIn(history) \cup (IF pc \in {"execute", "append"} THEN results ELSE {})

Whole == ConversationIsWhole /\ EffectsAreKept

LEMMA ToldType == ASSUME NEW h, NEW call
                  PROVE  call \in ToldIn(h) <=> \E i \in DOMAIN h : h[i].by = "tools" /\ call \in h[i].calls
  BY DEF ToldIn, ToSet

LEMMA IdsAreNumbers ==
  ASSUME NEW h \in Seq(Message)
  PROVE  \A i \in 1..Len(h) : h[i].id \in Nat
<1> SUFFICES ASSUME NEW i \in 1..Len(h) PROVE h[i].id \in Nat
  OBVIOUS
<1>1. h[i] \in Message
  BY ElementOfSeq
<1> QED
  BY <1>1 DEF Message

LEMMA PromptAdded ==
  ASSUME NEW h \in Seq(Message), WellAnswered(h), NEW id \in Nat, IdsBelow(h, id)
  PROVE  /\ WellAnswered(Append(h, Prompt)) /\ IdsBelow(Append(h, Prompt), id)
         /\ Append(h, Prompt) # <<>> /\ ToldIn(h) \subseteq ToldIn(Append(h, Prompt))
<1> DEFINE g == Append(h, Prompt)
<1>1. /\ Len(h) \in Nat /\ Len(g) = Len(h) + 1 /\ DOMAIN h = 1..Len(h) /\ DOMAIN g = 1..Len(g)
      /\ \A i \in 1..Len(h) : g[i] = h[i]
      /\ g[Len(h) + 1] = Prompt
  BY PromptType, AppendProperties
<1>2. Prompt.by = "user" /\ Prompt.calls = {}
  BY DEF Prompt
<1> HIDE DEF g
<1>3. WellAnswered(g)
  BY <1>1, <1>2 DEF WellAnswered
<1>4. IdsBelow(g, id) /\ g # <<>>
  BY <1>1, <1>2 DEF IdsBelow
<1>5. ToldIn(h) \subseteq ToldIn(g)
  BY <1>1, ToldType
<1> QED
  BY <1>3, <1>4, <1>5 DEF g

(* A new response with its answers.                                         *)
LEMMA AnswersAdded ==
  ASSUME NEW h \in Seq(Message), WellAnswered(h), NEW id \in Nat, IdsBelow(h, id),
         NEW m \in Message, m.by = "model", m.id = id
  PROVE  LET g == Append(Append(h, m), Answers(m.calls))
         IN /\ g \in Seq(Message) /\ WellAnswered(g) /\ IdsBelow(g, id + 1) /\ g # <<>>
            /\ ToldIn(h) \cup m.calls \subseteq ToldIn(g)
<1> DEFINE a == Answers(m.calls)
<1> DEFINE g == Append(Append(h, m), a)
<1>1. a \in Message /\ a.by = "tools" /\ a.calls = m.calls /\ a = Answers(m.calls)
  BY AnswersType DEF Answers, Message
<1> HIDE DEF a
<1>2. /\ Append(h, m) \in Seq(Message) /\ Len(h) \in Nat /\ Len(Append(h, m)) = Len(h) + 1
      /\ \A i \in 1..Len(h) : Append(h, m)[i] = h[i]
      /\ Append(h, m)[Len(h) + 1] = m
  BY AppendProperties
<1>3. /\ g \in Seq(Message) /\ Len(g) = Len(h) + 2
      /\ \A i \in 1..Len(h) : g[i] = h[i]
      /\ g[Len(h) + 1] = m /\ g[Len(h) + 2] = a
      /\ DOMAIN h = 1..Len(h) /\ DOMAIN g = 1..Len(g)
  BY <1>1, <1>2, AppendProperties
<1> HIDE DEF g
<1>4. \A i \in 1..Len(g) : i \in 1..Len(h) \/ i = Len(h) + 1 \/ i = Len(h) + 2
  BY <1>2, <1>3
<1>5. \A i \in 1..Len(g) :
          /\ (g[i].by = "model" /\ g[i].calls # {}) => i < Len(g) /\ g[i + 1] = Answers(g[i].calls)
          /\ g[i].by = "tools" => i > 1 /\ g[i - 1].by = "model" /\ g[i - 1].calls = g[i].calls
  BY <1>1, <1>2, <1>3, <1>4 DEF WellAnswered
<1>6. \A i, j \in 1..Len(g) :
          (i # j /\ g[i].by = "model" /\ g[j].by = "model") => g[i].id # g[j].id
  <2> SUFFICES ASSUME NEW i \in 1..Len(g), NEW j \in 1..Len(g), i # j,
                      g[i].by = "model", g[j].by = "model"
               PROVE  g[i].id # g[j].id
    OBVIOUS
  <2>1. \A k \in 1..Len(h) : h[k].by = "model" => h[k].id # id
    BY DEF IdsBelow, Message
  <2> QED
    BY <2>1, <1>1, <1>2, <1>3, <1>4 DEF WellAnswered
<1>7. WellAnswered(g)
  BY <1>5, <1>6 DEF WellAnswered
<1>8. IdsBelow(g, id + 1)
  <2>0. \A k \in 1..Len(h) : h[k].id \in Nat
    BY IdsAreNumbers
  <2>1. \A k \in 1..Len(h) : h[k].by = "model" => h[k].id < id + 1
    BY <2>0 DEF IdsBelow
  <2> QED
    BY <2>1, <1>1, <1>2, <1>3, <1>4 DEF IdsBelow
<1>9. ToldIn(h) \subseteq ToldIn(g)
  BY <1>2, <1>3, ToldType
<1>10. m.calls \subseteq ToldIn(g)
  BY <1>1, <1>2, <1>3, ToldType
<1> QED
  BY <1>3, <1>7, <1>8, <1>9, <1>10, <1>2, <1>1 DEF g

LEMMA DialogueAsAppend ==
  ASSUME TypeOK, NEW calls \in SUBSET Call
  PROVE  Dialogue(calls) = Append(Append(history, current), Answers(calls))
  BY AnswersType DEF Dialogue, TypeOK
-----------------------------------------------------------------------------
LEMMA InitWhole == Init => Whole
  BY DEF Init, Whole, Going, ConversationIsWhole, EffectsAreKept

(* Steps that leave the conversation alone, and do not say that it may be   *)
(* gone on with when it was not.                                            *)
LEMMA QuietWhole ==
  ASSUME Inv, Whole, UNCHANGED <<history, response, current, replies, executed>>,
         Going' => Going,
         pc' \in {"handle", "execute", "append"} => pc \in {"handle", "execute", "append"},
         pc' = "paused" => pc = "paused" /\ DOMAIN requirements' = DOMAIN requirements,
         Going' => executed \subseteq ToldIn(history) \cup (IF pc' \in {"execute", "append"} THEN results' ELSE {})
  PROVE  Whole'
<1>1. ToldIn(history') = ToldIn(history)
  OBVIOUS
<1>2. ConversationIsWhole'
  BY DEF Whole, ConversationIsWhole
<1>3. EffectsAreKept'
  BY DEF EffectsAreKept
<1> QED
  BY <1>2, <1>3 DEF Whole

LEMMA StartRunWhole == ASSUME Inv, Whole, StartRun PROVE Whole'
<1> USE DEF StartRun
<1>1. Len(history') = 1 /\ history'[1] = Prompt /\ history' # <<>>
  OBVIOUS
<1>2. Prompt.by = "user" /\ Prompt.calls = {}
  BY DEF Prompt
<1>3. \A i \in 1..Len(history') : i = 1
  BY <1>1
<1> HIDE DEF StartRun
<1>4. WellAnswered(history')
  BY <1>1, <1>2, <1>3 DEF WellAnswered
<1>5. IdsBelow(history', replies' + 1)
  BY <1>1, <1>2, <1>3 DEF IdsBelow
<1>6. ConversationIsWhole'
  BY <1>1, <1>4, <1>5 DEF ConversationIsWhole, StartRun
<1>7. EffectsAreKept'
  BY DEF EffectsAreKept, StartRun
<1> QED
  BY <1>6, <1>7 DEF Whole

LEMMA CancelAskedWhole == ASSUME Inv, Whole, CancelAsked PROVE Whole'
<1> USE DEF CancelAsked, batch, agent, bounds, ghosts
<1>1. Going' => executed \subseteq ToldIn(history) \cup (IF pc' \in {"execute", "append"} THEN results' ELSE {})
  BY DEF Whole, EffectsAreKept, Going
<1> QED
  BY <1>1, QuietWhole DEF Going

LEMMA PollCancelWhole == ASSUME Inv, Whole, PollCancel PROVE Whole'
<1> USE DEF PollCancel, EndCall, ghosts, Going
<1>1. Going' => executed \subseteq ToldIn(history) \cup (IF pc' \in {"execute", "append"} THEN results' ELSE {})
  BY DEF Whole, EffectsAreKept
<1> QED
  BY <1>1, QuietWhole

LEMMA RequestWhole == ASSUME Inv, Whole, Request PROVE Whole'
<1>1. PICK tools \in SUBSET Offered : current' = Response(replies + 1, tools)
  BY DEF Request
<1>2. current'.by = "model" /\ current'.id = replies'
  BY <1>1 DEF Response, Request
<1>3. Going' => Going /\ pc \in Asking /\ pc' = "handle" /\ UNCHANGED <<history, executed>>
                /\ replies' = replies + 1 /\ replies \in Nat
  BY DEF Request, Going, Asking, Inv, TypeOK
<1>4. ConversationIsWhole'
  <2> SUFFICES ASSUME Going'
               PROVE  /\ WellAnswered(history') /\ history' # <<>> /\ IdsBelow(history', replies' + 1)
                      /\ IdsBelow(history', replies')
    BY <1>2, <1>3 DEF ConversationIsWhole
  <2>1. WellAnswered(history) /\ history # <<>> /\ IdsBelow(history, replies + 1)
    BY <1>3 DEF Whole, ConversationIsWhole
  <2>2. \A i \in 1..Len(history) : history[i].id \in Nat
    BY IdsAreNumbers DEF Inv, TypeOK
  <2>3. IdsBelow(history', replies' + 1)
    BY <1>3, <2>1, <2>2 DEF IdsBelow
  <2> QED
    BY <1>3, <2>1, <2>3
<1>5. EffectsAreKept'
  BY <1>3 DEF Whole, EffectsAreKept, Asking
<1> QED
  BY <1>4, <1>5 DEF Whole

LEMMA RequestFailsWhole == ASSUME Inv, Whole, RequestFails PROVE Whole'
<1> USE DEF RequestFails, EndCall, ghosts, Going, Asking
<1>1. Going' => executed \subseteq ToldIn(history) \cup (IF pc' \in {"execute", "append"} THEN results' ELSE {})
  BY DEF Whole, EffectsAreKept
<1> QED
  BY <1>1, QuietWhole

LEMMA DeliverWhole == ASSUME Inv, Whole, Deliver PROVE Whole'
  BY DEF Deliver, EndCall, Whole, ConversationIsWhole, EffectsAreKept, Going

LEMMA StopAfterCallWhole == ASSUME Inv, Whole, StopAfterCall PROVE Whole'
  BY DEF StopAfterCall, EndCall, Whole, ConversationIsWhole, EffectsAreKept, Going

(* The answers to the response at hand, and perhaps a prompt, and the model *)
(* is asked.                                                                *)
LEMMA AnsweredWhole ==
  ASSUME Inv, Whole, pc \in {"handle", "append"}, pc' = "follow",
         UNCHANGED <<replies, executed, spoilt>>,
         pc = "append" => results = current.calls,
         history' = Dialogue(current.calls) \/ history' = Append(Dialogue(current.calls), Prompt)
  PROVE  Whole'
<1> SUFFICES ASSUME Going'
             PROVE  /\ WellAnswered(history') /\ history' # <<>> /\ IdsBelow(history', replies + 1)
                    /\ executed \subseteq ToldIn(history')
  BY DEF Whole, ConversationIsWhole, EffectsAreKept
<1>1. /\ WellAnswered(history) /\ IdsBelow(history, replies)
      /\ current.by = "model" /\ current.id = replies /\ replies \in Nat
      /\ executed \subseteq ToldIn(history) \cup current.calls
  BY DEF Going, Whole, ConversationIsWhole, EffectsAreKept, Inv, TypeOK
<1>2. history \in Seq(Message) /\ current \in Message /\ current.calls \in SUBSET Call
  BY DEF Inv, TypeOK, Message
<1> DEFINE g == Dialogue(current.calls)
<1>3. g = Append(Append(history, current), Answers(current.calls))
  BY <1>2, DialogueAsAppend DEF Inv
<1>4. /\ g \in Seq(Message) /\ WellAnswered(g) /\ IdsBelow(g, replies + 1) /\ g # <<>>
      /\ ToldIn(history) \cup current.calls \subseteq ToldIn(g)
  BY <1>1, <1>2, <1>3, AnswersAdded
<1> HIDE DEF g
<1>5. replies + 1 \in Nat
  BY <1>1
<1>6. LET p == Append(g, Prompt)
      IN WellAnswered(p) /\ IdsBelow(p, replies + 1) /\ p # <<>> /\ ToldIn(g) \subseteq ToldIn(p)
  BY <1>4, <1>5, PromptAdded
<1>7. history' = g \/ history' = Append(g, Prompt)
  BY DEF g
<1> QED
  BY <1>1, <1>4, <1>6, <1>7

LEMMA RefuseWhole == ASSUME Inv, Whole, Refuse PROVE Whole'
  BY AnsweredWhole DEF Refuse, MayHandle, ghosts

LEMMA FollowUpWhole == ASSUME Inv, Whole, FollowUp PROVE Whole'
<1>1. pc = "append" /\ results = current.calls
  BY DEF FollowUp, Inv, BatchIsSplit
<1>2. history' = Dialogue(current.calls) \/ history' = Append(Dialogue(current.calls), Prompt)
  BY <1>1 DEF FollowUp
<1> QED
  BY <1>1, <1>2, AnsweredWhole DEF FollowUp, ghosts

LEMMA ExecuteWhole == ASSUME Inv, Whole, Execute PROVE Whole'
<1> USE DEF Execute, MayHandle, ghosts, Going
<1>1. Going' => executed \subseteq ToldIn(history) \cup (IF pc' \in {"execute", "append"} THEN results' ELSE {})
  BY DEF Whole, EffectsAreKept
<1> QED
  BY <1>1, QuietWhole

LEMMA RunToolWhole == ASSUME Inv, Whole, NEW call \in todo, RunTool(call) PROVE Whole'
<1>1. /\ pc = "execute" /\ results' = results \cup {call} /\ executed' = executed \cup {call}
      /\ UNCHANGED <<pc, history, response, current, replies, spoilt, requirements>>
  BY DEF RunTool, Turn, Done
<1>2. ConversationIsWhole'
  BY <1>1 DEF Whole, ConversationIsWhole, Going
<1>3. EffectsAreKept'
  BY <1>1 DEF Whole, EffectsAreKept, Going
<1> QED
  BY <1>2, <1>3 DEF Whole

LEMMA AnswerWithErrorWhole ==
  ASSUME Inv, Whole, NEW call \in todo, AnswerWithError(call) PROVE Whole'
<1>1. /\ pc = "execute" /\ results' = results \cup {call}
      /\ UNCHANGED <<pc, history, response, current, replies, executed, spoilt, requirements>>
  BY DEF AnswerWithError, Turn, Done
<1>2. ConversationIsWhole'
  BY <1>1 DEF Whole, ConversationIsWhole, Going
<1>3. EffectsAreKept'
  BY <1>1 DEF Whole, EffectsAreKept, Going
<1> QED
  BY <1>2, <1>3 DEF Whole

LEMMA PauseAmongWhole == ASSUME Inv, Whole, NEW call \in todo, PauseAmong(call) PROVE Whole'
<1>1. UNCHANGED <<pc, history, response, current, results, replies, executed, spoilt, requirements>>
  BY DEF PauseAmong, ghosts
<1> QED
  BY <1>1 DEF Whole, ConversationIsWhole, EffectsAreKept, Going

LEMMA GatherResultsWhole == ASSUME Inv, Whole, GatherResults PROVE Whole'
<1> USE DEF GatherResults, batch, ghosts, Going
<1>1. Going' => executed \subseteq ToldIn(history) \cup (IF pc' \in {"execute", "append"} THEN results' ELSE {})
  BY DEF Whole, EffectsAreKept
<1> QED
  BY <1>1, QuietWhole

LEMMA DisallowWhole == ASSUME Inv, Whole, NEW call \in todo, Disallow(call) PROVE Whole'
<1>1. /\ pc' = "failed" /\ spoilt' = (spoilt \/ results \cap executed # {})
      /\ UNCHANGED <<history, response, current, replies, executed, requirements>>
      /\ pc = "execute"
  BY DEF Disallow, EndCall, Turn
<1>2. Going' => Going /\ results \cap executed = {}
  BY <1>1 DEF Going
<1>3. Going' => executed \subseteq ToldIn(history) \cup (IF pc' \in {"execute", "append"} THEN results' ELSE {})
  BY <1>1, <1>2 DEF Whole, EffectsAreKept
<1> QED
  BY <1>1, <1>2, <1>3, QuietWhole

(* A pause that does not spoil the conversation pauses all its calls.       *)
LEMMA PauseWhole ==
  ASSUME Inv, Whole, pc = "execute", NEW external \in SUBSET Call, Pause(external),
         external \cap results = {}
  PROVE  Whole'
<1>1. /\ pc' = "paused" /\ DOMAIN requirements' = DOMAIN requirements \cup external
      /\ UNCHANGED <<history, response, current, replies, executed>>
      /\ spoilt' = (spoilt \/ current # response \/ current.calls # external \/ DOMAIN requirements # {})
  BY DEF Pause, EndCall
<1>2. Going' => Going /\ current = response /\ current.calls = external /\ DOMAIN requirements = {}
  BY <1>1 DEF Going
<1>3. results \subseteq current.calls /\ current.calls # {}
  BY DEF Inv, BatchIsSplit
<1>4. ConversationIsWhole'
  BY <1>1, <1>2, <1>3 DEF Whole, ConversationIsWhole
<1>5. Going' => results = {}
  BY <1>2, <1>3
<1>6. EffectsAreKept'
  BY <1>1, <1>2, <1>5 DEF Whole, EffectsAreKept
<1> QED
  BY <1>4, <1>6 DEF Whole

LEMMA PauseAloneWhole == ASSUME Inv, Whole, NEW call \in todo, PauseAlone(call) PROVE Whole'
  BY PauseWhole DEF PauseAlone, Turn, Inv, TypeOK, BatchIsSplit

LEMMA GatherPausesWhole == ASSUME Inv, Whole, GatherPauses PROVE Whole'
  BY PauseWhole DEF GatherPauses, Inv, TypeOK, BatchIsSplit
-----------------------------------------------------------------------------
(* A continuation that injects every result completes the conversation.     *)
LEMMA InjectedWhole ==
  ASSUME Inv, Whole, Going, pc = "paused", NEW reqs, DOMAIN reqs = DOMAIN requirements,
         \A call \in DOMAIN reqs : reqs[call] = Text
  PROVE  LET g == Injected(reqs)
         IN /\ WellAnswered(g) /\ g # <<>> /\ IdsBelow(g, replies + 1)
            /\ ToldIn(history) \subseteq ToldIn(g)
<1>1. /\ WellAnswered(history) /\ history # <<>> /\ IdsBelow(history, replies)
      /\ response = current /\ current.by = "model" /\ current.id = replies
      /\ current.calls # {} /\ DOMAIN reqs = response.calls
  BY DEF Whole, ConversationIsWhole
<1>2. history \in Seq(Message) /\ response \in Message /\ replies \in Nat
  BY DEF Inv, TypeOK
<1>3. Len(history) \in Nat /\ Len(history) # 0 /\ Len(history) \in 1..Len(history)
  BY <1>1, <1>2, EmptySeq, LenProperties
<1>4. Last(history) # response
  <2> SUFFICES ASSUME history[Len(history)] = response PROVE FALSE
    BY DEF Last
  <2>1. Len(history) < Len(history)
    BY <1>1, <1>3 DEF WellAnswered
  <2> QED
    BY <2>1, <1>3
<1>5. response # Prompt
  BY <1>1 DEF Prompt
<1>6. {call \in DOMAIN reqs : reqs[call] = Text} = response.calls
  BY <1>1
<1>7. Injected(reqs) = Append(Append(history, response), Answers(response.calls))
  BY <1>1, <1>4, <1>5, <1>6 DEF Injected
<1> QED
  BY <1>1, <1>2, <1>7, AnswersAdded

LEMMA GoOnWhole ==
  ASSUME Inv, Whole, pc \in Stopped, NEW reqs, DOMAIN reqs = DOMAIN requirements, GoOn(reqs)
  PROVE  Whole'
<1>1. /\ requirements' = reqs /\ pc' = "ask"
      /\ history' = IF pc = "paused" THEN Injected(reqs) ELSE history
      /\ UNCHANGED <<replies, executed>>
      /\ spoilt' = (spoilt \/ (pc = "paused" /\ \E call \in DOMAIN reqs : reqs[call] # Text))
  BY DEF GoOn
<1>2. Going' => Going
  BY <1>1 DEF Going, Stopped
<1>3. SUFFICES ASSUME Going'
               PROVE  /\ WellAnswered(history') /\ history' # <<>> /\ IdsBelow(history', replies + 1)
                      /\ executed \subseteq ToldIn(history')
  BY <1>1 DEF Whole, ConversationIsWhole, EffectsAreKept
<1>4. /\ WellAnswered(history) /\ history # <<>> /\ IdsBelow(history, replies + 1)
      /\ executed \subseteq ToldIn(history)
  BY <1>2, <1>3 DEF Whole, ConversationIsWhole, EffectsAreKept, Stopped
<1>5. CASE pc = "paused"
  <2>1. \A call \in DOMAIN reqs : reqs[call] = Text
    BY <1>1, <1>3, <1>5 DEF Going
  <2>2. /\ WellAnswered(Injected(reqs)) /\ Injected(reqs) # <<>> /\ IdsBelow(Injected(reqs), replies + 1)
        /\ ToldIn(history) \subseteq ToldIn(Injected(reqs))
    BY <1>2, <1>3, <1>5, <2>1, InjectedWhole
  <2>3. history' = Injected(reqs)
    BY <1>1, <1>5
  <2> QED
    BY <2>2, <2>3, <1>4
<1>6. CASE pc # "paused"
  BY <1>1, <1>4, <1>6
<1> QED
  BY <1>5, <1>6

LEMMA ContinueWhole == ASSUME Inv, Whole, Continue PROVE Whole'
  BY GoOnWhole DEF Continue

LEMMA ExecutorRoundWhole == ASSUME Inv, Whole, ExecutorRound PROVE Whole'
<1>1. PICK result \in [Open(requirements) -> {Empty, Text}] :
         GoOn([call \in DOMAIN requirements |->
                  IF call \in Open(requirements) THEN result[call] ELSE requirements[call]])
  BY DEF ExecutorRound
<1> DEFINE reqs == [call \in DOMAIN requirements |->
                       IF call \in Open(requirements) THEN result[call] ELSE requirements[call]]
<1>2. DOMAIN reqs = DOMAIN requirements /\ pc \in Stopped
  BY DEF ExecutorRound, Stopped
<1>3. GoOn(reqs)
  BY <1>1
<1> HIDE DEF reqs
<1> QED
  BY <1>2, <1>3, GoOnWhole

(* Steps of others leave the conversation alone.                            *)
LEMMA OthersWhole ==
  ASSUME Whole, UNCHANGED <<pc, history, response, current, results, replies, executed, spoilt>>,
         DOMAIN requirements' = DOMAIN requirements
  PROVE  Whole'
  BY DEF Whole, ConversationIsWhole, EffectsAreKept, Going

LEMMA SetResultWhole == ASSUME Inv, Whole, SetResult PROVE Whole'
<1>1. DOMAIN requirements' = DOMAIN requirements
  BY DEF SetResult
<1> QED
  BY <1>1, OthersWhole DEF SetResult, batch, ghosts

LEMMA NewAgentWhole == ASSUME Inv, Whole, NewAgent PROVE Whole'
<1>1. DOMAIN requirements' = DOMAIN requirements
  BY DEF NewAgent
<1> QED
  BY <1>1, OthersWhole DEF NewAgent, batch, ghosts

LEMMA OtherRunWhole == ASSUME Inv, Whole, OtherRun PROVE Whole'
  BY OthersWhole DEF OtherRun, batch, ghosts

LEMMA StutterWhole == ASSUME Inv, Whole, UNCHANGED vars PROVE Whole'
  BY OthersWhole DEF vars, batch, ghosts

LEMMA NextWhole == Inv /\ Whole /\ [Next]_vars => Whole'
<1> SUFFICES ASSUME Inv, Whole, [Next]_vars PROVE Whole'
  OBVIOUS
<1>1. CASE Advance
  BY <1>1, PollCancelWhole, RequestWhole, DeliverWhole, RefuseWhole, ExecuteWhole, RunToolWhole,
     AnswerWithErrorWhole, PauseAloneWhole, PauseAmongWhole, GatherPausesWhole,
     GatherResultsWhole, StopAfterCallWhole, FollowUpWhole DEF Advance
<1>2. CASE Environment
  BY <1>2, StartRunWhole, CancelAskedWhole, RequestFailsWhole, DisallowWhole, SetResultWhole,
     ContinueWhole, ExecutorRoundWhole, NewAgentWhole, OtherRunWhole DEF Environment
<1>3. CASE UNCHANGED vars
  BY <1>3, StutterWhole
<1> QED
  BY <1>1, <1>2, <1>3 DEF Next

(* Whenever the model of a run that is not spoilt is asked, the             *)
(* conversation has exactly one answer for each of its calls, behind the    *)
(* response that made it (agent.py 1409-1808, 3198-3247).                   *)
THEOREM Answered == Spec => []AnsweredOnce
<1>1. Whole => AnsweredOnce
  BY DEF Whole, ConversationIsWhole, Going, AnsweredOnce, Asking
<1> QED
  BY InitInv, NextInv, InitWhole, NextWhole, <1>1, PTL DEF Spec

(* Whenever the model of a run that is not spoilt is asked, it is told of   *)
(* all that was executed (agent.py 1446-1683).                              *)
THEOREM EffectsTold == Spec => []EffectsAreTold
<1>1. Whole => EffectsAreTold
  BY DEF Whole, EffectsAreKept, Going, EffectsAreTold, Asking, Told, ToldIn
<1> QED
  BY InitInv, NextInv, InitWhole, NextWhole, <1>1, PTL DEF Spec
=============================================================================
