-------------------------- MODULE RalphLoopProofs --------------------------
(***************************************************************************)
(* A loop that says it completed has nothing pending of its plan, for any  *)
(* items, plans, calls, runs and crashes, as long as no call read the plan *)
(* or lost it in the middle of a change.                                   *)
(***************************************************************************)
EXTENDS RalphLoop, FiniteSetTheorems, SequenceTheorems, WellFoundedInduction, TLAPS

(* A set of numbers has a least one: of the intervals that its members end, *)
(* one contains no other.                                                   *)
LEMMA LeastExists ==
  ASSUME NEW S \in SUBSET Nat, S # {}
  PROVE  First(S) \in S /\ \A l \in S : First(S) <= l
<1> DEFINE T == {0..n : n \in S}
<1>1. T \subseteq FiniteSubsetsOf(Nat)
  <2> SUFFICES ASSUME NEW n \in S PROVE 0..n \in FiniteSubsetsOf(Nat)
    OBVIOUS
  <2>1. IsFiniteSet(0..n)
    BY FS_Interval
  <2> QED
    BY <2>1 DEF FiniteSubsetsOf
<1>2. T # {}
  OBVIOUS
<1>3. PICK t \in T : \A u \in T : ~(<<u, t>> \in StrictSubsetOrdering(Nat))
  <2> HIDE DEF T
  <2> QED
    BY <1>1, <1>2, FS_StrictSubsetOrderingWellFounded, WFMin
<1>4. PICK x \in S : t = 0..x
  OBVIOUS
<1>5. \A y \in S : x <= y
  <2> SUFFICES ASSUME NEW y \in S, y < x PROVE FALSE
    OBVIOUS
  <2>1. 0..y \in T /\ 0..y \subseteq 0..x /\ x \in 0..x /\ x \notin 0..y
    OBVIOUS
  <2>2. <<0..y, 0..x>> \in StrictSubsetOrdering(Nat)
    BY <2>1 DEF StrictSubsetOrdering
  <2> QED
    BY <1>3, <1>4, <2>1, <2>2
<1> QED
  BY <1>5 DEF First

LEMMA PendingType ==
  ASSUME NEW text \in Seq(Line)
  PROVE  Cardinality(PendingLines(text)) \in Nat
<1>1. PendingLines(text) \subseteq 1..Len(text)
  BY LenProperties DEF PendingLines
<1>2. IsFiniteSet(1..Len(text))
  BY FS_Interval, LenProperties
<1> QED
  BY <1>1, <1>2, FS_Subset, FS_CardinalityType

LEMMA AppliedType ==
  ASSUME NEW text \in Seq(Line), NEW op \in Ops, NEW i \in Items,
         op = "add" \/ Matches(text, op, i) # {}
  PROVE  Applied(text, op, i) \in Seq(Line)
<1>1. CASE op = "add"
  <2>1. [item |-> i, mark |-> "open"] \in Line
    BY DEF Line, Marks
  <2> QED
    BY <1>1, <2>1, AppendProperties DEF Applied
<1>2. CASE op # "add"
  <2> DEFINE k == First(Matches(text, op, i))
  <2>1. Matches(text, op, i) \in SUBSET Nat /\ Matches(text, op, i) \subseteq 1..Len(text)
    BY LenProperties DEF Matches
  <2>2. k \in 1..Len(text)
    BY <2>1, <1>2, LeastExists
  <2>3. text[k] \in Line
    BY <2>2, ElementOfSeq
  <2>4. CASE op = "complete"
    <3>1. [text[k] EXCEPT !.mark = "done"] \in Line
      BY <2>3 DEF Line, Marks
    <3>2. [text EXCEPT ![k].mark = "done"] \in Seq(Line)
      BY <2>2, <3>1, ExceptSeq
    <3> QED
      BY <3>2, <1>2, <2>4 DEF Applied
  <2>5. CASE op # "complete"
    <3>1. SubSeq(text, 1, k - 1) \in Seq(Line) /\ SubSeq(text, k + 1, Len(text)) \in Seq(Line)
      BY <2>2, LenProperties, SubSeqProperties
    <3>2. RemoveAt(text, k) \in Seq(Line)
      BY <3>1, ConcatProperties DEF RemoveAt
    <3> QED
      BY <3>2, <1>2, <2>5 DEF Applied
  <2> QED
    BY <2>4, <2>5
<1> QED
  BY <1>1, <1>2

LEMMA ItemsOfType == ASSUME NEW text \in Seq(Line) PROVE ItemsOf(text) \subseteq Items
<1>1. \A line \in ToSet(text) : line \in Line
  BY ElementOfSeq, LenProperties DEF ToSet
<1> QED
  BY <1>1 DEF ItemsOf, Line

LEMMA RequestsType ==
  ASSUME NEW call \in Requests
  PROVE  call \in Call /\ call.step = "begun"
<1>1. <<>> \in Seq(Line) /\ Contents \subseteq Seq(Line)
  BY PlansAssumption, EmptySeq
<1>2. (CHOOSE i \in Items : TRUE) \in Items
  BY CoversAssumption
<1>3. CASE \E op \in Ops \ {"replace"}, i \in Items :
              call = [op |-> op, item |-> i, step |-> "begun", text |-> <<>>]
  BY <1>1, <1>3 DEF Call
<1>4. CASE \E text \in Contents :
              call = [op |-> "replace", item |-> CHOOSE i \in Items : TRUE, step |-> "begun", text |-> text]
  BY <1>1, <1>2, <1>4 DEF Call, Ops
<1> QED
  BY <1>3, <1>4 DEF Requests
-----------------------------------------------------------------------------
(* Unless a call disturbed another, the plan holds every item that was not  *)
(* taken out; while a call changes the plan, the text that it writes does.  *)
Working(c) == c \in Active /\ calls[c].step # "begun"

PlanIsKept ==
    ~disturbed =>
        /\ \A c, d \in Slots : Working(c) /\ Working(d) => c = d
        /\ Torn = {} => planned \ dropped \subseteq ItemsOf(plan)
        /\ \A c \in Slots : Working(c) => planned \ dropped \subseteq ItemsOf(calls[c].text)
        /\ pc = "planning" => Active = {} /\ plan = <<>>

Inv == TypeOK /\ PlanIsKept

LEMMA InitInv == Init => Inv
<1> SUFFICES ASSUME Init PROVE Inv
  OBVIOUS
<1>1. plan \in Seq(Line) /\ limit \in 0..MaxIterations /\ runs \in 0..MaxRuns /\ made \in 0..MaxCalls
  BY BoundsAssumption, EmptySeq DEF Init
<1>2. Active = {}
  BY DEF Init, Active
<1>3. TypeOK
  BY <1>1 DEF Init, TypeOK, Statuses
<1>4. PlanIsKept
  BY <1>2 DEF Init, PlanIsKept, Working
<1> QED
  BY <1>3, <1>4 DEF Inv

(* Steps that leave the plan and the calls alone.                           *)
LEMMA QuietInv ==
  ASSUME Inv, UNCHANGED <<plan, calls, planned, dropped>>,
         ~disturbed' => ~disturbed, pc' = "planning" => pc = "planning"
  PROVE  PlanIsKept' /\ Active' = Active
<1>1. Active' = Active /\ Torn' = Torn /\ \A c \in Slots : Working(c)' = Working(c)
  BY DEF Active, Torn, Working
<1> QED
  BY <1>1 DEF Inv, PlanIsKept

LEMMA RunInv == ASSUME Inv, Run PROVE Inv'
<1> USE DEF Run, files, tools, ghosts
<1>1. PlanIsKept' /\ Active' = Active
  BY QuietInv
<1>2. runs' \in 0..MaxRuns
  BY BoundsAssumption DEF Inv, TypeOK
<1>3. TypeOK'
  BY <1>1, <1>2 DEF Inv, TypeOK, Live, Phases, Statuses
<1> QED
  BY <1>1, <1>3 DEF Inv

LEMMA PhaseInv == ASSUME Inv, Phase PROVE Inv'
<1> USE DEF Go, files, tools, loop, ghosts, Live, Phases, Statuses
<1>1. CASE SpecsExist \/ HaveSpecs \/ SaveSpec \/ SavePrompt \/ PhaseFails
  <2>1. PlanIsKept' /\ Active' = Active
    BY <1>1, QuietInv DEF SpecsExist, HaveSpecs, SaveSpec, SavePrompt, PhaseFails
  <2>2. TypeOK'
    BY <1>1, <2>1 DEF SpecsExist, HaveSpecs, SaveSpec, SavePrompt, PhaseFails, Inv, TypeOK
  <2> QED
    BY <2>1, <2>2 DEF Inv
<1>2. CASE LookForPlan
  <2>1. /\ UNCHANGED <<plan, calls, planned, dropped>>
        /\ disturbed' = (disturbed \/ (plan = <<>> /\ Active # {}))
        /\ pc' = IF plan = <<>> THEN "planning" ELSE "top"
    BY <1>2 DEF LookForPlan
  <2>2. Active' = Active /\ Torn' = Torn /\ \A c \in Slots : Working(c)' = Working(c)
    BY <2>1 DEF Active, Torn, Working
  <2>3. PlanIsKept'
    BY <2>1, <2>2 DEF Inv, PlanIsKept
  <2>4. disturbed' \in BOOLEAN
    BY <2>1 DEF Inv, TypeOK
  <2>5. TypeOK'
    BY <1>2, <2>1, <2>2, <2>4 DEF LookForPlan, Inv, TypeOK
  <2> QED
    BY <2>3, <2>5 DEF Inv
<1>3. CASE MakePlan
  <2>1. /\ plan' \in Seq(Line) /\ planned' = planned \cup ItemsOf(plan')
        /\ dropped' = dropped \ ItemsOf(plan') /\ UNCHANGED <<calls, disturbed>>
        /\ pc = "planning" /\ pc' = "top"
    BY <1>3, PlansAssumption DEF MakePlan
  <2>2. Active' = Active /\ Torn' = Torn /\ \A c \in Slots : Working(c)' = Working(c)
    BY <2>1 DEF Active, Torn, Working
  <2>3. PlanIsKept'
    <3> SUFFICES ASSUME ~disturbed
                 PROVE  /\ Active = {} /\ planned' \ dropped' \subseteq ItemsOf(plan')
      BY <2>1, <2>2 DEF PlanIsKept, Working
    <3>1. Active = {} /\ plan = <<>> /\ Torn = {}
      BY <2>1 DEF Inv, PlanIsKept, Torn
    <3>2. ItemsOf(<<>>) = {}
      BY DEF ItemsOf, ToSet
    <3>3. planned \ dropped = {}
      BY <3>1, <3>2 DEF Inv, PlanIsKept
    <3> QED
      BY <2>1, <3>1, <3>3
  <2>4. planned' \subseteq Items /\ dropped' \subseteq Items
    BY <2>1, ItemsOfType DEF Inv, TypeOK
  <2>5. TypeOK'
    BY <1>3, <2>1, <2>2, <2>4 DEF MakePlan, Inv, TypeOK
  <2> QED
    BY <2>3, <2>5 DEF Inv
<1> QED
  BY <1>1, <1>2, <1>3 DEF Phase

LEMMA LoopingInv == ASSUME Inv, Looping PROVE Inv'
<1> USE DEF Finish, Look, files, tools, ghosts, Live, Phases, Statuses
<1>1. UNCHANGED <<plan, calls, planned, dropped, specs, prompt, awaited, made, runs, limit, stop>>
  BY DEF Looping, StopLooping, LimitReached, BeginIteration, EndIteration, IterationFails,
         LoopFails, Leave
<1>2. (~disturbed' => ~disturbed) /\ pc' # "planning" /\ pc' \in Live \cup {"over"}
  <2>1. CASE BeginIteration
    <3>1. pc' = "leave" \/ pc' = "agent"
      BY <2>1 DEF BeginIteration
    <3> QED
      BY <2>1, <3>1 DEF BeginIteration
  <2>2. CASE EndIteration
    <3>1. pc' = "leave" \/ pc' = "top"
      BY <2>2 DEF EndIteration
    <3> QED
      BY <2>2, <3>1 DEF EndIteration
  <2>3. CASE StopLooping \/ LimitReached \/ IterationFails \/ LoopFails \/ Leave
    BY <2>3 DEF StopLooping, LimitReached, IterationFails, LoopFails, Leave
  <2> QED
    BY <2>1, <2>2, <2>3 DEF Looping
<1>3. PlanIsKept' /\ Active' = Active
  BY <1>1, <1>2, QuietInv
<1>4. count' \in Nat
  BY DEF Looping, StopLooping, LimitReached, BeginIteration, EndIteration, IterationFails,
         LoopFails, Leave, Counted, Inv, TypeOK
<1>5. pending' \in Nat /\ status' \in Statuses
  BY PendingType DEF Looping, StopLooping, LimitReached, BeginIteration, EndIteration,
         IterationFails, LoopFails, Leave, Inv, TypeOK
<1>6. marked' \in BOOLEAN /\ success' \in BOOLEAN /\ disturbed' \in BOOLEAN
  <2>1. marked \in BOOLEAN /\ success \in BOOLEAN /\ disturbed \in BOOLEAN
    BY DEF Inv, TypeOK
  <2>2. CASE BeginIteration
    BY <2>1, <2>2 DEF BeginIteration
  <2>3. CASE EndIteration
    BY <2>1, <2>3 DEF EndIteration
  <2>4. CASE StopLooping \/ LimitReached \/ IterationFails \/ LoopFails \/ Leave
    BY <2>1, <2>4 DEF StopLooping, LimitReached, IterationFails, LoopFails, Leave
  <2> QED
    BY <2>2, <2>3, <2>4 DEF Looping
<1>7. TypeOK'
  BY <1>1, <1>2, <1>3, <1>4, <1>5, <1>6 DEF Inv, TypeOK
<1> QED
  BY <1>3, <1>7 DEF Inv

LEMMA StopInv == ASSUME Inv, Stop PROVE Inv'
<1> USE DEF Stop, files, tools, ghosts
<1>1. PlanIsKept' /\ Active' = Active
  BY QuietInv
<1>2. TypeOK'
  BY <1>1 DEF Inv, TypeOK
<1> QED
  BY <1>1, <1>2 DEF Inv

LEMMA CrashInv == ASSUME Inv, Crash PROVE Inv'
<1> USE DEF Crash, files
<1>1. /\ UNCHANGED <<plan, planned, dropped>> /\ pc' = "idle"
      /\ calls' = [c \in Slots |-> NoCall] /\ awaited' = {}
      /\ disturbed' = (disturbed \/ Torn # {})
  OBVIOUS
<1>2. Active' = {} /\ Torn' = {} /\ \A c \in Slots : ~Working(c)'
  BY <1>1 DEF Active, Torn, Working
<1>3. PlanIsKept'
  BY <1>1, <1>2 DEF Inv, PlanIsKept
<1>4. disturbed' \in BOOLEAN
  BY <1>1 DEF Inv, TypeOK
<1>5. TypeOK'
  BY <1>1, <1>4 DEF Inv, TypeOK
<1> QED
  BY <1>3, <1>5 DEF Inv
-----------------------------------------------------------------------------
LEMMA CallToolInv == ASSUME Inv, NEW c \in Slots, CallTool(c) PROVE Inv'
<1> USE DEF files, loop, ghosts
<1>1. PICK call \in Requests : calls' = [calls EXCEPT ![c] = call]
  BY DEF CallTool
<1>2. call \in Call /\ call.step = "begun" /\ call # NoCall
  BY RequestsType, NoCallAssumption
<1>3. /\ pc = "agent" /\ c \notin Active /\ made' = made + 1 /\ made < MaxCalls
      /\ awaited' = awaited \cup {c}
      /\ UNCHANGED <<plan, pc, planned, dropped, disturbed>>
  BY DEF CallTool
<1>4. calls \in [Slots -> Call \cup {NoCall}]
  BY DEF Inv, TypeOK
<1>5. Active' = Active \cup {c}
  BY <1>1, <1>2, <1>4 DEF Active
<1>6. \A d \in Slots : Working(d)' <=> (Working(d) /\ calls'[d] = calls[d])
  BY <1>1, <1>2, <1>3, <1>4, <1>5 DEF Working
<1>7. Torn' = Torn
  BY <1>1, <1>2, <1>3, <1>4, <1>5 DEF Torn
<1>8. PlanIsKept'
  BY <1>3, <1>6, <1>7 DEF Inv, PlanIsKept
<1>9. TypeOK'
  <2>1. made' \in 0..MaxCalls
    BY <1>3, BoundsAssumption DEF Inv, TypeOK
  <2>2. calls' \in [Slots -> Call \cup {NoCall}] /\ awaited' \subseteq Active'
    BY <1>1, <1>2, <1>3, <1>4, <1>5 DEF Inv, TypeOK
  <2> QED
    BY <1>3, <2>1, <2>2 DEF CallTool, Inv, TypeOK
<1> QED
  BY <1>8, <1>9 DEF Inv

LEMMA ReadPlanInv == ASSUME Inv, NEW c \in Slots, ReadPlan(c) PROVE Inv'
<1> USE DEF files, loop
<1> DEFINE new == IF calls[c].op = "replace" THEN calls[c].text
                  ELSE Applied(plan, calls[c].op, calls[c].item)
<1>1. /\ c \in Active /\ calls[c].step = "begun"
      /\ calls' = [calls EXCEPT ![c].step = "read", ![c].text = new]
      /\ dropped' = dropped \cup (ItemsOf(plan) \ ItemsOf(new))
      /\ disturbed' = (disturbed \/ \E d \in Active \ {c} : calls[d].step # "begun")
      /\ calls[c].op = "replace" \/ calls[c].op = "add"
            \/ Matches(plan, calls[c].op, calls[c].item) # {}
      /\ UNCHANGED <<plan, pc, planned>>
  BY DEF ReadPlan
<1>2. calls \in [Slots -> Call \cup {NoCall}] /\ plan \in Seq(Line)
  BY DEF Inv, TypeOK
<1>3. calls[c] \in Call
  BY <1>1, <1>2 DEF Active
<1>4. new \in Seq(Line)
  <2>1. calls[c].text \in Seq(Line) /\ calls[c].op \in Ops /\ calls[c].item \in Items
    BY <1>3 DEF Call
  <2> QED
    BY <1>1, <1>2, <2>1, AppliedType
<1> HIDE DEF new
<1>5. /\ calls'[c] = [calls[c] EXCEPT !.step = "read", !.text = new]
      /\ \A d \in Slots \ {c} : calls'[d] = calls[d]
      /\ DOMAIN calls' = Slots
  BY <1>1, <1>2
<1>6. /\ calls'[c] \in Call /\ calls'[c].step = "read" /\ calls'[c].text = new /\ calls'[c] # NoCall
  BY <1>3, <1>4, <1>5, NoCallAssumption DEF Call
<1>7. Active' = Active
  BY <1>1, <1>5, <1>6 DEF Active
<1>8. PlanIsKept'
  <2> SUFFICES ASSUME ~disturbed'
               PROVE  /\ \A d, e \in Slots : Working(d)' /\ Working(e)' => d = e
                      /\ Torn' = {} => planned \ dropped' \subseteq ItemsOf(plan)
                      /\ \A d \in Slots : Working(d)' => planned \ dropped' \subseteq ItemsOf(calls'[d].text)
                      /\ pc = "planning" => Active = {} /\ plan = <<>>
    BY <1>1, <1>7 DEF PlanIsKept
  <2>1. ~disturbed /\ \A d \in Active \ {c} : calls[d].step = "begun"
    BY <1>1
  <2>2. Torn = {}
    BY <1>1, <2>1 DEF Torn
  <2>3. planned \ dropped \subseteq ItemsOf(plan)
    BY <2>1, <2>2 DEF Inv, PlanIsKept
  <2>4. planned \ dropped' \subseteq ItemsOf(plan) /\ planned \ dropped' \subseteq ItemsOf(new)
    BY <1>1, <2>3
  <2>5. \A d \in Slots : Working(d)' => d = c
    BY <1>5, <1>7, <2>1 DEF Working
  <2> QED
    BY <1>6, <2>1, <2>4, <2>5 DEF Inv, PlanIsKept
<1>9. TypeOK'
  <2>1. calls' \in [Slots -> Call \cup {NoCall}]
    BY <1>1, <1>2, <1>5, <1>6
  <2>2. dropped' \subseteq Items
    BY <1>1, <1>2, ItemsOfType DEF Inv, TypeOK
  <2>3. disturbed' \in BOOLEAN
    BY <1>1 DEF Inv, TypeOK
  <2> QED
    BY <1>7, <2>1, <2>2, <2>3 DEF ReadPlan, Inv, TypeOK
<1> QED
  BY <1>8, <1>9 DEF Inv

(* A call that ends.                                                        *)
LEMMA EndType ==
  ASSUME Inv, NEW c \in Slots, End(c)
  PROVE  /\ calls' \in [Slots -> Call \cup {NoCall}] /\ awaited' \subseteq Active'
         /\ calls'[c] = NoCall /\ \A d \in Slots \ {c} : calls'[d] = calls[d]
         /\ Active' = Active \ {c} /\ Torn' = Torn \ {c}
         /\ \A d \in Slots : Working(d)' <=> (Working(d) /\ d # c)
<1> USE DEF End
<1>1. calls \in [Slots -> Call \cup {NoCall}] /\ awaited \subseteq Active
  BY DEF Inv, TypeOK
<1>2. /\ calls' \in [Slots -> Call \cup {NoCall}]
      /\ calls'[c] = NoCall /\ \A d \in Slots \ {c} : calls'[d] = calls[d]
  BY <1>1
<1>3. Active' = Active \ {c}
  BY <1>2 DEF Active
<1>4. Torn' = Torn \ {c} /\ \A d \in Slots : Working(d)' <=> (Working(d) /\ d # c)
  BY <1>2, <1>3 DEF Torn, Working, Active
<1> QED
  BY <1>1, <1>2, <1>3, <1>4

LEMMA FindNothingInv == ASSUME Inv, NEW c \in Slots, FindNothing(c) PROVE Inv'
<1> USE DEF files, loop, ghosts
<1>1. /\ End(c) /\ c \in Active /\ calls[c].step = "begun"
      /\ UNCHANGED <<plan, pc, planned, dropped, disturbed>>
  BY DEF FindNothing
<1>2. Torn' = Torn
  BY <1>1, EndType DEF Torn
<1>3. PlanIsKept'
  BY <1>1, <1>2, EndType DEF Inv, PlanIsKept, Working
<1>4. TypeOK'
  BY <1>1, EndType DEF FindNothing, Inv, TypeOK
<1> QED
  BY <1>3, <1>4 DEF Inv

LEMMA TruncateInv == ASSUME Inv, NEW c \in Slots, Truncate(c) PROVE Inv'
<1> USE DEF loop, ghosts
<1>1. /\ c \in Active /\ calls[c].step = "read" /\ plan' = <<>>
      /\ calls' = [calls EXCEPT ![c].step = "torn"]
      /\ UNCHANGED <<pc, planned, dropped, disturbed>>
  BY DEF Truncate
<1>2. calls \in [Slots -> Call \cup {NoCall}] /\ <<>> \in Seq(Line)
  BY EmptySeq DEF Inv, TypeOK
<1>3. calls[c] \in Call
  BY <1>1, <1>2 DEF Active
<1>4. calls'[c] = [calls[c] EXCEPT !.step = "torn"] /\ \A d \in Slots \ {c} : calls'[d] = calls[d]
  BY <1>1, <1>2
<1>5. calls'[c] \in Call /\ calls'[c].step = "torn" /\ calls'[c].text = calls[c].text
      /\ calls'[c] # NoCall
  BY <1>3, <1>4, NoCallAssumption DEF Call
<1>6. Active' = Active /\ c \in Torn' /\ \A d \in Slots : Working(d)' <=> Working(d)
  BY <1>1, <1>4, <1>5 DEF Active, Torn, Working
<1>7. \A d \in Slots : calls'[d].text = calls[d].text
  BY <1>4, <1>5
<1>8. PlanIsKept'
  BY <1>1, <1>6, <1>7 DEF Inv, PlanIsKept
<1>9. TypeOK'
  <2>1. calls' \in [Slots -> Call \cup {NoCall}]
    BY <1>1, <1>2, <1>4, <1>5
  <2> QED
    BY <1>1, <1>2, <1>6, <2>1 DEF Truncate, Inv, TypeOK
<1> QED
  BY <1>8, <1>9 DEF Inv

LEMMA WritePlanInv == ASSUME Inv, NEW c \in Slots, WritePlan(c) PROVE Inv'
<1> USE DEF loop
<1>1. /\ c \in Torn /\ End(c) /\ plan' = calls[c].text
      /\ planned' = planned \cup ItemsOf(plan') /\ dropped' = dropped \ ItemsOf(plan')
      /\ marked' = (marked \/ calls[c].op = "complete")
      /\ UNCHANGED <<pc, disturbed>>
  BY DEF WritePlan
<1>2. calls[c] \in Call
  BY <1>1 DEF Torn, Active, Inv, TypeOK
<1>3. plan' \in Seq(Line)
  BY <1>1, <1>2 DEF Call
<1>4. Working(c)
  BY <1>1 DEF Torn, Working
<1>5. PlanIsKept'
  <2> SUFFICES ASSUME ~disturbed
               PROVE  /\ \A d \in Slots : ~Working(d)'
                      /\ planned' \ dropped' \subseteq ItemsOf(plan')
                      /\ pc # "planning"
    BY <1>1 DEF PlanIsKept
  <2>1. \A d \in Slots : ~Working(d)'
    BY <1>1, <1>4, EndType DEF Inv, PlanIsKept
  <2>2. planned \ dropped \subseteq ItemsOf(plan')
    BY <1>1, <1>4 DEF Inv, PlanIsKept
  <2>3. pc # "planning"
    BY <1>4 DEF Inv, PlanIsKept, Working
  <2> QED
    BY <1>1, <2>1, <2>2, <2>3
<1>6. planned' \subseteq Items /\ dropped' \subseteq Items
  BY <1>1, <1>3, ItemsOfType DEF Inv, TypeOK
<1>7. marked' \in BOOLEAN
  BY <1>1 DEF Inv, TypeOK
<1>8. TypeOK'
  BY <1>1, <1>3, <1>6, <1>7, EndType DEF WritePlan, Inv, TypeOK
<1> QED
  BY <1>5, <1>8 DEF Inv

LEMMA TimeOutInv == ASSUME Inv, NEW c \in Slots, TimeOut(c) PROVE Inv'
<1> USE DEF files, loop, ghosts
<1>1. c \in awaited /\ c \in Active /\ calls[c] \in Call /\ awaited \subseteq Active
      /\ calls \in [Slots -> Call \cup {NoCall}]
  BY DEF TimeOut, Inv, TypeOK, Active
<1>2. CASE awaited' = awaited \ {c} /\ UNCHANGED <<calls, made>>
  <2>1. PlanIsKept' /\ Active' = Active
    BY <1>2, QuietInv DEF TimeOut
  <2>2. TypeOK'
    BY <1>1, <1>2, <2>1 DEF TimeOut, Inv, TypeOK
  <2> QED
    BY <2>1, <2>2 DEF Inv
<1>3. CASE /\ made < MaxCalls
           /\ made' = made + 1
           /\ \E d \in Slots \ Active :
                 /\ calls' = [calls EXCEPT ![d] = [calls[c] EXCEPT !.step = "begun"]]
                 /\ awaited' = (awaited \ {c}) \cup {d}
  <2>1. PICK d \in Slots \ Active :
            /\ calls' = [calls EXCEPT ![d] = [calls[c] EXCEPT !.step = "begun"]]
            /\ awaited' = (awaited \ {c}) \cup {d}
    BY <1>3
  <2> DEFINE again == [calls[c] EXCEPT !.step = "begun"]
  <2>2. again \in Call /\ again.step = "begun" /\ again # NoCall
    BY <1>1, NoCallAssumption DEF Call
  <2>3. calls' = [calls EXCEPT ![d] = again]
    BY <2>1
  <2> HIDE DEF again
  <2>4. calls'[d] = again /\ \A e \in Slots \ {d} : calls'[e] = calls[e]
    BY <1>1, <2>3
  <2>5. Active' = Active \cup {d}
    BY <2>2, <2>4 DEF Active
  <2>6. \A e \in Slots : Working(e)' <=> (Working(e) /\ calls'[e] = calls[e])
    BY <2>1, <2>2, <2>4, <2>5 DEF Working
  <2>7. Torn' = Torn
    BY <2>1, <2>2, <2>4, <2>5 DEF Torn
  <2>8. UNCHANGED <<plan, pc, planned, dropped, disturbed>>
    BY DEF TimeOut
  <2>9. PlanIsKept'
    BY <1>1, <2>6, <2>7, <2>8 DEF Inv, PlanIsKept
  <2>10. TypeOK'
    <3>1. made' \in 0..MaxCalls
      BY <1>3, BoundsAssumption DEF Inv, TypeOK
    <3>2. calls' \in [Slots -> Call \cup {NoCall}] /\ awaited' \subseteq Active'
      BY <1>1, <2>1, <2>2, <2>3, <2>5
    <3> QED
      BY <3>1, <3>2 DEF TimeOut, Inv, TypeOK
  <2> QED
    BY <2>9, <2>10 DEF Inv
<1> QED
  BY <1>2, <1>3 DEF TimeOut

LEMMA StutterInv == ASSUME Inv, UNCHANGED vars PROVE Inv'
<1> USE DEF vars, files, loop, tools, ghosts
<1>1. PlanIsKept' /\ Active' = Active
  BY QuietInv
<1>2. TypeOK'
  BY <1>1 DEF Inv, TypeOK
<1> QED
  BY <1>1, <1>2 DEF Inv

LEMMA NextInv == Inv /\ [Next]_vars => Inv'
<1> SUFFICES ASSUME Inv, [Next]_vars PROVE Inv'
  OBVIOUS
<1>1. CASE Run \/ Phase \/ Looping \/ Stop \/ Crash
  BY <1>1, RunInv, PhaseInv, LoopingInv, StopInv, CrashInv
<1>2. CASE \E c \in Slots : CallTool(c) \/ Work(c) \/ TimeOut(c)
  BY <1>2, CallToolInv, ReadPlanInv, FindNothingInv, TruncateInv, WritePlanInv, TimeOutInv
     DEF Work
<1>3. CASE UNCHANGED vars
  BY <1>3, StutterInv
<1> QED
  BY <1>1, <1>2, <1>3 DEF Next

(* The model is type correct, for any items, plans and bounds.              *)
THEOREM TypeCorrect == Spec => []TypeOK
<1>1. Inv => TypeOK
  BY DEF Inv
<1> QED
  BY InitInv, NextInv, <1>1, PTL DEF Spec
-----------------------------------------------------------------------------
(* A plan without pending lines has settled all that it holds.              *)
LEMMA NothingPending ==
  ASSUME NEW text \in Seq(Line), PendingLines(text) = {}, NEW i \in ItemsOf(text)
  PROVE  \E mark \in Settled : [item |-> i, mark |-> mark] \in ToSet(text)
<1>1. PICK k \in DOMAIN text : text[k].item = i
  BY DEF ItemsOf, ToSet
<1>2. text[k] \in Line /\ text[k].mark \in Settled
  BY ElementOfSeq, LenProperties DEF PendingLines
<1>3. text[k] = [item |-> i, mark |-> text[k].mark]
  BY <1>1, <1>2 DEF Line
<1>4. [item |-> i, mark |-> text[k].mark] \in ToSet(text)
  BY <1>3 DEF ToSet
<1> QED
  BY <1>2, <1>4

LEMMA StepIsDone ==
  ASSUME Inv, Next, status' = "completed", status # "completed", ~disturbed',
         NEW i \in planned \ dropped
  PROVE  \E mark \in Settled : [item |-> i, mark |-> mark] \in ToSet(plan)
<1>1. Look /\ PendingLines(plan) = {}
  <2>1. BeginIteration \/ EndIteration
    <3>1. CASE Run \/ Phase \/ Stop \/ Crash
      BY <3>1 DEF Run, Phase, Stop, Crash, SpecsExist, HaveSpecs, SaveSpec, SavePrompt, LookForPlan,
                  MakePlan, PhaseFails, Go, loop
    <3>2. CASE Looping
      BY <3>2 DEF Looping, StopLooping, LimitReached, IterationFails, LoopFails, Leave, Finish
    <3>3. CASE \E c \in Slots : CallTool(c) \/ Work(c) \/ TimeOut(c)
      BY <3>3 DEF CallTool, Work, TimeOut, ReadPlan, FindNothing, Truncate, WritePlan, loop
    <3> QED
      BY <3>1, <3>2, <3>3 DEF Next
  <2>2. CASE BeginIteration
    BY <2>2 DEF BeginIteration
  <2>3. CASE EndIteration
    BY <2>3 DEF EndIteration
  <2> QED
    BY <2>1, <2>2, <2>3
<1>2. ~disturbed /\ Torn = {}
  BY <1>1 DEF Look
<1>3. i \in ItemsOf(plan)
  BY <1>2 DEF Inv, PlanIsKept
<1> QED
  BY <1>1, <1>3, NothingPending DEF Inv, TypeOK

(* A loop that completes undisturbed has marked every item that was planned *)
(* and not taken out, but those on lines that its parser does not take for  *)
(* items (incremental.py:305-321, loop.py:384-387, models.py:104-112).      *)
THEOREM CompletedIsDone == Spec => CompletedMeansDone
<1>1. Inv /\ [Next]_vars =>
        [(status' = "completed" /\ status # "completed" /\ ~disturbed')
             => \A i \in planned \ dropped : \E mark \in Settled :
                   [item |-> i, mark |-> mark] \in ToSet(plan)]_vars
  BY StepIsDone
<1> QED
  BY InitInv, NextInv, <1>1, PTL DEF Spec, CompletedMeansDone
=============================================================================
