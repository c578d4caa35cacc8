-------------------------- MODULE StateGraphProofs --------------------------
(***************************************************************************)
(* The checkpoints of any graph are a walk: for any nodes, graphs, calls   *)
(* that overlap, failures, crashes and edits, StateGraph implements        *)
(* GraphWalk.  While nobody goes back, the history is one line, and what   *)
(* an invocation returns is its end.                                       *)
(***************************************************************************)
EXTENDS StateGraph, FiniteSetTheorems, SequenceTheorems, WellFoundedInduction, TLAPS

(* A finite set as a sequence: each member once.                            *)
LEMMA SetAsSeq ==
  ASSUME NEW S, IsFiniteSet(S)
  PROVE  /\ SetToSeq(S) \in Seq(S)
         /\ Len(SetToSeq(S)) = Cardinality(S)
         /\ ToSet(SetToSeq(S)) = S
<1> DEFINE n == Cardinality(S)
           s == SetToSeq(S)
<1>1. n \in Nat /\ ExistsBijection(1..n, S)
  BY FS_CardinalityType
<1>2. \E g \in [1..n -> S] : IsInjective(g)
  BY <1>1 DEF ExistsBijection, Bijection, Injection
<1>3. s \in [1..n -> S] /\ IsInjective(s)
  BY <1>2 DEF SetToSeq
<1>4. IsFiniteSet(1..n) /\ Cardinality(1..n) = n
  BY <1>1, FS_Interval
<1>5. s \in Injection(1..n, S)
  BY <1>3 DEF Injection
<1>6. s \in Surjection(1..n, S)
  BY <1>4, <1>5, FS_Injection
<1>7. s \in Seq(S) /\ Len(s) = n /\ DOMAIN s = 1..n
  <2> HIDE DEF s, n
  <2> QED
    BY <1>1, <1>3, IsASeq, LenProperties
<1>8. \A x \in S : \E i \in 1..n : s[i] = x
  BY <1>6 DEF Surjection
<1>9. ToSet(s) = S
  <2> HIDE DEF s, n
  <2> QED
    BY <1>3, <1>7, <1>8 DEF ToSet
<1> QED
  BY <1>7, <1>9

(* Some checkpoint is the newest: of the sets of those that are not older   *)
(* than one of them, one contains no other.                                 *)
LEMMA NewestExists ==
  ASSUME NEW cps, IsFiniteSet(cps), cps # {}, \A cp \in cps : cp.at \in Nat
  PROVE  Newest(cps) \in cps /\ \A cp \in cps : cp.at <= Newest(cps).at
<1> DEFINE Since(x) == {y \in cps : x.at <= y.at}
           T == {Since(x) : x \in cps}
<1>1. T \subseteq FiniteSubsetsOf(cps)
  <2> SUFFICES ASSUME NEW x \in cps PROVE Since(x) \in FiniteSubsetsOf(cps)
    OBVIOUS
  <2>1. Since(x) \in SUBSET cps
    OBVIOUS
  <2>2. IsFiniteSet(Since(x))
    BY <2>1, FS_Subset
  <2> QED
    BY <2>1, <2>2 DEF FiniteSubsetsOf
<1>2. T # {}
  OBVIOUS
<1>3. PICK t \in T : \A u \in T : ~(<<u, t>> \in StrictSubsetOrdering(cps))
  <2> HIDE DEF T
  <2> QED
    BY <1>1, <1>2, FS_StrictSubsetOrderingWellFounded, WFMin
<1>4. PICK x \in cps : t = Since(x)
  OBVIOUS
<1>5. \A y \in cps : y.at <= x.at
  <2> SUFFICES ASSUME NEW y \in cps, x.at < y.at PROVE FALSE
    OBVIOUS
  <2>1. Since(y) \subseteq Since(x) /\ x \in Since(x) /\ x \notin Since(y)
    OBVIOUS
  <2>2. Since(y) \in SUBSET cps /\ Since(x) \in SUBSET cps /\ Since(y) \in T
    OBVIOUS
  <2>3. <<Since(y), Since(x)>> \in StrictSubsetOrdering(cps)
    <3> HIDE DEF Since
    <3> QED
      BY <2>1, <2>2 DEF StrictSubsetOrdering
  <2> QED
    BY <1>3, <1>4, <2>2, <2>3
<1> QED
  BY <1>5 DEF Newest

LEMMA SeqIsFinite ==
  ASSUME NEW T, NEW s \in Seq(T)
  PROVE  /\ IsFiniteSet(ToSet(s)) /\ ToSet(s) \subseteq T
         /\ s # <<>> => ToSet(s) # {} /\ Head(s) \in ToSet(s)
<1>1. Len(s) \in Nat /\ DOMAIN s = 1..Len(s) /\ s \in [1..Len(s) -> T]
  BY LenProperties
<1>2. s \in [1..Len(s) -> ToSet(s)]
  BY <1>1 DEF ToSet
<1>3. s \in Surjection(1..Len(s), ToSet(s))
  BY <1>1, <1>2 DEF Surjection, ToSet
<1>4. IsFiniteSet(1..Len(s))
  BY <1>1, FS_Interval
<1>5. IsFiniteSet(ToSet(s))
  BY <1>3, <1>4, FS_Surjection
<1>6. s # <<>> => 1 \in 1..Len(s) /\ Head(s) = s[1]
  BY <1>1, EmptySeq, HeadTailProperties
<1> QED
  BY <1>1, <1>5, <1>6 DEF ToSet

(* What is put is what there was, and one more.                             *)
LEMMA PutAdds ==
  ASSUME NEW T, NEW s \in Seq(T), NEW x \in T
  PROVE  <<x>> \o s \in Seq(T) /\ ToSet(<<x>> \o s) = ToSet(s) \cup {x}
<1>1. <<x>> \in Seq(T) /\ Len(<<x>>) = 1 /\ <<x>>[1] = x
  OBVIOUS
<1> DEFINE w == <<x>> \o s
<1>2. /\ w \in Seq(T) /\ Len(w) = 1 + Len(s)
      /\ \A i \in 1..Len(w) : w[i] = IF i <= 1 THEN <<x>>[i] ELSE s[i - 1]
  BY <1>1, ConcatProperties
<1>3. Len(s) \in Nat /\ DOMAIN s = 1..Len(s) /\ DOMAIN w = 1..Len(w)
  BY <1>2, LenProperties
<1> HIDE DEF w
<1>4. w[1] = x /\ \A i \in 1..Len(s) : w[i + 1] = s[i]
  BY <1>1, <1>2, <1>3
<1>5. ToSet(w) \subseteq ToSet(s) \cup {x}
  BY <1>1, <1>2, <1>3 DEF ToSet
<1>6. ToSet(s) \cup {x} \subseteq ToSet(w)
  BY <1>2, <1>3, <1>4 DEF ToSet
<1> QED
  BY <1>2, <1>5, <1>6 DEF w

LEMMA LatestIsStored ==
  ASSUME TypeOK, stored # <<>>
  PROVE  Latest \in ToSet(stored) /\ Latest \in CheckpointType
<1>1. stored \in Seq(CheckpointType)
  BY DEF TypeOK
<1>2. /\ IsFiniteSet(ToSet(stored)) /\ ToSet(stored) \subseteq CheckpointType
      /\ ToSet(stored) # {} /\ Head(stored) \in ToSet(stored)
  BY <1>1, SeqIsFinite
<1>3. \A cp \in ToSet(stored) : cp.at \in Nat
  BY <1>2 DEF CheckpointType
<1>4. Newest(ToSet(stored)) \in ToSet(stored)
  BY <1>2, <1>3, NewestExists
<1> QED
  BY <1>2, <1>4 DEF Latest
-----------------------------------------------------------------------------
(* Types.                                                                   *)

LEMMA TasksAreFinite ==
  ASSUME NEW got \in SUBSET Result
  PROVE  /\ {r.task : r \in got} \in SUBSET Task
         /\ IsFiniteSet({r.task : r \in got})
<1>1. {r.task : r \in got} \in SUBSET Task
  BY DEF Result
<1>2. IsFiniteSet(BOOLEAN)
  <2>1. BOOLEAN = {TRUE} \cup {FALSE}
    OBVIOUS
  <2>2. IsFiniteSet({TRUE})
    BY FS_Singleton
  <2>3. IsFiniteSet({TRUE} \cup {FALSE})
    BY <2>2, FS_AddElement, Zenon
  <2> QED
    BY <2>1, <2>3, Zenon
<1>3. IsFiniteSet(Task)
  BY <1>2, NodesAssumption, FS_Product DEF Task
<1> QED
  BY <1>1, <1>3, FS_Subset

(* What is merged behind a state.                                           *)
LEMMA MergedType ==
  ASSUME NEW state \in Seq(Merged), NEW got \in SUBSET Result
  PROVE  LET done == {r.task : r \in got}
             merged == state \o SetToSeq(done)
         IN /\ merged \in Seq(Merged)
            /\ Len(merged) = Len(state) + Cardinality(done)
            /\ IsPrefix(state, merged)
            /\ ToSet(SubSeq(merged, Len(state) + 1, Len(merged))) = done
<1> DEFINE done == {r.task : r \in got}
           tail == SetToSeq(done)
           merged == state \o tail
<1>1. done \in SUBSET Task /\ IsFiniteSet(done)
  BY TasksAreFinite
<1>2. tail \in Seq(done) /\ Len(tail) = Cardinality(done) /\ ToSet(tail) = done
  <2> HIDE DEF done
  <2> QED
    BY <1>1, SetAsSeq
<1>3. tail \in Seq(Merged)
  <2>1. done \subseteq Merged
    BY <1>1 DEF Merged
  <2> HIDE DEF done, tail
  <2> QED
    BY <1>2, <2>1, SeqMonotonic
<1> HIDE DEF tail, done
<1>4. merged \in Seq(Merged) /\ Len(merged) = Len(state) + Len(tail)
  BY <1>3, ConcatProperties
<1>5. SubSeq(merged, 1, Len(state)) = state
  BY <1>3, SubSeqOfConcat1, SubSeqFull, LenProperties
<1>6. SubSeq(merged, Len(state) + 1, Len(merged)) = tail
  <2>1. SubSeq(merged, Len(state) + 1, Len(state) + Len(tail)) = SubSeq(tail, 1, Len(tail))
    BY <1>3, SubSeqOfConcat2, LenProperties
  <2> HIDE DEF merged
  <2> QED
    BY <1>3, <1>4, <2>1, SubSeqFull
<1>7. Len(state) \in Nat /\ Len(tail) \in Nat
  BY <1>3, LenProperties
<1>8. IsPrefix(state, merged)
  <2>1. SubSeq(state, 1, Len(state)) = state
    BY SubSeqFull
  <2> HIDE DEF merged
  <2> QED
    BY <1>4, <1>5, <1>7, <2>1 DEF IsPrefix
<1> QED
  BY <1>2, <1>4, <1>6, <1>8 DEF tail, done
-----------------------------------------------------------------------------
CheckpointsTyped ==
    /\ stored \in Seq(CheckpointType) /\ pending \in Seq(CheckpointType)
    /\ writing \in [Calls -> SUBSET CheckpointType]
    /\ made \in Nat

CallTyped == call \in [Calls -> CallType]

BoundsTyped == invocations \in Nat /\ faults \in Nat /\ edits \in Nat /\ forked \in BOOLEAN

ConfigTyped == graph \in Graphs /\ durability \in Durabilities /\ saver \in Savers

LEMMA TypeParts ==
  TypeOK <=> ConfigTyped /\ CheckpointsTyped /\ CallTyped /\ BoundsTyped
  BY DEF TypeOK, ConfigTyped, CheckpointsTyped, CallTyped, BoundsTyped

LEMMA TypePartsNext ==
  ASSUME ConfigTyped', CheckpointsTyped', CallTyped', BoundsTyped'
  PROVE  TypeOK'
  BY DEF TypeOK, ConfigTyped, CheckpointsTyped, CallTyped, BoundsTyped

(* Steps that leave the configuration and the bounds alone.                 *)
LEMMA ConfigStays ==
  ASSUME TypeOK, UNCHANGED <<config, bounds>>
  PROVE  ConfigTyped' /\ BoundsTyped'
  BY DEF TypeOK, config, bounds, ConfigTyped, BoundsTyped

LEMMA CheckpointsStay ==
  ASSUME TypeOK, UNCHANGED checkpoints
  PROVE  CheckpointsTyped'
  BY DEF TypeOK, checkpoints, CheckpointsTyped

LEMMA CheckpointTyped ==
  ASSUME TypeOK, NEW c \in Calls, NEW kind \in Kinds, NEW state \in Seq(Merged),
         NEW next \in SUBSET Targets
  PROVE  Checkpoint(c, kind, state, next) \in CheckpointType
<1>1. made \in Nat /\ call[c].parent \in Nat
  BY DEF TypeOK, CallType
<1> QED
  BY <1>1 DEF Checkpoint, CheckpointType

LEMMA PutTyped ==
  ASSUME TypeOK, NEW cp \in CheckpointType, Put(cp)
  PROVE  CheckpointsTyped'
<1>1. stored \in Seq(CheckpointType) /\ made \in Nat
  BY DEF TypeOK
<1>2. <<cp>> \o stored \in Seq(CheckpointType)
  BY <1>1, PutAdds
<1> QED
  BY <1>1, <1>2 DEF TypeOK, CheckpointsTyped, Put

LEMMA PutDurablyTyped ==
  ASSUME TypeOK, NEW c \in Calls, NEW cp \in CheckpointType, PutDurably(c, cp)
  PROVE  CheckpointsTyped'
<1>1. /\ stored \in Seq(CheckpointType) /\ pending \in Seq(CheckpointType) /\ made \in Nat
      /\ writing \in [Calls -> SUBSET CheckpointType]
  BY DEF TypeOK
<1>2. <<cp>> \o stored \in Seq(CheckpointType)
  BY <1>1, PutAdds
<1>3. Append(pending, cp) \in Seq(CheckpointType)
  BY <1>1, AppendProperties
<1>4. [writing EXCEPT ![c] = @ \cup {cp}] \in [Calls -> SUBSET CheckpointType]
  BY <1>1
<1>5. /\ stored' \in Seq(CheckpointType)
      /\ pending' \in Seq(CheckpointType)
      /\ writing' \in [Calls -> SUBSET CheckpointType]
  BY <1>1, <1>2, <1>3, <1>4, Zenon DEF PutDurably
<1>6. made' \in Nat
  BY <1>1 DEF PutDurably
<1> QED
  BY <1>5, <1>6 DEF CheckpointsTyped

LEMMA CallIs ==
  ASSUME CallTyped, NEW c \in Calls, NEW x \in CallType, call' = [call EXCEPT ![c] = x]
  PROVE  CallTyped'
  BY DEF CallTyped

LEMMA StopTyped ==
  ASSUME CallTyped, NEW c \in Calls, NEW outcome \in Outcomes
  PROVE  Stop(c, outcome) \in CallType
<1>1. call[c] \in CallType
  BY DEF CallTyped
<1> QED
  BY <1>1 DEF Stop, CallType

LEMMA IdleTyped == IdleCall \in CallType
<1>1. <<>> \in Seq(Merged)
  BY EmptySeq
<1> QED
  BY <1>1 DEF IdleCall, CallType, Outcomes

LEMMA EnteringTyped ==
  ASSUME NEW c, NEW state \in Seq(Merged), NEW next \in SUBSET Targets, NEW parent \in Nat
  PROVE  Entering(c, state, next, parent) \in CallType
  BY IdleTyped DEF Entering, CallType

(* What is known of the graph.                                              *)
LEMMA GraphTyped ==
  ASSUME ConfigTyped
  PROVE  /\ graph.entry \in SUBSET Nodes /\ graph.before \in SUBSET Nodes
         /\ graph.after \in SUBSET Nodes
         /\ graph.edges \in [Nodes -> SUBSET Route] /\ graph.gotos \in [Nodes -> SUBSET Route]
         /\ durability \in {"sync", "async", "exit"} /\ saver \in {"memory", "sqlite"}
<1>1. graph \in GraphType
  BY GraphsAssumption DEF ConfigTyped
<1> QED
  BY <1>1, DurabilitiesAssumption, SaversAssumption DEF GraphType, ConfigTyped

LEMMA TasksTyped ==
  ASSUME NEW S \in SUBSET Nodes, NEW b \in BOOLEAN
  PROVE  {<<<<n, b>>, 1>> : n \in S} \in SUBSET (Task \X Nat)
<1> SUFFICES ASSUME NEW n \in S PROVE <<<<n, b>>, 1>> \in Task \X Nat
  OBVIOUS
<1> DEFINE task == <<n, b>>
<1>1. task \in Task
  <2>1. n \in Nodes
    OBVIOUS
  <2> QED
    BY <2>1, Zenon DEF Task
<1> HIDE DEF task
<1>2. <<task, 1>> \in Task \X Nat
  BY <1>1
<1> QED
  BY <1>2 DEF task

LEMMA InvokeTyped ==
  ASSUME TypeOK, NEW c \in Calls, Invoke(c)
  PROVE  TypeOK'
<1> USE TypeParts, TypePartsNext
<1>1. \A cp \in ToSet(stored) :
         /\ cp.state \in Seq(Merged) /\ cp.next \in SUBSET Targets /\ cp.at \in Nat
         /\ Append(cp.state, Input) \in Seq(Merged)
  <2> SUFFICES ASSUME NEW cp \in ToSet(stored)
               PROVE  /\ cp.state \in Seq(Merged) /\ cp.next \in SUBSET Targets /\ cp.at \in Nat
                      /\ Append(cp.state, Input) \in Seq(Merged)
    OBVIOUS
  <2>1. cp \in CheckpointType
    BY SeqIsFinite DEF TypeOK
  <2>2. cp.state \in Seq(Merged) /\ cp.next \in SUBSET Targets /\ cp.at \in Nat
    BY <2>1 DEF CheckpointType
  <2>3. Input \in Merged
    BY DEF Merged
  <2> QED
    BY <2>2, <2>3, AppendProperties
<1>2. {START} \in SUBSET Targets
  BY DEF Targets
<1>3. ASSUME NEW x \in CallType, NEW cp, Enter(c, x, cp)
      PROVE  TypeOK'
  <2>1. CallTyped'
    BY <1>3, CallIs DEF Enter
  <2>2. ConfigTyped' /\ CheckpointsTyped'
    BY <1>3 DEF Enter, config, checkpoints, ConfigTyped, CheckpointsTyped
  <2>3. invocations' \in Nat /\ faults' \in Nat /\ edits' \in Nat
    BY <1>3 DEF Enter, TypeOK
  <2>4. forked' \in BOOLEAN
    BY <1>3 DEF Enter
  <2>5. BoundsTyped'
    BY <2>3, <2>4, Zenon DEF BoundsTyped
  <2> QED
    BY <2>1, <2>2, <2>5
<1>4. CASE InvokeFresh(c)
  <2>1. <<Input>> \in Seq(Merged)
    BY DEF Merged
  <2>2. Entering(c, <<Input>>, {START}, 0) \in CallType
    BY <1>2, <2>1, EnteringTyped
  <2>3. CallTyped'
    BY <1>4, <2>2, CallIs DEF InvokeFresh
  <2>4. ConfigTyped' /\ CheckpointsTyped'
    BY <1>4 DEF InvokeFresh, config, checkpoints, ConfigTyped, CheckpointsTyped
  <2>5. invocations' \in Nat /\ faults' \in Nat /\ edits' \in Nat
    BY <1>4 DEF InvokeFresh, TypeOK
  <2>6. forked' \in BOOLEAN
    BY <1>4 DEF InvokeFresh
  <2>7. BoundsTyped'
    BY <2>5, <2>6, Zenon DEF BoundsTyped
  <2> QED
    BY <2>3, <2>4, <2>7
<1>5. CASE InvokeInput(c)
  <2>1. PICK cp \in ToSet(stored) :
          Enter(c, Entering(c, Append(cp.state, Input),
                            IF END \in cp.next THEN {START} ELSE cp.next, cp.at), cp)
    BY <1>5 DEF InvokeInput
  <2>2. (IF END \in cp.next THEN {START} ELSE cp.next) \in SUBSET Targets
    BY <1>1, <1>2
  <2>3. Entering(c, Append(cp.state, Input), IF END \in cp.next THEN {START} ELSE cp.next, cp.at)
           \in CallType
    BY <1>1, <2>2, EnteringTyped
  <2> QED
    BY <1>3, <2>1, <2>3
<1>6. CASE InvokeNone(c)
  <2>1. PICK cp \in ToSet(stored) : Enter(c, Entering(c, cp.state, cp.next, cp.at), cp)
    BY <1>6 DEF InvokeNone
  <2>2. Entering(c, cp.state, cp.next, cp.at) \in CallType
    BY <1>1, EnteringTyped
  <2> QED
    BY <1>3, <2>1, <2>2
<1>7. CASE \E answers \in 1..2 : InvokeCommand(c, answers)
  <2>1. PICK answers \in 1..2 : InvokeCommand(c, answers)
    BY <1>7
  <2>2. PICK cp \in ToSet(stored) :
          LET context == [Entering(c, cp.state, cp.next, cp.at) EXCEPT !.command = TRUE]
          IN \/ Enter(c, context, cp)
             \/ \E n \in cp.next \cap Nodes :
                  Enter(c, [context EXCEPT !.pc = "exec", !.mode = "resume",
                                           !.todo = {<<<<n, FALSE>>, 1>>},
                                           !.answers = answers], cp)
    BY <2>1 DEF InvokeCommand
  <2> DEFINE context == [Entering(c, cp.state, cp.next, cp.at) EXCEPT !.command = TRUE]
  <2>3. context \in CallType
    <3>1. Entering(c, cp.state, cp.next, cp.at) \in CallType
      BY <1>1, EnteringTyped
    <3> QED
      BY <3>1 DEF CallType
  <2>4. ASSUME NEW n \in Nodes
        PROVE  [context EXCEPT !.pc = "exec", !.mode = "resume",
                               !.todo = {<<<<n, FALSE>>, 1>>}, !.answers = answers] \in CallType
    <3> HIDE DEF context
    <3>1. {<<<<n, FALSE>>, 1>>} \in SUBSET (Task \X Nat)
      <4>1. {n} \in SUBSET Nodes /\ FALSE \in BOOLEAN
        OBVIOUS
      <4>2. {<<<<k, FALSE>>, 1>> : k \in {n}} \in SUBSET (Task \X Nat)
        BY <4>1, TasksTyped
      <4> QED
        BY <4>2
    <3>2. answers \in Nat
      OBVIOUS
    <3> DEFINE todo == {<<<<n, FALSE>>, 1>>}
    <3>3. todo \in SUBSET (Task \X Nat)
      BY <3>1
    <3> HIDE DEF todo
    <3>4. [context EXCEPT !.pc = "exec", !.mode = "resume", !.todo = todo,
                          !.answers = answers] \in CallType
      BY <2>3, <3>2, <3>3 DEF CallType
    <3> QED
      BY <3>4 DEF todo
  <2> QED
    BY <1>3, <2>2, <2>3, <2>4
<1> QED
  BY <1>4, <1>5, <1>6, <1>7 DEF Invoke

LEMMA LoopTyped ==
  ASSUME TypeOK, NEW c \in Calls,
         HitLimit(c) \/ FromStart(c) \/ ReachEnd(c) \/ LookUpSend(c)
           \/ InterruptBefore(c) \/ Begin(c) \/ GiveUp(c)
  PROVE  TypeOK'
<1>1. ConfigTyped /\ CheckpointsTyped /\ CallTyped /\ BoundsTyped
  BY TypeParts
<1>2. call[c] \in CallType
  BY <1>1 DEF CallTyped
<1>3. ConfigTyped' /\ BoundsTyped'
  BY ConfigStays DEF HitLimit, FromStart, ReachEnd, LookUpSend, InterruptBefore, Begin, GiveUp,
                     config, bounds
<1>4. CallTyped'
  <2>1. CASE HitLimit(c) \/ ReachEnd(c) \/ LookUpSend(c) \/ InterruptBefore(c) \/ GiveUp(c)
    <3>1. PICK outcome \in Outcomes : call' = [call EXCEPT ![c] = Stop(c, outcome)]
      BY <2>1 DEF HitLimit, ReachEnd, LookUpSend, InterruptBefore, GiveUp, Outcomes
    <3> QED
      BY <1>1, <3>1, StopTyped, CallIs
  <2>2. CASE FromStart(c)
    <3>1. graph.entry \in SUBSET Targets
      BY <1>1, GraphTyped DEF Targets
    <3> DEFINE steps == call[c].steps + 1
    <3>2. steps \in Nat
      BY <1>2 DEF CallType
    <3>3. call' = [call EXCEPT ![c] = [call[c] EXCEPT !.cur = graph.entry, !.steps = steps]]
      BY <1>1, <2>2 DEF FromStart, CallTyped
    <3> HIDE DEF steps
    <3>4. [call[c] EXCEPT !.cur = graph.entry, !.steps = steps] \in CallType
      BY <1>2, <3>1, <3>2 DEF CallType
    <3> QED
      BY <1>1, <3>3, <3>4, CallIs
  <2>3. CASE Begin(c)
    <3> DEFINE todo == {<<<<n, FALSE>>, 1>> : n \in call[c].cur}
    <3>1. todo \in SUBSET (Task \X Nat)
      BY <2>3, TasksTyped DEF Begin
    <3> DEFINE steps == call[c].steps + 1
               next == [call[c] EXCEPT !.pc = "exec", !.mode = "nodes", !.todo = todo,
                                       !.steps = steps]
    <3>2. steps \in Nat
      BY <1>2 DEF CallType
    <3>3. call' = [call EXCEPT ![c] = next]
      BY <1>1, <2>3 DEF Begin, CallTyped
    <3> HIDE DEF todo, steps
    <3>4. next \in CallType
      BY <1>2, <3>1, <3>2 DEF CallType
    <3> QED
      BY <1>1, <3>3, <3>4, CallIs
  <2> QED
    BY <2>1, <2>2, <2>3
<1>5. CheckpointsTyped'
  <2>1. CASE InterruptBefore(c)
    <3>1. "before" \in Kinds /\ call[c].state \in Seq(Merged) /\ call[c].cur \in SUBSET Targets
      BY <1>2 DEF CallType, Kinds
    <3>2. Checkpoint(c, "before", call[c].state, call[c].cur) \in CheckpointType
      BY <3>1, CheckpointTyped
    <3> QED
      BY <2>1, <3>2, PutTyped DEF InterruptBefore
  <2>2. CASE ~InterruptBefore(c)
    BY <2>2, CheckpointsStay
       DEF HitLimit, FromStart, ReachEnd, LookUpSend, Begin, GiveUp, checkpoints
  <2> QED
    BY <2>1, <2>2
<1> QED
  BY <1>3, <1>4, <1>5, TypePartsNext

LEMMA SucceedTyped ==
  ASSUME TypeOK, NEW c \in Calls, Succeed(c)
  PROVE  TypeOK'
<1>1. ConfigTyped /\ CheckpointsTyped /\ CallTyped /\ BoundsTyped
  BY TypeParts
<1>2. call[c] \in CallType
  BY <1>1 DEF CallTyped
<1> PICK t \in call[c].todo :
       \E route \in graph.edges[Node(t)], goto \in graph.gotos[Node(t)] \cup {None} :
          Done(c, t, [task |-> t[1], route |-> route, goto |-> goto])
  BY DEF Succeed
<1>3. PICK route \in graph.edges[Node(t)], goto \in graph.gotos[Node(t)] \cup {None} :
         Done(c, t, [task |-> t[1], route |-> route, goto |-> goto])
  OBVIOUS
<1>4. t[1] \in Task /\ Node(t) \in Nodes
  <2>1. t \in Task \X Nat
    BY <1>2 DEF CallType
  <2> QED
    BY <2>1 DEF Task, Node
<1>5. route \in Route /\ goto \in Route \cup {None}
  BY <1>1, <1>4, GraphTyped
<1> DEFINE result == [task |-> t[1], route |-> route, goto |-> goto]
<1>6. result \in Result
  BY <1>4, <1>5 DEF Result
<1> HIDE DEF result
<1>7. Done(c, t, result)
  BY <1>3 DEF result
<1> DEFINE next == [call[c] EXCEPT !.todo = @ \ {t}, !.got = @ \cup {result}]
<1>8. next \in CallType
  BY <1>2, <1>6 DEF CallType
<1>9. call' = [call EXCEPT ![c] = next]
  BY <1>1, <1>7 DEF Done, CallTyped
<1>10. CallTyped'
  <2> HIDE DEF next
  <2> QED
    BY <1>1, <1>8, <1>9, CallIs
<1> QED
  BY <1>7, <1>10, TypePartsNext, ConfigStays, CheckpointsStay DEF Done, config, bounds, checkpoints

LEMMA RaiseTyped ==
  ASSUME TypeOK, NEW c \in Calls, NEW t \in call[c].todo, NEW kind \in Kinds,
         NEW outcome \in Outcomes,
         TryAgain(c, t) \/ RaiseAlone(c, t, kind, outcome) \/ RaiseAmong(c, t)
  PROVE  CallTyped' /\ CheckpointsTyped'
<1>1. ConfigTyped /\ CheckpointsTyped /\ CallTyped /\ BoundsTyped
  BY TypeParts
<1>2. call[c] \in CallType
  BY <1>1 DEF CallTyped
<1>3. t \in Task \X Nat /\ t[1] \in Task /\ t[2] \in Nat /\ Node(t) \in Nodes
  <2>1. t \in Task \X Nat
    BY <1>2 DEF CallType
  <2> QED
    BY <2>1 DEF Task, Node
<1>4. CASE TryAgain(c, t)
  <2> DEFINE todo == (call[c].todo \ {t}) \cup {<<t[1], t[2] + 1>>}
  <2>1. <<t[1], t[2] + 1>> \in Task \X Nat
    BY <1>3
  <2>2. todo \in SUBSET (Task \X Nat)
    BY <1>2, <2>1 DEF CallType
  <2>3. call' = [call EXCEPT ![c] = [call[c] EXCEPT !.todo = todo]]
    BY <1>4 DEF TryAgain
  <2> HIDE DEF todo
  <2>4. [call[c] EXCEPT !.todo = todo] \in CallType
    BY <1>2, <2>2 DEF CallType
  <2> QED
    BY <1>1, <1>4, <2>3, <2>4, CallIs, CheckpointsStay DEF TryAgain
<1>5. CASE RaiseAlone(c, t, kind, outcome)
  <2>1. call[c].state \in Seq(Merged) /\ {Node(t)} \in SUBSET Targets
    BY <1>2, <1>3 DEF CallType, Targets
  <2>2. Checkpoint(c, kind, call[c].state, {Node(t)}) \in CheckpointType
    BY <2>1, CheckpointTyped
  <2> QED
    BY <1>1, <1>5, <2>2, PutTyped, StopTyped, CallIs DEF RaiseAlone
<1>6. CASE RaiseAmong(c, t)
  <2> DEFINE next == [call[c] EXCEPT !.todo = @ \ {t}, !.broken = TRUE]
  <2>1. next \in CallType
    BY <1>2 DEF CallType
  <2>2. call' = [call EXCEPT ![c] = next]
    BY <1>1, <1>6 DEF RaiseAmong, CallTyped
  <2> HIDE DEF next
  <2> QED
    BY <1>1, <1>6, <2>1, <2>2, CallIs, CheckpointsStay DEF RaiseAmong
<1> QED
  BY <1>4, <1>5, <1>6

LEMMA FailTyped ==
  ASSUME TypeOK, NEW c \in Calls, Fail(c) \/ Ask(c)
  PROVE  TypeOK'
<1>1. "failed" \in Kinds /\ "inside" \in Kinds /\ "failed" \in Outcomes /\ "interrupted" \in Outcomes
  BY DEF Kinds, Outcomes
<1>2. CallTyped' /\ CheckpointsTyped'
  BY <1>1, RaiseTyped DEF Fail, Ask
<1>3. ConfigTyped'
  BY TypeParts DEF Fail, Ask, config, ConfigTyped
<1>4. faults' \in Nat /\ invocations' \in Nat /\ edits' \in Nat
  BY DEF TypeOK, Fail, Ask, bounds
<1>5. forked' \in BOOLEAN
  BY DEF TypeOK, Fail, Ask, bounds
<1>6. BoundsTyped'
  BY <1>4, <1>5, Zenon DEF BoundsTyped
<1> QED
  BY <1>2, <1>3, <1>6, TypePartsNext

(* Routes lead to targets, Sends to nodes.                                  *)
Lead(routes) == \A r \in routes : r.to \in SUBSET Targets /\ (r.send => r.to \in SUBSET Nodes)

LEMMA RoutesLead ==
  ASSUME NEW route \in Route
  PROVE  route.to \in SUBSET Targets /\ (route.send => route.to \in SUBSET Nodes)
<1>1. CASE route \in [to : SUBSET (Nodes \cup {END}), send : {FALSE}]
  BY <1>1 DEF Targets
<1>2. CASE route \in [to : SUBSET Nodes, send : {TRUE}]
  BY <1>2 DEF Targets
<1> QED
  BY <1>1, <1>2 DEF Route

LEMMA ResultsLead ==
  ASSUME NEW got \in SUBSET Result
  PROVE  /\ Lead({r.route : r \in got})
         /\ \A r \in got : Lead({Chosen(r)})
<1> SUFFICES ASSUME NEW r \in got
             PROVE  /\ r.route.to \in SUBSET Targets /\ (r.route.send => r.route.to \in SUBSET Nodes)
                    /\ Lead({Chosen(r)})
  BY DEF Lead
<1>1. r.route \in Route /\ Chosen(r) \in Route
  <2>1. r.route \in Route /\ r.goto \in Route \cup {None}
    BY DEF Result
  <2> QED
    BY <2>1 DEF Chosen
<1> QED
  BY <1>1, RoutesLead DEF Lead

LEMMA ProceedTyped ==
  ASSUME CallTyped, NEW c \in Calls, NEW state \in Seq(Merged), NEW routes, Lead(routes),
         NEW parent \in Nat, Proceed(c, state, routes, parent)
  PROVE  CallTyped'
<1> DEFINE plain == UNION {r.to : r \in {x \in routes : ~x.send}}
           sent == UNION {r.to : r \in {x \in routes : x.send}}
           next == [call[c] EXCEPT !.state = state, !.parent = parent, !.got = {}]
           todo == {<<<<n, TRUE>>, 1>> : n \in sent}
           cur == IF plain = {} THEN {END} ELSE plain
<1>1. plain \in SUBSET Targets /\ sent \in SUBSET Nodes /\ cur \in SUBSET Targets
  <2>1. plain \in SUBSET Targets
    BY DEF Lead
  <2>2. sent \in SUBSET Nodes
    BY DEF Lead
  <2>3. {END} \in SUBSET Targets
    BY DEF Targets
  <2> HIDE DEF plain
  <2> QED
    BY <2>1, <2>2, <2>3
<1>2. todo \in SUBSET (Task \X Nat)
  <2>1. TRUE \in BOOLEAN
    OBVIOUS
  <2> HIDE DEF sent
  <2> QED
    BY <1>1, <2>1, TasksTyped
<1>3. call' = [call EXCEPT ![c] =
        IF sent = {} THEN [next EXCEPT !.pc = "loop", !.cur = cur]
                     ELSE [next EXCEPT !.mode = "send", !.also = plain, !.todo = todo]]
  BY DEF Proceed
<1>4. next \in CallType
  <2>1. call[c] \in CallType
    BY DEF CallTyped
  <2> QED
    BY <2>1 DEF CallType
<1> HIDE DEF plain, sent, next, todo, cur
<1>5. [next EXCEPT !.pc = "loop", !.cur = cur] \in CallType
  BY <1>1, <1>4 DEF CallType
<1>6. [next EXCEPT !.mode = "send", !.also = plain, !.todo = todo] \in CallType
  BY <1>1, <1>2, <1>4 DEF CallType
<1> QED
  BY <1>3, <1>5, <1>6 DEF CallTyped

LEMMA NamesTyped ==
  ASSUME NEW routes, Lead(routes)
  PROVE  Names(routes) \in SUBSET Targets
  BY DEF Names, Lead

LEMMA FinishTyped ==
  ASSUME TypeOK, NEW c \in Calls, FinishNode(c) \/ FinishParallel(c) \/ FinishSends(c)
  PROVE  TypeOK'
<1>1. ConfigTyped /\ CheckpointsTyped /\ CallTyped /\ BoundsTyped
  BY TypeParts
<1>2. call[c] \in CallType
  BY <1>1 DEF CallTyped
<1>3. /\ call[c].state \in Seq(Merged) /\ call[c].got \in SUBSET Result
      /\ call[c].also \in SUBSET Targets /\ call[c].parent \in Nat
  BY <1>2 DEF CallType
<1>4. MergedState(c) \in Seq(Merged)
  BY <1>3, MergedType DEF MergedState
<1>5. made + 1 \in Nat
  BY DEF TypeOK
<1>6. Lead({r.route : r \in call[c].got}) /\ \A r \in call[c].got : Lead({Chosen(r)})
  BY <1>3, ResultsLead
<1>7. \A kind \in Kinds : \A next \in SUBSET Targets :
         Checkpoint(c, kind, MergedState(c), next) \in CheckpointType
  BY <1>4, CheckpointTyped
<1>8. "step" \in Kinds /\ "parallel" \in Kinds /\ "after" \in Kinds
  BY DEF Kinds
<1>9. ConfigTyped' /\ BoundsTyped'
  BY ConfigStays DEF FinishNode, FinishParallel, FinishSends, config, bounds
<1>10. CASE FinishNode(c)
  <2>1. PICK r \in call[c].got :
          \/ /\ Put(Checkpoint(c, "after", MergedState(c), Names({Chosen(r)})))
             /\ call' = [call EXCEPT ![c] = Stop(c, "interrupted")]
          \/ /\ PutDurably(c, Checkpoint(c, "step", MergedState(c), Names({Chosen(r)})))
             /\ Proceed(c, MergedState(c), {Chosen(r)}, made + 1)
    BY <1>10 DEF FinishNode
  <2>2. Lead({Chosen(r)}) /\ Names({Chosen(r)}) \in SUBSET Targets
    BY <1>6, NamesTyped
  <2>3. "interrupted" \in Outcomes
    BY DEF Outcomes
  <2>4. CheckpointsTyped'
    BY <1>7, <1>8, <2>1, <2>2, PutTyped, PutDurablyTyped
  <2>5. CallTyped'
    <3>1. CASE call' = [call EXCEPT ![c] = Stop(c, "interrupted")]
      BY <1>1, <2>3, <3>1, StopTyped, CallIs
    <3>2. CASE Proceed(c, MergedState(c), {Chosen(r)}, made + 1)
      BY <1>1, <1>4, <1>5, <2>2, <3>2, ProceedTyped
    <3> QED
      BY <2>1, <3>1, <3>2
  <2> QED
    BY <1>9, <2>4, <2>5, TypePartsNext
<1>11. CASE FinishParallel(c)
  <2> DEFINE routes == {r.route : r \in call[c].got}
  <2>1. /\ Put(Checkpoint(c, "parallel", MergedState(c), Names(routes)))
        /\ Proceed(c, MergedState(c), routes, made + 1)
    BY <1>11 DEF FinishParallel
  <2>2. Lead(routes) /\ Names(routes) \in SUBSET Targets
    BY <1>6, NamesTyped
  <2> HIDE DEF routes
  <2>3. CheckpointsTyped'
    BY <1>7, <1>8, <2>1, <2>2, PutTyped
  <2>4. CallTyped'
    BY <1>1, <1>4, <1>5, <2>1, <2>2, ProceedTyped
  <2> QED
    BY <1>9, <2>3, <2>4, TypePartsNext
<1>12. CASE FinishSends(c)
  <2> DEFINE routes == {r.route : r \in call[c].got}
             plain == {x \in routes : ~x.send} \cup {[to |-> call[c].also, send |-> FALSE]}
  <2>1. Proceed(c, MergedState(c), plain, call[c].parent) /\ UNCHANGED checkpoints
    BY <1>12 DEF FinishSends
  <2>2. Lead(plain)
    <3>1. Lead(routes)
      BY <1>6
    <3> HIDE DEF routes
    <3> QED
      BY <1>3, <3>1 DEF Lead
  <2> HIDE DEF plain
  <2>3. CallTyped'
    BY <1>1, <1>3, <1>4, <2>1, <2>2, ProceedTyped
  <2> QED
    BY <1>9, <2>1, <2>3, CheckpointsStay, TypePartsNext
<1> QED
  BY <1>10, <1>11, <1>12

LEMMA FinishResumedTyped ==
  ASSUME TypeOK, NEW c \in Calls, FinishResumed(c)
  PROVE  TypeOK'
<1>1. ConfigTyped /\ CheckpointsTyped /\ CallTyped /\ BoundsTyped
  BY TypeParts
<1>2. call[c] \in CallType
  BY <1>1 DEF CallTyped
<1>3. call[c].state \in Seq(Merged) /\ call[c].got \in SUBSET Result
  BY <1>2 DEF CallType
<1>4. MergedState(c) \in Seq(Merged)
  BY <1>3, MergedType DEF MergedState
<1>5. PICK r \in call[c].got :
        LET next == IF Chosen(r).send THEN {SendObject} ELSE Chosen(r).to
        IN \/ /\ call' = [call EXCEPT ![c] = Stop(c, "failed")]
              /\ UNCHANGED checkpoints
           \/ /\ Put(Checkpoint(c, "resumed", MergedState(c), next))
              /\ call' = [call EXCEPT ![c].pc = "loop", ![c].cur = next, ![c].got = {},
                                      ![c].state = MergedState(c),
                                      ![c].parent = made + 1, ![c].answers = 0]
  BY DEF FinishResumed
<1> DEFINE next == IF Chosen(r).send THEN {SendObject} ELSE Chosen(r).to
           context == [call[c] EXCEPT !.pc = "loop", !.cur = next, !.got = {},
                                      !.state = MergedState(c),
                                      !.parent = made + 1, !.answers = 0]
<1>6. next \in SUBSET Targets
  <2>1. Chosen(r).to \in SUBSET Targets
    BY <1>3, ResultsLead DEF Lead
  <2> QED
    BY <2>1 DEF Targets
<1> HIDE DEF next
<1>7. CASE call' = [call EXCEPT ![c] = Stop(c, "failed")] /\ UNCHANGED checkpoints
  <2>1. "failed" \in Outcomes
    BY DEF Outcomes
  <2> QED
    BY <1>1, <1>7, <2>1, StopTyped, CallIs, CheckpointsStay, ConfigStays, TypePartsNext
       DEF FinishResumed, config, bounds
<1>8. CASE /\ Put(Checkpoint(c, "resumed", MergedState(c), next))
           /\ call' = [call EXCEPT ![c].pc = "loop", ![c].cur = next, ![c].got = {},
                                   ![c].state = MergedState(c),
                                   ![c].parent = made + 1, ![c].answers = 0]
  <2>1. call' = [call EXCEPT ![c] = context]
    BY <1>1, <1>8 DEF CallTyped
  <2>2. context \in CallType
    <3> DEFINE parent == made + 1
               state == MergedState(c)
    <3>1. parent \in Nat /\ state \in Seq(Merged)
      BY <1>4 DEF TypeOK
    <3> HIDE DEF parent, state
    <3>2. [call[c] EXCEPT !.pc = "loop", !.cur = next, !.got = {}, !.state = state,
                          !.parent = parent, !.answers = 0] \in CallType
      BY <1>2, <1>6, <3>1 DEF CallType
    <3> QED
      BY <3>2 DEF parent, state
  <2> HIDE DEF context
  <2>3. "resumed" \in Kinds
    BY DEF Kinds
  <2>4. CheckpointsTyped'
    BY <1>4, <1>6, <1>8, <2>3, CheckpointTyped, PutTyped
  <2> QED
    BY <1>1, <2>1, <2>2, <2>4, CallIs, ConfigStays, TypePartsNext DEF FinishResumed, config, bounds
<1> QED
  BY <1>5, <1>7, <1>8 DEF next

LEMMA ReverseType ==
  ASSUME NEW T, NEW s \in Seq(T)
  PROVE  Reverse(s) \in Seq(T)
<1>1. Len(s) \in Nat /\ \A i \in 1..Len(s) : s[i] \in T
  BY LenProperties, ElementOfSeq
<1>2. \A i \in 1..Len(s) : Len(s) - i + 1 \in 1..Len(s)
  BY <1>1
<1>3. Reverse(s) \in [1..Len(s) -> T]
  BY <1>1, <1>2 DEF Reverse
<1> QED
  BY <1>1, <1>3, IsASeq

LEMMA ReturnTyped ==
  ASSUME TypeOK, NEW c \in Calls, Return(c)
  PROVE  TypeOK'
<1>1. ConfigTyped /\ CheckpointsTyped /\ CallTyped /\ BoundsTyped
  BY TypeParts
<1>2. ConfigTyped' /\ BoundsTyped'
  BY ConfigStays DEF Return, config, bounds
<1>3. CallTyped'
  BY <1>1, IdleTyped, CallIs DEF Return
<1>4. Reverse(pending) \o stored \in Seq(CheckpointType) /\ <<>> \in Seq(CheckpointType)
  BY <1>1, ReverseType, ConcatProperties, EmptySeq DEF CheckpointsTyped
<1>5. CheckpointsTyped'
  BY <1>1, <1>4, Zenon DEF CheckpointsTyped, Return
<1> QED
  BY <1>2, <1>3, <1>5, TypePartsNext

LEMMA WriteTyped ==
  ASSUME TypeOK, NEW c \in Calls, Write(c)
  PROVE  TypeOK'
<1>1. ConfigTyped /\ CheckpointsTyped /\ CallTyped /\ BoundsTyped
  BY TypeParts
<1>2. PICK cp \in writing[c] :
        stored' = <<cp>> \o stored /\ writing' = [writing EXCEPT ![c] = @ \ {cp}]
  BY DEF Write
<1>3. cp \in CheckpointType
  BY <1>1 DEF CheckpointsTyped
<1>4. stored' \in Seq(CheckpointType)
  BY <1>1, <1>2, <1>3, PutAdds DEF CheckpointsTyped
<1>5. writing' \in [Calls -> SUBSET CheckpointType]
  BY <1>1, <1>2 DEF CheckpointsTyped
<1>6. CheckpointsTyped'
  BY <1>1, <1>4, <1>5 DEF CheckpointsTyped, Write
<1>7. ConfigTyped' /\ BoundsTyped'
  BY ConfigStays DEF Write, config, bounds
<1>8. CallTyped'
  BY <1>1 DEF Write, CallTyped
<1> QED
  BY <1>6, <1>7, <1>8, TypePartsNext

LEMMA UpdateTyped ==
  ASSUME TypeOK, UpdateState
  PROVE  TypeOK'
<1>1. ConfigTyped /\ CheckpointsTyped /\ CallTyped /\ BoundsTyped
  BY TypeParts
<1> DEFINE cp == [Latest EXCEPT !.edited = TRUE, !.at = made + 1, !.parent = Latest.at]
<1>2. Latest \in CheckpointType
  BY LatestIsStored DEF UpdateState
<1>3. cp \in CheckpointType
  <2> DEFINE last == Latest
             at == made + 1
  <2>1. last \in CheckpointType /\ at \in Nat
    BY <1>1, <1>2 DEF CheckpointsTyped
  <2> HIDE DEF last, at
  <2>2. [last EXCEPT !.edited = TRUE, !.at = at, !.parent = last.at] \in CheckpointType
    BY <2>1 DEF CheckpointType
  <2> QED
    BY <2>2 DEF last, at
<1>4. Put(cp)
  BY DEF UpdateState
<1> HIDE DEF cp
<1>5. CheckpointsTyped'
  BY <1>3, <1>4, PutTyped
<1>6. ConfigTyped' /\ CallTyped'
  BY <1>1 DEF UpdateState, config, ConfigTyped, CallTyped
<1>7. invocations' \in Nat /\ faults' \in Nat /\ edits' \in Nat
  BY DEF TypeOK, UpdateState
<1>8. forked' \in BOOLEAN
  BY DEF UpdateState
<1>9. BoundsTyped'
  BY <1>7, <1>8, Zenon DEF BoundsTyped
<1> QED
  BY <1>5, <1>6, <1>9, TypePartsNext

LEMMA CrashTyped ==
  ASSUME TypeOK, Crash
  PROVE  TypeOK'
<1>1. ConfigTyped /\ CheckpointsTyped /\ CallTyped /\ BoundsTyped
  BY TypeParts
<1>2. <<>> \in Seq(CheckpointType)
  BY EmptySeq
<1>3. stored' \in Seq(CheckpointType)
  BY <1>1, <1>2, Zenon DEF Crash, CheckpointsTyped
<1>4. CheckpointsTyped'
  BY <1>1, <1>2, <1>3 DEF Crash, CheckpointsTyped
<1>5. ConfigTyped' /\ CallTyped'
  BY <1>1, IdleTyped DEF Crash, config, ConfigTyped, CallTyped
<1>6. invocations' \in Nat /\ faults' \in Nat /\ edits' \in Nat
  BY DEF TypeOK, Crash
<1>7. forked' \in BOOLEAN
  BY DEF TypeOK, Crash
<1>8. BoundsTyped'
  BY <1>6, <1>7, Zenon DEF BoundsTyped
<1> QED
  BY <1>4, <1>5, <1>8, TypePartsNext

LEMMA InitTyped == Init => TypeOK
<1> SUFFICES ASSUME Init PROVE TypeOK
  OBVIOUS
<1>1. ConfigTyped /\ CallTyped
  BY IdleTyped DEF Init, ConfigTyped, CallTyped
<1>2. CheckpointsTyped
  <2>1. <<>> \in Seq(CheckpointType)
    BY EmptySeq
  <2> QED
    BY <2>1 DEF Init, CheckpointsTyped
<1>3. invocations \in Nat /\ faults \in Nat /\ edits \in Nat
  BY DEF Init
<1>4. forked \in BOOLEAN
  BY DEF Init
<1>5. BoundsTyped
  BY <1>3, <1>4, Zenon DEF BoundsTyped
<1> QED
  BY <1>1, <1>2, <1>5, TypeParts

LEMMA NextTyped == TypeOK /\ [Next]_vars => TypeOK'
<1> SUFFICES ASSUME TypeOK, [Next]_vars PROVE TypeOK'
  OBVIOUS
<1>1. CASE \E c \in Calls : Invoke(c) \/ Advance(c) \/ Fail(c) \/ Write(c)
  BY <1>1, InvokeTyped, LoopTyped, SucceedTyped, FailTyped, FinishTyped, FinishResumedTyped,
     ReturnTyped, WriteTyped DEF Advance
<1>2. CASE UpdateState \/ Crash
  BY <1>2, UpdateTyped, CrashTyped
<1>3. CASE UNCHANGED vars
  BY <1>3 DEF vars, config, checkpoints, bounds, TypeOK
<1> QED
  BY <1>1, <1>2, <1>3 DEF Next

(* Every variable keeps its type, for any graphs, calls and bounds          *)
(* (state_graph.py 357-1420, checkpoint.py).                                *)
THEOREM TypeCorrect == Spec => []TypeOK
  BY InitTyped, NextTyped, PTL DEF Spec

(* Steps leave the configuration alone, and what is forked stays so.        *)
LEMMA ConfigStands == [Next]_vars => UNCHANGED config
<1>1. ASSUME NEW c \in Calls, Invoke(c) PROVE UNCHANGED config
  BY <1>1 DEF Invoke, InvokeFresh, InvokeInput, InvokeNone, InvokeCommand, Enter
<1>2. ASSUME NEW c \in Calls, Advance(c) PROVE UNCHANGED config
  <2>1. ASSUME Succeed(c) PROVE UNCHANGED config
    BY <2>1 DEF Succeed, Done
  <2> QED
    BY <1>2, <2>1 DEF Advance, HitLimit, FromStart, ReachEnd, LookUpSend, InterruptBefore,
                      Begin, Ask, GiveUp, FinishNode, FinishParallel, FinishSends,
                      FinishResumed, Return
<1>3. ASSUME NEW c \in Calls, Fail(c) \/ Write(c) PROVE UNCHANGED config
  BY <1>3 DEF Fail, Write
<1>4. ASSUME UpdateState \/ Crash \/ UNCHANGED vars PROVE UNCHANGED config
  BY <1>4 DEF UpdateState, Crash, vars
<1> QED
  BY <1>1, <1>2, <1>3, <1>4 DEF Next

LEMMA ForkedStays == [Next]_vars /\ forked => forked'
<1>1. ASSUME NEW c \in Calls, Invoke(c) PROVE forked => forked'
  BY <1>1 DEF Invoke, InvokeFresh, InvokeInput, InvokeNone, InvokeCommand, Enter
<1>2. ASSUME NEW c \in Calls, Advance(c) PROVE forked' = forked
  <2>1. ASSUME Succeed(c) PROVE forked' = forked
    BY <2>1 DEF Succeed, Done, bounds
  <2> QED
    BY <1>2, <2>1 DEF Advance, HitLimit, FromStart, ReachEnd, LookUpSend, InterruptBefore,
                      Begin, Ask, GiveUp, FinishNode, FinishParallel, FinishSends,
                      FinishResumed, Return, bounds
<1>3. ASSUME NEW c \in Calls, Fail(c) \/ Write(c) PROVE forked' = forked
  BY <1>3 DEF Fail, Write, bounds
<1>4. ASSUME UpdateState \/ Crash \/ UNCHANGED vars PROVE forked => forked'
  BY <1>4 DEF UpdateState, Crash, vars, bounds
<1> QED
  BY <1>1, <1>2, <1>3, <1>4 DEF Next
-----------------------------------------------------------------------------
(* Where invocations are: what GraphWalk calls a place.                     *)

Place(cp) == [state |-> cp.state, next |-> cp.next]

Places == Saved \cup {Walk!Received(r) : r \in Saved \cup {Walk!Nowhere}}

(* An invocation between supersteps is at a place that is kept, or that is  *)
(* reached from one by an input.                                            *)
LoopSound(x, g, places) ==
    /\ x.got = {}
    /\ x.cur \subseteq Nodes \cup {END} \/ x.cur = {START}
    /\ END \notin x.cur =>
          [state |-> x.state, next |-> IF START \in x.cur THEN g.entry ELSE x.cur] \in places

(* So is one in a superstep; what executes, or has a result, is next there, *)
(* and nothing twice.                                                       *)
ExecSound(x, g, places) ==
    /\ x.mode # "send"
    /\ x.mode = "resume" => \A m, k \in x.cur : m = k
    /\ x.cur \subseteq Nodes
    /\ [state |-> x.state, next |-> x.cur] \in places
    /\ \A t \in x.todo : \E n \in x.cur : t[1] = <<n, FALSE>>
    /\ \A r \in x.got : \E n \in x.cur :
          /\ r.task = <<n, FALSE>> /\ r.route \in g.edges[n]
          /\ r.goto \in g.gotos[n] \cup {None}
    /\ ~x.broken => \A n \in x.cur :
          \/ \E t \in x.todo : t[1] = <<n, FALSE>>
          \/ \E r \in x.got : r.task = <<n, FALSE>>
    /\ \A t, u \in x.todo : t[1] = u[1] => t = u
    /\ \A r, y \in x.got : r.task = y.task => r = y
    /\ \A t \in x.todo : \A r \in x.got : t[1] # r.task

Sound(x, g, places) ==
    /\ x.pc = "loop" => LoopSound(x, g, places)
    /\ x.pc = "exec" => ExecSound(x, g, places)

CheckpointSound(cp) ==
    /\ cp.next \subseteq Nodes \cup {END}
    /\ cp.kind \in {"before", "after", "inside"} => \A m, k \in cp.next : m = k

WalkInv ==
    Kept => /\ writing = [c \in Calls |-> {}]
            /\ \A cp \in ToSet(stored) : CheckpointSound(cp)
            /\ \A c \in Calls : Sound(call[c], graph, Places)

(* An invocation that ends is nowhere.                                      *)
LEMMA StopSound ==
  ASSUME CallTyped, NEW c \in Calls, NEW outcome, NEW g, NEW places
  PROVE  Sound(Stop(c, outcome), g, places) /\ Sound(IdleCall, g, places)
<1>1. Stop(c, outcome).pc = "closing"
  BY DEF CallTyped, CallType, Stop
<1>2. IdleCall.pc = "idle"
  BY DEF IdleCall
<1> QED
  BY <1>1, <1>2 DEF Sound

LEMMA MorePlaces ==
  ASSUME NEW x, NEW g, NEW P, NEW Q, P \subseteq Q, Sound(x, g, P)
  PROVE  Sound(x, g, Q)
<1>1. x.pc = "loop" => LoopSound(x, g, Q)
  BY DEF Sound, LoopSound
<1>2. x.pc = "exec" => ExecSound(x, g, Q)
  BY DEF Sound, ExecSound
<1> QED
  BY <1>1, <1>2 DEF Sound

LEMMA KeptStays ==
  ASSUME UNCHANGED config
  PROVE  Kept' = Kept
  BY DEF config, Kept, HasSends, ForksBehindAfter

LEMMA PlacesGrow ==
  ASSUME UNCHANGED config, Saved \subseteq Saved'
  PROVE  Places \subseteq Places'
<1>1. graph' = graph
  BY DEF config
<1>2. Walk!Nowhere' = Walk!Nowhere /\ \A r : Walk!Received(r)' = Walk!Received(r)
  BY <1>1 DEF Walk!Nowhere, Walk!Received, Walk!Input
<1> QED
  BY <1>2 DEF Places

LEMMA SavedGrows ==
  ASSUME Kept, UNCHANGED config, TypeOK, NEW cp \in CheckpointType, Put(cp)
  PROVE  Saved' = Saved \cup {Place(cp)} /\ ToSet(stored') = ToSet(stored) \cup {cp}
<1>1. ToSet(stored') = ToSet(stored) \cup {cp}
  BY PutAdds DEF Put, TypeOK
<1>2. Kept'
  BY KeptStays
<1>3. Saved = {[state |-> x.state, next |-> x.next] : x \in ToSet(stored)}
  BY DEF Saved
<1>4. Saved' = {[state |-> x.state, next |-> x.next] : x \in ToSet(stored')}
  BY <1>2 DEF Saved
<1> QED
  BY <1>1, <1>3, <1>4 DEF Place

(* What a step does to the walk.                                            *)
Walks == Walk!Next \/ Saved' = Saved

(* A step of an invocation that stores nothing.                             *)
LEMMA Moved ==
  ASSUME TypeOK, WalkInv, Kept, UNCHANGED <<config, checkpoints>>, NEW c \in Calls, NEW x,
         call' = [call EXCEPT ![c] = x], Sound(x, graph, Places)
  PROVE  WalkInv' /\ Walks
<1>1. Saved' = Saved
  BY KeptStays DEF Saved, config, checkpoints
<1>2. Places \subseteq Places'
  BY <1>1, PlacesGrow DEF config
<1>3. graph' = graph /\ call \in [Calls -> CallType]
  BY DEF config, TypeOK
<1>4. ASSUME NEW d \in Calls PROVE Sound(call'[d], graph', Places')
  <2>1. Sound(call[d], graph, Places)
    BY DEF WalkInv
  <2>2. call'[d] = x \/ call'[d] = call[d]
    BY <1>3
  <2>3. Sound(call'[d], graph, Places)
    BY <2>1, <2>2
  <2> QED
    BY <1>2, <1>3, <2>3, MorePlaces
<1>5. /\ writing' = [d \in Calls |-> {}]
      /\ \A cp \in ToSet(stored') : CheckpointSound(cp)
  BY DEF WalkInv, checkpoints
<1> QED
  BY <1>1, <1>4, <1>5 DEF WalkInv, Walks

(* One that stores a checkpoint, which is where it was or a superstep on.   *)
LEMMA Stored ==
  ASSUME TypeOK, WalkInv, Kept, UNCHANGED config, NEW cp \in CheckpointType, Put(cp),
         CheckpointSound(cp), NEW p \in Places,
         p = Place(cp) \/ Walk!Superstep(p, Place(cp)),
         \A d \in Calls : call'[d] = call[d] \/ Sound(call'[d], graph, Places')
  PROVE  WalkInv' /\ Walks
<1>1. Saved' = Saved \cup {Place(cp)} /\ ToSet(stored') = ToSet(stored) \cup {cp}
  BY SavedGrows
<1>2. Places \subseteq Places'
  BY <1>1, PlacesGrow
<1>3. graph' = graph
  BY DEF config
<1>4. ASSUME NEW d \in Calls PROVE Sound(call'[d], graph', Places')
  BY <1>2, <1>3, MorePlaces DEF WalkInv
<1>5. /\ writing' = [d \in Calls |-> {}]
      /\ \A y \in ToSet(stored') : CheckpointSound(y)
  BY <1>1 DEF WalkInv, Put
<1>6. Walk!Reach(Place(cp))
  BY <1>1 DEF Walk!Reach, Places
<1>7. Walk!Next
  BY <1>1, <1>6 DEF Walk!Next
<1> QED
  BY <1>4, <1>5, <1>7 DEF WalkInv, Walks

LEMMA EnteringSound ==
  ASSUME ConfigTyped, NEW c, NEW state, NEW next, NEW parent, NEW places,
         next \subseteq Nodes \cup {END} \/ next = {START},
         END \notin next =>
            [state |-> state, next |-> IF START \in next THEN graph.entry ELSE next] \in places
  PROVE  /\ Sound(Entering(c, state, next, parent), graph, places)
         /\ Sound([Entering(c, state, next, parent) EXCEPT !.command = TRUE], graph, places)
<1>1. \A x \in {Entering(c, state, next, parent),
                [Entering(c, state, next, parent) EXCEPT !.command = TRUE]} :
        x.pc = "loop" /\ x.got = {} /\ x.cur = next /\ x.state = state
  BY DEF Entering, IdleCall
<1> QED
  BY <1>1 DEF Sound, LoopSound

(* Where a stored checkpoint, and an input to it, lead.                     *)
LEMMA StoredPlaces ==
  ASSUME Kept, NEW cp \in ToSet(stored)
  PROVE  /\ Place(cp) \in Places
         /\ [state |-> Append(cp.state, Input),
             next |-> IF END \in cp.next THEN graph.entry ELSE cp.next] \in Places
<1>1. Place(cp) \in Saved
  BY DEF Place, Saved
<1>2. Walk!Received(Place(cp)) \in Places
  BY <1>1 DEF Places
<1>3. Walk!Received(Place(cp)) =
        [state |-> Append(cp.state, Input),
         next |-> IF END \in cp.next THEN graph.entry ELSE cp.next]
  BY DEF Walk!Received, Walk!Input, Input, Place
<1> QED
  BY <1>1, <1>2, <1>3 DEF Places

LEMMA FirstPlace ==
  ASSUME Kept
  PROVE  [state |-> <<Input>>, next |-> graph.entry] \in Places
<1>1. Walk!Received(Walk!Nowhere) \in Places
  BY DEF Places
<1>2. Append(<<>>, Input) = <<Input>>
  OBVIOUS
<1>3. Walk!Received(Walk!Nowhere) = [state |-> <<Input>>, next |-> graph.entry]
  BY <1>2 DEF Walk!Received, Walk!Nowhere, Walk!Input, Input
<1> QED
  BY <1>1, <1>3

LEMMA InvokeWalks ==
  ASSUME TypeOK, WalkInv, Kept, NEW c \in Calls, Invoke(c)
  PROVE  WalkInv' /\ Walks
<1>1. ConfigTyped /\ CallTyped
  BY TypeParts
<1>2. START \notin Nodes /\ END \notin Nodes /\ START # END
  BY NodesAssumption
<1>3. \A cp \in ToSet(stored) : CheckpointSound(cp)
  BY DEF WalkInv
<1>4. ASSUME NEW x, Sound(x, graph, Places), NEW cp, Enter(c, x, cp)
      PROVE  WalkInv' /\ Walks
  BY <1>4, Moved DEF Enter
<1>5. CASE InvokeFresh(c)
  <2>1. Sound(Entering(c, <<Input>>, {START}, 0), graph, Places)
    BY <1>1, <1>2, FirstPlace, EnteringSound
  <2> QED
    BY <1>5, <2>1, Moved DEF InvokeFresh
<1>6. CASE InvokeInput(c)
  <2>1. PICK cp \in ToSet(stored) :
          Enter(c, Entering(c, Append(cp.state, Input),
                            IF END \in cp.next THEN {START} ELSE cp.next, cp.at), cp)
    BY <1>6 DEF InvokeInput
  <2> DEFINE next == IF END \in cp.next THEN {START} ELSE cp.next
             state == Append(cp.state, Input)
  <2>2. next \subseteq Nodes \cup {END} \/ next = {START}
    BY <1>3 DEF CheckpointSound
  <2>3. (IF START \in next THEN graph.entry ELSE next)
           = IF END \in cp.next THEN graph.entry ELSE cp.next
    BY <1>2, <1>3 DEF CheckpointSound
  <2>4. [state |-> state, next |-> IF START \in next THEN graph.entry ELSE next] \in Places
    BY <2>3, StoredPlaces
  <2>5. Sound(Entering(c, state, next, cp.at), graph, Places)
    <3> HIDE DEF next, state
    <3> QED
      BY <1>1, <2>2, <2>4, EnteringSound
  <2> QED
    BY <1>4, <2>1, <2>5
<1>7. ASSUME NEW cp \in ToSet(stored)
      PROVE  /\ Sound(Entering(c, cp.state, cp.next, cp.at), graph, Places)
             /\ Sound([Entering(c, cp.state, cp.next, cp.at) EXCEPT !.command = TRUE],
                      graph, Places)
  <2>1. cp.next \subseteq Nodes \cup {END} /\ START \notin cp.next
    BY <1>2, <1>3 DEF CheckpointSound
  <2>2. [state |-> cp.state, next |-> IF START \in cp.next THEN graph.entry ELSE cp.next] \in Places
    BY <2>1, StoredPlaces DEF Place
  <2> QED
    BY <1>1, <2>1, <2>2, EnteringSound
<1>8. CASE InvokeNone(c)
  BY <1>4, <1>7, <1>8 DEF InvokeNone
<1>9. CASE \E answers \in 1..2 : InvokeCommand(c, answers)
  <2>1. PICK answers \in 1..2 : InvokeCommand(c, answers)
    BY <1>9
  <2>2. PICK cp \in ToSet(stored) :
          /\ cp.kind \in {"before", "after", "inside"}
          /\ LET context == [Entering(c, cp.state, cp.next, cp.at) EXCEPT !.command = TRUE]
             IN \/ Enter(c, context, cp)
                \/ \E n \in cp.next \cap Nodes :
                     Enter(c, [context EXCEPT !.pc = "exec", !.mode = "resume",
                                              !.todo = {<<<<n, FALSE>>, 1>>},
                                              !.answers = answers], cp)
    BY <2>1 DEF InvokeCommand
  <2> DEFINE context == [Entering(c, cp.state, cp.next, cp.at) EXCEPT !.command = TRUE]
  <2>3. ASSUME NEW n \in cp.next \cap Nodes
        PROVE  Sound([context EXCEPT !.pc = "exec", !.mode = "resume",
                                     !.todo = {<<<<n, FALSE>>, 1>>}, !.answers = answers],
                     graph, Places)
    <3> DEFINE x == [context EXCEPT !.pc = "exec", !.mode = "resume",
                                    !.todo = {<<<<n, FALSE>>, 1>>}, !.answers = answers]
    <3>1. cp.next = {n}
      <4>1. \A m, k \in cp.next : m = k
        BY <1>3, <2>2 DEF CheckpointSound
      <4> QED
        BY <4>1
    <3>2. /\ x.pc = "exec" /\ x.mode = "resume" /\ x.todo = {<<<<n, FALSE>>, 1>>} /\ x.got = {}
          /\ x.cur = {n} /\ x.state = cp.state
      BY <3>1 DEF Entering, IdleCall
    <3>3. [state |-> x.state, next |-> x.cur] \in Places
      BY <3>1, <3>2, StoredPlaces DEF Place
    <3> HIDE DEF x
    <3>4. <<<<n, FALSE>>, 1>>[1] = <<n, FALSE>>
      OBVIOUS
    <3>5. ExecSound(x, graph, Places)
      BY <3>2, <3>3, <3>4 DEF ExecSound
    <3> QED
      BY <3>2, <3>5 DEF Sound, x
  <2> QED
    BY <1>4, <1>7, <2>2, <2>3
<1> QED
  BY <1>5, <1>6, <1>8, <1>9 DEF Invoke

LEMMA LoopWalks ==
  ASSUME TypeOK, WalkInv, Kept, NEW c \in Calls,
         HitLimit(c) \/ FromStart(c) \/ ReachEnd(c) \/ LookUpSend(c)
           \/ InterruptBefore(c) \/ Begin(c) \/ GiveUp(c)
  PROVE  WalkInv' /\ Walks
<1>1. ConfigTyped /\ CheckpointsTyped /\ CallTyped
  BY TypeParts
<1>2. call[c] \in CallType /\ Sound(call[c], graph, Places)
  BY <1>1 DEF CallTyped, WalkInv
<1>3. START \notin Nodes /\ END \notin Nodes /\ START # END
  BY NodesAssumption
<1>4. CASE HitLimit(c) \/ ReachEnd(c) \/ LookUpSend(c) \/ GiveUp(c)
  <2>1. PICK outcome : call' = [call EXCEPT ![c] = Stop(c, outcome)]
    BY <1>4 DEF HitLimit, ReachEnd, LookUpSend, GiveUp
  <2>2. UNCHANGED <<config, checkpoints>>
    BY <1>4 DEF HitLimit, ReachEnd, LookUpSend, GiveUp
  <2> QED
    BY <1>1, <2>1, <2>2, StopSound, Moved
<1>5. CASE FromStart(c)
  <2> DEFINE x == [call[c] EXCEPT !.cur = graph.entry, !.steps = @ + 1]
  <2>1. call' = [call EXCEPT ![c] = x]
    BY <1>1, <1>5 DEF FromStart, CallTyped
  <2>2. x.pc = "loop" /\ x.got = {} /\ x.cur = graph.entry /\ x.state = call[c].state
    BY <1>2, <1>5 DEF FromStart, Looping, CallType, Sound, LoopSound
  <2>3. graph.entry \subseteq Nodes
    BY <1>1, GraphTyped
  <2>4. START \in call[c].cur /\ END \notin call[c].cur
    BY <1>2, <1>3, <1>5 DEF FromStart, Looping, Sound, LoopSound
  <2>5. [state |-> call[c].state, next |-> graph.entry] \in Places
    BY <1>2, <1>5, <2>4 DEF FromStart, Looping, Sound, LoopSound
  <2>6. Sound(x, graph, Places)
    <3> HIDE DEF x
    <3> QED
      BY <1>3, <2>2, <2>3, <2>5 DEF Sound, LoopSound
  <2> QED
    BY <1>5, <2>1, <2>6, Moved DEF FromStart
<1>6. CASE InterruptBefore(c)
  <2>1. PICK n \in graph.before : call[c].cur = {n}
    BY <1>6 DEF InterruptBefore
  <2> DEFINE cp == Checkpoint(c, "before", call[c].state, call[c].cur)
  <2>2. n \in Nodes
    BY <1>1, GraphTyped
  <2>3. Place(cp) = [state |-> call[c].state, next |-> call[c].cur]
        /\ cp.next = {n}
    BY <2>1 DEF Place, Checkpoint
  <2>4. Place(cp) \in Places
    <3>1. END \notin call[c].cur /\ START \notin call[c].cur
      BY <1>3, <2>1, <2>2
    <3> QED
      BY <1>2, <1>6, <2>3, <3>1 DEF InterruptBefore, Looping, Sound, LoopSound
  <2>5. CheckpointSound(cp)
    <3> HIDE DEF cp
    <3> QED
      BY <2>2, <2>3 DEF CheckpointSound
  <2>6. cp \in CheckpointType
    <3>1. "before" \in Kinds /\ call[c].state \in Seq(Merged) /\ call[c].cur \in SUBSET Targets
      BY <1>2 DEF CallType, Kinds
    <3> QED
      BY <3>1, CheckpointTyped
  <2>7. Put(cp) /\ UNCHANGED config /\ call' = [call EXCEPT ![c] = Stop(c, "interrupted")]
    BY <1>6 DEF InterruptBefore
  <2>8. \A d \in Calls : call'[d] = call[d] \/ Sound(call'[d], graph, Places')
    BY <1>1, <2>7, StopSound DEF CallTyped
  <2> HIDE DEF cp
  <2> QED
    BY <2>4, <2>5, <2>6, <2>7, <2>8, Stored
<1>7. CASE Begin(c)
  <2> DEFINE todo == {<<<<n, FALSE>>, 1>> : n \in call[c].cur}
             x == [call[c] EXCEPT !.pc = "exec", !.mode = "nodes", !.todo = todo,
                                  !.steps = @ + 1]
  <2>1. call' = [call EXCEPT ![c] = x]
    BY <1>1, <1>7 DEF Begin, CallTyped
  <2>2. /\ x.pc = "exec" /\ x.mode = "nodes" /\ x.todo = todo /\ x.got = {}
        /\ x.cur = call[c].cur /\ x.state = call[c].state
    BY <1>2, <1>7 DEF Begin, Looping, CallType, Sound, LoopSound
  <2>3. x.cur \subseteq Nodes
    BY <1>7, <2>2 DEF Begin
  <2>4. [state |-> x.state, next |-> x.cur] \in Places
    BY <1>2, <1>3, <1>7, <2>2, <2>3 DEF Begin, Looping, Sound, LoopSound
  <2>5. /\ \A t \in todo : \E n \in call[c].cur : t = <<<<n, FALSE>>, 1>> /\ t[1] = <<n, FALSE>>
        /\ \A n \in call[c].cur : <<<<n, FALSE>>, 1>> \in todo /\ <<<<n, FALSE>>, 1>>[1] = <<n, FALSE>>
    <3>1. \A n : <<<<n, FALSE>>, 1>>[1] = <<n, FALSE>>
      OBVIOUS
    <3> QED
      BY <3>1, Zenon
  <2>6. \A t, u \in todo : t[1] = u[1] => t = u
    <3>1. \A t \in todo : t = <<t[1], 1>>
      BY <2>5, Zenon
    <3> HIDE DEF todo
    <3> QED
      BY <3>1, Zenon
  <2>7. Sound(x, graph, Places)
    <3> HIDE DEF x, todo
    <3>1. ExecSound(x, graph, Places)
      BY <2>2, <2>3, <2>4, <2>5, <2>6 DEF ExecSound
    <3> QED
      BY <2>2, <3>1 DEF Sound
  <2> QED
    BY <1>7, <2>1, <2>7, Moved DEF Begin
<1> QED
  BY <1>4, <1>5, <1>6, <1>7

(* What is known of an invocation in a superstep.                           *)
LEMMA ExecFacts ==
  ASSUME TypeOK, WalkInv, Kept, NEW c \in Calls, call[c].pc = "exec"
  PROVE  /\ call[c] \in CallType /\ ExecSound(call[c], graph, Places)
         /\ \A t \in call[c].todo : Node(t) \in call[c].cur /\ t[1] = <<Node(t), FALSE>>
         /\ IsFiniteSet(call[c].cur)
<1>1. call[c] \in CallType /\ ExecSound(call[c], graph, Places)
  BY DEF TypeOK, WalkInv, Sound
<1>2. \A t \in call[c].todo : \E n \in call[c].cur : t[1] = <<n, FALSE>>
  BY <1>1 DEF ExecSound
<1>3. \A n : <<n, FALSE>>[1] = n
  OBVIOUS
<1>4. \A t \in call[c].todo : Node(t) \in call[c].cur /\ t[1] = <<Node(t), FALSE>>
  <2> SUFFICES ASSUME NEW t \in call[c].todo
               PROVE  Node(t) \in call[c].cur /\ t[1] = <<Node(t), FALSE>>
    OBVIOUS
  <2>1. PICK n \in call[c].cur : t[1] = <<n, FALSE>>
    BY <1>2
  <2>2. Node(t) = n
    BY <1>3, <2>1 DEF Node
  <2> QED
    BY <2>1, <2>2
<1>5. IsFiniteSet(call[c].cur)
  <2>1. call[c].cur \in SUBSET Nodes
    BY <1>1 DEF ExecSound
  <2> QED
    BY <2>1, NodesAssumption, FS_Subset
<1> QED
  BY <1>1, <1>4, <1>5

LEMMA SucceedWalks ==
  ASSUME TypeOK, WalkInv, Kept, NEW c \in Calls, Succeed(c)
  PROVE  WalkInv' /\ Walks
<1> PICK t \in call[c].todo :
       \E route \in graph.edges[Node(t)], goto \in graph.gotos[Node(t)] \cup {None} :
          Done(c, t, [task |-> t[1], route |-> route, goto |-> goto])
  BY DEF Succeed
<1>1. PICK route \in graph.edges[Node(t)], goto \in graph.gotos[Node(t)] \cup {None} :
         Done(c, t, [task |-> t[1], route |-> route, goto |-> goto])
  OBVIOUS
<1>2. call[c].pc = "exec" /\ call \in [Calls -> CallType]
  BY <1>1 DEF Done, TypeOK
<1>3. /\ call[c] \in CallType /\ ExecSound(call[c], graph, Places)
      /\ Node(t) \in call[c].cur /\ t[1] = <<Node(t), FALSE>>
  BY <1>2, ExecFacts
<1> DEFINE result == [task |-> t[1], route |-> route, goto |-> goto]
           x == [call[c] EXCEPT !.todo = @ \ {t}, !.got = @ \cup {result}]
<1>4. result.task = t[1] /\ result.route = route /\ result.goto = goto
  OBVIOUS
<1>5. Done(c, t, result)
  BY <1>1
<1> HIDE DEF result
<1>6. call' = [call EXCEPT ![c] = x] /\ UNCHANGED <<config, checkpoints>>
  BY <1>2, <1>5 DEF Done
<1>7. /\ x.pc = "exec" /\ x.mode = call[c].mode /\ x.cur = call[c].cur
      /\ x.state = call[c].state /\ x.broken = call[c].broken
      /\ x.todo = call[c].todo \ {t} /\ x.got = call[c].got \cup {result}
  BY <1>2, <1>3 DEF CallType
<1> HIDE DEF x
<1>8. ExecSound(x, graph, Places)
  <2>1. /\ x.mode # "send" /\ x.cur \subseteq Nodes
        /\ x.mode = "resume" => \A m, k \in x.cur : m = k
        /\ [state |-> x.state, next |-> x.cur] \in Places
        /\ \A u \in x.todo : \E n \in x.cur : u[1] = <<n, FALSE>>
    BY <1>3, <1>7 DEF ExecSound
  <2>2. \A r \in x.got : \E n \in x.cur :
          /\ r.task = <<n, FALSE>> /\ r.route \in graph.edges[n]
          /\ r.goto \in graph.gotos[n] \cup {None}
    BY <1>3, <1>4, <1>7 DEF ExecSound
  <2>3. ~x.broken => \A n \in x.cur :
          \/ \E u \in x.todo : u[1] = <<n, FALSE>>
          \/ \E r \in x.got : r.task = <<n, FALSE>>
    <3> SUFFICES ASSUME ~x.broken, NEW n \in x.cur,
                        \A r \in x.got : r.task # <<n, FALSE>>
                 PROVE  \E u \in x.todo : u[1] = <<n, FALSE>>
      OBVIOUS
    <3>1. t[1] # <<n, FALSE>>
      BY <1>4, <1>7
    <3>2. PICK u \in call[c].todo : u[1] = <<n, FALSE>>
      BY <1>3, <1>7 DEF ExecSound
    <3>3. u # t
      BY <3>1, <3>2
    <3> QED
      BY <1>7, <3>2, <3>3
  <2>4. \A u, v \in x.todo : u[1] = v[1] => u = v
    BY <1>3, <1>7 DEF ExecSound
  <2>5. \A r, y \in x.got : r.task = y.task => r = y
    <3>1. \A r \in call[c].got : r.task # t[1]
      BY <1>3 DEF ExecSound
    <3>2. \A r, y \in call[c].got : r.task = y.task => r = y
      BY <1>3 DEF ExecSound
    <3>3. \A r \in x.got : r \in call[c].got \/ (r = result /\ r.task = t[1])
      BY <1>4, <1>7
    <3> QED
      BY <3>1, <3>2, <3>3
  <2>6. \A u \in x.todo : \A r \in x.got : u[1] # r.task
    <3>1. \A u \in x.todo : u[1] # t[1]
      BY <1>3, <1>7 DEF ExecSound
    <3> QED
      BY <1>3, <1>4, <1>7, <3>1 DEF ExecSound
  <2> QED
    BY <2>1, <2>2, <2>3, <2>4, <2>5, <2>6 DEF ExecSound
<1>9. Sound(x, graph, Places)
  BY <1>7, <1>8 DEF Sound
<1> QED
  BY <1>6, <1>9, Moved

LEMMA RaiseWalks ==
  ASSUME TypeOK, WalkInv, Kept, UNCHANGED config, NEW c \in Calls, call[c].pc = "exec",
         NEW t \in call[c].todo, NEW kind \in Kinds, NEW outcome \in Outcomes,
         TryAgain(c, t) \/ RaiseAlone(c, t, kind, outcome) \/ RaiseAmong(c, t)
  PROVE  WalkInv' /\ Walks
<1>1. call \in [Calls -> CallType]
  BY DEF TypeOK
<1>2. /\ call[c] \in CallType /\ ExecSound(call[c], graph, Places)
      /\ Node(t) \in call[c].cur /\ t[1] = <<Node(t), FALSE>>
      /\ IsFiniteSet(call[c].cur)
  BY ExecFacts
<1>3. CASE TryAgain(c, t)
  <2> DEFINE v == <<t[1], t[2] + 1>>
             x == [call[c] EXCEPT !.todo = (@ \ {t}) \cup {v}]
  <2>1. call' = [call EXCEPT ![c] = x] /\ UNCHANGED <<config, checkpoints>>
    BY <1>1, <1>3 DEF TryAgain
  <2>2. v[1] = t[1]
    OBVIOUS
  <2> HIDE DEF v
  <2>3. /\ x.pc = "exec" /\ x.mode = call[c].mode /\ x.cur = call[c].cur
        /\ x.state = call[c].state /\ x.broken = call[c].broken
        /\ x.todo = (call[c].todo \ {t}) \cup {v} /\ x.got = call[c].got
    BY <1>2 DEF CallType
  <2> HIDE DEF x
  <2>4. ExecSound(x, graph, Places)
    <3>1. /\ x.mode # "send" /\ x.cur \subseteq Nodes
          /\ x.mode = "resume" => \A m, k \in x.cur : m = k
          /\ [state |-> x.state, next |-> x.cur] \in Places
          /\ \A u \in x.todo : \E n \in x.cur : u[1] = <<n, FALSE>>
          /\ \A r \in x.got : \E n \in x.cur :
                /\ r.task = <<n, FALSE>> /\ r.route \in graph.edges[n]
                /\ r.goto \in graph.gotos[n] \cup {None}
          /\ \A r, y \in x.got : r.task = y.task => r = y
      BY <1>2, <2>2, <2>3 DEF ExecSound
    <3>2. ~x.broken => \A n \in x.cur :
            \/ \E u \in x.todo : u[1] = <<n, FALSE>>
            \/ \E r \in x.got : r.task = <<n, FALSE>>
      BY <1>2, <2>2, <2>3 DEF ExecSound
    <3>3. \A u \in x.todo : u = v \/ (u \in call[c].todo /\ u[1] # t[1])
      BY <1>2, <2>3 DEF ExecSound
    <3>4. \A u, w \in x.todo : u[1] = w[1] => u = w
      BY <1>2, <2>2, <3>3 DEF ExecSound
    <3>5. \A u \in x.todo : \A r \in x.got : u[1] # r.task
      <4>1. \A u \in call[c].todo : \A r \in call[c].got : u[1] # r.task
        BY <1>2 DEF ExecSound
      <4> QED
        BY <2>2, <2>3, <3>3, <4>1
    <3> QED
      BY <3>1, <3>2, <3>4, <3>5 DEF ExecSound
  <2> QED
    BY <2>1, <2>3, <2>4, Moved DEF Sound
<1>4. CASE RaiseAlone(c, t, kind, outcome)
  <2> DEFINE cp == Checkpoint(c, kind, call[c].state, {Node(t)})
  <2>1. call[c].cur = {Node(t)}
    <3>1. \E m : call[c].cur = {m}
      BY <1>2, <1>4, FS_Singleton DEF RaiseAlone, Alone
    <3> QED
      BY <1>2, <3>1
  <2>2. Node(t) \in Nodes
    BY <1>2 DEF ExecSound
  <2>3. Place(cp) = [state |-> call[c].state, next |-> call[c].cur] /\ cp.next = {Node(t)}
    BY <2>1 DEF Place, Checkpoint
  <2>4. Place(cp) \in Places
    BY <1>2, <2>3 DEF ExecSound
  <2>5. CheckpointSound(cp)
    <3> HIDE DEF cp
    <3> QED
      BY <2>2, <2>3 DEF CheckpointSound
  <2>6. cp \in CheckpointType
    <3>1. call[c].state \in Seq(Merged) /\ {Node(t)} \in SUBSET Targets
      BY <1>2, <2>2 DEF CallType, Targets
    <3> QED
      BY <3>1, CheckpointTyped
  <2>7. Put(cp) /\ call' = [call EXCEPT ![c] = Stop(c, outcome)]
    BY <1>4 DEF RaiseAlone
  <2>8. \A d \in Calls : call'[d] = call[d] \/ Sound(call'[d], graph, Places')
    BY <1>1, <2>7, StopSound DEF CallTyped
  <2> HIDE DEF cp
  <2> QED
    BY <2>4, <2>5, <2>6, <2>7, <2>8, Stored
<1>5. CASE RaiseAmong(c, t)
  <2> DEFINE x == [call[c] EXCEPT !.todo = @ \ {t}, !.broken = TRUE]
  <2>1. call' = [call EXCEPT ![c] = x] /\ UNCHANGED <<config, checkpoints>>
    BY <1>1, <1>5 DEF RaiseAmong
  <2>2. /\ x.pc = "exec" /\ x.mode = call[c].mode /\ x.cur = call[c].cur
        /\ x.state = call[c].state /\ x.broken = TRUE
        /\ x.todo = call[c].todo \ {t} /\ x.got = call[c].got
    BY <1>2 DEF CallType
  <2> HIDE DEF x
  <2>3. ExecSound(x, graph, Places)
    <3>1. /\ x.mode # "send" /\ x.cur \subseteq Nodes
          /\ x.mode = "resume" => \A m, k \in x.cur : m = k
          /\ [state |-> x.state, next |-> x.cur] \in Places
      BY <1>2, <2>2 DEF ExecSound
    <3>5. \A u \in x.todo : \E n \in x.cur : u[1] = <<n, FALSE>>
      <4>1. \A u \in call[c].todo : \E n \in call[c].cur : u[1] = <<n, FALSE>>
        BY <1>2 DEF ExecSound
      <4> QED
        BY <2>2, <4>1
    <3>2. /\ \A r \in x.got : \E n \in x.cur :
                /\ r.task = <<n, FALSE>> /\ r.route \in graph.edges[n]
                /\ r.goto \in graph.gotos[n] \cup {None}
          /\ \A r, y \in x.got : r.task = y.task => r = y
      BY <1>2, <2>2 DEF ExecSound
    <3>3. \A u \in x.todo : u \in call[c].todo
      BY <2>2
    <3>4. /\ \A u, w \in x.todo : u[1] = w[1] => u = w
          /\ \A u \in x.todo : \A r \in x.got : u[1] # r.task
      BY <1>2, <2>2, <3>3 DEF ExecSound
    <3> QED
      BY <2>2, <3>1, <3>2, <3>4, <3>5 DEF ExecSound
  <2> QED
    BY <2>1, <2>2, <2>3, Moved DEF Sound
<1> QED
  BY <1>3, <1>4, <1>5

LEMMA FailWalks ==
  ASSUME TypeOK, WalkInv, Kept, NEW c \in Calls, Fail(c) \/ Ask(c)
  PROVE  WalkInv' /\ Walks
<1>1. "failed" \in Kinds /\ "inside" \in Kinds /\ "failed" \in Outcomes /\ "interrupted" \in Outcomes
  BY DEF Kinds, Outcomes
<1>2. UNCHANGED config /\ call[c].pc = "exec"
  BY DEF Fail, Ask
<1> QED
  BY <1>1, <1>2, RaiseWalks DEF Fail, Ask

LEMMA KeptRoutes ==
  ASSUME ConfigTyped, Kept, NEW n \in Nodes, NEW route \in graph.edges[n] \cup graph.gotos[n]
  PROVE  /\ route.to \in SUBSET (Nodes \cup {END}) /\ ~route.send
         /\ n \in graph.after => \A m, k \in route.to : m = k
<1>1. route \in Route
  BY GraphTyped
<1>2. ~route.send
  BY DEF Kept, HasSends
<1>3. n \in graph.after => \A m, k \in route.to : m = k
  BY DEF Kept, ForksBehindAfter
<1>4. route.to \in SUBSET (Nodes \cup {END})
  BY <1>1 DEF Route
<1> QED
  BY <1>2, <1>3, <1>4

(* The routes of a superstep's results.                                     *)
LEMMA ResultRoutes ==
  ASSUME TypeOK, WalkInv, Kept, NEW c \in Calls, call[c].pc = "exec", NEW r \in call[c].got
  PROVE  \E n \in call[c].cur :
            /\ n \in Nodes /\ r.task = <<n, FALSE>> /\ r.task[1] = n
            /\ r.route \in graph.edges[n] \cup graph.gotos[n]
            /\ Chosen(r) \in graph.edges[n] \cup graph.gotos[n]
<1>1. ExecSound(call[c], graph, Places)
  BY ExecFacts
<1>2. PICK n \in call[c].cur :
        /\ r.task = <<n, FALSE>> /\ r.route \in graph.edges[n]
        /\ r.goto \in graph.gotos[n] \cup {None}
  BY <1>1 DEF ExecSound
<1>3. n \in Nodes
  BY <1>1 DEF ExecSound
<1>4. <<n, FALSE>>[1] = n
  OBVIOUS
<1>5. Chosen(r) \in graph.edges[n] \cup graph.gotos[n]
  BY <1>2 DEF Chosen
<1> QED
  BY <1>2, <1>3, <1>4, <1>5

(* Once every node of a superstep has a result, its state is a superstep on.*)
LEMMA SuperstepTaken ==
  ASSUME TypeOK, WalkInv, Kept, NEW c \in Calls, call[c].pc = "exec",
         call[c].todo = {}, ~call[c].broken,
         NEW lead \in [call[c].cur -> SUBSET (Nodes \cup {END})],
         \A n \in call[c].cur :
            \E route \in graph.edges[n] \cup graph.gotos[n] : lead[n] = route.to,
         NEW next, next = UNION {lead[n] : n \in call[c].cur}
  PROVE  Walk!Superstep([state |-> call[c].state, next |-> call[c].cur],
                        [state |-> MergedState(c), next |-> next])
<1>1. /\ call[c] \in CallType /\ ExecSound(call[c], graph, Places) /\ IsFiniteSet(call[c].cur)
  BY ExecFacts
<1> DEFINE cur == call[c].cur
           state == call[c].state
           merged == MergedState(c)
           done == {r.task : r \in call[c].got}
<1>2. done = {<<n, FALSE>> : n \in cur}
  <2>1. \A r \in call[c].got : \E n \in cur : r.task = <<n, FALSE>>
    BY <1>1 DEF ExecSound
  <2>2. \A n \in cur : \E r \in call[c].got : r.task = <<n, FALSE>>
    BY <1>1 DEF ExecSound
  <2> QED
    BY <2>1, <2>2, Zenon
<1>3. Cardinality(done) = Cardinality(cur)
  <2> DEFINE f == [n \in cur |-> <<n, FALSE>>]
  <2>1. f \in [cur -> done]
    BY <1>2
  <2>2. \A n, m \in cur : f[n] = f[m] => n = m
    OBVIOUS
  <2>3. \A d \in done : \E n \in cur : f[n] = d
    BY <1>2
  <2>4. f \in Bijection(cur, done)
    <3> HIDE DEF f, done
    <3>1. DOMAIN f = cur
      BY <2>1
    <3> QED
      BY <2>1, <2>2, <2>3, <3>1 DEF Bijection, Injection, Surjection, IsInjective
  <2>5. ExistsBijection(cur, done)
    BY <2>4 DEF ExistsBijection
  <2> HIDE DEF done
  <2> QED
    BY <1>1, <2>5, FS_Bijection
<1>4. /\ Len(merged) = Len(state) + Cardinality(done)
      /\ IsPrefix(state, merged)
      /\ ToSet(SubSeq(merged, Len(state) + 1, Len(merged))) = done
  <2>1. call[c].state \in Seq(Merged) /\ call[c].got \in SUBSET Result
    BY <1>1 DEF CallType
  <2> QED
    BY <2>1, MergedType DEF MergedState
<1>5. cur \subseteq Nodes
  BY <1>1 DEF ExecSound
<1> HIDE DEF cur, state, merged, done
<1> DEFINE p == [state |-> state, next |-> cur]
           q == [state |-> merged, next |-> next]
<1>6. p.state = state /\ p.next = cur /\ q.state = merged /\ q.next = next
  OBVIOUS
<1>7. \E l \in [cur -> SUBSET (Nodes \cup {END})] :
        /\ \A n \in cur : \E route \in graph.edges[n] \cup graph.gotos[n] : l[n] = route.to
        /\ next = UNION {l[n] : n \in cur}
  BY DEF cur
<1> HIDE DEF p, q
<1>8. Walk!Cardinality(cur) = Cardinality(cur)
  BY Zenon DEF Walk!Cardinality, Cardinality
<1>9. Walk!IsPrefix(state, merged)
      /\ Walk!ToSet(SubSeq(merged, Len(state) + 1, Len(merged))) = done
  BY <1>4, Zenon DEF Walk!IsPrefix, IsPrefix, Walk!ToSet, ToSet
<1>10. Walk!Superstep(p, q)
  BY <1>2, <1>3, <1>4, <1>5, <1>6, <1>7, <1>8, <1>9 DEF Walk!Superstep
<1> QED
  BY <1>10 DEF p, q, cur, state, merged

(* Without Sends the loop goes on where the routes lead.                    *)
LEMMA ProceedSound ==
  ASSUME CallTyped, NEW c \in Calls, NEW state, NEW routes, NEW parent, NEW places,
         \A r \in routes : ~r.send /\ r.to \in SUBSET (Nodes \cup {END}),
         [state |-> state, next |-> Names(routes)] \in places,
         Proceed(c, state, routes, parent)
  PROVE  \A d \in Calls : call'[d] = call[d] \/ Sound(call'[d], graph, places)
<1> DEFINE plain == UNION {r.to : r \in {x \in routes : ~x.send}}
           sent == UNION {r.to : r \in {x \in routes : x.send}}
           next == [call[c] EXCEPT !.state = state, !.parent = parent, !.got = {}]
           todo == {<<<<n, TRUE>>, 1>> : n \in sent}
           cur == IF plain = {} THEN {END} ELSE plain
           x == [next EXCEPT !.pc = "loop", !.cur = cur]
<1>1. sent = {} /\ plain = Names(routes)
  BY DEF Names
<1>2. call' = [call EXCEPT ![c] =
        IF sent = {} THEN [next EXCEPT !.pc = "loop", !.cur = cur]
                     ELSE [next EXCEPT !.mode = "send", !.also = plain, !.todo = todo]]
  BY DEF Proceed
<1>3. plain \subseteq Nodes \cup {END}
  OBVIOUS
<1> HIDE DEF plain, sent, todo
<1>4. call' = [call EXCEPT ![c] = x]
  BY <1>1, <1>2
<1>5. x.pc = "loop" /\ x.cur = cur /\ x.state = state /\ x.got = {}
  BY DEF CallTyped, CallType
<1> HIDE DEF x
<1>6. x.cur \subseteq Nodes \cup {END} /\ START \notin x.cur
  BY <1>3, <1>5, NodesAssumption
<1>7. END \notin x.cur => x.cur = Names(routes)
  BY <1>1, <1>5
<1>8. Sound(x, graph, places)
  BY <1>5, <1>6, <1>7 DEF Sound, LoopSound
<1> QED
  BY <1>4, <1>8 DEF CallTyped

LEMMA SyncPuts ==
  ASSUME Kept, NEW c, NEW cp, PutDurably(c, cp)
  PROVE  Put(cp)
  BY DEF Kept, PutDurably, Put

(* A finished superstep stores where it leads.                              *)
LEMMA FinishStores ==
  ASSUME TypeOK, WalkInv, Kept, UNCHANGED config, NEW c \in Calls, call[c].pc = "exec",
         call[c].todo = {}, ~call[c].broken,
         NEW lead \in [call[c].cur -> SUBSET (Nodes \cup {END})],
         \A n \in call[c].cur :
            \E route \in graph.edges[n] \cup graph.gotos[n] : lead[n] = route.to,
         NEW next, next = UNION {lead[n] : n \in call[c].cur},
         NEW kind \in Kinds,
         kind \in {"before", "after", "inside"} => \A m, k \in next : m = k,
         Put(Checkpoint(c, kind, MergedState(c), next)),
         [state |-> MergedState(c), next |-> next] \in Places' =>
            \A d \in Calls : call'[d] = call[d] \/ Sound(call'[d], graph, Places')
  PROVE  WalkInv' /\ Walks
<1> DEFINE cp == Checkpoint(c, kind, MergedState(c), next)
           p == [state |-> call[c].state, next |-> call[c].cur]
<1>1. call[c] \in CallType /\ ExecSound(call[c], graph, Places)
  BY ExecFacts
<1>2. p \in Places
  BY <1>1 DEF ExecSound
<1>3. next \subseteq Nodes \cup {END} /\ next \in SUBSET Targets
  BY DEF Targets
<1>4. cp.next = next /\ cp.kind = kind /\ Place(cp) = [state |-> MergedState(c), next |-> next]
  BY DEF Checkpoint, Place
<1>5. cp \in CheckpointType
  <2>1. MergedState(c) \in Seq(Merged)
    BY <1>1, MergedType DEF CallType, MergedState
  <2> QED
    BY <1>3, <2>1, CheckpointTyped
<1>6. Walk!Superstep(p, Place(cp))
  BY <1>4, SuperstepTaken
<1> HIDE DEF cp, p
<1>7. CheckpointSound(cp)
  BY <1>3, <1>4 DEF CheckpointSound
<1>8. Put(cp)
  BY DEF cp
<1>9. Place(cp) \in Places'
  <2>1. Saved' = Saved \cup {Place(cp)}
    BY <1>5, <1>8, SavedGrows
  <2> QED
    BY <2>1 DEF Places
<1>10. \A d \in Calls : call'[d] = call[d] \/ Sound(call'[d], graph, Places')
  BY <1>4, <1>9
<1> QED
  BY <1>2, <1>5, <1>6, <1>7, <1>8, <1>10, Stored

LEMMA FinishNodeWalks ==
  ASSUME TypeOK, WalkInv, Kept, NEW c \in Calls, FinishNode(c)
  PROVE  WalkInv' /\ Walks
<1>1. ConfigTyped /\ CallTyped
  BY TypeParts
<1>2. /\ call[c].pc = "exec" /\ call[c].todo = {} /\ ~call[c].broken /\ UNCHANGED config
      /\ Cardinality(call[c].cur) = 1
  BY DEF FinishNode, Merging, Alone
<1>3. PICK r \in call[c].got :
        IF r.task[1] \in graph.after
        THEN /\ Put(Checkpoint(c, "after", MergedState(c), Names({Chosen(r)})))
             /\ call' = [call EXCEPT ![c] = Stop(c, "interrupted")]
        ELSE /\ PutDurably(c, Checkpoint(c, "step", MergedState(c), Names({Chosen(r)})))
             /\ Proceed(c, MergedState(c), {Chosen(r)}, made + 1)
  BY DEF FinishNode
<1>4. PICK n \in call[c].cur :
        /\ n \in Nodes /\ r.task[1] = n /\ Chosen(r) \in graph.edges[n] \cup graph.gotos[n]
  BY <1>2, ResultRoutes
<1>5. call[c].cur = {n}
  <2>1. IsFiniteSet(call[c].cur)
    BY <1>2, ExecFacts
  <2> QED
    BY <1>2, <2>1, FS_Singleton
<1> DEFINE route == Chosen(r)
           next == Names({route})
           lead == [m \in {n} |-> route.to]
<1>6. /\ route.to \in SUBSET (Nodes \cup {END}) /\ ~route.send
      /\ n \in graph.after => \A m, k \in route.to : m = k
  BY <1>1, <1>4, KeptRoutes
<1>7. next = route.to
  BY DEF Names
<1> HIDE DEF route, next
<1>8. /\ lead \in [call[c].cur -> SUBSET (Nodes \cup {END})]
      /\ next = UNION {lead[m] : m \in call[c].cur}
      /\ \A m \in call[c].cur :
            \E x \in graph.edges[m] \cup graph.gotos[m] : lead[m] = x.to
  BY <1>4, <1>5, <1>6, <1>7 DEF route
<1> HIDE DEF lead
<1>9. "step" \in Kinds /\ "after" \in Kinds
  BY DEF Kinds
<1>10. CASE r.task[1] \in graph.after
  <2>1. /\ Put(Checkpoint(c, "after", MergedState(c), next))
        /\ call' = [call EXCEPT ![c] = Stop(c, "interrupted")]
    BY <1>3, <1>10 DEF next, route
  <2>2. \A m, k \in next : m = k
    BY <1>4, <1>6, <1>7, <1>10
  <2>3. \A d \in Calls : call'[d] = call[d] \/ Sound(call'[d], graph, Places')
    BY <1>1, <2>1, StopSound DEF CallTyped
  <2> QED
    BY <1>2, <1>8, <1>9, <2>1, <2>2, <2>3, FinishStores
<1>11. CASE r.task[1] \notin graph.after
  <2>1. /\ Put(Checkpoint(c, "step", MergedState(c), next))
        /\ Proceed(c, MergedState(c), {route}, made + 1)
    BY <1>3, <1>11, SyncPuts DEF next, route
  <2>2. [state |-> MergedState(c), next |-> next] \in Places' =>
           \A d \in Calls : call'[d] = call[d] \/ Sound(call'[d], graph, Places')
    BY <1>1, <1>6, <2>1, ProceedSound DEF next
  <2> QED
    BY <1>2, <1>8, <1>9, <2>1, <2>2, FinishStores
<1> QED
  BY <1>10, <1>11

LEMMA FinishParallelWalks ==
  ASSUME TypeOK, WalkInv, Kept, NEW c \in Calls, FinishParallel(c)
  PROVE  WalkInv' /\ Walks
<1>1. ConfigTyped /\ CallTyped
  BY TypeParts
<1>2. call[c].pc = "exec" /\ call[c].todo = {} /\ ~call[c].broken /\ UNCHANGED config
  BY DEF FinishParallel, Merging
<1>3. ExecSound(call[c], graph, Places)
  BY <1>2, ExecFacts
<1> DEFINE routes == {r.route : r \in call[c].got}
           next == Names(routes)
           Of(n) == CHOOSE r \in call[c].got : r.task = <<n, FALSE>>
           lead == [n \in call[c].cur |-> Of(n).route.to]
<1>4. /\ Put(Checkpoint(c, "parallel", MergedState(c), next))
      /\ Proceed(c, MergedState(c), routes, made + 1)
  BY DEF FinishParallel
<1>5. ASSUME NEW r \in call[c].got
      PROVE  \E n \in call[c].cur :
                /\ r = Of(n) /\ r.route \in graph.edges[n] \cup graph.gotos[n]
                /\ r.route.to \in SUBSET (Nodes \cup {END}) /\ ~r.route.send
  <2>1. PICK n \in call[c].cur :
          /\ n \in Nodes /\ r.task = <<n, FALSE>>
          /\ r.route \in graph.edges[n] \cup graph.gotos[n]
    BY <1>2, ResultRoutes
  <2>2. r = Of(n)
    BY <1>3, <2>1 DEF ExecSound
  <2> QED
    BY <1>1, <2>1, <2>2, KeptRoutes
<1>6. ASSUME NEW n \in call[c].cur
      PROVE  /\ Of(n) \in call[c].got
             /\ Of(n).route \in graph.edges[n] \cup graph.gotos[n]
             /\ Of(n).route.to \in SUBSET (Nodes \cup {END})
  <2>1. Of(n) \in call[c].got /\ Of(n).task = <<n, FALSE>>
    BY <1>2, <1>3 DEF ExecSound
  <2>2. PICK m \in call[c].cur :
          /\ m \in Nodes /\ Of(n).task = <<m, FALSE>>
          /\ Of(n).route \in graph.edges[m] \cup graph.gotos[m]
    BY <1>2, <2>1, ResultRoutes
  <2>3. m = n
    BY <2>1, <2>2
  <2> QED
    BY <1>1, <2>1, <2>2, <2>3, KeptRoutes
<1> HIDE DEF Of
<1>7. next = UNION {lead[n] : n \in call[c].cur}
  <2>1. \A n \in call[c].cur : lead[n] = Of(n).route.to
    OBVIOUS
  <2> HIDE DEF lead
  <2>2. ASSUME NEW x \in next PROVE x \in UNION {lead[n] : n \in call[c].cur}
    <3>1. PICK r \in call[c].got : x \in r.route.to
      BY DEF Names
    <3> QED
      BY <1>5, <2>1, <3>1
  <2>3. ASSUME NEW n \in call[c].cur, NEW x \in lead[n] PROVE x \in next
    BY <1>6, <2>1, <2>3 DEF Names
  <2> HIDE DEF next
  <2> QED
    BY <2>2, <2>3
<1>8. /\ lead \in [call[c].cur -> SUBSET (Nodes \cup {END})]
      /\ \A n \in call[c].cur :
            \E x \in graph.edges[n] \cup graph.gotos[n] : lead[n] = x.to
  BY <1>6
<1>9. \A x \in routes : ~x.send /\ x.to \in SUBSET (Nodes \cup {END})
  BY <1>5
<1> HIDE DEF lead, routes
<1>10. [state |-> MergedState(c), next |-> next] \in Places' =>
          \A d \in Calls : call'[d] = call[d] \/ Sound(call'[d], graph, Places')
  BY <1>1, <1>4, <1>9, ProceedSound
<1>11. "parallel" \in Kinds
  BY DEF Kinds
<1> HIDE DEF next
<1> QED
  BY <1>2, <1>4, <1>7, <1>8, <1>10, <1>11, FinishStores

LEMMA FinishResumedWalks ==
  ASSUME TypeOK, WalkInv, Kept, NEW c \in Calls, FinishResumed(c)
  PROVE  WalkInv' /\ Walks
<1>1. ConfigTyped /\ CallTyped
  BY TypeParts
<1>2. call[c].pc = "exec" /\ call[c].todo = {} /\ ~call[c].broken /\ UNCHANGED config
  BY DEF FinishResumed, Merging
<1>3. /\ ExecSound(call[c], graph, Places) /\ call[c].mode = "resume"
      /\ call[c] \in CallType
  BY <1>2, ExecFacts DEF FinishResumed, Merging
<1>4. PICK r \in call[c].got :
        LET next == IF Chosen(r).send THEN {SendObject} ELSE Chosen(r).to
        IN \/ /\ call' = [call EXCEPT ![c] = Stop(c, "failed")]
              /\ UNCHANGED checkpoints
           \/ /\ Put(Checkpoint(c, "resumed", MergedState(c), next))
              /\ call' = [call EXCEPT ![c].pc = "loop", ![c].cur = next, ![c].got = {},
                                      ![c].state = MergedState(c),
                                      ![c].parent = made + 1, ![c].answers = 0]
  BY DEF FinishResumed
<1>5. PICK n \in call[c].cur :
        /\ n \in Nodes /\ r.task[1] = n /\ Chosen(r) \in graph.edges[n] \cup graph.gotos[n]
  BY <1>2, ResultRoutes
<1>6. call[c].cur = {n}
  <2>1. \A m, k \in call[c].cur : m = k
    BY <1>3 DEF ExecSound
  <2> QED
    BY <2>1
<1> DEFINE route == Chosen(r)
           next == route.to
           lead == [m \in {n} |-> next]
           x == [call[c] EXCEPT !.pc = "loop", !.cur = next, !.got = {},
                                !.state = MergedState(c),
                                !.parent = made + 1, !.answers = 0]
<1>7. next \in SUBSET (Nodes \cup {END}) /\ ~route.send
  BY <1>1, <1>5, KeptRoutes
<1>8. CASE call' = [call EXCEPT ![c] = Stop(c, "failed")] /\ UNCHANGED checkpoints
  BY <1>1, <1>2, <1>8, StopSound, Moved
<1>9. CASE /\ Put(Checkpoint(c, "resumed", MergedState(c), next))
           /\ call' = [call EXCEPT ![c].pc = "loop", ![c].cur = next, ![c].got = {},
                                   ![c].state = MergedState(c),
                                   ![c].parent = made + 1, ![c].answers = 0]
  <2>1. call' = [call EXCEPT ![c] = x]
    BY <1>1, <1>9 DEF CallTyped
  <2>2. x.pc = "loop" /\ x.cur = next /\ x.got = {} /\ x.state = MergedState(c)
    BY <1>3 DEF CallType
  <2> HIDE DEF x
  <2>3. START \notin next
    BY <1>7, NodesAssumption
  <2>4. [state |-> MergedState(c), next |-> next] \in Places' =>
           Sound(x, graph, Places')
    BY <1>7, <2>2, <2>3 DEF Sound, LoopSound
  <2>5. [state |-> MergedState(c), next |-> next] \in Places' =>
           \A d \in Calls : call'[d] = call[d] \/ Sound(call'[d], graph, Places')
    BY <1>1, <2>1, <2>4 DEF CallTyped
  <2>6. /\ lead \in [call[c].cur -> SUBSET (Nodes \cup {END})]
        /\ next = UNION {lead[m] : m \in call[c].cur}
        /\ \A m \in call[c].cur :
              \E y \in graph.edges[m] \cup graph.gotos[m] : lead[m] = y.to
    <3> HIDE DEF route
    <3>1. next = route.to /\ route \in graph.edges[n] \cup graph.gotos[n]
      BY <1>5 DEF route
    <3> HIDE DEF next
    <3> QED
      BY <1>6, <1>7, <3>1
  <2>7. "resumed" \in Kinds /\ "resumed" \notin {"before", "after", "inside"}
    BY DEF Kinds
  <2> HIDE DEF lead, next, route
  <2> QED
    BY <1>2, <1>9, <2>5, <2>6, <2>7, FinishStores
<1> QED
  BY <1>4, <1>7, <1>8, <1>9

LEMMA ReturnWalks ==
  ASSUME TypeOK, WalkInv, Kept, NEW c \in Calls, Return(c)
  PROVE  WalkInv' /\ Walks
<1>1. UNCHANGED <<stored, pending>>
  BY DEF Kept, Return
<1>2. UNCHANGED <<config, checkpoints>> /\ call' = [call EXCEPT ![c] = IdleCall]
  BY <1>1 DEF Return, checkpoints
<1>3. Sound(IdleCall, graph, Places)
  BY StopSound DEF TypeOK, CallTyped
<1> QED
  BY <1>2, <1>3, Moved

LEMMA UpdateWalks ==
  ASSUME TypeOK, WalkInv, Kept, UpdateState
  PROVE  WalkInv' /\ Walks
<1> DEFINE cp == [Latest EXCEPT !.edited = TRUE, !.at = made + 1, !.parent = Latest.at]
<1>1. Latest \in ToSet(stored) /\ Latest \in CheckpointType
  BY LatestIsStored DEF UpdateState
<1>2. cp \in CheckpointType
  <2> DEFINE last == Latest
             at == made + 1
  <2>1. last \in CheckpointType /\ at \in Nat
    BY <1>1 DEF TypeOK
  <2> HIDE DEF last, at
  <2>2. [last EXCEPT !.edited = TRUE, !.at = at, !.parent = last.at] \in CheckpointType
    BY <2>1 DEF CheckpointType
  <2> QED
    BY <2>2 DEF last, at
<1>3. Place(cp) = Place(Latest) /\ cp.next = Latest.next /\ cp.kind = Latest.kind
  BY <1>1 DEF Place, CheckpointType
<1>4. Put(cp) /\ UNCHANGED <<config, call>>
  BY DEF UpdateState
<1> HIDE DEF cp
<1>5. CheckpointSound(cp)
  BY <1>1, <1>3 DEF WalkInv, CheckpointSound
<1>6. Place(cp) \in Places
  BY <1>1, <1>3, StoredPlaces
<1> QED
  BY <1>2, <1>4, <1>5, <1>6, Stored

LEMMA CrashWalks ==
  ASSUME TypeOK, WalkInv, Kept, Crash
  PROVE  WalkInv' /\ Walks
<1>1. UNCHANGED config /\ Kept' /\ graph' = graph
  BY KeptStays DEF Crash, config
<1>2. writing' = [c \in Calls |-> {}] /\ call' = [c \in Calls |-> IdleCall]
  BY DEF Crash
<1>3. \A c \in Calls : Sound(call'[c], graph', Places')
  BY <1>2 DEF Sound, IdleCall
<1>4. CASE saver = "sqlite"
  <2>1. stored' = stored
    BY <1>4 DEF Crash
  <2>2. Saved' = Saved
    BY <1>1, <2>1 DEF Saved
  <2>3. \A cp \in ToSet(stored') : CheckpointSound(cp)
    BY <2>1 DEF WalkInv
  <2> QED
    BY <1>2, <1>3, <2>2, <2>3 DEF WalkInv, Walks
<1>5. CASE saver # "sqlite"
  <2>1. stored' = <<>> /\ saver = "memory"
    BY <1>5, TypeParts, GraphTyped DEF Crash
  <2>2. ToSet(stored') = {}
    BY <2>1 DEF ToSet
  <2>3. Saved' = {}
    BY <2>2 DEF Saved
  <2>4. Walk!Next
    BY <2>1, <2>3 DEF Walk!Next, Walk!Forget
  <2> QED
    BY <1>2, <1>3, <2>2, <2>4 DEF WalkInv, Walks
<1> QED
  BY <1>4, <1>5

LEMMA NextWalks ==
  ASSUME TypeOK, WalkInv, [Next]_vars
  PROVE  WalkInv' /\ [Walk!Next]_Saved
<1>1. CASE ~Kept
  <2>1. UNCHANGED config
    BY ConfigStands
  <2>2. ~Kept'
    BY <1>1, <2>1, KeptStays
  <2> QED
    BY <1>1, <2>2 DEF WalkInv, Saved
<1>2. CASE Kept
  <2>1. CASE \E c \in Calls : Invoke(c) \/ Advance(c) \/ Fail(c) \/ Write(c)
    <3>1. PICK c \in Calls : Invoke(c) \/ Advance(c) \/ Fail(c) \/ Write(c)
      BY <2>1
    <3>2. ~Write(c)
      BY <1>2 DEF WalkInv, Write
    <3>3. ~FinishSends(c)
      <4>1. call[c].pc = "exec" => call[c].mode # "send"
        BY <1>2, ExecFacts DEF ExecSound
      <4> QED
        BY <4>1 DEF FinishSends, Merging
    <3> QED
      BY <1>2, <3>1, <3>2, <3>3, InvokeWalks, LoopWalks, SucceedWalks, FailWalks,
         FinishNodeWalks, FinishParallelWalks, FinishResumedWalks, ReturnWalks
         DEF Advance, Walks
  <2>2. CASE UpdateState \/ Crash
    BY <1>2, <2>2, UpdateWalks, CrashWalks DEF Walks
  <2>3. CASE UNCHANGED vars
    <3>1. UNCHANGED <<config, checkpoints, call>>
      BY <2>3 DEF vars
    <3>2. Saved' = Saved
      BY <3>1, KeptStays DEF Saved, checkpoints
    <3>3. graph' = graph /\ Places \subseteq Places'
      BY <3>1, <3>2, PlacesGrow DEF config
    <3>4. \A c \in Calls : Sound(call'[c], graph', Places')
      BY <1>2, <3>1, <3>3, MorePlaces DEF WalkInv
    <3> QED
      BY <1>2, <3>1, <3>2, <3>4 DEF WalkInv, checkpoints
  <2> QED
    BY <2>1, <2>2, <2>3 DEF Next
<1> QED
  BY <1>1, <1>2

LEMMA InitWalks == Init => WalkInv /\ Walk!Init
<1> SUFFICES ASSUME Init PROVE WalkInv /\ Walk!Init
  OBVIOUS
<1>1. ToSet(stored) = {}
  BY DEF Init, ToSet
<1>2. Saved = {}
  BY <1>1 DEF Saved
<1>3. \A c \in Calls : Sound(call[c], graph, Places)
  BY DEF Init, Sound, IdleCall
<1> QED
  BY <1>1, <1>2, <1>3 DEF Init, WalkInv, Walk!Init

(* Under "sync" the checkpoints of any graph without Sends, and without a   *)
(* fork behind an interrupt_after, are a walk of the graph: whatever nodes  *)
(* fail, ask or are tried again, whichever invocations overlap, start from  *)
(* old checkpoints, edit or crash (state_graph.py 433-460, 545-838,         *)
(* 1282-1420).                                                              *)
THEOREM CheckpointsWalk == Spec => ImplementsWalk
<1>1. Init => TypeOK /\ WalkInv /\ Walk!Init
  BY InitTyped, InitWalks
<1>2. TypeOK /\ WalkInv /\ [Next]_vars => (TypeOK /\ WalkInv)' /\ [Walk!Next]_Saved
  BY NextTyped, NextWalks
<1> QED
  BY <1>1, <1>2, PTL DEF Spec, ImplementsWalk, Walk!Spec
-----------------------------------------------------------------------------
(* The history of a thread.                                                 *)

(* Prefixes, by their elements.                                             *)
LEMMA PrefixElements ==
  ASSUME NEW T, NEW s \in Seq(T), NEW t \in Seq(T)
  PROVE  IsPrefix(s, t) <=> Len(s) <= Len(t) /\ \A i \in 1..Len(s) : s[i] = t[i]
<1>1. Len(s) \in Nat /\ Len(t) \in Nat
  BY LenProperties
<1>2. ASSUME Len(s) <= Len(t)
      PROVE  SubSeq(s, 1, Len(s)) = SubSeq(t, 1, Len(s)) <=> \A i \in 1..Len(s) : s[i] = t[i]
  <2> DEFINE n == Len(s)
             a == SubSeq(s, 1, n)
             b == SubSeq(t, 1, n)
  <2>1. a = s
    BY SubSeqFull
  <2>2. \A i \in 1..n : i \in 1..Len(t)
    BY <1>1, <1>2
  <2>3. /\ b \in Seq(T) /\ Len(b) = n
        /\ \A i \in 1..n : b[i] = t[i]
    BY <1>1, <2>2, SubSeqProperties
  <2>4. (\A i \in 1..n : s[i] = b[i]) => s = b
    <3> HIDE DEF b
    <3> QED
      BY <2>3, SeqEqual
  <2> QED
    BY <2>1, <2>3, <2>4
<1> QED
  BY <1>2 DEF IsPrefix

LEMMA PrefixSame ==
  ASSUME NEW T, NEW s \in Seq(T)
  PROVE  IsPrefix(s, s)
<1>1. Len(s) \in Nat
  BY LenProperties
<1> QED
  BY <1>1, PrefixElements

LEMMA PrefixOfPrefix ==
  ASSUME NEW T, NEW s \in Seq(T), NEW t \in Seq(T), NEW u \in Seq(T),
         IsPrefix(s, t), IsPrefix(t, u)
  PROVE  IsPrefix(s, u)
<1>1. Len(s) \in Nat /\ Len(t) \in Nat /\ Len(u) \in Nat
  BY LenProperties
<1>2. /\ Len(s) <= Len(t) /\ \A i \in 1..Len(s) : s[i] = t[i]
      /\ Len(t) <= Len(u) /\ \A i \in 1..Len(t) : t[i] = u[i]
  BY PrefixElements
<1>3. \A i \in 1..Len(s) : i \in 1..Len(t)
  BY <1>1, <1>2
<1>4. Len(s) <= Len(u)
  BY <1>1, <1>2
<1>5. \A i \in 1..Len(s) : s[i] = u[i]
  BY <1>2, <1>3
<1> QED
  BY <1>4, <1>5, PrefixElements

LEMMA PrefixOfAppend ==
  ASSUME NEW T, NEW s \in Seq(T), NEW x \in T
  PROVE  IsPrefix(s, Append(s, x))
<1>1. Len(s) \in Nat
  BY LenProperties
<1> DEFINE t == Append(s, x)
<1>2. /\ t \in Seq(T) /\ Len(t) = Len(s) + 1
      /\ \A i \in 1..Len(s) : t[i] = s[i]
  BY AppendProperties
<1> HIDE DEF t
<1>3. Len(s) <= Len(t)
  BY <1>1, <1>2
<1>4. IsPrefix(s, t)
  BY <1>2, <1>3, PrefixElements
<1> QED
  BY <1>4 DEF t
-----------------------------------------------------------------------------
Busy(c) == call[c].pc # "idle"

Executes(c) == call[c].pc \in {"loop", "exec"}

(* The checkpoints that are stored or will be.                              *)
Made == ToSet(stored) \cup UNION {writing[c] : c \in Calls}

(* One invocation at a time executes, and only its checkpoints wait for the *)
(* executor.                                                                *)
AtATime ==
    /\ \A c, d \in Calls : Busy(c) /\ Busy(d) => c = d
    /\ \A c \in Calls : writing[c] # {} => Busy(c) /\ durability = "async"

(* A checkpoint extends those made before it, and what executes extends all.*)
InLine ==
    /\ \A x \in Made : x.at <= made
    /\ \A x, y \in Made : x.at <= y.at => IsPrefix(x.state, y.state)
    /\ \A c \in Calls : Executes(c) => \A x \in Made : IsPrefix(x.state, call[c].state)

(* MemorySaver's latest is the newest.                                      *)
LastIsNewest == saver = "memory" => \A x \in ToSet(stored) : x.at <= Head(stored).at

Line == AtATime /\ InLine /\ LastIsNewest

LineInv == KeepsOrder /\ ~forked => Line

LEMMA MadeTyped ==
  ASSUME TypeOK
  PROVE  Made \subseteq CheckpointType
<1>1. ToSet(stored) \subseteq CheckpointType
  BY SeqIsFinite DEF TypeOK
<1> QED
  BY <1>1 DEF Made, TypeOK

(* The latest is the newest of what is stored.                              *)
LEMMA LatestIsNewestStored ==
  ASSUME TypeOK, LastIsNewest, stored # <<>>
  PROVE  Latest \in ToSet(stored) /\ \A x \in ToSet(stored) : x.at <= Latest.at
<1>1. stored \in Seq(CheckpointType)
  BY DEF TypeOK
<1>2. IsFiniteSet(ToSet(stored)) /\ ToSet(stored) \subseteq CheckpointType /\ ToSet(stored) # {}
  BY <1>1, SeqIsFinite
<1>3. \A cp \in ToSet(stored) : cp.at \in Nat
  BY <1>2 DEF CheckpointType
<1>4. \A x \in ToSet(stored) : x.at <= Newest(ToSet(stored)).at
  BY <1>2, <1>3, NewestExists
<1>5. saver \in {"memory", "sqlite"}
  BY TypeParts, GraphTyped
<1> QED
  BY <1>4, <1>5, LatestIsStored DEF LastIsNewest, Latest

(* When nothing is executed nothing waits, and the latest extends all.      *)
LEMMA IdleLine ==
  ASSUME TypeOK, Line, \A c \in Calls : ~Busy(c)
  PROVE  /\ Made = ToSet(stored)
         /\ stored # <<>> => \A x \in Made : IsPrefix(x.state, Latest.state)
<1>1. \A c \in Calls : writing[c] = {}
  BY DEF Line, AtATime
<1>2. Made = ToSet(stored)
  BY <1>1 DEF Made
<1>3. ASSUME stored # <<>>, NEW x \in Made
      PROVE  IsPrefix(x.state, Latest.state)
  <2>1. Latest \in Made /\ x.at <= Latest.at
    BY <1>2, <1>3, LatestIsNewestStored DEF Line
  <2> QED
    BY <2>1 DEF Line, InLine
<1> QED
  BY <1>2, <1>3
-----------------------------------------------------------------------------
(* An invocation goes on from the latest checkpoint, with no other beside.  *)
LEMMA EnterLine ==
  ASSUME TypeOK, Line, NEW c \in Calls, NEW x \in CallType,
         call' = [call EXCEPT ![c] = x],
         UNCHANGED <<config, checkpoints>>,
         \A d \in Calls : ~Busy(d),
         \A y \in Made : IsPrefix(y.state, x.state)
  PROVE  Line'
<1>1. \A d \in Calls : call'[d] = IF d = c THEN x ELSE call[d]
  BY DEF TypeOK
<1>2. \A d \in Calls : writing[d] = {}
  BY DEF Line, AtATime
<1>3. Made' = Made /\ saver' = saver /\ stored' = stored /\ made' = made /\ writing' = writing
  BY DEF Made, config, checkpoints
<1>4. AtATime'
  BY <1>1, <1>2, <1>3 DEF AtATime, Busy
<1>5. InLine'
  BY <1>1, <1>3 DEF Line, InLine, Busy, Executes
<1>6. LastIsNewest'
  BY <1>3 DEF Line, LastIsNewest
<1> QED
  BY <1>4, <1>5, <1>6 DEF Line

(* Steps that make no checkpoint.                                           *)
LEMMA GoesOnLine ==
  ASSUME TypeOK, Line, NEW c \in Calls, Busy(c), NEW x \in CallType,
         call' = [call EXCEPT ![c] = x],
         UNCHANGED <<config, checkpoints>>,
         x.pc = "idle" => writing[c] = {},
         x.pc \in {"loop", "exec"} => Executes(c) /\ IsPrefix(call[c].state, x.state)
  PROVE  Line'
<1>1. \A d \in Calls : call'[d] = IF d = c THEN x ELSE call[d]
  BY DEF TypeOK
<1>2. Made' = Made /\ saver' = saver /\ stored' = stored /\ made' = made /\ writing' = writing
      /\ durability' = durability
  BY DEF Made, config, checkpoints
<1>3. AtATime'
  BY <1>1, <1>2 DEF Line, AtATime, Busy
<1>4. x.pc \in {"loop", "exec"} => \A y \in Made : IsPrefix(y.state, x.state)
  <2> SUFFICES ASSUME x.pc \in {"loop", "exec"}, NEW y \in Made
               PROVE  IsPrefix(y.state, x.state)
    OBVIOUS
  <2>1. y.state \in Seq(Merged) /\ call[c].state \in Seq(Merged) /\ x.state \in Seq(Merged)
    BY MadeTyped DEF TypeOK, CallType, CheckpointType
  <2>2. IsPrefix(y.state, call[c].state)
    BY DEF Line, InLine
  <2> QED
    BY <2>1, <2>2, PrefixOfPrefix
<1>5. InLine'
  BY <1>1, <1>2, <1>4 DEF Line, InLine, Executes
<1>6. LastIsNewest'
  BY <1>2 DEF Line, LastIsNewest
<1> QED
  BY <1>3, <1>5, <1>6 DEF Line

(* A checkpoint is made, which extends those that were made before it.      *)
LEMMA AddsToLine ==
  ASSUME TypeOK, Line, NEW cp \in CheckpointType, cp.at = made + 1,
         made' = made + 1, UNCHANGED config, AtATime',
         Made' = Made \cup {cp},
         stored' = <<cp>> \o stored \/ (stored' = stored /\ saver # "memory"),
         \A y \in Made : IsPrefix(y.state, cp.state),
         \A d \in Calls : Executes(d)' => \A y \in Made' : IsPrefix(y.state, call'[d].state)
  PROVE  Line'
<1>1. made \in Nat /\ \A y \in Made : y.at \in Nat /\ y.at <= made
  BY MadeTyped DEF TypeOK, CheckpointType, Line, InLine
<1>2. IsPrefix(cp.state, cp.state)
  BY PrefixSame DEF CheckpointType
<1>3. \A y \in Made' : y.at <= made'
  BY <1>1
<1>4. ASSUME NEW y \in Made', NEW z \in Made', y.at <= z.at
      PROVE  IsPrefix(y.state, z.state)
  <2>1. CASE z = cp
    BY <1>2, <2>1
  <2>2. CASE z # cp
    <3>1. z \in Made /\ y # cp
      BY <1>1, <1>4, <2>2
    <3> QED
      BY <1>4, <3>1 DEF Line, InLine
  <2> QED
    BY <2>1, <2>2
<1>5. InLine'
  BY <1>3, <1>4 DEF InLine
<1>6. LastIsNewest'
  <2> SUFFICES ASSUME saver = "memory"
               PROVE  \A y \in ToSet(stored') : y.at <= Head(stored').at
    BY DEF LastIsNewest, config
  <2>1. stored' = <<cp>> \o stored /\ stored \in Seq(CheckpointType)
    BY DEF TypeOK
  <2>2. stored' \in Seq(CheckpointType) /\ ToSet(stored') = ToSet(stored) \cup {cp}
    BY <2>1, PutAdds
  <2>3. Head(stored') = cp
    BY <2>1
  <2>4. \A y \in ToSet(stored) : y \in Made
    BY DEF Made
  <2> QED
    BY <1>1, <2>2, <2>3, <2>4
<1> QED
  BY <1>5, <1>6 DEF Line

LEMMA PutsInLine ==
  ASSUME TypeOK, Line, KeepsOrder, NEW c \in Calls, Executes(c), NEW x \in CallType,
         NEW cp \in CheckpointType, cp.at = made + 1,
         Put(cp) \/ PutDurably(c, cp), UNCHANGED config,
         call' = [call EXCEPT ![c] = x], x.pc # "idle",
         IsPrefix(call[c].state, cp.state),
         x.pc \in {"loop", "exec"} => IsPrefix(cp.state, x.state)
  PROVE  Line'
<1>1. \A d \in Calls : call'[d] = IF d = c THEN x ELSE call[d]
  BY DEF TypeOK
<1>2. durability \in {"sync", "async"} /\ (durability = "async" => saver # "memory")
  BY DEF KeepsOrder
<1>3. stored \in Seq(CheckpointType) /\ writing \in [Calls -> SUBSET CheckpointType]
  BY DEF TypeOK
<1>4. \/ /\ stored' = <<cp>> \o stored /\ writing' = writing
      \/ /\ stored' = stored /\ writing' = [writing EXCEPT ![c] = @ \cup {cp}]
         /\ durability = "async" /\ saver # "memory"
  BY <1>2 DEF Put, PutDurably
<1>5. Made' = Made \cup {cp}
  <2>1. CASE stored' = <<cp>> \o stored /\ writing' = writing
    <3>1. ToSet(stored') = ToSet(stored) \cup {cp}
      BY <1>3, <2>1, PutAdds
    <3> QED
      BY <2>1, <3>1 DEF Made
  <2>2. CASE stored' = stored /\ writing' = [writing EXCEPT ![c] = @ \cup {cp}]
    <3>1. \A d \in Calls : writing'[d] = IF d = c THEN writing[c] \cup {cp} ELSE writing[d]
      BY <1>3, <2>2
    <3>2. ASSUME NEW y PROVE y \in Made' <=> y \in Made \cup {cp}
      <4>1. y \in Made' <=> y \in ToSet(stored) \/ \E d \in Calls : y \in writing'[d]
        BY <2>2, Zenon DEF Made
      <4>2. y \in Made <=> y \in ToSet(stored) \/ \E d \in Calls : y \in writing[d]
        BY Zenon DEF Made
      <4>3. (\E d \in Calls : y \in writing'[d]) <=> y = cp \/ \E d \in Calls : y \in writing[d]
        BY <3>1
      <4> QED
        BY <4>1, <4>2, <4>3
    <3> QED
      BY <3>2
  <2> QED
    BY <1>4, <2>1, <2>2
<1>6. AtATime'
  <2>1. durability' = durability
    BY DEF config
  <2>2. \A d \in Calls : writing'[d] = writing[d] \/ (d = c /\ durability = "async")
    BY <1>3, <1>4
  <2> QED
    BY <1>1, <2>1, <2>2 DEF Line, AtATime, Busy, Executes
<1>7. /\ cp.state \in Seq(Merged) /\ x.state \in Seq(Merged) /\ call[c].state \in Seq(Merged)
      /\ \A y \in Made : y.state \in Seq(Merged) /\ IsPrefix(y.state, call[c].state)
  BY MadeTyped DEF TypeOK, CallType, CheckpointType, Line, InLine
<1>8. \A y \in Made : IsPrefix(y.state, cp.state)
  BY <1>7, PrefixOfPrefix
<1>9. x.pc \in {"loop", "exec"} => \A y \in Made' : IsPrefix(y.state, x.state)
  BY <1>5, <1>7, <1>8, PrefixOfPrefix
<1>10. \A d \in Calls : Executes(d)' => d = c /\ x.pc \in {"loop", "exec"}
  BY <1>1 DEF Line, AtATime, Busy, Executes
<1>11. made' = made + 1
  BY DEF Put, PutDurably
<1> QED
  BY <1>1, <1>4, <1>5, <1>6, <1>8, <1>9, <1>10, <1>11, AddsToLine

LEMMA InvokeInLine ==
  ASSUME TypeOK, Line, NEW c \in Calls, Invoke(c), ~forked'
  PROVE  Line'
<1> DEFINE x == call'[c]
<1>1. TypeOK' /\ x \in CallType
  BY InvokeTyped DEF TypeOK
<1>2. /\ call' = [call EXCEPT ![c] = x] /\ UNCHANGED <<config, checkpoints>>
      /\ \A d \in Calls : ~Busy(d)
      /\ \/ stored = <<>>
         \/ /\ stored # <<>>
            /\ x.state = Latest.state \/ x.state = Append(Latest.state, Input)
  <2>1. ASSUME NEW y, NEW cp \in ToSet(stored), MayEnter(c), Enter(c, y, cp),
               y.state = cp.state \/ y.state = Append(cp.state, Input)
        PROVE  /\ call' = [call EXCEPT ![c] = x] /\ UNCHANGED <<config, checkpoints>>
               /\ \A d \in Calls : ~Busy(d)
               /\ stored # <<>>
               /\ x.state = Latest.state \/ x.state = Append(Latest.state, Input)
    <3>1. cp = Latest /\ call' = [call EXCEPT ![c] = y] /\ x = y
      BY <2>1 DEF Enter, TypeOK
    <3>2. stored # <<>>
      BY <2>1 DEF ToSet
    <3> QED
      BY <2>1, <3>1, <3>2 DEF Enter, MayEnter, Busy
  <2>2. CASE InvokeFresh(c)
    BY <2>2 DEF InvokeFresh, MayEnter, Busy, TypeOK
  <2>3. CASE InvokeInput(c)
    <3>1. PICK cp \in ToSet(stored) :
            Enter(c, Entering(c, Append(cp.state, Input),
                              IF END \in cp.next THEN {START} ELSE cp.next, cp.at), cp)
      BY <2>3 DEF InvokeInput
    <3>2. MayEnter(c)
      BY <2>3 DEF InvokeInput
    <3> QED
      BY <2>1, <3>1, <3>2 DEF Entering, IdleCall
  <2>4. CASE InvokeNone(c)
    <3>1. PICK cp \in ToSet(stored) : Enter(c, Entering(c, cp.state, cp.next, cp.at), cp)
      BY <2>4 DEF InvokeNone
    <3>2. MayEnter(c)
      BY <2>4 DEF InvokeNone
    <3> QED
      BY <2>1, <3>1, <3>2 DEF Entering, IdleCall
  <2>5. CASE \E answers \in 1..2 : InvokeCommand(c, answers)
    <3>1. PICK answers \in 1..2 : InvokeCommand(c, answers)
      BY <2>5
    <3>2. PICK cp \in ToSet(stored) :
            LET context == [Entering(c, cp.state, cp.next, cp.at) EXCEPT !.command = TRUE]
            IN \/ Enter(c, context, cp)
               \/ \E n \in cp.next \cap Nodes :
                    Enter(c, [context EXCEPT !.pc = "exec", !.mode = "resume",
                                             !.todo = {<<<<n, FALSE>>, 1>>},
                                             !.answers = answers], cp)
      BY <3>1 DEF InvokeCommand
    <3>3. MayEnter(c)
      BY <3>1 DEF InvokeCommand
    <3> DEFINE context == [Entering(c, cp.state, cp.next, cp.at) EXCEPT !.command = TRUE]
               Resumed(n) == [context EXCEPT !.pc = "exec", !.mode = "resume",
                                             !.todo = {<<<<n, FALSE>>, 1>>},
                                             !.answers = answers]
    <3>4. context.state = cp.state /\ \A n : Resumed(n).state = cp.state
      BY DEF Entering, IdleCall
    <3>5. Enter(c, context, cp) \/ \E n \in cp.next \cap Nodes : Enter(c, Resumed(n), cp)
      BY <3>2
    <3> HIDE DEF context, Resumed
    <3> QED
      BY <2>1, <3>3, <3>4, <3>5
  <2> QED
    BY <2>2, <2>3, <2>4, <2>5 DEF Invoke
<1>3. \A y \in Made : IsPrefix(y.state, x.state)
  <2>1. CASE stored = <<>>
    <3>1. ToSet(stored) = {}
      BY <2>1 DEF ToSet
    <3>2. Made = {}
      BY <1>2, <3>1, IdleLine
    <3> QED
      BY <3>2
  <2>2. CASE stored # <<>>
    <3>1. \A y \in Made : y.state \in Seq(Merged) /\ IsPrefix(y.state, Latest.state)
      BY <1>2, <2>2, IdleLine, MadeTyped DEF CheckpointType
    <3>2. Latest.state \in Seq(Merged) /\ x.state \in Seq(Merged)
      BY <1>1, <2>2, LatestIsStored DEF CheckpointType, CallType
    <3>3. Input \in Merged
      BY DEF Merged
    <3>4. IsPrefix(Latest.state, x.state)
      <4>1. IsPrefix(Latest.state, Latest.state)
        BY <3>2, PrefixSame
      <4>2. IsPrefix(Latest.state, Append(Latest.state, Input))
        BY <3>2, <3>3, PrefixOfAppend
      <4> QED
        BY <1>2, <2>2, <4>1, <4>2
    <3> QED
      BY <3>1, <3>2, <3>4, PrefixOfPrefix
  <2> QED
    BY <2>1, <2>2
<1> HIDE DEF x
<1> QED
  BY <1>1, <1>2, <1>3, EnterLine

LEMMA StateIsPrefix ==
  ASSUME TypeOK, NEW c \in Calls
  PROVE  /\ call[c].state \in Seq(Merged) /\ MergedState(c) \in Seq(Merged)
         /\ IsPrefix(call[c].state, call[c].state) /\ IsPrefix(call[c].state, MergedState(c))
         /\ IsPrefix(MergedState(c), MergedState(c))
<1>1. call[c].state \in Seq(Merged) /\ call[c].got \in SUBSET Result
  BY DEF TypeOK, CallType
<1>2. MergedState(c) \in Seq(Merged) /\ IsPrefix(call[c].state, MergedState(c))
  BY <1>1, MergedType DEF MergedState
<1> QED
  BY <1>1, <1>2, PrefixSame

(* Steps of a call that make no checkpoint.                                 *)
LEMMA StepInLine ==
  ASSUME TypeOK, Line, NEW c \in Calls, Executes(c), TypeOK',
         UNCHANGED <<config, checkpoints>>,
         NEW x, call' = [call EXCEPT ![c] = x], x.pc # "idle",
         x.state = call[c].state \/ x.state = MergedState(c)
  PROVE  Line'
<1>1. x \in CallType
  <2>1. call'[c] = x /\ call'[c] \in CallType
    BY DEF TypeOK
  <2> QED
    BY <2>1
<1>2. IsPrefix(call[c].state, x.state)
  BY StateIsPrefix
<1>3. Busy(c)
  BY DEF Busy, Executes
<1> QED
  BY <1>1, <1>2, <1>3, GoesOnLine

(* Steps that put a checkpoint, by its state.                               *)
LEMMA PutStepInLine ==
  ASSUME TypeOK, Line, KeepsOrder, NEW c \in Calls, Executes(c), TypeOK', UNCHANGED config,
         NEW kind \in Kinds, NEW next \in SUBSET Targets,
         NEW state, state = call[c].state \/ state = MergedState(c),
         \/ Put(Checkpoint(c, kind, state, next))
         \/ PutDurably(c, Checkpoint(c, kind, state, next)),
         NEW x, call' = [call EXCEPT ![c] = x], x.pc # "idle",
         x.pc # "closing" => x.state = state
  PROVE  Line'
<1>1. x \in CallType
  <2>1. call'[c] = x /\ call'[c] \in CallType
    BY DEF TypeOK
  <2> QED
    BY <2>1
<1>2. /\ state \in Seq(Merged) /\ IsPrefix(call[c].state, state)
      /\ x.pc # "closing" => IsPrefix(state, x.state)
  BY StateIsPrefix
<1>3. Checkpoint(c, kind, state, next) \in CheckpointType
  BY <1>2, CheckpointTyped
<1>4. /\ Checkpoint(c, kind, state, next).at = made + 1
      /\ Checkpoint(c, kind, state, next).state = state
  BY DEF Checkpoint
<1> HIDE DEF Checkpoint
<1> QED
  BY <1>1, <1>2, <1>3, <1>4, PutsInLine

LEMMA LoopInLine ==
  ASSUME TypeOK, Line, KeepsOrder, NEW c \in Calls,
         HitLimit(c) \/ FromStart(c) \/ ReachEnd(c) \/ LookUpSend(c)
           \/ InterruptBefore(c) \/ Begin(c) \/ GiveUp(c)
  PROVE  Line'
<1>1. TypeOK'
  BY LoopTyped
<1>2. Executes(c)
  BY DEF Executes, Looping, HitLimit, FromStart, ReachEnd, LookUpSend, InterruptBefore, Begin, GiveUp
<1>3. \A outcome : Stop(c, outcome).pc # "idle" /\ Stop(c, outcome).state = call[c].state
  BY DEF Stop, TypeOK, CallType
<1>4. call[c] \in CallType
  BY DEF TypeOK
<1>5. CASE HitLimit(c) \/ ReachEnd(c) \/ LookUpSend(c) \/ GiveUp(c)
  <2>1. PICK outcome : call' = [call EXCEPT ![c] = Stop(c, outcome)]
    BY <1>5 DEF HitLimit, ReachEnd, LookUpSend, GiveUp
  <2>2. UNCHANGED <<config, checkpoints>>
    BY <1>5 DEF HitLimit, ReachEnd, LookUpSend, GiveUp
  <2> QED
    BY <1>1, <1>2, <1>3, <2>1, <2>2, StepInLine
<1>6. CASE InterruptBefore(c)
  <2>1. "before" \in Kinds /\ call[c].cur \in SUBSET Targets
    BY <1>4 DEF CallType, Kinds
  <2> QED
    BY <1>1, <1>2, <1>3, <1>6, <2>1, PutStepInLine DEF InterruptBefore
<1>7. CASE FromStart(c)
  <2> DEFINE x == [call[c] EXCEPT !.cur = graph.entry, !.steps = @ + 1]
  <2>1. call' = [call EXCEPT ![c] = x] /\ UNCHANGED <<config, checkpoints>>
    BY <1>7 DEF FromStart, TypeOK
  <2>2. x.pc = call[c].pc /\ x.state = call[c].state
    BY <1>4 DEF CallType
  <2> HIDE DEF x
  <2> QED
    BY <1>1, <1>2, <2>1, <2>2, StepInLine DEF Executes
<1>8. CASE Begin(c)
  <2> DEFINE x == [call[c] EXCEPT !.pc = "exec", !.mode = "nodes",
                                  !.todo = {<<<<n, FALSE>>, 1>> : n \in call[c].cur},
                                  !.steps = @ + 1]
  <2>1. call' = [call EXCEPT ![c] = x] /\ UNCHANGED <<config, checkpoints>>
    BY <1>8 DEF Begin, TypeOK
  <2>2. x.pc = "exec" /\ x.state = call[c].state
    BY <1>4 DEF CallType
  <2> HIDE DEF x
  <2> QED
    BY <1>1, <1>2, <2>1, <2>2, StepInLine
<1> QED
  BY <1>5, <1>6, <1>7, <1>8

LEMMA SucceedInLine ==
  ASSUME TypeOK, Line, NEW c \in Calls, Succeed(c)
  PROVE  Line'
<1>1. TypeOK' /\ call[c] \in CallType
  BY SucceedTyped DEF TypeOK
<1>2. PICK t, result : Done(c, t, result)
  BY DEF Succeed
<1> DEFINE x == [call[c] EXCEPT !.todo = @ \ {t}, !.got = @ \cup {result}]
<1>3. call' = [call EXCEPT ![c] = x] /\ UNCHANGED <<config, checkpoints>> /\ call[c].pc = "exec"
  BY <1>2 DEF Done, TypeOK
<1>4. x.pc = "exec" /\ x.state = call[c].state
  BY <1>1, <1>3 DEF CallType
<1> HIDE DEF x
<1> QED
  BY <1>1, <1>3, <1>4, StepInLine DEF Executes

LEMMA FailInLine ==
  ASSUME TypeOK, Line, KeepsOrder, NEW c \in Calls, Fail(c) \/ Ask(c)
  PROVE  Line'
<1>1. TypeOK' /\ call[c] \in CallType
  BY FailTyped DEF TypeOK
<1>2. call[c].pc = "exec" /\ UNCHANGED config /\ Executes(c)
  BY DEF Fail, Ask, Executes
<1>3. PICK t \in call[c].todo, kind \in Kinds, outcome \in Outcomes :
        TryAgain(c, t) \/ RaiseAlone(c, t, kind, outcome) \/ RaiseAmong(c, t)
  <2>1. /\ "failed" \in Kinds /\ "inside" \in Kinds
        /\ "failed" \in Outcomes /\ "interrupted" \in Outcomes
    BY DEF Kinds, Outcomes
  <2>2. CASE Fail(c)
    <3>1. PICK t \in call[c].todo :
            TryAgain(c, t) \/ RaiseAlone(c, t, "failed", "failed") \/ RaiseAmong(c, t)
      BY <2>2 DEF Fail
    <3> QED
      BY <2>1, <3>1
  <2>3. CASE Ask(c)
    <3>1. PICK t \in call[c].todo :
            TryAgain(c, t) \/ RaiseAlone(c, t, "inside", "interrupted") \/ RaiseAmong(c, t)
      BY <2>3 DEF Ask
    <3> QED
      BY <2>1, <3>1
  <2> QED
    BY <2>2, <2>3
<1>4. CASE TryAgain(c, t)
  <2> DEFINE x == [call[c] EXCEPT !.todo = (@ \ {t}) \cup {<<t[1], t[2] + 1>>}]
  <2>1. call' = [call EXCEPT ![c] = x] /\ UNCHANGED <<config, checkpoints>>
    BY <1>2, <1>4 DEF TryAgain, TypeOK
  <2>2. x.pc = "exec" /\ x.state = call[c].state
    BY <1>1, <1>2 DEF CallType
  <2> HIDE DEF x
  <2> QED
    BY <1>1, <1>2, <2>1, <2>2, StepInLine
<1>5. CASE RaiseAmong(c, t)
  <2> DEFINE x == [call[c] EXCEPT !.todo = @ \ {t}, !.broken = TRUE]
  <2>1. call' = [call EXCEPT ![c] = x] /\ UNCHANGED <<config, checkpoints>>
    BY <1>2, <1>5 DEF RaiseAmong, TypeOK
  <2>2. x.pc = "exec" /\ x.state = call[c].state
    BY <1>1, <1>2 DEF CallType
  <2> HIDE DEF x
  <2> QED
    BY <1>1, <1>2, <2>1, <2>2, StepInLine
<1>6. CASE RaiseAlone(c, t, kind, outcome)
  <2>1. {Node(t)} \in SUBSET Targets
    <3>1. t \in Task \X Nat
      BY <1>1 DEF CallType
    <3> QED
      BY <3>1 DEF Task, Node, Targets
  <2>2. Stop(c, outcome).pc # "idle" /\ Stop(c, outcome).state = call[c].state
    BY <1>1 DEF Stop, CallType
  <2> QED
    BY <1>1, <1>2, <1>6, <2>1, <2>2, PutStepInLine DEF RaiseAlone
<1> QED
  BY <1>3, <1>4, <1>5, <1>6

LEMMA ProceedKeeps ==
  ASSUME TypeOK, NEW c \in Calls, Executes(c), NEW state, NEW routes, NEW parent,
         Proceed(c, state, routes, parent)
  PROVE  \E x : call' = [call EXCEPT ![c] = x] /\ x.pc # "idle" /\ x.state = state
<1> DEFINE plain == UNION {r.to : r \in {x \in routes : ~x.send}}
           sent == UNION {r.to : r \in {x \in routes : x.send}}
           next == [call[c] EXCEPT !.state = state, !.parent = parent, !.got = {}]
           todo == {<<<<n, TRUE>>, 1>> : n \in sent}
           cur == IF plain = {} THEN {END} ELSE plain
<1>1. \/ call' = [call EXCEPT ![c] = [next EXCEPT !.pc = "loop", !.cur = cur]]
      \/ call' = [call EXCEPT ![c] =
                    [next EXCEPT !.mode = "send", !.also = plain, !.todo = todo]]
  BY DEF Proceed
<1> HIDE DEF plain, sent, todo, cur
<1>2. call[c] \in CallType
  BY DEF TypeOK
<1>3. LET x == [next EXCEPT !.pc = "loop", !.cur = cur]
      IN x.pc # "idle" /\ x.state = state
  BY <1>2 DEF CallType
<1>4. LET x == [next EXCEPT !.mode = "send", !.also = plain, !.todo = todo]
      IN x.pc # "idle" /\ x.state = state
  BY <1>2 DEF CallType, Executes
<1> HIDE DEF next
<1> QED
  BY <1>1, <1>3, <1>4

LEMMA FinishInLine ==
  ASSUME TypeOK, Line, KeepsOrder, NEW c \in Calls,
         FinishNode(c) \/ FinishParallel(c) \/ FinishSends(c)
  PROVE  Line'
<1>1. TypeOK'
  BY FinishTyped
<1>2. Executes(c) /\ UNCHANGED config
  BY DEF Executes, Merging, FinishNode, FinishParallel, FinishSends
<1>3. "step" \in Kinds /\ "parallel" \in Kinds /\ "after" \in Kinds
  BY DEF Kinds
<1>4. /\ Lead({r.route : r \in call[c].got})
      /\ \A r \in call[c].got : Lead({Chosen(r)})
  BY ResultsLead DEF TypeOK, CallType
<1>5. CASE FinishNode(c)
  <2>1. PICK r \in call[c].got :
          \/ /\ Put(Checkpoint(c, "after", MergedState(c), Names({Chosen(r)})))
             /\ call' = [call EXCEPT ![c] = Stop(c, "interrupted")]
          \/ /\ PutDurably(c, Checkpoint(c, "step", MergedState(c), Names({Chosen(r)})))
             /\ Proceed(c, MergedState(c), {Chosen(r)}, made + 1)
    BY <1>5 DEF FinishNode
  <2>2. Names({Chosen(r)}) \in SUBSET Targets
    BY <1>4, NamesTyped
  <2>3. CASE Proceed(c, MergedState(c), {Chosen(r)}, made + 1)
             /\ PutDurably(c, Checkpoint(c, "step", MergedState(c), Names({Chosen(r)})))
    <3>1. PICK x : call' = [call EXCEPT ![c] = x] /\ x.pc # "idle" /\ x.state = MergedState(c)
      BY <1>2, <2>3, ProceedKeeps
    <3> QED
      BY <1>1, <1>2, <1>3, <2>2, <2>3, <3>1, PutStepInLine
  <2>4. CASE call' = [call EXCEPT ![c] = Stop(c, "interrupted")]
             /\ Put(Checkpoint(c, "after", MergedState(c), Names({Chosen(r)})))
    <3>1. Stop(c, "interrupted").pc = "closing"
      BY DEF Stop, TypeOK, CallType
    <3> QED
      BY <1>1, <1>2, <1>3, <2>2, <2>4, <3>1, PutStepInLine
  <2> QED
    BY <2>1, <2>3, <2>4
<1>6. CASE FinishParallel(c)
  <2> DEFINE routes == {r.route : r \in call[c].got}
  <2>1. /\ Put(Checkpoint(c, "parallel", MergedState(c), Names(routes)))
        /\ Proceed(c, MergedState(c), routes, made + 1)
    BY <1>6 DEF FinishParallel
  <2>2. Names(routes) \in SUBSET Targets
    BY <1>4, NamesTyped
  <2> HIDE DEF routes
  <2>3. PICK x : call' = [call EXCEPT ![c] = x] /\ x.pc # "idle" /\ x.state = MergedState(c)
    BY <1>2, <2>1, ProceedKeeps
  <2> QED
    BY <1>1, <1>2, <1>3, <2>1, <2>2, <2>3, PutStepInLine
<1>7. CASE FinishSends(c)
  <2>1. PICK routes, parent : Proceed(c, MergedState(c), routes, parent)
    BY <1>7 DEF FinishSends
  <2>2. PICK x : call' = [call EXCEPT ![c] = x] /\ x.pc # "idle" /\ x.state = MergedState(c)
    BY <1>2, <2>1, ProceedKeeps
  <2>3. UNCHANGED <<config, checkpoints>>
    BY <1>7 DEF FinishSends
  <2> QED
    BY <1>1, <1>2, <2>2, <2>3, StepInLine
<1> QED
  BY <1>5, <1>6, <1>7

LEMMA FinishResumedInLine ==
  ASSUME TypeOK, Line, KeepsOrder, NEW c \in Calls, FinishResumed(c)
  PROVE  Line'
<1>1. TypeOK' /\ call[c] \in CallType
  BY FinishResumedTyped DEF TypeOK
<1>2. Executes(c) /\ UNCHANGED config
  BY DEF Executes, Merging, FinishResumed
<1>3. PICK r \in call[c].got :
        LET next == IF Chosen(r).send THEN {SendObject} ELSE Chosen(r).to
        IN \/ /\ call' = [call EXCEPT ![c] = Stop(c, "failed")]
              /\ UNCHANGED checkpoints
           \/ /\ Put(Checkpoint(c, "resumed", MergedState(c), next))
              /\ call' = [call EXCEPT ![c].pc = "loop", ![c].cur = next, ![c].got = {},
                                      ![c].state = MergedState(c),
                                      ![c].parent = made + 1, ![c].answers = 0]
  BY DEF FinishResumed
<1> DEFINE next == IF Chosen(r).send THEN {SendObject} ELSE Chosen(r).to
           x == [call[c] EXCEPT !.pc = "loop", !.cur = next, !.got = {},
                                !.state = MergedState(c),
                                !.parent = made + 1, !.answers = 0]
<1>4. next \in SUBSET Targets
  <2>1. Chosen(r).to \in SUBSET Targets
    BY <1>1, ResultsLead DEF Lead, CallType
  <2> QED
    BY <2>1 DEF Targets
<1> HIDE DEF next
<1>5. CASE call' = [call EXCEPT ![c] = Stop(c, "failed")] /\ UNCHANGED checkpoints
  <2>1. Stop(c, "failed").pc = "closing" /\ Stop(c, "failed").state = call[c].state
    BY <1>1 DEF Stop, CallType
  <2> QED
    BY <1>1, <1>2, <1>5, <2>1, StepInLine
<1>6. CASE /\ Put(Checkpoint(c, "resumed", MergedState(c), next))
           /\ call' = [call EXCEPT ![c].pc = "loop", ![c].cur = next, ![c].got = {},
                                   ![c].state = MergedState(c),
                                   ![c].parent = made + 1, ![c].answers = 0]
  <2>1. call' = [call EXCEPT ![c] = x]
    BY <1>6 DEF TypeOK
  <2>2. x.pc = "loop" /\ x.state = MergedState(c)
    BY <1>1 DEF CallType
  <2>3. "resumed" \in Kinds
    BY DEF Kinds
  <2>4. Put(Checkpoint(c, "resumed", MergedState(c), next))
    BY <1>6
  <2> HIDE DEF x
  <2> QED
    BY <1>1, <1>2, <1>4, <2>1, <2>2, <2>3, <2>4, PutStepInLine
<1> QED
  BY <1>3, <1>5, <1>6 DEF next

LEMMA ReturnInLine ==
  ASSUME TypeOK, Line, KeepsOrder, NEW c \in Calls, Return(c)
  PROVE  Line'
<1>1. durability \in {"sync", "async"} /\ (durability = "async" => Blocking)
  BY DEF KeepsOrder
<1>2. UNCHANGED <<config, checkpoints>> /\ call' = [call EXCEPT ![c] = IdleCall]
  BY <1>1 DEF Return, checkpoints
<1>3. Busy(c) /\ writing[c] = {}
  BY <1>1 DEF Return, Busy, Line, AtATime
<1>4. IdleCall.pc = "idle"
  BY DEF IdleCall
<1> QED
  BY <1>2, <1>3, <1>4, IdleTyped, GoesOnLine

(* What a thread of the executor stores was made.                          *)
LEMMA WriteMoves ==
  ASSUME TypeOK, NEW c \in Calls, Write(c)
  PROVE  Made' = Made /\ \A d \in Calls : writing'[d] \subseteq writing[d]
<1>1. PICK cp \in writing[c] :
        stored' = <<cp>> \o stored /\ writing' = [writing EXCEPT ![c] = @ \ {cp}]
  BY DEF Write
<1>2. stored \in Seq(CheckpointType) /\ writing \in [Calls -> SUBSET CheckpointType]
  BY DEF TypeOK
<1>3. cp \in CheckpointType
  BY <1>2
<1>4. ToSet(stored') = ToSet(stored) \cup {cp}
  BY <1>1, <1>2, <1>3, PutAdds
<1>5. \A d \in Calls : writing'[d] = IF d = c THEN writing[c] \ {cp} ELSE writing[d]
  BY <1>1, <1>2
<1>6. ASSUME NEW y PROVE y \in Made' <=> y \in Made
  <2>1. y \in Made' <=> y \in ToSet(stored') \/ \E d \in Calls : y \in writing'[d]
    BY Zenon DEF Made
  <2>2. y \in Made <=> y \in ToSet(stored) \/ \E d \in Calls : y \in writing[d]
    BY Zenon DEF Made
  <2> QED
    BY <1>4, <1>5, <2>1, <2>2
<1>7. Made' = Made
  BY <1>6
<1> QED
  BY <1>5, <1>7

LEMMA WriteInLine ==
  ASSUME TypeOK, Line, KeepsOrder, NEW c \in Calls, Write(c)
  PROVE  Line'
<1>1. UNCHANGED <<config, made, call>>
  BY DEF Write
<1>2. Made' = Made /\ \A d \in Calls : writing'[d] \subseteq writing[d]
  BY WriteMoves
<1>3. AtATime'
  <2>1. durability' = durability
    BY <1>1 DEF config
  <2> QED
    BY <1>1, <1>2, <2>1 DEF Line, AtATime, Busy
<1>4. InLine'
  BY <1>1, <1>2 DEF Line, InLine, Executes
<1>5. LastIsNewest'
  <2>1. saver # "memory" /\ saver' = saver
    BY <1>1 DEF Line, AtATime, KeepsOrder, config, Write
  <2> QED
    BY <2>1 DEF LastIsNewest
<1> QED
  BY <1>3, <1>4, <1>5 DEF Line

(* An edit keeps the state of the latest checkpoint.                        *)
LEMMA UpdateInLine ==
  ASSUME TypeOK, Line, UpdateState, ~forked'
  PROVE  Line'
<1> DEFINE cp == [Latest EXCEPT !.edited = TRUE, !.at = made + 1, !.parent = Latest.at]
<1>1. Latest \in CheckpointType /\ stored # <<>>
  BY LatestIsStored DEF UpdateState
<1>2. cp \in CheckpointType /\ cp.at = made + 1 /\ cp.state = Latest.state
  <2> DEFINE last == Latest
             at == made + 1
  <2>1. last \in CheckpointType /\ at \in Nat
    BY <1>1 DEF TypeOK
  <2> HIDE DEF last, at
  <2> DEFINE new == [last EXCEPT !.edited = TRUE, !.at = at, !.parent = last.at]
  <2>2. new \in CheckpointType /\ new.at = at /\ new.state = last.state
    BY <2>1 DEF CheckpointType
  <2> QED
    BY <2>2 DEF last, at
<1>3. Put(cp) /\ UNCHANGED <<config, call>>
  BY DEF UpdateState
<1> HIDE DEF cp
<1>4. \A c \in Calls : ~Busy(c)
  BY DEF UpdateState, Busy
<1>5. \A y \in Made : IsPrefix(y.state, cp.state)
  BY <1>1, <1>2, <1>4, IdleLine
<1>6. stored' = <<cp>> \o stored /\ writing' = writing /\ made' = made + 1
  BY <1>3 DEF Put
<1>7. ToSet(stored') = ToSet(stored) \cup {cp}
  BY <1>2, <1>6, PutAdds DEF TypeOK
<1>8. Made' = Made \cup {cp}
  BY <1>6, <1>7 DEF Made
<1>9. AtATime'
  BY <1>3, <1>6 DEF Line, AtATime, Busy, config
<1>10. \A c \in Calls : ~Executes(c)'
  BY <1>3, <1>4 DEF Executes, Busy
<1> QED
  BY <1>2, <1>3, <1>5, <1>6, <1>8, <1>9, <1>10, AddsToLine

LEMMA CrashInLine ==
  ASSUME TypeOK, Line, Crash
  PROVE  Line'
<1>1. /\ \A c \in Calls : writing'[c] = {} /\ ~Busy(c)' /\ ~Executes(c)'
      /\ UNCHANGED <<config, made>>
  BY DEF Crash, Busy, Executes, IdleCall
<1>2. Made' = ToSet(stored')
  BY <1>1 DEF Made
<1>3. stored' = stored \/ ToSet(stored') = {}
  BY DEF Crash, ToSet
<1>4. ToSet(stored') \subseteq Made
  BY <1>3 DEF Made
<1>5. AtATime'
  BY <1>1 DEF AtATime
<1>6. InLine'
  BY <1>1, <1>2, <1>4 DEF Line, InLine
<1>7. LastIsNewest'
  BY <1>1, <1>3 DEF Line, LastIsNewest, config
<1> QED
  BY <1>5, <1>6, <1>7 DEF Line

LEMMA NextInLine == TypeOK /\ LineInv /\ [Next]_vars => LineInv'
<1> SUFFICES ASSUME TypeOK, LineInv, [Next]_vars, KeepsOrder', ~forked'
             PROVE  Line'
  BY DEF LineInv
<1>1. KeepsOrder /\ ~forked
  BY ConfigStands, ForkedStays DEF KeepsOrder, config
<1>2. Line
  BY <1>1 DEF LineInv
<1>3. CASE \E c \in Calls : Invoke(c) \/ Advance(c) \/ Fail(c) \/ Write(c)
  BY <1>1, <1>2, <1>3, InvokeInLine, LoopInLine, SucceedInLine, FailInLine, FinishInLine,
     FinishResumedInLine, ReturnInLine, WriteInLine DEF Advance
<1>4. CASE UpdateState \/ Crash
  BY <1>2, <1>4, UpdateInLine, CrashInLine
<1>5. CASE UNCHANGED vars
  BY <1>2, <1>5 DEF vars, config, checkpoints, Line, AtATime, InLine, LastIsNewest, Made,
                    Busy, Executes
<1> QED
  BY <1>3, <1>4, <1>5 DEF Next

LEMMA InitInLine == Init => LineInv
<1> SUFFICES ASSUME Init PROVE Line
  BY DEF LineInv
<1>1. ToSet(stored) = {} /\ Made = {}
  BY DEF Init, ToSet, Made
<1> QED
  BY <1>1 DEF Init, Line, AtATime, InLine, LastIsNewest, Busy, Executes, IdleCall

LEMMA LineIsLinear == TypeOK /\ LineInv => HistoryIsLinear
<1> SUFFICES ASSUME TypeOK, Line, NEW i \in 1..Len(stored), NEW j \in 1..Len(stored)
             PROVE  \/ IsPrefix(stored[i].state, stored[j].state)
                    \/ IsPrefix(stored[j].state, stored[i].state)
  BY DEF LineInv, HistoryIsLinear
<1>1. stored[i] \in Made /\ stored[j] \in Made
  <2>1. stored \in Seq(CheckpointType)
    BY DEF TypeOK
  <2>2. DOMAIN stored = 1..Len(stored)
    BY <2>1, LenProperties
  <2> QED
    BY <2>2 DEF Made, ToSet
<1>2. stored[i].at \in Nat /\ stored[j].at \in Nat
  BY <1>1, MadeTyped DEF CheckpointType
<1>3. stored[i].at <= stored[j].at \/ stored[j].at <= stored[i].at
  BY <1>2
<1> QED
  BY <1>1, <1>3 DEF Line, InLine

(* Unless somebody goes back to an old checkpoint, or comes in while an     *)
(* invocation is in progress, the history of a thread is one line, for any  *)
(* graph, failures, interrupts, crashes and edits, when checkpoints are put *)
(* at once, or by executor threads that are waited for and SQLite sorts     *)
(* (state_graph.py 433-460, 1115-1180, 1282-1420, checkpoint.py 169-190, 301).   *)
THEOREM HistoryIsOneLine == Spec => []HistoryIsLinear
<1>1. Init => TypeOK /\ LineInv
  BY InitTyped, InitInLine
<1>2. TypeOK /\ LineInv /\ [Next]_vars => (TypeOK /\ LineInv)'
  BY NextTyped, NextInLine
<1>3. TypeOK /\ LineInv => HistoryIsLinear
  BY LineIsLinear
<1> QED
  BY <1>1, <1>2, <1>3, PTL DEF Spec
-----------------------------------------------------------------------------
(* What a finished invocation leaves.                                       *)

(* The checkpoints that are stored, will be, or wait for the exit.          *)
Known == Made \cup ToSet(pending)

Top(cp) == cp \in Known /\ \A x \in Known : x.at <= cp.at

Ends(x) ==
    \/ x.pc = "loop" /\ END \in x.cur
    \/ x.pc = "closing" /\ x.outcome = "finished"

(* A call that found the end, or has a node to answer first.                *)
AtTheEnd(x) == (x.pc = "loop" => END \in x.cur) /\ (x.pc = "exec" => x.mode = "resume")

WithoutSends(x) ==
    /\ \A r \in x.got : ~r.route.send /\ ~Chosen(r).send
    /\ x.pc = "exec" => x.mode # "send"
    /\ START \in x.cur => END \notin x.cur

(* Only "exit" keeps checkpoints; each has a time of its own.               *)
Timed ==
    /\ durability # "exit" => pending = <<>>
    /\ \A x \in Known : x.at <= made /\ START \notin x.next
    /\ \A x, y \in Known : x.at = y.at => x = y

(* A call that is over has the state of the newest checkpoint.              *)
EndsWithNewest ==
    \A c \in Calls : Ends(call[c]) => \E cp \in Known : Top(cp) /\ cp.state = call[c].state

(* Checkpoints that a failed Command left behind are newer than the latest  *)
(* only if the thread is not at its end.                                    *)
LeftBehind ==
    (durability = "exit" /\ stored # <<>> /\ END \in Latest.next) =>
        /\ (\A c \in Calls : Busy(c) => call[c].command) => Top(Latest)
        /\ \A c \in Calls : Busy(c) /\ call[c].command => AtTheEnd(call[c])

Quiet ==
    ~forked /\ ~HasSends /\ (durability = "sync" \/ (saver = "sqlite" /\ Blocking))

Settled ==
    /\ AtATime /\ Timed /\ LastIsNewest
    /\ \A c \in Calls : WithoutSends(call[c])
    /\ EndsWithNewest /\ LeftBehind

SettledInv == Quiet => Settled

LEMMA KnownTyped ==
  ASSUME TypeOK
  PROVE  Known \subseteq CheckpointType
  BY MadeTyped, SeqIsFinite DEF Known, TypeOK

(* When nothing is executed and nothing left behind, what is known is       *)
(* stored.                                                                  *)
LEMMA EndedThread ==
  ASSUME TypeOK, Settled, \A c \in Calls : ~Busy(c), stored # <<>>, END \in Latest.next
  PROVE  Top(Latest)
<1>1. CASE durability = "exit"
  BY <1>1 DEF Settled, LeftBehind
<1>2. CASE durability # "exit"
  <2>1. \A c \in Calls : writing[c] = {}
    BY DEF Settled, AtATime
  <2>2. ToSet(pending) = {}
    BY <1>2 DEF Settled, Timed, ToSet
  <2>3. Known = ToSet(stored)
    BY <2>1, <2>2 DEF Known, Made
  <2> QED
    BY <2>3, LatestIsNewestStored DEF Settled, Top
<1> QED
  BY <1>1, <1>2

LEMMA StepSettles ==
  ASSUME TypeOK, Settled, NEW c \in Calls, Busy(c), UNCHANGED <<config, checkpoints>>,
         NEW x, call' = [call EXCEPT ![c] = x], x.pc # "idle",
         WithoutSends(x), x.command = call[c].command,
         Ends(x) => \E cp \in Known : Top(cp) /\ cp.state = x.state,
         AtTheEnd(call[c]) => AtTheEnd(x)
  PROVE  Settled'
<1>1. \A d \in Calls : call'[d] = IF d = c THEN x ELSE call[d]
  BY DEF TypeOK
<1>2. /\ Made' = Made /\ saver' = saver /\ stored' = stored /\ made' = made
      /\ writing' = writing /\ durability' = durability /\ pending' = pending
  BY DEF Made, config, checkpoints
<1>3. Known' = Known /\ Latest' = Latest /\ \A cp : Top(cp)' <=> Top(cp)
  BY <1>2 DEF Known, Latest, Top
<1>4. \A d \in Calls : Busy(d)' <=> Busy(d)
  BY <1>1 DEF Busy
<1>5. AtATime'
  BY <1>2, <1>4 DEF Settled, AtATime
<1>6. Timed'
  BY <1>2, <1>3 DEF Settled, Timed
<1>7. LastIsNewest'
  BY <1>2 DEF Settled, LastIsNewest
<1>8. \A d \in Calls : WithoutSends(call'[d])
  BY <1>1 DEF Settled
<1>9. EndsWithNewest'
  BY <1>1, <1>3 DEF Settled, EndsWithNewest
<1>10. LeftBehind'
  BY <1>1, <1>2, <1>3, <1>4 DEF Settled, LeftBehind
<1> QED
  BY <1>5, <1>6, <1>7, <1>8, <1>9, <1>10 DEF Settled

LEMMA AppendAdds ==
  ASSUME NEW T, NEW s \in Seq(T), NEW x \in T
  PROVE  ToSet(Append(s, x)) = ToSet(s) \cup {x}
<1> DEFINE t == Append(s, x)
<1>1. Len(s) \in Nat /\ DOMAIN s = 1..Len(s)
  BY LenProperties
<1>2. /\ t \in Seq(T) /\ Len(t) = Len(s) + 1 /\ t[Len(s) + 1] = x
      /\ \A i \in 1..Len(s) : t[i] = s[i]
  BY AppendProperties
<1>3. DOMAIN t = 1..(Len(s) + 1)
  BY <1>2, LenProperties
<1> HIDE DEF t
<1>4. ToSet(t) \subseteq ToSet(s) \cup {x}
  <2> SUFFICES ASSUME NEW i \in 1..(Len(s) + 1) PROVE t[i] \in ToSet(s) \cup {x}
    BY <1>3 DEF ToSet
  <2>1. i \in 1..Len(s) \/ i = Len(s) + 1
    BY <1>1
  <2> QED
    BY <1>1, <1>2, <2>1 DEF ToSet
<1>5. ToSet(s) \subseteq ToSet(t)
  <2> SUFFICES ASSUME NEW i \in 1..Len(s) PROVE s[i] \in ToSet(t)
    BY <1>1 DEF ToSet
  <2>1. i \in 1..(Len(s) + 1)
    BY <1>1
  <2> QED
    BY <1>2, <1>3, <2>1 DEF ToSet
<1>6. x \in ToSet(t)
  BY <1>1, <1>2, <1>3 DEF ToSet
<1>7. ToSet(t) = ToSet(s) \cup {x}
  BY <1>4, <1>5, <1>6
<1> QED
  BY <1>7 DEF t

LEMMA NewIsTop ==
  ASSUME TypeOK, Timed, NEW cp \in CheckpointType, cp.at = made + 1, START \notin cp.next,
         made' = made + 1, Known' = Known \cup {cp}, durability' # "exit" => pending' = <<>>
  PROVE  Timed' /\ Top(cp)'
<1>1. made \in Nat /\ \A y \in Known : y.at \in Nat /\ y.at <= made /\ START \notin y.next
  BY KnownTyped DEF TypeOK, CheckpointType, Timed
<1>2. \A y \in Known' : y.at <= made' /\ y.at <= cp.at /\ START \notin y.next
  BY <1>1
<1>3. ASSUME NEW y \in Known', NEW z \in Known', y.at = z.at
      PROVE  y = z
  <2>1. y = cp <=> z = cp
    BY <1>1, <1>3
  <2> QED
    BY <1>3, <2>1 DEF Timed
<1> QED
  BY <1>2, <1>3 DEF Timed, Top

(* A checkpoint that is put at once is the latest.                          *)
LEMMA PutIsLatest ==
  ASSUME TypeOK, Timed, NEW cp \in CheckpointType, cp.at = made + 1,
         stored' = <<cp>> \o stored, saver' = saver
  PROVE  /\ Latest' = cp /\ ToSet(stored') = ToSet(stored) \cup {cp}
         /\ \A y \in ToSet(stored') : y.at <= Head(stored').at
<1>1. stored \in Seq(CheckpointType) /\ made \in Nat
  BY DEF TypeOK
<1>2. stored' \in Seq(CheckpointType) /\ ToSet(stored') = ToSet(stored) \cup {cp}
  BY <1>1, PutAdds
<1>3. Head(stored') = cp
  OBVIOUS
<1>4. \A y \in ToSet(stored) : y.at \in Nat /\ y.at <= made
  <2>1. ToSet(stored) \subseteq Known
    BY DEF Known, Made
  <2> QED
    BY <2>1, KnownTyped DEF Timed, CheckpointType
<1>5. \A y \in ToSet(stored') : y.at <= cp.at /\ (cp.at <= y.at => y = cp)
  BY <1>1, <1>2, <1>4
<1> DEFINE all == ToSet(stored')
<1>6. IsFiniteSet(all) /\ all # {} /\ \A y \in all : y.at \in Nat
  <2>1. IsFiniteSet(all)
    BY <1>2, SeqIsFinite
  <2> QED
    BY <1>2, <1>4, <2>1 DEF CheckpointType
<1>7. Newest(all) \in all /\ \A y \in all : y.at <= Newest(all).at
  <2> HIDE DEF all
  <2> QED
    BY <1>6, NewestExists
<1>8. Newest(all) = cp
  BY <1>2, <1>5, <1>7
<1>9. Latest' = IF saver = "sqlite" THEN Newest(all) ELSE Head(stored')
  BY DEF Latest, Newest
<1> QED
  BY <1>2, <1>3, <1>5, <1>8, <1>9

LEMMA PutSettles ==
  ASSUME TypeOK, Quiet, Settled, NEW c \in Calls, Executes(c), UNCHANGED config,
         NEW cp \in CheckpointType, cp.at = made + 1, START \notin cp.next,
         \/ Put(cp)
         \/ PutDurably(c, cp) /\ call[c].pc = "exec" /\ call[c].mode = "nodes",
         NEW x, call' = [call EXCEPT ![c] = x], x.pc # "idle",
         WithoutSends(x), x.command = call[c].command,
         Ends(x) => x.state = cp.state,
         END \in cp.next => AtTheEnd(x)
  PROVE  Settled'
<1>1. \A d \in Calls : call'[d] = IF d = c THEN x ELSE call[d]
  BY DEF TypeOK
<1>2. /\ stored \in Seq(CheckpointType) /\ writing \in [Calls -> SUBSET CheckpointType]
      /\ pending \in Seq(CheckpointType) /\ durability \in {"sync", "async", "exit"}
  BY TypeParts, GraphTyped DEF TypeOK
<1>3. made' = made + 1 /\ saver' = saver /\ durability' = durability
  BY DEF Put, PutDurably, config
<1>4. \A d \in Calls : Busy(d)' <=> Busy(d)
  BY <1>1 DEF Busy, Executes
<1>5. \A d \in Calls : Busy(d) => d = c
  BY DEF Settled, AtATime, Busy, Executes
<1>6. \/ stored' = <<cp>> \o stored /\ UNCHANGED <<writing, pending>>
      \/ /\ durability = "async" /\ writing' = [writing EXCEPT ![c] = @ \cup {cp}]
         /\ UNCHANGED <<stored, pending>>
      \/ /\ durability = "exit" /\ pending' = Append(pending, cp)
         /\ UNCHANGED <<stored, writing>>
         /\ call[c].pc = "exec" /\ call[c].mode = "nodes"
  BY DEF Put, PutDurably
<1>7. Known' = Known \cup {cp} /\ (durability' # "exit" => pending' = <<>>)
  <2>1. CASE stored' = <<cp>> \o stored /\ UNCHANGED <<writing, pending>>
    <3>1. ToSet(stored') = ToSet(stored) \cup {cp}
      BY <1>2, <2>1, PutAdds
    <3> QED
      BY <1>3, <2>1, <3>1 DEF Known, Made, Settled, Timed
  <2>2. CASE durability = "async" /\ writing' = [writing EXCEPT ![c] = @ \cup {cp}]
             /\ UNCHANGED <<stored, pending>>
    <3>1. \A d \in Calls : writing'[d] = IF d = c THEN writing[c] \cup {cp} ELSE writing[d]
      BY <1>2, <2>2
    <3>2. ASSUME NEW y PROVE y \in Made' <=> y \in Made \cup {cp}
      <4>1. y \in Made' <=> y \in ToSet(stored) \/ \E d \in Calls : y \in writing'[d]
        BY <2>2, Zenon DEF Made
      <4>2. y \in Made <=> y \in ToSet(stored) \/ \E d \in Calls : y \in writing[d]
        BY Zenon DEF Made
      <4>3. (\E d \in Calls : y \in writing'[d]) <=> y = cp \/ \E d \in Calls : y \in writing[d]
        BY <3>1
      <4> QED
        BY <4>1, <4>2, <4>3
    <3>3. Made' = Made \cup {cp}
      BY <3>2
    <3> QED
      BY <1>3, <2>2, <3>3 DEF Known, Settled, Timed
  <2>3. CASE durability = "exit" /\ pending' = Append(pending, cp)
             /\ UNCHANGED <<stored, writing>>
    <3>1. ToSet(pending') = ToSet(pending) \cup {cp}
      BY <1>2, <2>3, AppendAdds
    <3> QED
      BY <1>3, <2>3, <3>1 DEF Known, Made
  <2> QED
    BY <1>6, <2>1, <2>2, <2>3
<1>8. Timed' /\ Top(cp)'
  BY <1>3, <1>7, NewIsTop DEF Settled
<1>9. AtATime'
  <2>1. \A d \in Calls : writing'[d] = writing[d] \/ (d = c /\ durability = "async")
    BY <1>2, <1>6
  <2>2. Busy(c)
    BY DEF Busy, Executes
  <2> QED
    BY <1>3, <1>4, <1>5, <2>1, <2>2 DEF Settled, AtATime
<1>10. \A d \in Calls : WithoutSends(call'[d])
  BY <1>1 DEF Settled
<1>11. EndsWithNewest'
  <2> SUFFICES ASSUME NEW d \in Calls, Ends(call'[d])
               PROVE  \E y \in Known' : Top(y)' /\ y.state = call'[d].state
    BY DEF EndsWithNewest
  <2>1. d = c
    BY <1>4, <1>5 DEF Ends, Busy
  <2>2. cp.state = call'[d].state
    BY <1>1, <2>1
  <2> QED
    BY <1>7, <1>8, <2>2
<1>12. LastIsNewest' /\ LeftBehind'
  <2>1. CASE stored' = <<cp>> \o stored /\ UNCHANGED <<writing, pending>>
    <3>1. Latest' = cp /\ \A y \in ToSet(stored') : y.at <= Head(stored').at
      BY <1>3, <2>1, PutIsLatest DEF Settled
    <3>2. LastIsNewest'
      BY <3>1 DEF LastIsNewest
    <3>3. LeftBehind'
      BY <1>1, <1>4, <1>5, <1>8, <3>1 DEF LeftBehind
    <3> QED
      BY <3>2, <3>3
  <2>2. CASE durability = "async" /\ UNCHANGED <<stored, pending>>
    BY <1>3, <2>2 DEF Settled, LastIsNewest, LeftBehind
  <2>3. CASE /\ durability = "exit" /\ UNCHANGED <<stored, writing>>
             /\ call[c].pc = "exec" /\ call[c].mode = "nodes"
    <3>1. Latest' = Latest
      BY <1>3, <2>3 DEF Latest
    <3>2. LastIsNewest'
      BY <1>3, <2>3 DEF Settled, LastIsNewest
    <3>3. (stored # <<>> /\ END \in Latest.next) => ~call[c].command
      <4>1. ~AtTheEnd(call[c]) /\ Busy(c)
        BY <2>3 DEF AtTheEnd, Busy
      <4> QED
        BY <2>3, <4>1 DEF Settled, LeftBehind
    <3>4. LeftBehind'
      <4> SUFFICES ASSUME stored # <<>>, END \in Latest.next
                   PROVE  LeftBehind'
        BY <2>3, <3>1 DEF LeftBehind
      <4>1. ~call'[c].command /\ Busy(c)'
        BY <1>1, <3>3 DEF Busy
      <4> QED
        BY <1>4, <1>5, <4>1 DEF LeftBehind
    <3> QED
      BY <3>2, <3>4
  <2> QED
    BY <1>6, <2>1, <2>2, <2>3
<1> QED
  BY <1>8, <1>9, <1>10, <1>11, <1>12 DEF Settled

LEMMA EnterSettles ==
  ASSUME TypeOK, Settled, NEW c \in Calls, UNCHANGED <<config, checkpoints>>,
         \A d \in Calls : ~Busy(d),
         NEW x, call' = [call EXCEPT ![c] = x], x.pc \in {"loop", "exec"},
         WithoutSends(x),
         Ends(x) => stored # <<>> /\ END \in Latest.next /\ x.state = Latest.state,
         x.command /\ END \in Latest.next => AtTheEnd(x)
  PROVE  Settled'
<1>1. \A d \in Calls : call'[d] = IF d = c THEN x ELSE call[d]
  BY DEF TypeOK
<1>2. /\ Made' = Made /\ saver' = saver /\ stored' = stored /\ made' = made
      /\ writing' = writing /\ durability' = durability /\ pending' = pending
  BY DEF Made, config, checkpoints
<1>3. Known' = Known /\ Latest' = Latest /\ \A cp : Top(cp)' <=> Top(cp)
  BY <1>2 DEF Known, Latest, Top
<1>4. \A d \in Calls : Busy(d)' <=> d = c
  BY <1>1 DEF Busy
<1>5. AtATime'
  BY <1>2, <1>4 DEF Settled, AtATime
<1>6. Timed'
  BY <1>2, <1>3 DEF Settled, Timed
<1>7. LastIsNewest'
  BY <1>2 DEF Settled, LastIsNewest
<1>8. \A d \in Calls : WithoutSends(call'[d])
  BY <1>1 DEF Settled
<1>9. stored # <<>> /\ END \in Latest.next => Top(Latest) /\ Latest \in Known
  BY EndedThread DEF Top
<1>10. EndsWithNewest'
  <2> SUFFICES ASSUME NEW d \in Calls, Ends(call'[d])
               PROVE  \E y \in Known : Top(y) /\ y.state = call'[d].state
    BY <1>3 DEF EndsWithNewest
  <2>1. d = c
    BY <1>4 DEF Ends, Busy
  <2> QED
    BY <1>1, <1>9, <2>1
<1>11. LeftBehind'
  BY <1>1, <1>2, <1>3, <1>4, <1>9 DEF LeftBehind
<1> QED
  BY <1>5, <1>6, <1>7, <1>8, <1>10, <1>11 DEF Settled

LEMMA InvokeSettles ==
  ASSUME TypeOK, Settled, NEW c \in Calls, Invoke(c), ~forked'
  PROVE  Settled'
<1>1. \A state, next, parent :
         LET x == Entering(c, state, next, parent)
         IN /\ x.pc = "loop" /\ x.state = state /\ x.cur = next /\ x.got = {}
            /\ ~x.command
  BY DEF Entering, IdleCall
<1>2. START # END
  BY NodesAssumption
<1>3. stored # <<>> => START \notin Latest.next
  BY LatestIsStored DEF Settled, Timed, Known, Made
<1>4. ASSUME NEW cp \in ToSet(stored), NEW x, MayEnter(c), Enter(c, x, cp)
      PROVE  /\ cp = Latest /\ stored # <<>> /\ call' = [call EXCEPT ![c] = x]
             /\ UNCHANGED <<config, checkpoints>> /\ \A d \in Calls : ~Busy(d)
  <2>1. stored # <<>>
    BY <1>4 DEF ToSet
  <2> QED
    BY <1>4, <2>1 DEF Enter, MayEnter, Busy
<1>5. CASE InvokeFresh(c)
  <2> DEFINE x == Entering(c, <<Input>>, {START}, 0)
  <2>1. /\ call' = [call EXCEPT ![c] = x] /\ UNCHANGED <<config, checkpoints>>
        /\ \A d \in Calls : ~Busy(d)
    BY <1>5 DEF InvokeFresh, MayEnter, Busy
  <2>2. x.pc = "loop" /\ x.cur = {START} /\ x.got = {} /\ ~x.command
    BY <1>1
  <2> HIDE DEF x
  <2>3. WithoutSends(x) /\ ~Ends(x)
    BY <1>2, <2>2 DEF WithoutSends, Ends
  <2> QED
    BY <2>1, <2>2, <2>3, EnterSettles
<1>6. CASE InvokeInput(c)
  <2>1. PICK cp \in ToSet(stored) :
          Enter(c, Entering(c, Append(cp.state, Input),
                            IF END \in cp.next THEN {START} ELSE cp.next, cp.at), cp)
    BY <1>6 DEF InvokeInput
  <2> DEFINE cur == IF END \in cp.next THEN {START} ELSE cp.next
             x == Entering(c, Append(cp.state, Input), cur, cp.at)
  <2>2. MayEnter(c) /\ Enter(c, x, cp)
    BY <1>6, <2>1 DEF InvokeInput
  <2>3. x.pc = "loop" /\ x.cur = cur /\ x.got = {} /\ ~x.command
    BY <1>1
  <2> HIDE DEF x
  <2>4. WithoutSends(x) /\ ~Ends(x)
    BY <1>2, <2>3 DEF WithoutSends, Ends
  <2> QED
    BY <1>4, <2>2, <2>3, <2>4, EnterSettles
<1>7. CASE InvokeNone(c)
  <2>1. PICK cp \in ToSet(stored) : Enter(c, Entering(c, cp.state, cp.next, cp.at), cp)
    BY <1>7 DEF InvokeNone
  <2> DEFINE x == Entering(c, cp.state, cp.next, cp.at)
  <2>2. MayEnter(c) /\ Enter(c, x, cp)
    BY <1>7, <2>1 DEF InvokeNone
  <2>3. x.pc = "loop" /\ x.cur = cp.next /\ x.got = {} /\ ~x.command /\ x.state = cp.state
    BY <1>1
  <2> HIDE DEF x
  <2>4. cp = Latest /\ stored # <<>>
    BY <1>4, <2>2
  <2>5. WithoutSends(x) /\ (Ends(x) => END \in Latest.next)
    BY <1>3, <2>3, <2>4 DEF WithoutSends, Ends
  <2> QED
    BY <1>4, <2>2, <2>3, <2>4, <2>5, EnterSettles
<1>8. CASE \E answers \in 1..2 : InvokeCommand(c, answers)
  <2>1. PICK answers \in 1..2 : InvokeCommand(c, answers)
    BY <1>8
  <2>2. PICK cp \in ToSet(stored) :
          LET context == [Entering(c, cp.state, cp.next, cp.at) EXCEPT !.command = TRUE]
          IN \/ Enter(c, context, cp)
             \/ \E n \in cp.next \cap Nodes :
                  Enter(c, [context EXCEPT !.pc = "exec", !.mode = "resume",
                                           !.todo = {<<<<n, FALSE>>, 1>>},
                                           !.answers = answers], cp)
    BY <2>1 DEF InvokeCommand
  <2>3. MayEnter(c)
    BY <2>1 DEF InvokeCommand
  <2> DEFINE context == [Entering(c, cp.state, cp.next, cp.at) EXCEPT !.command = TRUE]
             Resumed(n) == [context EXCEPT !.pc = "exec", !.mode = "resume",
                                           !.todo = {<<<<n, FALSE>>, 1>>},
                                           !.answers = answers]
  <2>4. /\ context.pc = "loop" /\ context.state = cp.state /\ context.cur = cp.next
        /\ context.got = {} /\ context.command
    BY DEF Entering, IdleCall
  <2>5. \A n : /\ Resumed(n).pc = "exec" /\ Resumed(n).mode = "resume"
               /\ Resumed(n).cur = cp.next /\ Resumed(n).got = {}
    BY DEF Entering, IdleCall
  <2>6. Enter(c, context, cp) \/ \E n \in cp.next \cap Nodes : Enter(c, Resumed(n), cp)
    BY <2>2
  <2> HIDE DEF context, Resumed
  <2>7. cp = Latest /\ stored # <<>>
    BY <1>4, <2>3, <2>6
  <2>8. CASE Enter(c, context, cp)
    <3>1. WithoutSends(context) /\ (Ends(context) => END \in Latest.next)
          /\ (END \in Latest.next => AtTheEnd(context))
      BY <1>3, <2>4, <2>7 DEF WithoutSends, Ends, AtTheEnd
    <3> QED
      BY <1>4, <2>3, <2>4, <2>7, <2>8, <3>1, EnterSettles
  <2>9. ASSUME NEW n \in cp.next \cap Nodes, Enter(c, Resumed(n), cp)
        PROVE  Settled'
    <3> DEFINE x == Resumed(n)
    <3>1. x.pc = "exec" /\ x.mode = "resume" /\ x.cur = cp.next /\ x.got = {}
      BY <2>5
    <3>2. Enter(c, x, cp)
      BY <2>9
    <3> HIDE DEF x
    <3>3. WithoutSends(x) /\ ~Ends(x) /\ AtTheEnd(x)
      BY <1>3, <2>7, <3>1 DEF WithoutSends, Ends, AtTheEnd
    <3> QED
      BY <1>4, <2>3, <2>7, <3>1, <3>2, <3>3, EnterSettles
  <2> QED
    BY <2>6, <2>8, <2>9
<1> QED
  BY <1>5, <1>6, <1>7, <1>8 DEF Invoke

LEMMA StopSettles ==
  ASSUME TypeOK, Settled, NEW c \in Calls, NEW outcome
  PROVE  LET x == Stop(c, outcome)
         IN /\ x.pc = "closing" /\ x.state = call[c].state /\ x.outcome = outcome
            /\ x.command = call[c].command
            /\ WithoutSends(x) /\ AtTheEnd(x)
<1> DEFINE x == Stop(c, outcome)
<1>1. /\ x.pc = "closing" /\ x.state = call[c].state /\ x.outcome = outcome
      /\ x.command = call[c].command /\ x.got = {} /\ x.cur = call[c].cur
  BY DEF Stop, TypeOK, CallType
<1> HIDE DEF x
<1>2. WithoutSends(x) /\ AtTheEnd(x)
  BY <1>1 DEF Settled, WithoutSends, AtTheEnd
<1> QED
  BY <1>1, <1>2 DEF x

LEMMA LoopSettles ==
  ASSUME TypeOK, Quiet, Settled, NEW c \in Calls,
         HitLimit(c) \/ FromStart(c) \/ ReachEnd(c) \/ LookUpSend(c)
           \/ InterruptBefore(c) \/ Begin(c) \/ GiveUp(c)
  PROVE  Settled'
<1>1. Executes(c) /\ Busy(c)
  BY DEF Busy, Executes, Looping, HitLimit, FromStart, ReachEnd, LookUpSend, InterruptBefore,
         Begin, GiveUp
<1>2. call[c] \in CallType /\ WithoutSends(call[c])
  BY DEF TypeOK, Settled
<1>3. START \notin Nodes /\ END \notin Nodes
  BY NodesAssumption
<1>4. CASE HitLimit(c) \/ LookUpSend(c) \/ GiveUp(c)
  <2>1. PICK outcome \in {"limit", "failed"} : call' = [call EXCEPT ![c] = Stop(c, outcome)]
    BY <1>4 DEF HitLimit, LookUpSend, GiveUp
  <2>2. UNCHANGED <<config, checkpoints>>
    BY <1>4 DEF HitLimit, LookUpSend, GiveUp
  <2> DEFINE x == Stop(c, outcome)
  <2>3. /\ x.pc = "closing" /\ x.outcome = outcome /\ x.command = call[c].command
        /\ WithoutSends(x) /\ AtTheEnd(x)
    BY StopSettles
  <2>4. call' = [call EXCEPT ![c] = x]
    BY <2>1
  <2> HIDE DEF x
  <2>5. ~Ends(x)
    BY <2>3 DEF Ends
  <2> QED
    BY <1>1, <2>2, <2>3, <2>4, <2>5, StepSettles
<1>5. CASE ReachEnd(c)
  <2> DEFINE x == Stop(c, "finished")
  <2>1. call' = [call EXCEPT ![c] = x] /\ UNCHANGED <<config, checkpoints>>
    BY <1>5 DEF ReachEnd
  <2>2. Ends(call[c])
    BY <1>5 DEF ReachEnd, Looping, Ends
  <2>3. \E cp \in Known : Top(cp) /\ cp.state = call[c].state
    BY <2>2 DEF Settled, EndsWithNewest
  <2>4. /\ x.pc = "closing" /\ x.state = call[c].state /\ x.command = call[c].command
        /\ WithoutSends(x) /\ AtTheEnd(x)
    BY StopSettles
  <2> HIDE DEF x
  <2>5. \E cp \in Known : Top(cp) /\ cp.state = x.state
    BY <2>3, <2>4
  <2> QED
    BY <1>1, <2>1, <2>4, <2>5, StepSettles
<1>6. CASE InterruptBefore(c)
  <2> DEFINE cp == Checkpoint(c, "before", call[c].state, call[c].cur)
  <2>1. "before" \in Kinds /\ call[c].cur \in SUBSET Targets /\ call[c].state \in Seq(Merged)
    BY <1>2 DEF CallType, Kinds
  <2>2. cp \in CheckpointType
    BY <2>1, CheckpointTyped
  <2>3. cp.at = made + 1 /\ cp.next = call[c].cur
    BY DEF Checkpoint
  <2>4. START \notin call[c].cur /\ END \notin call[c].cur
    <3>1. graph.before \in SUBSET Nodes
      BY TypeParts, GraphTyped
    <3> QED
      BY <1>3, <1>6, <3>1 DEF InterruptBefore
  <2>5. Put(cp) /\ call' = [call EXCEPT ![c] = Stop(c, "interrupted")] /\ UNCHANGED config
    BY <1>6 DEF InterruptBefore
  <2> HIDE DEF cp
  <2>6. ~Ends(Stop(c, "interrupted"))
    BY StopSettles DEF Ends
  <2> QED
    BY <1>1, <2>2, <2>3, <2>4, <2>5, <2>6, StopSettles, PutSettles
<1>7. CASE FromStart(c)
  <2> DEFINE x == [call[c] EXCEPT !.cur = graph.entry, !.steps = @ + 1]
  <2>1. /\ call' = [call EXCEPT ![c] = x] /\ UNCHANGED <<config, checkpoints>>
        /\ call[c].pc = "loop" /\ START \in call[c].cur
    BY <1>7 DEF FromStart, Looping, TypeOK
  <2>2. /\ x.pc = "loop" /\ x.cur = graph.entry /\ x.got = call[c].got
        /\ x.command = call[c].command
    BY <1>2, <2>1 DEF CallType
  <2> HIDE DEF x
  <2>3. START \notin graph.entry /\ END \notin graph.entry
    BY <1>3, TypeParts, GraphTyped
  <2>4. WithoutSends(x) /\ ~Ends(x)
    BY <1>2, <2>2, <2>3 DEF WithoutSends, Ends
  <2>5. ~AtTheEnd(call[c])
    BY <1>2, <2>1 DEF WithoutSends, AtTheEnd
  <2> QED
    BY <1>1, <2>1, <2>2, <2>4, <2>5, StepSettles
<1>8. CASE Begin(c)
  <2> DEFINE x == [call[c] EXCEPT !.pc = "exec", !.mode = "nodes",
                                  !.todo = {<<<<n, FALSE>>, 1>> : n \in call[c].cur},
                                  !.steps = @ + 1]
  <2>1. /\ call' = [call EXCEPT ![c] = x] /\ UNCHANGED <<config, checkpoints>>
        /\ call[c].pc = "loop" /\ call[c].cur \subseteq Nodes
    BY <1>8 DEF Begin, Looping, TypeOK
  <2>2. /\ x.pc = "exec" /\ x.mode = "nodes" /\ x.cur = call[c].cur /\ x.got = call[c].got
        /\ x.command = call[c].command
    BY <1>2 DEF CallType
  <2> HIDE DEF x
  <2>3. WithoutSends(x) /\ ~Ends(x)
    BY <1>2, <2>2 DEF WithoutSends, Ends
  <2>4. ~AtTheEnd(call[c])
    BY <1>3, <2>1 DEF AtTheEnd
  <2> QED
    BY <1>1, <2>1, <2>2, <2>3, <2>4, StepSettles
<1> QED
  BY <1>4, <1>5, <1>6, <1>7, <1>8

LEMMA SucceedSettles ==
  ASSUME TypeOK, Quiet, Settled, NEW c \in Calls, Succeed(c)
  PROVE  Settled'
<1>1. call[c] \in CallType /\ WithoutSends(call[c])
  BY DEF TypeOK, Settled
<1>2. PICK t \in call[c].todo : \E route \in graph.edges[Node(t)],
                                   goto \in graph.gotos[Node(t)] \cup {None} :
        Done(c, t, [task |-> t[1], route |-> route, goto |-> goto])
  BY DEF Succeed
<1>3. PICK route \in graph.edges[Node(t)], goto \in graph.gotos[Node(t)] \cup {None} :
        Done(c, t, [task |-> t[1], route |-> route, goto |-> goto])
  BY <1>2
<1>4. Node(t) \in Nodes
  <2>1. t \in Task \X Nat
    BY <1>1 DEF CallType
  <2> QED
    BY <2>1 DEF Task, Node
<1> DEFINE r == [task |-> t[1], route |-> route, goto |-> goto]
           x == [call[c] EXCEPT !.todo = @ \ {t}, !.got = @ \cup {r}]
<1>5. ~r.route.send /\ ~Chosen(r).send
  BY <1>4 DEF Quiet, HasSends, Chosen
<1>6. Done(c, t, r)
  BY <1>3
<1> HIDE DEF r
<1>7. call' = [call EXCEPT ![c] = x] /\ UNCHANGED <<config, checkpoints>> /\ call[c].pc = "exec"
  BY <1>6 DEF Done, TypeOK
<1>8. /\ x.pc = "exec" /\ x.mode = call[c].mode /\ x.cur = call[c].cur
      /\ x.got = call[c].got \cup {r} /\ x.command = call[c].command
  BY <1>1, <1>7 DEF CallType
<1> HIDE DEF x
<1>9. WithoutSends(x) /\ ~Ends(x)
  BY <1>1, <1>5, <1>7, <1>8 DEF WithoutSends, Ends
<1>10. AtTheEnd(call[c]) => AtTheEnd(x)
  BY <1>7, <1>8 DEF AtTheEnd
<1>11. Busy(c)
  BY <1>7 DEF Busy
<1> QED
  BY <1>7, <1>8, <1>9, <1>10, <1>11, StepSettles

LEMMA FailSettles ==
  ASSUME TypeOK, Quiet, Settled, NEW c \in Calls, Fail(c) \/ Ask(c)
  PROVE  Settled'
<1>1. call[c] \in CallType /\ WithoutSends(call[c])
  BY DEF TypeOK, Settled
<1>2. call[c].pc = "exec" /\ UNCHANGED config /\ Executes(c) /\ Busy(c)
  BY DEF Fail, Ask, Executes, Busy
<1>3. PICK t \in call[c].todo, kind \in Kinds, outcome \in {"failed", "interrupted"} :
        TryAgain(c, t) \/ RaiseAlone(c, t, kind, outcome) \/ RaiseAmong(c, t)
  <2>1. "failed" \in Kinds /\ "inside" \in Kinds
    BY DEF Kinds
  <2> QED
    BY <2>1 DEF Fail, Ask
<1>4. CASE TryAgain(c, t) \/ RaiseAmong(c, t)
  <2>1. PICK todo, broken : call' = [call EXCEPT ![c] = [call[c] EXCEPT !.todo = todo,
                                                                        !.broken = broken]]
    <3>1. CASE TryAgain(c, t)
      <4>1. call' = [call EXCEPT ![c] =
              [call[c] EXCEPT !.todo = (call[c].todo \ {t}) \cup {<<t[1], t[2] + 1>>},
                              !.broken = call[c].broken]]
        BY <1>1, <3>1 DEF TryAgain, TypeOK, CallType
      <4> QED
        BY <4>1
    <3>2. CASE RaiseAmong(c, t)
      <4>1. call' = [call EXCEPT ![c] = [call[c] EXCEPT !.todo = call[c].todo \ {t},
                                                        !.broken = TRUE]]
        BY <3>2 DEF RaiseAmong, TypeOK
      <4> QED
        BY <4>1
    <3> QED
      BY <1>4, <3>1, <3>2
  <2> DEFINE x == [call[c] EXCEPT !.todo = todo, !.broken = broken]
  <2>2. call' = [call EXCEPT ![c] = x] /\ UNCHANGED <<config, checkpoints>>
    BY <1>2, <1>4, <2>1 DEF TryAgain, RaiseAmong
  <2>3. /\ x.pc = "exec" /\ x.mode = call[c].mode /\ x.cur = call[c].cur
        /\ x.got = call[c].got /\ x.command = call[c].command
    BY <1>1, <1>2 DEF CallType
  <2> HIDE DEF x
  <2>4. WithoutSends(x) /\ ~Ends(x) /\ (AtTheEnd(call[c]) => AtTheEnd(x))
    BY <1>1, <1>2, <2>3 DEF WithoutSends, Ends, AtTheEnd
  <2> QED
    BY <1>2, <2>2, <2>3, <2>4, StepSettles
<1>5. CASE RaiseAlone(c, t, kind, outcome)
  <2> DEFINE cp == Checkpoint(c, kind, call[c].state, {Node(t)})
  <2>1. Node(t) \in Nodes
    <3>1. t \in Task \X Nat
      BY <1>1 DEF CallType
    <3> QED
      BY <3>1 DEF Task, Node
  <2>2. {Node(t)} \in SUBSET Targets /\ call[c].state \in Seq(Merged)
    BY <1>1, <2>1 DEF Targets, CallType
  <2>3. cp \in CheckpointType
    BY <2>2, CheckpointTyped
  <2>4. cp.at = made + 1 /\ START \notin cp.next /\ END \notin cp.next
    BY <2>1, NodesAssumption DEF Checkpoint
  <2>5. Put(cp) /\ call' = [call EXCEPT ![c] = Stop(c, outcome)]
    BY <1>5 DEF RaiseAlone
  <2> HIDE DEF cp
  <2>6. ~Ends(Stop(c, outcome))
    BY StopSettles DEF Ends
  <2> QED
    BY <1>2, <2>3, <2>4, <2>5, <2>6, StopSettles, PutSettles
<1> QED
  BY <1>3, <1>4, <1>5

LEMMA ProceedSettles ==
  ASSUME TypeOK, NEW c \in Calls, call[c].pc = "exec", NEW state, NEW routes, NEW parent,
         \A r \in routes : ~r.send /\ START \notin r.to,
         Proceed(c, state, routes, parent)
  PROVE  \E x : /\ call' = [call EXCEPT ![c] = x]
                /\ x.pc = "loop" /\ x.state = state /\ x.command = call[c].command
                /\ WithoutSends(x)
                /\ END \in Names(routes) => AtTheEnd(x)
<1> DEFINE plain == UNION {r.to : r \in {x \in routes : ~x.send}}
           sent == UNION {r.to : r \in {x \in routes : x.send}}
           cur == IF plain = {} THEN {END} ELSE plain
           x == [call[c] EXCEPT !.state = state, !.parent = parent, !.got = {},
                                !.pc = "loop", !.cur = cur]
<1>1. sent = {}
  OBVIOUS
<1>2. plain = Names(routes)
  BY DEF Names
<1>3. START \notin plain
  OBVIOUS
<1>4. START \notin cur /\ (END \in plain => END \in cur)
  BY <1>3, NodesAssumption
<1>5. call' = [call EXCEPT ![c] = x]
  BY <1>1 DEF Proceed
<1> HIDE DEF sent, plain, cur
<1>6. /\ x.pc = "loop" /\ x.state = state /\ x.command = call[c].command /\ x.got = {}
      /\ x.cur = cur
  BY DEF TypeOK, CallType
<1> HIDE DEF x
<1>7. WithoutSends(x) /\ (END \in Names(routes) => AtTheEnd(x))
  BY <1>2, <1>4, <1>6 DEF WithoutSends, AtTheEnd
<1> QED
  BY <1>5, <1>6, <1>7

(* Where results lead.                                                      *)
LEMMA ResultsSettle ==
  ASSUME TypeOK, Settled, NEW c \in Calls, NEW r \in call[c].got
  PROVE  /\ ~r.route.send /\ START \notin r.route.to /\ r.route.to \in SUBSET Targets
         /\ ~Chosen(r).send /\ START \notin Chosen(r).to /\ Chosen(r).to \in SUBSET Targets
<1>1. r.route \in Route /\ Chosen(r) \in Route
  <2>1. r \in Result
    BY DEF TypeOK, CallType
  <2>2. r.route \in Route /\ r.goto \in Route \cup {None}
    BY <2>1 DEF Result
  <2> QED
    BY <2>2 DEF Chosen
<1>2. ASSUME NEW route \in Route, ~route.send
      PROVE  START \notin route.to /\ route.to \in SUBSET Targets
  <2>1. route \in [to : SUBSET (Nodes \cup {END}), send : {FALSE}]
    BY <1>2 DEF Route
  <2> QED
    BY <2>1, NodesAssumption DEF Targets
<1> QED
  BY <1>1, <1>2 DEF Settled, WithoutSends

LEMMA FinishSettles ==
  ASSUME TypeOK, Quiet, Settled, NEW c \in Calls,
         FinishNode(c) \/ FinishParallel(c) \/ FinishSends(c)
  PROVE  Settled'
<1>1. /\ Executes(c) /\ UNCHANGED config /\ call[c].pc = "exec"
      /\ call[c].mode # "send"
  BY DEF Executes, Merging, FinishNode, FinishParallel, FinishSends, Settled, WithoutSends
<1>2. "step" \in Kinds /\ "parallel" \in Kinds /\ "after" \in Kinds
  BY DEF Kinds
<1>3. MergedState(c) \in Seq(Merged)
  BY StateIsPrefix
<1>4. ASSUME NEW kind \in Kinds, NEW next \in SUBSET Targets
      PROVE  LET cp == Checkpoint(c, kind, MergedState(c), next)
             IN /\ cp \in CheckpointType /\ cp.at = made + 1 /\ cp.next = next
                /\ cp.state = MergedState(c)
  BY <1>3, CheckpointTyped DEF Checkpoint
<1>5. CASE FinishNode(c)
  <2>1. PICK r \in call[c].got :
          \/ /\ Put(Checkpoint(c, "after", MergedState(c), Names({Chosen(r)})))
             /\ call' = [call EXCEPT ![c] = Stop(c, "interrupted")]
          \/ /\ PutDurably(c, Checkpoint(c, "step", MergedState(c), Names({Chosen(r)})))
             /\ Proceed(c, MergedState(c), {Chosen(r)}, made + 1)
    BY <1>5 DEF FinishNode
  <2> DEFINE next == Names({Chosen(r)})
  <2>2. next = Chosen(r).to
    BY DEF Names
  <2>3. next \in SUBSET Targets /\ START \notin next /\ ~Chosen(r).send
    BY <2>2, ResultsSettle
  <2>4. CASE /\ PutDurably(c, Checkpoint(c, "step", MergedState(c), next))
             /\ Proceed(c, MergedState(c), {Chosen(r)}, made + 1)
    <3> DEFINE cp == Checkpoint(c, "step", MergedState(c), next)
    <3>1. PICK x : /\ call' = [call EXCEPT ![c] = x]
                   /\ x.pc = "loop" /\ x.state = MergedState(c)
                   /\ x.command = call[c].command /\ WithoutSends(x)
                   /\ END \in next => AtTheEnd(x)
      BY <1>1, <2>2, <2>3, <2>4, ProceedSettles
    <3> HIDE DEF next
    <3>2. /\ cp \in CheckpointType /\ cp.at = made + 1 /\ cp.next = next
          /\ cp.state = MergedState(c)
      BY <1>2, <1>4, <2>3
    <3>3. PutDurably(c, cp) /\ call[c].mode = "nodes"
      BY <1>5, <2>4 DEF FinishNode, Merging
    <3> HIDE DEF cp
    <3> QED
      BY <1>1, <2>3, <3>1, <3>2, <3>3, PutSettles
  <2>5. CASE /\ Put(Checkpoint(c, "after", MergedState(c), next))
             /\ call' = [call EXCEPT ![c] = Stop(c, "interrupted")]
    <3> DEFINE cp == Checkpoint(c, "after", MergedState(c), next)
               x == Stop(c, "interrupted")
    <3> HIDE DEF next
    <3>1. /\ cp \in CheckpointType /\ cp.at = made + 1 /\ cp.next = next
          /\ cp.state = MergedState(c)
      BY <1>2, <1>4, <2>3
    <3>2. /\ x.pc = "closing" /\ x.outcome = "interrupted" /\ x.command = call[c].command
          /\ WithoutSends(x) /\ AtTheEnd(x)
      BY StopSettles
    <3>3. Put(cp) /\ call' = [call EXCEPT ![c] = x]
      BY <2>5
    <3> HIDE DEF cp, x
    <3>4. ~Ends(x)
      BY <3>2 DEF Ends
    <3> QED
      BY <1>1, <2>3, <3>1, <3>2, <3>3, <3>4, PutSettles
  <2> QED
    BY <2>1, <2>4, <2>5
<1>6. CASE FinishParallel(c)
  <2> DEFINE routes == {r.route : r \in call[c].got}
             next == Names(routes)
             cp == Checkpoint(c, "parallel", MergedState(c), next)
  <2>1. Put(cp) /\ Proceed(c, MergedState(c), routes, made + 1)
    BY <1>6 DEF FinishParallel
  <2>2. \A r \in routes : ~r.send /\ START \notin r.to /\ r.to \in SUBSET Targets
    BY ResultsSettle
  <2> HIDE DEF routes
  <2>3. next \in SUBSET Targets /\ START \notin next
    BY <2>2 DEF Names
  <2>4. PICK x : /\ call' = [call EXCEPT ![c] = x]
                 /\ x.pc = "loop" /\ x.state = MergedState(c)
                 /\ x.command = call[c].command /\ WithoutSends(x)
                 /\ END \in next => AtTheEnd(x)
    BY <1>1, <2>1, <2>2, ProceedSettles
  <2> HIDE DEF next
  <2>5. /\ cp \in CheckpointType /\ cp.at = made + 1 /\ cp.next = next
        /\ cp.state = MergedState(c)
    BY <1>2, <1>4, <2>3
  <2> HIDE DEF cp
  <2> QED
    BY <1>1, <2>1, <2>3, <2>4, <2>5, PutSettles
<1>7. CASE FinishSends(c)
  BY <1>1, <1>7 DEF FinishSends, Merging
<1> QED
  BY <1>5, <1>6, <1>7

LEMMA FinishResumedSettles ==
  ASSUME TypeOK, Quiet, Settled, NEW c \in Calls, FinishResumed(c)
  PROVE  Settled'
<1>1. Executes(c) /\ Busy(c) /\ UNCHANGED config /\ call[c] \in CallType
  BY DEF Executes, Busy, Merging, FinishResumed, TypeOK
<1>2. PICK r \in call[c].got :
        LET next == IF Chosen(r).send THEN {SendObject} ELSE Chosen(r).to
        IN \/ /\ call' = [call EXCEPT ![c] = Stop(c, "failed")]
              /\ UNCHANGED checkpoints
           \/ /\ Put(Checkpoint(c, "resumed", MergedState(c), next))
              /\ call' = [call EXCEPT ![c].pc = "loop", ![c].cur = next, ![c].got = {},
                                      ![c].state = MergedState(c),
                                      ![c].parent = made + 1, ![c].answers = 0]
  BY DEF FinishResumed
<1> DEFINE next == Chosen(r).to
           cp == Checkpoint(c, "resumed", MergedState(c), next)
           x == [call[c] EXCEPT !.pc = "loop", !.cur = next, !.got = {},
                                !.state = MergedState(c),
                                !.parent = made + 1, !.answers = 0]
<1>3. next \in SUBSET Targets /\ START \notin next /\ ~Chosen(r).send
  BY ResultsSettle
<1>4. CASE call' = [call EXCEPT ![c] = Stop(c, "failed")] /\ UNCHANGED checkpoints
  <2> DEFINE y == Stop(c, "failed")
  <2>1. /\ y.pc = "closing" /\ y.outcome = "failed" /\ y.command = call[c].command
        /\ WithoutSends(y) /\ AtTheEnd(y)
    BY StopSettles
  <2>2. call' = [call EXCEPT ![c] = y]
    BY <1>4
  <2> HIDE DEF y
  <2>3. ~Ends(y)
    BY <2>1 DEF Ends
  <2> QED
    BY <1>1, <1>4, <2>1, <2>2, <2>3, StepSettles
<1>5. CASE /\ Put(cp)
           /\ call' = [call EXCEPT ![c].pc = "loop", ![c].cur = next, ![c].got = {},
                                   ![c].state = MergedState(c),
                                   ![c].parent = made + 1, ![c].answers = 0]
  <2>1. call' = [call EXCEPT ![c] = x]
    BY <1>5 DEF TypeOK
  <2>2. Put(cp)
    BY <1>5
  <2> HIDE DEF next
  <2>3. /\ x.pc = "loop" /\ x.state = MergedState(c) /\ x.cur = next /\ x.got = {}
        /\ x.command = call[c].command
    BY <1>1 DEF CallType
  <2>4. "resumed" \in Kinds /\ MergedState(c) \in Seq(Merged)
    BY StateIsPrefix DEF Kinds
  <2>5. /\ cp \in CheckpointType /\ cp.at = made + 1 /\ cp.next = next
        /\ cp.state = MergedState(c)
    BY <1>3, <2>4, CheckpointTyped DEF Checkpoint
  <2> HIDE DEF x, cp
  <2>6. WithoutSends(x) /\ (END \in next => AtTheEnd(x))
    BY <1>3, <2>3 DEF WithoutSends, AtTheEnd
  <2> QED
    BY <1>1, <1>3, <2>1, <2>2, <2>3, <2>5, <2>6, PutSettles
<1> QED
  BY <1>2, <1>3, <1>4, <1>5

LEMMA FlushStores ==
  ASSUME NEW T, NEW p \in Seq(T), NEW s \in Seq(T)
  PROVE  /\ Reverse(p) \o s \in Seq(T)
         /\ ToSet(Reverse(p) \o s) = ToSet(p) \cup ToSet(s)
<1> DEFINE b == Reverse(p)
           w == b \o s
<1>1. /\ Len(p) \in Nat /\ Len(s) \in Nat /\ DOMAIN p = 1..Len(p) /\ DOMAIN s = 1..Len(s)
  BY LenProperties
<1>2. b \in Seq(T)
  BY ReverseType
<1>3. Len(b) = Len(p) /\ \A i \in 1..Len(p) : b[i] = p[Len(p) - i + 1]
  <2>1. b = [i \in 1..Len(p) |-> p[(Len(p) - i) + 1]]
    BY DEF Reverse
  <2>2. DOMAIN b = 1..Len(p)
    BY <2>1
  <2>3. DOMAIN b = 1..Len(b) /\ Len(b) \in Nat
    <3> HIDE DEF b
    <3> QED
      BY <1>2, LenProperties
  <2>4. Len(b) = Len(p)
    <3> HIDE DEF b
    <3> QED
      BY <1>1, <2>2, <2>3
  <2> QED
    BY <2>1, <2>4
<1> HIDE DEF b
<1>4. /\ w \in Seq(T) /\ Len(w) = Len(b) + Len(s)
      /\ \A i \in 1..Len(w) : w[i] = IF i <= Len(b) THEN b[i] ELSE s[i - Len(b)]
  BY <1>2, ConcatProperties
<1>5. DOMAIN w = 1..Len(w)
  BY <1>4, LenProperties
<1> HIDE DEF w
<1>6. ToSet(w) \subseteq ToSet(p) \cup ToSet(s)
  <2> SUFFICES ASSUME NEW i \in 1..Len(w) PROVE w[i] \in ToSet(p) \cup ToSet(s)
    BY <1>5 DEF ToSet
  <2>1. CASE i <= Len(b)
    <3>1. i \in 1..Len(p) /\ Len(p) - i + 1 \in 1..Len(p) /\ w[i] = b[i]
      BY <1>1, <1>3, <1>4, <2>1
    <3>2. w[i] = p[Len(p) - i + 1]
      BY <1>3, <3>1
    <3> QED
      BY <1>1, <3>1, <3>2 DEF ToSet
  <2>2. CASE ~(i <= Len(b))
    <3>1. i - Len(b) \in 1..Len(s) /\ w[i] = s[i - Len(b)]
      BY <1>1, <1>3, <1>4, <2>2
    <3> QED
      BY <1>1, <3>1 DEF ToSet
  <2> QED
    BY <2>1, <2>2
<1>7. ToSet(p) \subseteq ToSet(w)
  <2> SUFFICES ASSUME NEW i \in 1..Len(p) PROVE p[i] \in ToSet(w)
    BY <1>1 DEF ToSet
  <2> DEFINE j == Len(p) - i + 1
  <2>1. /\ j \in 1..Len(p) /\ Len(p) - j + 1 = i /\ j \in 1..Len(w) /\ j <= Len(b)
    BY <1>1, <1>3, <1>4
  <2> HIDE DEF j
  <2>2. w[j] = p[i]
    BY <1>3, <1>4, <2>1
  <2> QED
    BY <1>5, <2>1, <2>2 DEF ToSet
<1>8. ToSet(s) \subseteq ToSet(w)
  <2> SUFFICES ASSUME NEW i \in 1..Len(s) PROVE s[i] \in ToSet(w)
    BY <1>1 DEF ToSet
  <2> DEFINE j == Len(b) + i
  <2>1. j \in 1..Len(w) /\ ~(j <= Len(b)) /\ j - Len(b) = i
    BY <1>1, <1>3, <1>4
  <2> HIDE DEF j
  <2>2. w[j] = s[i]
    BY <1>4, <2>1
  <2> QED
    BY <1>5, <2>1, <2>2 DEF ToSet
<1>9. w \in Seq(T) /\ ToSet(w) = ToSet(p) \cup ToSet(s)
  BY <1>4, <1>6, <1>7, <1>8
<1> QED
  BY <1>9 DEF w, b

(* When what is known is stored, the latest is the newest of it.            *)
LEMMA AllStored ==
  ASSUME TypeOK', Timed, ToSet(stored') = Known, Known # {}, saver' = saver,
         stored' = stored \/ saver = "sqlite", LastIsNewest, TypeOK
  PROVE  Latest' \in Known /\ Top(Latest')
<1> DEFINE all == ToSet(stored')
<1>1. stored' \in Seq(CheckpointType) /\ stored' # <<>>
  BY DEF TypeOK, ToSet
<1>2. IsFiniteSet(all) /\ all \subseteq CheckpointType /\ all # {}
  BY <1>1, SeqIsFinite
<1>3. \A y \in all : y.at \in Nat
  BY <1>2 DEF CheckpointType
<1>4. Newest(all) \in all /\ \A y \in all : y.at <= Newest(all).at
  <2> HIDE DEF all
  <2> QED
    BY <1>2, <1>3, NewestExists
<1>5. Latest' = IF saver = "sqlite" THEN Newest(all) ELSE Head(stored')
  BY DEF Latest, Newest
<1>6. CASE saver = "sqlite"
  BY <1>4, <1>5, <1>6 DEF Top
<1>7. CASE saver # "sqlite"
  <2>1. saver = "memory" /\ stored' = stored
    BY <1>7, TypeParts, GraphTyped
  <2>2. Latest' = Latest
    BY <2>1 DEF Latest
  <2> QED
    BY <1>1, <2>1, <2>2, LatestIsNewestStored DEF Top
<1> QED
  BY <1>6, <1>7

LEMMA ReturnSettles ==
  ASSUME TypeOK, Quiet, Settled, NEW c \in Calls, Return(c)
  PROVE  /\ Settled'
         /\ call[c].outcome = "finished" => Latest'.state = call[c].state
<1>1. TypeOK' /\ Busy(c) /\ call' = [call EXCEPT ![c] = IdleCall]
  BY ReturnTyped DEF Return, Busy
<1>2. \A d \in Calls : call'[d] = IF d = c THEN IdleCall ELSE call[d]
  BY <1>1 DEF TypeOK
<1>3. \A d \in Calls : ~Busy(d)' /\ ~Ends(call'[d]) /\ WithoutSends(call'[d])
  <2>1. \A d \in Calls : Busy(d) => d = c
    BY <1>1 DEF Settled, AtATime
  <2>2. IdleCall.pc = "idle" /\ WithoutSends(IdleCall)
    BY DEF IdleCall, WithoutSends
  <2> QED
    BY <1>2, <2>1, <2>2 DEF Busy, Ends, Settled
<1>4. /\ made' = made /\ writing' = writing /\ saver' = saver /\ durability' = durability
      /\ durability \in {"sync", "async", "exit"}
  BY TypeParts, GraphTyped DEF Return, config
<1>5. \A d \in Calls : writing[d] = {}
  <2>1. writing[c] = {}
    BY DEF Return, Settled, AtATime, Quiet
  <2> QED
    BY <1>1, <2>1 DEF Settled, AtATime
<1>6. Made = ToSet(stored) /\ Made' = ToSet(stored')
  BY <1>4, <1>5 DEF Made
<1>7. stored \in Seq(CheckpointType) /\ pending \in Seq(CheckpointType) /\ ToSet(<<>>) = {}
  BY DEF TypeOK, ToSet
<1>8. \/ /\ UNCHANGED <<stored, pending>>
         /\ durability # "exit"
      \/ /\ UNCHANGED <<stored, pending>>
         /\ durability = "exit" /\ call[c].command /\ call[c].outcome # "finished"
      \/ /\ stored' = Reverse(pending) \o stored /\ pending' = <<>>
         /\ durability = "exit"
  BY DEF Return
<1>9. Known' = Known /\ (durability' # "exit" => pending' = <<>>)
  <2>1. CASE UNCHANGED <<stored, pending>>
    BY <1>4, <1>6, <2>1 DEF Known, Settled, Timed
  <2>2. CASE stored' = Reverse(pending) \o stored /\ pending' = <<>> /\ durability = "exit"
    <3>1. ToSet(stored') = ToSet(pending) \cup ToSet(stored)
      BY <1>7, <2>2, FlushStores
    <3> QED
      BY <1>4, <1>6, <1>7, <2>2, <3>1 DEF Known
  <2> QED
    BY <1>8, <2>1, <2>2
<1>10. \A cp : Top(cp)' <=> Top(cp)
  BY <1>9 DEF Top
<1>11. AtATime'
  BY <1>3, <1>4, <1>5 DEF AtATime
<1>12. Timed'
  BY <1>4, <1>9 DEF Settled, Timed
<1>13. stored' = stored \/ saver = "sqlite"
  BY <1>8 DEF Quiet
<1>14. LastIsNewest'
  <2>1. saver = "sqlite" => saver # "memory"
    OBVIOUS
  <2> QED
    BY <1>4, <1>13, <2>1 DEF Settled, LastIsNewest
<1>15. EndsWithNewest'
  BY <1>3 DEF EndsWithNewest
<1>16. ASSUME ToSet(stored') = Known, Known # {}
       PROVE  Latest' \in Known /\ Top(Latest')
  BY <1>1, <1>4, <1>13, <1>16, AllStored DEF Settled
<1>17. LeftBehind'
  <2> SUFFICES ASSUME durability = "exit", stored' # <<>>, END \in Latest'.next
               PROVE  Top(Latest')
    BY <1>3, <1>4, <1>10 DEF LeftBehind
  <2>1. CASE UNCHANGED <<stored, pending>> /\ call[c].command
    <3>1. Latest' = Latest
      BY <1>4, <2>1 DEF Latest
    <3>2. \A d \in Calls : Busy(d) => call[d].command
      BY <1>1, <2>1 DEF Settled, AtATime
    <3> QED
      BY <2>1, <3>1, <3>2 DEF Settled, LeftBehind
  <2>2. CASE stored' = Reverse(pending) \o stored /\ pending' = <<>>
    <3>1. Known = ToSet(stored')
      BY <1>6, <1>7, <1>9, <2>2 DEF Known
    <3>2. Known # {}
      BY <1>1, <3>1, SeqIsFinite DEF TypeOK
    <3> QED
      BY <1>16, <3>1, <3>2
  <2> QED
    BY <1>8, <2>1, <2>2
<1>18. ASSUME call[c].outcome = "finished"
       PROVE  Latest'.state = call[c].state
  <2>1. PICK cp \in Known : Top(cp) /\ cp.state = call[c].state
    BY <1>18 DEF Return, Ends, Settled, EndsWithNewest
  <2>2. pending' = <<>>
    BY <1>8, <1>18 DEF Settled, Timed
  <2>3. Known = ToSet(stored')
    BY <1>6, <1>7, <1>9, <2>2 DEF Known
  <2>4. Latest' \in Known /\ Top(Latest')
    BY <1>16, <2>1, <2>3
  <2>5. cp.at \in Nat /\ Latest'.at \in Nat /\ cp.at <= Latest'.at /\ Latest'.at <= cp.at
    BY <2>1, <2>4, KnownTyped DEF Top, CheckpointType
  <2>6. cp = Latest'
    BY <2>1, <2>4, <2>5 DEF Settled, Timed
  <2> QED
    BY <2>1, <2>6
<1> QED
  BY <1>3, <1>11, <1>12, <1>14, <1>15, <1>17, <1>18 DEF Settled

LEMMA WriteSettles ==
  ASSUME TypeOK, Quiet, Settled, NEW c \in Calls, Write(c)
  PROVE  Settled'
<1>1. UNCHANGED <<config, pending, made, call>> /\ writing[c] # {}
  BY DEF Write
<1>2. Made' = Made /\ \A d \in Calls : writing'[d] \subseteq writing[d]
  BY WriteMoves
<1>3. Known' = Known /\ \A cp : Top(cp)' <=> Top(cp)
  BY <1>1, <1>2 DEF Known, Top
<1>4. durability = "async" /\ durability' = durability /\ saver' = saver /\ saver # "memory"
  BY <1>1 DEF Settled, AtATime, Quiet, config
<1>5. AtATime'
  BY <1>1, <1>2, <1>4 DEF Settled, AtATime, Busy
<1>6. Timed'
  BY <1>1, <1>3, <1>4 DEF Settled, Timed
<1>7. EndsWithNewest'
  BY <1>1, <1>3 DEF Settled, EndsWithNewest
<1>8. LastIsNewest' /\ LeftBehind'
  BY <1>4 DEF LastIsNewest, LeftBehind
<1> QED
  BY <1>1, <1>5, <1>6, <1>7, <1>8 DEF Settled

LEMMA UpdateSettles ==
  ASSUME TypeOK, Settled, UpdateState, ~forked'
  PROVE  Settled'
<1> DEFINE cp == [Latest EXCEPT !.edited = TRUE, !.at = made + 1, !.parent = Latest.at]
<1>1. Latest \in CheckpointType /\ START \notin Latest.next
  BY LatestIsStored DEF UpdateState, Settled, Timed, Known, Made
<1>2. cp \in CheckpointType /\ cp.at = made + 1 /\ cp.next = Latest.next
  <2> DEFINE last == Latest
             at == made + 1
  <2>1. last \in CheckpointType /\ at \in Nat
    BY <1>1 DEF TypeOK
  <2> HIDE DEF last, at
  <2> DEFINE new == [last EXCEPT !.edited = TRUE, !.at = at, !.parent = last.at]
  <2>2. new \in CheckpointType /\ new.at = at /\ new.next = last.next
    BY <2>1 DEF CheckpointType
  <2> QED
    BY <2>2 DEF last, at
<1>3. Put(cp) /\ UNCHANGED <<config, call>>
  BY DEF UpdateState
<1> HIDE DEF cp
<1>4. \A c \in Calls : ~Busy(c)
  BY DEF UpdateState, Busy
<1>5. /\ stored' = <<cp>> \o stored /\ writing' = writing /\ pending' = pending
      /\ made' = made + 1 /\ saver' = saver /\ durability' = durability
  BY <1>3 DEF Put, config
<1>6. /\ Latest' = cp /\ ToSet(stored') = ToSet(stored) \cup {cp}
      /\ \A y \in ToSet(stored') : y.at <= Head(stored').at
  BY <1>2, <1>5, PutIsLatest DEF Settled
<1>7. Known' = Known \cup {cp}
  BY <1>5, <1>6 DEF Known, Made
<1>8. Timed' /\ cp \in Known' /\ \A x \in Known' : x.at <= cp.at
  <2>1. START \notin cp.next /\ (durability' # "exit" => pending' = <<>>)
    BY <1>1, <1>2, <1>5 DEF Settled, Timed
  <2> QED
    BY <1>2, <1>5, <1>7, <2>1, NewIsTop DEF Settled, Top
<1>9. \A c \in Calls : ~Busy(c)' /\ ~Ends(call'[c]) /\ WithoutSends(call'[c])
  BY <1>3, <1>4 DEF Busy, Ends, Settled
<1>10. AtATime'
  BY <1>3, <1>5, <1>9 DEF Settled, AtATime, Busy
<1>11. LastIsNewest' /\ EndsWithNewest' /\ LeftBehind'
  BY <1>6, <1>8, <1>9 DEF LastIsNewest, EndsWithNewest, LeftBehind, Top
<1> QED
  BY <1>8, <1>9, <1>10, <1>11 DEF Settled

LEMMA CrashSettles ==
  ASSUME TypeOK, Settled, Crash
  PROVE  Settled'
<1>1. /\ \A c \in Calls : writing'[c] = {} /\ ~Busy(c)' /\ ~Ends(call'[c])
      /\ UNCHANGED <<config, made>> /\ pending' = <<>>
      /\ \A c \in Calls : WithoutSends(call'[c])
  BY DEF Crash, Busy, Ends, WithoutSends, IdleCall
<1>2. Known' = ToSet(stored')
  BY <1>1 DEF Known, Made, ToSet
<1>3. stored' = stored \/ (stored' = <<>> /\ ToSet(stored') = {})
  BY DEF Crash, ToSet
<1>4. ToSet(stored') \subseteq Known
  BY <1>3 DEF Known, Made
<1>5. AtATime'
  BY <1>1 DEF AtATime
<1>6. Timed'
  BY <1>1, <1>2, <1>4 DEF Settled, Timed
<1>7. LastIsNewest'
  BY <1>1, <1>3 DEF Settled, LastIsNewest, config
<1>8. EndsWithNewest'
  BY <1>1 DEF EndsWithNewest
<1>9. LeftBehind'
  <2> SUFFICES ASSUME stored' # <<>> PROVE Top(Latest)' /\ \A c \in Calls : ~Busy(c)'
    BY DEF LeftBehind
  <2>1. stored' = stored /\ Latest' = Latest
    BY <1>1, <1>3 DEF Latest, config
  <2>2. Latest \in ToSet(stored) /\ \A x \in ToSet(stored) : x.at <= Latest.at
    BY <2>1, LatestIsNewestStored DEF Settled
  <2> QED
    BY <1>1, <1>2, <2>1, <2>2 DEF Top
<1> QED
  BY <1>1, <1>5, <1>6, <1>7, <1>8, <1>9 DEF Settled

LEMMA NextSettles == TypeOK /\ SettledInv /\ [Next]_vars => SettledInv'
<1> SUFFICES ASSUME TypeOK, SettledInv, [Next]_vars, Quiet'
             PROVE  Settled'
  BY DEF SettledInv
<1>1. Quiet /\ ~forked'
  BY ConfigStands, ForkedStays DEF Quiet, HasSends, config
<1>2. Settled
  BY <1>1 DEF SettledInv
<1>3. CASE \E c \in Calls : Invoke(c) \/ Advance(c) \/ Fail(c) \/ Write(c)
  BY <1>1, <1>2, <1>3, InvokeSettles, LoopSettles, SucceedSettles, FailSettles, FinishSettles,
     FinishResumedSettles, ReturnSettles, WriteSettles DEF Advance
<1>4. CASE UpdateState \/ Crash
  BY <1>1, <1>2, <1>4, UpdateSettles, CrashSettles
<1>5. CASE UNCHANGED vars
  <2>1. UNCHANGED <<config, checkpoints, call>>
    BY <1>5 DEF vars
  <2>2. Known' = Known /\ Latest' = Latest /\ \A cp : Top(cp)' <=> Top(cp)
    BY <2>1 DEF config, checkpoints, Known, Made, Latest, Top
  <2> QED
    BY <1>2, <2>1, <2>2 DEF config, checkpoints, Settled, AtATime, Timed, LastIsNewest,
                            EndsWithNewest, LeftBehind, Busy
<1> QED
  BY <1>3, <1>4, <1>5 DEF Next

LEMMA InitSettles == Init => SettledInv
<1> SUFFICES ASSUME Init PROVE Settled
  BY DEF SettledInv
<1>1. ToSet(stored) = {} /\ ToSet(pending) = {}
  BY DEF Init, ToSet
<1>2. Known = {}
  BY <1>1 DEF Init, Known, Made
<1>3. \A c \in Calls : ~Busy(c) /\ ~Ends(call[c]) /\ WithoutSends(call[c])
  BY DEF Init, Busy, Ends, WithoutSends, IdleCall
<1> QED
  BY <1>1, <1>2, <1>3 DEF Init, Settled, AtATime, Timed, LastIsNewest, EndsWithNewest, LeftBehind

(* What a finished invocation returns is what the thread goes on from, in   *)
(* every durability mode, for any graph without Sends, unless somebody goes *)
(* back to an old checkpoint or comes in while an invocation is in progress *)
(* (state_graph.py 1115-1180, checkpoint.py 169-190, 301).                  *)
THEOREM WhatFinishesIsStored == Spec => FinishedIsStored
<1>1. Init => TypeOK /\ SettledInv
  BY InitTyped, InitSettles
<1>2. TypeOK /\ SettledInv /\ [Next]_vars => (TypeOK /\ SettledInv)'
  BY NextTyped, NextSettles
<1>3. TypeOK /\ SettledInv =>
        \A c \in Calls :
          (/\ Return(c) /\ call[c].outcome = "finished" /\ ~forked /\ ~HasSends
           /\ (durability = "sync" \/ (saver = "sqlite" /\ Blocking)))
              => Latest'.state = call[c].state
  BY ReturnSettles DEF SettledInv, Quiet
<1> QED
  BY <1>1, <1>2, <1>3, PTL DEF Spec, FinishedIsStored
=============================================================================
