------------------------- MODULE ChatSessionProofs -------------------------
(***************************************************************************)
(* Theorems about ChatSession, for any callers, limit and number of        *)
(* attempts.                                                               *)
(***************************************************************************)
EXTENDS ChatSession, FiniteSetTheorems, TLAPS

(* The program uses invoke() only, and closes or resets the chat when       *)
(* nothing is in progress.  It may abandon generators.                      *)
OnlyInvokes == "stream" \notin Uses /\ "close" \notin Uses

-----------------------------------------------------------------------------
(* Type correctness.                                                        *)

(* Every outcome of an attempt keeps a typed function of invocations typed. *)
LEMMA NoInvocationTyped == NoInvocation \in Invocation
BY RetryAttemptsAssumption DEF NoInvocation, Invocation

LEMMA FinishTyped ==
    ASSUME TypeOK, NEW c \in Callers, NEW r \in Reply,
           NEW after \in [Callers -> Invocation], Finish(c, r, after)
    PROVE  TypeOK'
BY NoInvocationTyped DEF TypeOK, Finish, SessionState, Reply

LEMMA MarkTyped ==
    ASSUME TypeOK, NEW c \in Callers
    PROVE  Mark(c) \in [Callers -> Invocation]
<1>1. \A x \in Callers : [inv[x] EXCEPT !.marked = TRUE] \in Invocation
  BY DEF TypeOK, Invocation
<1> QED
  BY <1>1 DEF TypeOK, Mark

LEMMA RaiseTyped ==
    ASSUME TypeOK, NEW c \in Callers, NEW e \in Errors,
           NEW after \in [Callers -> Invocation], Raise(c, e, after)
    PROVE  TypeOK'
<1>1. CASE Finish(c, "failure", after)
  BY <1>1, FinishTyped DEF Reply
<1>2. CASE /\ inv' = [after EXCEPT ![c].pc = "waiting"]
           /\ UNCHANGED <<state, active, current, reply>>
  <2>1. [after[c] EXCEPT !.pc = "waiting"] \in Invocation
    BY DEF Invocation
  <2> QED
    BY <1>2, <2>1 DEF TypeOK
<1> QED
  BY <1>1, <1>2 DEF Raise

LEMMA OpenTyped ==
    ASSUME TypeOK, NEW c \in Callers, NEW kind \in {"blocking", "stream"},
           Open(c, kind)
    PROVE  TypeOK'
<1>1. [NoInvocation EXCEPT !.kind = kind, !.pc = "starting"] \in Invocation
  BY NoInvocationTyped DEF Invocation
<1> QED
  BY <1>1 DEF TypeOK, Open, SessionState, Reply

LEMMA InitTyped == Init => TypeOK
BY RetryAttemptsAssumption
   DEF Init, TypeOK, SessionState, NoInvocation, Invocation, Reply

LEMMA NextTyped == TypeOK /\ [Next]_vars => TypeOK'
<1> SUFFICES ASSUME TypeOK, [Next]_vars PROVE TypeOK'
  OBVIOUS
<1>1. ASSUME NEW c \in Callers, Invoke(c, "blocking") \/ Invoke(c, "stream")
      PROVE TypeOK'
  BY <1>1, OpenTyped DEF Invoke
<1>2. ASSUME NEW c \in Callers, InvokeRefused(c) PROVE TypeOK'
  BY <1>2 DEF InvokeRefused, TypeOK, Reply
<1>3. ASSUME NEW c \in Callers, Stream(c) PROVE TypeOK'
  BY <1>3, OpenTyped DEF Stream
<1>4. ASSUME NEW c \in Callers, Begin(c) PROVE TypeOK'
  <2>1. [inv[c] EXCEPT !.pc = "executing"] \in Invocation
    BY DEF TypeOK, Invocation
  <2> QED
    BY <1>4, <2>1 DEF Begin, TypeOK
<1>5. ASSUME NEW c \in Callers, AgentRefuses(c) PROVE TypeOK'
  BY <1>5, FinishTyped DEF AgentRefuses, TypeOK, Reply
<1>6. ASSUME NEW c \in Callers, Yield(c) PROVE TypeOK'
  <2>1. [inv[c] EXCEPT !.sent = @ \cup {inv[c].attempt}] \in Invocation
    BY DEF TypeOK, Invocation
  <2> QED
    BY <1>6, <2>1 DEF Yield, TypeOK
<1>7. ASSUME NEW c \in Callers, Answer(c) PROVE TypeOK'
  BY <1>7, FinishTyped, MarkTyped DEF Answer, Reply
<1>8. ASSUME NEW c \in Callers, Fail(c) PROVE TypeOK'
  BY <1>8, RaiseTyped, MarkTyped DEF Fail
<1>9. ASSUME NEW c \in Callers, FailEarly(c) PROVE TypeOK'
  BY <1>9, RaiseTyped DEF FailEarly, TypeOK
<1>10. ASSUME NEW c \in Callers, Retry(c) PROVE TypeOK'
  <2>1. inv[c].attempt + 1 \in 0..RetryAttempts
    BY <1>10, RetryAttemptsAssumption DEF Retry, TypeOK, Invocation
  <2>2. [inv[c] EXCEPT !.pc = "starting", !.attempt = @ + 1] \in Invocation
    BY <2>1 DEF TypeOK, Invocation
  <2> QED
    BY <1>10, <2>2 DEF Retry, TypeOK
<1>11. ASSUME NEW c \in Callers, GiveUp(c) PROVE TypeOK'
  BY <1>11, FinishTyped DEF GiveUp, TypeOK, Reply
<1>12. ASSUME NEW c \in Callers, Interrupt(c) PROVE TypeOK'
  BY <1>12, FinishTyped DEF Interrupt, TypeOK, Reply
<1>13. ASSUME NEW c \in Callers, Drop(c) PROVE TypeOK'
  BY <1>13, NoInvocationTyped DEF Drop, TypeOK, Reply
<1>14. ASSUME Close PROVE TypeOK'
  BY <1>14 DEF Close, TypeOK, SessionState
<1>15. ASSUME UNCHANGED vars PROVE TypeOK'
  BY <1>15 DEF vars, TypeOK
<1> QED
  BY <1>1, <1>2, <1>3, <1>4, <1>5, <1>6, <1>7, <1>8, <1>9, <1>10, <1>11,
     <1>12, <1>13, <1>14, <1>15 DEF Next, Executes

(* Every variable of the session keeps its type; in particular the count    *)
(* of invocations (session_manager.py 298) never goes below zero, whatever  *)
(* is closed, dropped or interrupted meanwhile.                             *)
THEOREM ChatTypeCorrect == Spec => []TypeOK
<1> QED
  BY InitTyped, NextTyped, PTL DEF Spec

-----------------------------------------------------------------------------
(* The limit.                                                               *)

(* How a step moves the set of invocations in progress and their count.     *)
Stays == /\ InProgress' = InProgress
         /\ active' = active \/ (InProgress = {} /\ active' = 0)

Takes(c) == /\ c \notin InProgress
            /\ active < MaxConcurrent
            /\ InProgress' = InProgress \cup {c}
            /\ active' = active + 1

(* The count is kept when a generator is abandoned.                         *)
Leaves(c) == /\ c \in InProgress
             /\ InProgress' = InProgress \ {c}
             /\ active' = active \/ active' = IF active > 0 THEN active - 1 ELSE 0

Moves == Stays \/ \E c \in Callers : Takes(c) \/ Leaves(c)

LEMMA FinishLeaves ==
    ASSUME TypeOK, NEW c \in InProgress, NEW r,
           NEW after \in [Callers -> Invocation],
           \A x \in Callers : after[x].pc = inv[x].pc,
           Finish(c, r, after)
    PROVE  Leaves(c)
BY DEF Finish, Leaves, InProgress, NoInvocation

LEMMA RaiseMoves ==
    ASSUME TypeOK, NEW c \in InProgress, NEW e,
           NEW after \in [Callers -> Invocation],
           \A x \in Callers : after[x].pc = inv[x].pc,
           Raise(c, e, after)
    PROVE  Stays \/ Leaves(c)
<1>1. CASE Finish(c, "failure", after)
  BY <1>1, FinishLeaves
<1>2. CASE /\ inv' = [after EXCEPT ![c].pc = "waiting"]
           /\ UNCHANGED <<state, active, current, reply>>
  <2>1. \A x \in Callers : inv'[x].pc # "none" <=> inv[x].pc # "none"
    BY <1>2 DEF InProgress, Invocation
  <2> QED
    BY <1>2, <2>1 DEF Stays, InProgress
<1> QED
  BY <1>1, <1>2 DEF Raise

LEMMA MarkKeepsPlace ==
    ASSUME TypeOK, NEW c \in Callers
    PROVE  \A x \in Callers : Mark(c)[x].pc = inv[x].pc
BY DEF Mark, TypeOK, Invocation

(* Only invoke() starts an invocation, and it asks first.                   *)
LEMMA NextMoves ==
    ASSUME OnlyInvokes, TypeOK, [Next]_vars
    PROVE  Moves
<1>1. ASSUME NEW c \in Callers, Invoke(c, "blocking") \/ Invoke(c, "stream")
      PROVE Takes(c)
  BY <1>1 DEF Invoke, Open, CanAccept, Takes, InProgress, NoInvocation, TypeOK
<1>2. ASSUME NEW c \in Callers, InvokeRefused(c) PROVE Stays
  BY <1>2 DEF InvokeRefused, Stays, InProgress
<1>3. ASSUME NEW c \in Callers, Stream(c) PROVE FALSE
  BY <1>3 DEF Stream, OnlyInvokes
<1>4. ASSUME NEW c \in Callers, Begin(c) PROVE Stays
  BY <1>4 DEF Begin, Stays, InProgress, TypeOK, Invocation
<1>5. ASSUME NEW c \in Callers, AgentRefuses(c) PROVE Leaves(c)
  BY <1>5, FinishLeaves DEF AgentRefuses, InProgress, TypeOK
<1>6. ASSUME NEW c \in Callers, Yield(c) PROVE Stays
  BY <1>6 DEF Yield, Stays, InProgress, TypeOK, Invocation
<1>7. ASSUME NEW c \in Callers, Answer(c) PROVE Leaves(c)
  BY <1>7, FinishLeaves, MarkTyped, MarkKeepsPlace DEF Answer, InProgress
<1>8. ASSUME NEW c \in Callers, Fail(c) PROVE Stays \/ Leaves(c)
  BY <1>8, RaiseMoves, MarkTyped, MarkKeepsPlace DEF Fail, InProgress
<1>9. ASSUME NEW c \in Callers, FailEarly(c) PROVE Stays \/ Leaves(c)
  BY <1>9, RaiseMoves DEF FailEarly, InProgress, TypeOK
<1>10. ASSUME NEW c \in Callers, Retry(c) PROVE Stays
  BY <1>10 DEF Retry, Stays, InProgress, TypeOK, Invocation
<1>11. ASSUME NEW c \in Callers, GiveUp(c) PROVE Leaves(c)
  BY <1>11, FinishLeaves DEF GiveUp, InProgress, TypeOK
<1>12. ASSUME NEW c \in Callers, Interrupt(c) PROVE Leaves(c)
  BY <1>12, FinishLeaves DEF Interrupt, InProgress, TypeOK
<1>13. ASSUME NEW c \in Callers, Drop(c) PROVE Leaves(c)
  BY <1>13 DEF Drop, Leaves, InProgress, NoInvocation, TypeOK
<1>14. ASSUME Close PROVE Stays
  BY <1>14 DEF Close, Stays, InProgress, OnlyInvokes
<1>15. ASSUME UNCHANGED vars PROVE Stays
  BY <1>15 DEF vars, Stays, InProgress
<1> QED
  BY <1>1, <1>2, <1>3, <1>4, <1>5, <1>6, <1>7, <1>8, <1>9, <1>10, <1>11,
     <1>12, <1>13, <1>14, <1>15 DEF Next, Executes, Moves

(* The count never falls behind the invocations in progress.                *)
Counted == /\ IsFiniteSet(InProgress)
           /\ Cardinality(InProgress) <= active
           /\ active <= MaxConcurrent

LEMMA InitCounted == Init => Counted
<1> SUFFICES ASSUME Init PROVE Counted
  OBVIOUS
<1>1. InProgress = {}
  BY DEF Init, InProgress, NoInvocation
<1> QED
  BY <1>1, FS_EmptySet, LimitAssumption DEF Init, Counted

LEMMA NextCounted ==
    ASSUME OnlyInvokes, TypeOK, Counted, [Next]_vars
    PROVE  Counted'
<1> USE LimitAssumption
<1>1. Cardinality(InProgress) \in Nat
  BY FS_CardinalityType DEF Counted
<1>2. CASE Stays
  BY <1>2, FS_EmptySet DEF Stays, Counted, TypeOK
<1>3. ASSUME NEW c \in Callers, Takes(c) PROVE Counted'
  <2>1. /\ IsFiniteSet(InProgress')
        /\ Cardinality(InProgress') = Cardinality(InProgress) + 1
    BY <1>3, FS_AddElement DEF Takes, Counted
  <2> QED
    BY <1>1, <1>3, <2>1 DEF Takes, Counted, TypeOK
<1>4. ASSUME NEW c \in Callers, Leaves(c) PROVE Counted'
  <2>1. /\ IsFiniteSet(InProgress')
        /\ Cardinality(InProgress') = Cardinality(InProgress) - 1
    BY <1>4, FS_RemoveElement DEF Leaves, Counted
  <2> QED
    BY <1>1, <1>4, <2>1 DEF Leaves, Counted, TypeOK
<1> QED
  BY <1>2, <1>3, <1>4, NextMoves DEF Moves

LEMMA AlwaysCounted == ASSUME OnlyInvokes PROVE Spec => [](TypeOK /\ Counted)
<1>1. Init => TypeOK /\ Counted
  BY InitTyped, InitCounted
<1>2. TypeOK /\ Counted /\ [Next]_vars => (TypeOK /\ Counted)'
  BY NextTyped, NextCounted
<1> QED
  BY <1>1, <1>2, PTL DEF Spec

(* However many callers use invoke(), and however their invocations end, no *)
(* more are in progress than max_concurrent_invocations (chat.py 700).      *)
THEOREM LimitHolds == ASSUME OnlyInvokes PROVE Spec => []LimitRespected
<1>1. TypeOK /\ Counted => LimitRespected
  <2> SUFFICES ASSUME TypeOK, Counted PROVE LimitRespected
    OBVIOUS
  <2>1. Cardinality(InProgress) \in Nat
    BY FS_CardinalityType DEF Counted
  <2> QED
    BY <2>1, LimitAssumption DEF LimitRespected, Counted, TypeOK
<1> QED
  BY <1>1, AlwaysCounted, PTL

(* Every step of the chat takes a slot, gives one back, or leaves the slots *)
(* alone: the chat implements InvocationSlots.                              *)
THEOREM ChatImplementsSlots == ASSUME OnlyInvokes PROVE Spec => ImplementsSlots
<1>1. Init => Slots!Init
  BY DEF Init, Slots!Init, InProgress, NoInvocation
<1>2. TypeOK /\ Counted /\ [Next]_vars => [Slots!Next]_InProgress
  <2> SUFFICES ASSUME TypeOK, Counted, [Next]_vars
               PROVE  [Slots!Next]_InProgress
    OBVIOUS
  <2>1. CASE Stays
    BY <2>1 DEF Stays
  <2>2. ASSUME NEW c \in Callers, Takes(c) PROVE Slots!Take(c)
    <3>1. Cardinality(InProgress) \in Nat
      BY FS_CardinalityType DEF Counted
    <3>2. Cardinality(InProgress) < MaxConcurrent
      BY <2>2, <3>1, LimitAssumption DEF Takes, Counted, TypeOK
    <3>3. Slots!Cardinality(InProgress) = Cardinality(InProgress)
      BY DEF Cardinality, Slots!Cardinality
    <3> QED
      BY <2>2, <3>2, <3>3 DEF Takes, Slots!Take
  <2>3. ASSUME NEW c \in Callers, Leaves(c) PROVE Slots!GiveBack(c)
    BY <2>3 DEF Leaves, Slots!GiveBack
  <2> QED
    BY <2>1, <2>2, <2>3, NextMoves DEF Moves, Slots!Next
<1> QED
  BY <1>1, <1>2, AlwaysCounted, PTL DEF Spec, ImplementsSlots, Slots!Spec

-----------------------------------------------------------------------------
(* One invocation at a time.                                                *)

LEMMA Alone ==
    ASSUME TypeOK, Counted, MaxConcurrent = 1,
           NEW c \in InProgress, NEW d \in InProgress
    PROVE  c = d
<1> SUFFICES ASSUME c # d PROVE FALSE
  OBVIOUS
<1>1. Cardinality(InProgress) \in Nat /\ Cardinality(InProgress) <= 1
  BY FS_CardinalityType DEF Counted, TypeOK
<1>2. /\ IsFiniteSet(InProgress \ {c})
      /\ Cardinality(InProgress \ {c}) = Cardinality(InProgress) - 1
      /\ Cardinality(InProgress \ {c}) \in Nat
  BY FS_RemoveElement, FS_CardinalityType DEF Counted
<1>3. Cardinality(InProgress \ {c}) = 0
  BY <1>1, <1>2
<1>4. InProgress \ {c} = {}
  BY <1>2, <1>3, FS_EmptySet
<1> QED
  BY <1>4

(* What keeps a broken stream from starting over: the invocation that       *)
(* executes is the one whose output the agent holds, so that its failure    *)
(* marks its own Task, and one that yielded a chunk and is to be tried      *)
(* again has a marked Task, which the agent will refuse.                    *)
HeardOf(i, c, cur) ==
    /\ i.pc = "none" => i.sent = {}
    /\ i.pc = "executing" => cur = c /\ i.sent \subseteq {i.attempt}
    /\ i.pc \in {"starting", "waiting"} => i.marked \/ i.sent = {}
    /\ \A m, n \in i.sent : m = n

Heard == \A c \in Callers : HeardOf(inv[c], c, current)

LEMMA FinishHeard ==
    ASSUME TypeOK, Heard, NEW c \in Callers, NEW r,
           NEW after \in [Callers -> Invocation],
           \A x \in Callers : \/ after[x] = inv[x]
                             \/ after[x] = [inv[x] EXCEPT !.marked = TRUE],
           Finish(c, r, after)
    PROVE  Heard'
<1> SUFFICES ASSUME NEW x \in Callers PROVE HeardOf(inv'[x], x, current')
  BY DEF Heard
<1>1. CASE x = c
  BY <1>1 DEF Finish, HeardOf, NoInvocation
<1>2. CASE x # c
  <2>1. inv'[x] = after[x]
    BY <1>2 DEF Finish
  <2>2. HeardOf(inv[x], x, current) /\ inv[x] \in Invocation
    BY DEF Heard, TypeOK
  <2>3. /\ inv'[x].pc = inv[x].pc
        /\ inv'[x].sent = inv[x].sent
        /\ inv'[x].attempt = inv[x].attempt
        /\ inv[x].marked => inv'[x].marked
    BY <2>1, <2>2 DEF Invocation
  <2>4. current = x => current' = x
    BY <1>2 DEF Finish
  <2> QED
    BY <2>2, <2>3, <2>4 DEF HeardOf
<1> QED
  BY <1>1, <1>2

LEMMA RaiseHeard ==
    ASSUME TypeOK, Heard, NEW c \in Callers, NEW e,
           NEW after \in [Callers -> Invocation],
           \A x \in Callers : \/ after[x] = inv[x]
                             \/ after[x] = [inv[x] EXCEPT !.marked = TRUE],
           after[c].marked \/ inv[c].sent = {},
           Raise(c, e, after)
    PROVE  Heard'
<1>1. CASE Finish(c, "failure", after)
  BY <1>1, FinishHeard
<1>2. CASE /\ inv' = [after EXCEPT ![c].pc = "waiting"]
           /\ UNCHANGED <<state, active, current, reply>>
  <2> SUFFICES ASSUME NEW x \in Callers PROVE HeardOf(inv'[x], x, current')
    BY DEF Heard
  <2>1. HeardOf(inv[x], x, current) /\ inv[x] \in Invocation /\ after[x] \in Invocation
    BY DEF Heard, TypeOK
  <2>2. /\ inv'[x].sent = inv[x].sent
        /\ inv'[x].attempt = inv[x].attempt
        /\ inv'[x].marked = after[x].marked
        /\ inv[x].marked => after[x].marked
        /\ inv'[x].pc = IF x = c THEN "waiting" ELSE inv[x].pc
    BY <1>2, <2>1 DEF Invocation
  <2>3. current' = current
    BY <1>2
  <2> QED
    BY <2>1, <2>2, <2>3 DEF HeardOf
<1> QED
  BY <1>1, <1>2 DEF Raise

LEMMA MarkOnlyMarks ==
    ASSUME NEW c \in Callers
    PROVE  \A x \in Callers : \/ Mark(c)[x] = inv[x]
                             \/ Mark(c)[x] = [inv[x] EXCEPT !.marked = TRUE]
BY DEF Mark

(* A step of one invocation that leaves the agent's output alone.           *)
LEMMA StepHeard ==
    ASSUME TypeOK, Heard, NEW c \in Callers, NEW i, inv' = [inv EXCEPT ![c] = i],
           HeardOf(i, c, current'), current' = current
    PROVE  Heard'
<1> SUFFICES ASSUME NEW x \in Callers PROVE HeardOf(inv'[x], x, current')
  BY DEF Heard
<1>1. CASE x = c
  BY <1>1 DEF TypeOK, HeardOf
<1>2. CASE x # c
  BY <1>2 DEF Heard, HeardOf, TypeOK
<1> QED
  BY <1>1, <1>2

LEMMA InitHeard == Init => Heard
BY DEF Init, Heard, HeardOf, NoInvocation

LEMMA NextHeard ==
    ASSUME MaxConcurrent = 1, TypeOK, Counted, Heard, [Next]_vars
    PROVE  Heard'
<1>1. ASSUME NEW c \in Callers, NEW kind, Open(c, kind) PROVE Heard'
  <2> DEFINE i == [NoInvocation EXCEPT !.kind = kind, !.pc = "starting"]
  <2>1. HeardOf(i, c, current')
    BY DEF HeardOf, NoInvocation
  <2> QED
    BY <1>1, <2>1, StepHeard DEF Open
<1>2. ASSUME NEW c \in Callers, InvokeRefused(c) PROVE Heard'
  BY <1>2 DEF InvokeRefused, Heard, HeardOf
<1>3. ASSUME NEW c \in Callers, Begin(c) PROVE Heard'
  <2> SUFFICES ASSUME NEW x \in Callers PROVE HeardOf(inv'[x], x, current')
    BY DEF Heard
  <2>1. CASE x = c
    <3>1. inv[c].sent = {} /\ inv[c] \in Invocation
      BY <1>3 DEF Begin, Heard, HeardOf, TypeOK
    <3>2. inv'[c] = [inv[c] EXCEPT !.pc = "executing"] /\ current' = c
      BY <1>3 DEF Begin, TypeOK
    <3>3. inv'[c].pc = "executing" /\ inv'[c].sent = {}
      BY <3>1, <3>2 DEF Invocation
    <3> QED
      BY <2>1, <3>2, <3>3 DEF HeardOf
  <2>2. CASE x # c
    <3>1. inv[x].pc = "none"
      BY <1>3, <2>2, Alone DEF Begin, InProgress
    <3>2. inv'[x] = inv[x]
      BY <1>3, <2>2 DEF Begin, TypeOK
    <3> QED
      BY <3>1, <3>2 DEF Heard, HeardOf
  <2> QED
    BY <2>1, <2>2
<1>4. ASSUME NEW c \in Callers, AgentRefuses(c) PROVE Heard'
  BY <1>4, FinishHeard DEF AgentRefuses, TypeOK
<1>5. ASSUME NEW c \in Callers, Yield(c) PROVE Heard'
  <2> PICK i : i = [inv[c] EXCEPT !.sent = @ \cup {inv[c].attempt}]
    OBVIOUS
  <2>1. HeardOf(inv[c], c, current) /\ inv[c] \in Invocation
    BY DEF Heard, TypeOK
  <2>2. /\ i.pc = "executing"
        /\ i.attempt = inv[c].attempt
        /\ i.sent = inv[c].sent \cup {inv[c].attempt}
    BY <1>5, <2>1 DEF Yield, Invocation
  <2>3. current' = current /\ current = c /\ inv[c].sent \subseteq {inv[c].attempt}
    BY <1>5, <2>1 DEF Yield, HeardOf
  <2>4. HeardOf(i, c, current')
    BY <2>2, <2>3 DEF HeardOf, Yield
  <2> QED
    BY <1>5, <2>4, StepHeard DEF Yield
<1>6. ASSUME NEW c \in Callers, Answer(c) PROVE Heard'
  BY <1>6, FinishHeard, MarkTyped, MarkOnlyMarks DEF Answer
<1>7. ASSUME NEW c \in Callers, Fail(c) PROVE Heard'
  <2>1. Mark(c)[c].marked
    BY <1>7 DEF Fail, Heard, HeardOf, Mark, InProgress, TypeOK, Invocation
  <2> QED
    BY <1>7, <2>1, RaiseHeard, MarkTyped, MarkOnlyMarks DEF Fail
<1>8. ASSUME NEW c \in Callers, FailEarly(c) PROVE Heard'
  <2>1. inv[c].sent = {}
    BY <1>8 DEF FailEarly, Heard, HeardOf
  <2> QED
    BY <1>8, <2>1, RaiseHeard DEF FailEarly, TypeOK
<1>9. ASSUME NEW c \in Callers, Retry(c) PROVE Heard'
  <2> PICK i : i = [inv[c] EXCEPT !.pc = "starting", !.attempt = @ + 1]
    OBVIOUS
  <2>1. HeardOf(inv[c], c, current) /\ inv[c] \in Invocation
    BY DEF Heard, TypeOK
  <2>2. i.pc = "starting" /\ i.marked = inv[c].marked /\ i.sent = inv[c].sent
    BY <2>1 DEF Invocation
  <2>3. HeardOf(i, c, current')
    BY <1>9, <2>1, <2>2 DEF Retry, HeardOf
  <2>4. inv' = [inv EXCEPT ![c] = i]
    BY <1>9 DEF Retry, TypeOK
  <2> QED
    BY <1>9, <2>3, <2>4, StepHeard DEF Retry
<1>10. ASSUME NEW c \in Callers, GiveUp(c) PROVE Heard'
  BY <1>10, FinishHeard DEF GiveUp, TypeOK
<1>11. ASSUME NEW c \in Callers, Interrupt(c) PROVE Heard'
  BY <1>11, FinishHeard DEF Interrupt, TypeOK
<1>12. ASSUME NEW c \in Callers, Drop(c) PROVE Heard'
  <2>1. HeardOf(NoInvocation, c, current')
    BY DEF HeardOf, NoInvocation
  <2> QED
    BY <1>12, <2>1, StepHeard DEF Drop
<1>13. CASE Close
  BY <1>13 DEF Close, Heard, HeardOf
<1>14. CASE UNCHANGED vars
  BY <1>14 DEF vars, Heard, HeardOf
<1> QED
  BY <1>1, <1>2, <1>3, <1>4, <1>5, <1>6, <1>7, <1>8, <1>9, <1>10, <1>11,
     <1>12, <1>13, <1>14 DEF Next, Executes, Invoke, Stream

(* With the default limit of one invocation, a stream that broke off after  *)
(* some chunks is never started over under its consumer (chat.py 801-830):  *)
(* the consumer hears one attempt.  With a higher limit this is false.      *)
THEOREM OneAttemptHeard ==
    ASSUME OnlyInvokes, MaxConcurrent = 1
    PROVE  Spec => []OneAttemptIsHeard
<1>1. Init => Heard
  BY InitHeard
<1>2. TypeOK /\ Counted /\ Heard /\ [Next]_vars => Heard'
  BY NextHeard
<1>3. Heard => OneAttemptIsHeard
  BY DEF Heard, HeardOf, OneAttemptIsHeard
<1> QED
  BY <1>1, <1>2, <1>3, AlwaysCounted, PTL DEF Spec
-----------------------------------------------------------------------------
(* What chat.state tells with the default limit of one invocation, as long  *)
(* as no generator is abandoned.                                            *)

(* A step leaves the invocation in progress alone, starts the only one, or  *)
(* ends it.                                                                 *)
Proceeds == /\ InProgress' = InProgress /\ state' = state
            /\ \A c \in InProgress : inv'[c].kind = inv[c].kind

Opens(c) == /\ InProgress' = InProgress \cup {c}
            /\ inv'[c].kind \in {"blocking", "stream"}
            /\ state' = IF inv'[c].kind = "stream" THEN "streaming"
                                                   ELSE "awaiting_response"

Ends(c) == InProgress' = InProgress \ {c} /\ state' = "idle"

Rests == InProgress = {} /\ InProgress' = {} /\ state' = "idle"

LEMMA FinishEnds ==
    ASSUME TypeOK, NEW c \in InProgress, NEW r,
           NEW after \in [Callers -> Invocation],
           \A x \in Callers : after[x].pc = inv[x].pc,
           Finish(c, r, after)
    PROVE  Ends(c)
BY FinishLeaves DEF Finish, Leaves, Ends

LEMMA RaiseEnds ==
    ASSUME TypeOK, NEW c \in InProgress, NEW e,
           NEW after \in [Callers -> Invocation],
           \A x \in Callers : after[x].pc = inv[x].pc /\ after[x].kind = inv[x].kind,
           Raise(c, e, after)
    PROVE  Proceeds \/ Ends(c)
<1>1. CASE Finish(c, "failure", after)
  BY <1>1, FinishEnds
<1>2. CASE /\ inv' = [after EXCEPT ![c].pc = "waiting"]
           /\ UNCHANGED <<state, active, current, reply>>
  <2>1. \A x \in Callers : /\ inv'[x].pc # "none" <=> inv[x].pc # "none"
                           /\ inv'[x].kind = inv[x].kind
    BY <1>2 DEF InProgress, Invocation
  <2> QED
    BY <1>2, <2>1 DEF Proceeds, InProgress
<1> QED
  BY <1>1, <1>2 DEF Raise

LEMMA MarkKeepsKind ==
    ASSUME TypeOK, NEW c \in Callers
    PROVE  \A x \in Callers : Mark(c)[x].pc = inv[x].pc /\ Mark(c)[x].kind = inv[x].kind
BY DEF Mark, TypeOK, Invocation

(* Invocations are not abandoned.                                           *)
LEMMA NextUses ==
    ASSUME OnlyInvokes, "drop" \notin Uses, TypeOK, [Next]_vars
    PROVE  Proceeds \/ Rests \/ \E c \in Callers : Opens(c) \/ (c \in InProgress /\ Ends(c))
<1>1. ASSUME NEW c \in Callers, Invoke(c, "blocking") \/ Invoke(c, "stream")
      PROVE Opens(c)
  BY <1>1 DEF Invoke, Open, Opens, InProgress, NoInvocation, TypeOK
<1>2. ASSUME NEW c \in Callers, InvokeRefused(c) PROVE Proceeds
  BY <1>2 DEF InvokeRefused, Proceeds, InProgress
<1>3. ASSUME NEW c \in Callers, Stream(c) PROVE FALSE
  BY <1>3 DEF Stream, OnlyInvokes
<1>4. ASSUME NEW c \in Callers, Begin(c) PROVE Proceeds
  BY <1>4 DEF Begin, Proceeds, InProgress, TypeOK, Invocation
<1>5. ASSUME NEW c \in Callers, AgentRefuses(c) PROVE c \in InProgress /\ Ends(c)
  BY <1>5, FinishEnds DEF AgentRefuses, InProgress, TypeOK
<1>6. ASSUME NEW c \in Callers, Yield(c) PROVE Proceeds
  BY <1>6 DEF Yield, Proceeds, InProgress, TypeOK, Invocation
<1>7. ASSUME NEW c \in Callers, Answer(c) PROVE c \in InProgress /\ Ends(c)
  BY <1>7, FinishEnds, MarkTyped, MarkKeepsKind DEF Answer, InProgress
<1>8. ASSUME NEW c \in Callers, Fail(c) PROVE c \in InProgress /\ (Proceeds \/ Ends(c))
  BY <1>8, RaiseEnds, MarkTyped, MarkKeepsKind DEF Fail, InProgress
<1>9. ASSUME NEW c \in Callers, FailEarly(c) PROVE c \in InProgress /\ (Proceeds \/ Ends(c))
  BY <1>9, RaiseEnds DEF FailEarly, InProgress, TypeOK
<1>10. ASSUME NEW c \in Callers, Retry(c) PROVE Proceeds
  BY <1>10 DEF Retry, Proceeds, InProgress, TypeOK, Invocation
<1>11. ASSUME NEW c \in Callers, GiveUp(c) PROVE c \in InProgress /\ Ends(c)
  BY <1>11, FinishEnds DEF GiveUp, InProgress, TypeOK
<1>12. ASSUME NEW c \in Callers, Interrupt(c) PROVE c \in InProgress /\ Ends(c)
  BY <1>12, FinishEnds DEF Interrupt, InProgress, TypeOK
<1>13. ASSUME NEW c \in Callers, Drop(c) PROVE FALSE
  BY <1>13 DEF Drop
<1>14. ASSUME Close PROVE Rests
  BY <1>14 DEF Close, Rests, InProgress, OnlyInvokes
<1>15. ASSUME UNCHANGED vars PROVE Proceeds
  BY <1>15 DEF vars, Proceeds, InProgress
<1> QED
  BY <1>1, <1>2, <1>3, <1>4, <1>5, <1>6, <1>7, <1>8, <1>9, <1>10, <1>11,
     <1>12, <1>13, <1>14, <1>15 DEF Next, Executes

LEMMA NextReflects ==
    ASSUME OnlyInvokes, "drop" \notin Uses, MaxConcurrent = 1,
           TypeOK, Counted, StateReflectsUse, [Next]_vars
    PROVE  StateReflectsUse'
<1>1. CASE Proceeds
  BY <1>1 DEF Proceeds, StateReflectsUse
<1>2. CASE Rests
  BY <1>2 DEF Rests, StateReflectsUse
<1>3. ASSUME NEW c \in Callers, Opens(c) PROVE StateReflectsUse'
  BY <1>3 DEF Opens, StateReflectsUse
<1>4. ASSUME NEW c \in InProgress, Ends(c) PROVE StateReflectsUse'
  <2>1. InProgress' = {}
    BY <1>4, Alone DEF Ends
  <2> QED
    BY <1>4, <2>1 DEF Ends, StateReflectsUse
<1> QED
  BY <1>1, <1>2, <1>3, <1>4, NextUses

(* With the default limit of one invocation chat.state is idle when nothing *)
(* is in progress and otherwise tells what is, however invocations fail,    *)
(* are retried or are interrupted (chat.py 698-719), as long as the program *)
(* iterates every generator it asked for.                                   *)
THEOREM StateTellsUse ==
    ASSUME OnlyInvokes, "drop" \notin Uses, MaxConcurrent = 1
    PROVE  Spec => []StateReflectsUse
<1>1. Init => StateReflectsUse
  BY DEF Init, StateReflectsUse, InProgress, NoInvocation
<1>2. TypeOK /\ Counted /\ StateReflectsUse /\ [Next]_vars => StateReflectsUse'
  BY NextReflects
<1> QED
  BY <1>1, <1>2, AlwaysCounted, PTL DEF Spec
=============================================================================
