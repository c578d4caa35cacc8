--------------------------- MODULE AgentRunProofs ---------------------------
(***************************************************************************)
(* What holds of AgentRun for any number of callers, runs and attempts and *)
(* any pipeline: its types, and that a completed run executed every step.  *)
(* The inductive invariant is TypeOK /\ NoStepSkipped.  With one caller: a *)
(* call is answered with its own run, a cancelled run executes no more     *)
(* steps, and storage never goes back; and with a storage that works, what *)
(* storage holds implements RunLifecycle.                                  *)
(***************************************************************************)
EXTENDS AgentRun, TLAPS

-----------------------------------------------------------------------------
(* A step that was reached over completed steps stays so when more results  *)
(* are recorded.                                                            *)
LEMMA CoveredAppend ==
    ASSUME NEW rs \in Seq(StepResult), NEW x \in StepResult, NEW p \in Nat,
           Covered(rs, p)
    PROVE  Covered(Append(rs, x), p)
BY DEF Covered

(* A completed step takes the next one within reach.                        *)
LEMMA CoveredNext ==
    ASSUME NEW rs \in Seq(StepResult), NEW p \in Nat, Covered(rs, p)
    PROVE  Covered(Append(rs, [step |-> p, status |-> "COMPLETED"]), p + 1)
<1> DEFINE new == Append(rs, [step |-> p, status |-> "COMPLETED"])
<1> SUFFICES ASSUME NEW q \in 0..p
             PROVE  \E i \in DOMAIN new :
                        new[i] = [step |-> q, status |-> "COMPLETED"]
    BY DEF Covered
<1>1. CASE q = p
      BY <1>1, new[Len(rs) + 1] = [step |-> p, status |-> "COMPLETED"]
<1>2. CASE q # p
  <2>1. q \in 0..(p - 1)
        BY <1>2
  <2>2. PICK i \in DOMAIN rs : rs[i] = [step |-> q, status |-> "COMPLETED"]
        BY <2>1 DEF Covered
  <2>3. i \in DOMAIN new /\ new[i] = rs[i]
        OBVIOUS
  <2> QED
      BY <2>2, <2>3
<1> QED
    BY <1>1, <1>2

(* The two kinds of contents of an object, and of a caller, are told apart. *)
LEMMA OutputIsNotFree ==
    ASSUME NEW rec \in Output
    PROVE  rec # Free
BY NoneAssumption DEF Output, Free

LEMMA BusyExecutes ==
    ASSUME TypeOK, NEW c \in Callers, Busy(c)
    PROVE  call[c] \in Executing
BY DEF TypeOK, Busy, Idle

LEMMA AgentOutputExists ==
    ASSUME TypeOK, NoStepSkipped, agentOut # None
    PROVE  /\ agentOut \in Objects
           /\ out[agentOut] \in Output
BY DEF TypeOK, NoStepSkipped

LEMMA ExecutedOutputExists ==
    ASSUME TypeOK, NoStepSkipped, NEW c \in Callers, Busy(c)
    PROVE  /\ Obj(c) \in Objects
           /\ out[Obj(c)] \in Output
<1>1. Obj(c) \in Objects
      BY BusyExecutes DEF Executing, Obj
<1> QED
    BY <1>1 DEF TypeOK, NoStepSkipped

(* A recorded result is one at a step that was reached without a gap, and   *)
(* so is the point where a run is resumed, whichever result it is taken     *)
(* from.                                                                    *)
LEMMA ResumePointIsCovered ==
    ASSUME NEW rec \in Output, Gapless(rec), NEW p \in Steps,
           ResumePoint(rec, p)
    PROVE  Covered(rec.results, p)
BY DEF Gapless, ResumePoint

LEMMA AppendGapless ==
    ASSUME NEW rec \in Output, Gapless(rec), NEW p \in Steps,
           Covered(rec.results, p), NEW s \in StepStatus,
           NEW new \in Output, new.status # "completed" \/ RanEveryStep(new),
           new.results = Append(rec.results, [step |-> p, status |-> s])
    PROVE  Gapless(new)
<1> DEFINE x == [step |-> p, status |-> s]
<1>0. /\ rec.results \in Seq(StepResult) /\ x \in StepResult
      /\ Steps \subseteq Nat
      BY PipelineAssumption DEF Output, StepResult, Steps
<1>1. ASSUME NEW i \in DOMAIN new.results
      PROVE  Covered(new.results, new.results[i].step)
  <2>1. CASE i = Len(rec.results) + 1
    <3>1. new.results[i].step = p
          BY <1>0, <2>1
    <3> QED
        BY <1>0, <3>1, CoveredAppend
  <2>2. CASE i \in DOMAIN rec.results
    <3>1. new.results[i] = rec.results[i]
          BY <1>0, <2>2
    <3>a. rec.results[i] \in StepResult
          BY <1>0, <2>2
    <3>b. rec.results[i].step \in Nat
          BY <1>0, <3>a DEF StepResult
    <3>c. Covered(rec.results, rec.results[i].step)
          BY <2>2 DEF Gapless
    <3> QED
        BY <1>0, <3>1, <3>b, <3>c, CoveredAppend
  <2> QED
      BY <1>0, <2>1, <2>2
<1> QED
    BY <1>1 DEF Gapless, RanEveryStep

-----------------------------------------------------------------------------
(* Stopping keeps the types, whatever is written into the output.           *)
LEMMA StopType ==
    ASSUME TypeOK, NEW c \in Callers, Busy(c), NEW rec \in Output,
           NEW pc \in {"returning", "failed"}, Stop(c, rec, pc)
    PROVE  /\ out' \in [Objects -> Output \cup {Free}]
           /\ task' \in [Runs -> RunStatus \cup {None}]
           /\ stored' \in [Runs -> Output \cup {None}]
           /\ call' \in [Callers -> Executing \cup {Idle}]
<1>1. call[c] \in Executing
      BY BusyExecutes
<1>2. out' \in [Objects -> Output \cup {Free}]
      BY DEF TypeOK, Stop
<1>3. task' \in [Runs -> RunStatus \cup {None}]
      BY DEF TypeOK, Stop, SyncTask, Output
<1>4. stored' \in [Runs -> Output \cup {None}]
  <2>1. /\ [rec EXCEPT !.task = None] \in Output
        /\ rec.run \in Runs
        BY DEF Output
  <2>2. \/ stored' = stored
        \/ stored' = [stored EXCEPT ![rec.run] = [rec EXCEPT !.task = None]]
        BY DEF Stop, Persist
  <2> QED
      BY <2>1, <2>2 DEF TypeOK
<1>5. call' \in [Callers -> Executing \cup {Idle}]
  <2>1. [call[c] EXCEPT !.pc = pc] \in Executing
        BY <1>1 DEF Executing
  <2>2. call' = [call EXCEPT ![c] = [call[c] EXCEPT !.pc = pc]]
        BY DEF Stop
  <2> QED
      BY <2>1, <2>2 DEF TypeOK
<1> QED
    BY <1>2, <1>3, <1>4, <1>5

(* Stopping with a gapless record, which covers what the old one covered,   *)
(* leaves no gap, also for other calls that execute the same output.        *)
LEMMA StopGapless ==
    ASSUME TypeOK, NoStepSkipped, NEW c \in Callers, Busy(c),
           NEW rec \in Output, Gapless(rec),
           \A p \in Steps : Covered(out[Obj(c)].results, p)
                               => Covered(rec.results, p),
           NEW pc \in {"returning", "failed"}, Stop(c, rec, pc),
           UNCHANGED agentOut
    PROVE  NoStepSkipped'
<1>0. /\ call[c] \in Executing
      /\ Obj(c) \in Objects
      BY BusyExecutes DEF Executing, Obj
<1>1. out' = [out EXCEPT ![Obj(c)] = rec]
      BY DEF Stop
<1>2. rec # Free
      BY OutputIsNotFree
<1>3. \A o \in Objects : out'[o] # Free => out[o] # Free \/ o = Obj(c)
      BY <1>1 DEF TypeOK
<1>4. \A o \in Objects : out[o] # Free => out'[o] # Free
      BY <1>1, <1>2 DEF TypeOK
<1>5. \A o \in Objects : out'[o] # Free => Gapless(out'[o])
      BY <1>1 DEF TypeOK, NoStepSkipped
<1>6. \A r \in Runs : stored'[r] # None => Gapless(stored'[r])
  <2>1. Gapless([rec EXCEPT !.task = None])
        BY DEF Gapless, RanEveryStep, Output
  <2>2. \/ stored' = stored
        \/ stored' = [stored EXCEPT ![rec.run] = [rec EXCEPT !.task = None]]
        BY DEF Stop, Persist
  <2> QED
      BY <2>1, <2>2 DEF TypeOK, NoStepSkipped
<1>7. ASSUME NEW d \in Callers, Busy(d)'
      PROVE  /\ Busy(d)
             /\ call'[d].obj = call[d].obj
             /\ call'[d].step = call[d].step
             /\ call'[d].first = call[d].first
      BY <1>0, <1>7 DEF Stop, Busy, TypeOK, Executing
<1>8. ASSUME NEW d \in Callers, Busy(d), NEW p \in Steps,
             Covered(out[Obj(d)].results, p)
      PROVE  Covered(out'[Obj(d)].results, p)
  <2>1. Obj(d) \in Objects
        BY <1>8, BusyExecutes DEF Executing, Obj
  <2> QED
      BY <1>1, <1>8, <2>1 DEF TypeOK
<1>9. ASSUME NEW d \in Callers, Busy(d)'
      PROVE  /\ agentOut' # None
             /\ out'[Obj(d)'] # Free
             /\ Covered(out'[Obj(d)'].results, call'[d].step)
             /\ Covered(out'[Obj(d)'].results, call'[d].first)
  <2>1. Busy(d) /\ Obj(d)' = Obj(d)
        BY <1>7, <1>9 DEF Obj
  <2>2. call[d] \in Executing
        BY <2>1, BusyExecutes
  <2>3. call[d].step \in Steps /\ call[d].first \in Steps /\ Obj(d) \in Objects
        BY <2>2 DEF Executing, Obj
  <2>4. /\ agentOut # None
        /\ out[Obj(d)] # Free
        /\ Covered(out[Obj(d)].results, call[d].step)
        /\ Covered(out[Obj(d)].results, call[d].first)
        BY <2>1 DEF NoStepSkipped
  <2> QED
      BY <1>4, <1>7, <1>8, <1>9, <2>1, <2>3, <2>4
<1>10. agentOut' # None => out'[agentOut'] # Free
       BY <1>4 DEF TypeOK, NoStepSkipped
<1> QED
    BY <1>5, <1>6, <1>9, <1>10 DEF NoStepSkipped

(* A call that stops executing, or goes on where it was, leaves no gap when *)
(* the outputs keep their results.                                          *)
LEMMA QuietGapless ==
    ASSUME TypeOK, NoStepSkipped,
           agentOut' # None => agentOut' \in Objects /\ out'[agentOut'] # Free,
           \A o \in Objects : out'[o] # Free => Gapless(out'[o]),
           \A d \in Callers : Busy(d) =>
               /\ out'[Obj(d)] # Free
               /\ out'[Obj(d)].results = out[Obj(d)].results,
           \A d \in Callers : Busy(d)' =>
               /\ Busy(d)
               /\ agentOut' # None
               /\ call'[d].obj = call[d].obj
               /\ call'[d].step \in {call[d].step, call[d].first}
               /\ call'[d].first = call[d].first,
           UNCHANGED stored
    PROVE  NoStepSkipped'
<1>1. ASSUME NEW d \in Callers, Busy(d)'
      PROVE  /\ out'[Obj(d)'] # Free
             /\ Covered(out'[Obj(d)'].results, call'[d].step)
             /\ Covered(out'[Obj(d)'].results, call'[d].first)
      BY <1>1 DEF NoStepSkipped, Obj
<1> QED
    BY <1>1 DEF NoStepSkipped

(* A call that starts to execute leaves no gap when it starts at a step     *)
(* that its output covers and the outputs of other calls are left alone.    *)
LEMMA EnterGapless ==
    ASSUME TypeOK, NoStepSkipped, NEW c \in Callers, NEW e, NEW r,
           NEW o \in Objects, NEW resumed, NEW p \in Steps,
           Enter(c, e, r, o, resumed, p),
           agentOut' \in Objects, out'[agentOut'] # Free,
           \A x \in Objects : out'[x] # Free => Gapless(out'[x]),
           out'[o] # Free, Covered(out'[o].results, p),
           \A d \in Callers : Busy(d) =>
               /\ out'[Obj(d)] # Free
               /\ out'[Obj(d)].results = out[Obj(d)].results,
           UNCHANGED stored
    PROVE  NoStepSkipped'
<1>1. ASSUME NEW d \in Callers, Busy(d)'
      PROVE  /\ out'[Obj(d)'] # Free
             /\ Covered(out'[Obj(d)'].results, call'[d].step)
             /\ Covered(out'[Obj(d)'].results, call'[d].first)
  <2>1. CASE d = c
    <3>1. /\ call'[c].obj = o /\ call'[c].step = p /\ call'[c].first = p
          BY DEF Enter, TypeOK
    <3> QED
        BY <2>1, <3>1 DEF Obj
  <2>2. CASE d # c
    <3>1. call'[d] = call[d]
          BY <2>2 DEF Enter, TypeOK
    <3>2. Busy(d)
          BY <1>1, <3>1 DEF Busy
    <3> QED
        BY <3>1, <3>2 DEF NoStepSkipped, Obj
  <2> QED
      BY <2>1, <2>2
<1>2. agentOut' # None
      BY NoneAssumption
<1> QED
    BY <1>1, <1>2 DEF NoStepSkipped

LEMMA EnterType ==
    ASSUME TypeOK, NEW c \in Callers, NEW e \in {"do", "task", "run"},
           NEW r \in Runs, NEW o \in Objects, NEW resumed \in BOOLEAN,
           NEW p \in Steps, Enter(c, e, r, o, resumed, p)
    PROVE  call' \in [Callers -> Executing \cup {Idle}]
<1> DEFINE new == [pc |-> "step", entry |-> e, asked |-> r, obj |-> o,
                   resumed |-> resumed, first |-> p, step |-> p, attempt |-> 1]
<1>1. new \in Executing
      BY RetryAssumption DEF Executing
<1>2. call' = [call EXCEPT ![c] = new]
      BY DEF Enter
<1> HIDE DEF new
<1> QED
    BY <1>1, <1>2 DEF TypeOK

(* Taking an identity for a new output: the outputs that calls execute stay *)
(* what they are, and no other gains contents.                              *)
LEMMA AllocateOutput ==
    ASSUME TypeOK, NEW o \in Objects, NEW rec \in Output, Allocate(o, rec)
    PROVE  /\ out' \in [Objects -> Output \cup {Free}]
           /\ out'[o] = rec
           /\ \A x \in Objects : x # o => out'[x] \in {out[x], Free}
           /\ \A d \in Callers : Busy(d) => out'[Obj(d)] = out[Obj(d)]
<1>1. out' \in [Objects -> Output \cup {Free}]
      BY DEF TypeOK, Allocate
<1>2. /\ out'[o] = rec
      /\ \A x \in Objects : x # o => out'[x] \in {out[x], Free}
      BY DEF Allocate
<1>3. ASSUME NEW d \in Callers, Busy(d)
      PROVE  out'[Obj(d)] = out[Obj(d)]
  <2>1. Obj(d) \in Objects
        BY <1>3, BusyExecutes DEF Executing, Obj
  <2>2. InUse(Obj(d)) /\ Obj(d) # o
        BY <1>3 DEF InUse, Allocate
  <2> QED
      BY <2>1, <2>2 DEF Allocate
<1> QED
    BY <1>1, <1>2, <1>3

-----------------------------------------------------------------------------
(* Each operation keeps the types and leaves no gap.                        *)
Sound == TypeOK /\ NoStepSkipped

LEMMA StartSound ==
    ASSUME Sound, NEW c \in Callers, NEW r \in Runs, Start(c, r)
    PROVE  Sound'
<1> DEFINE rec == [run |-> r, task |-> r, status |-> "running",
                   results |-> <<>>, answered |-> <<>>]
<1>1. PICK o \in Objects : /\ Allocate(o, rec)
                           /\ agentOut' = o
                           /\ Enter(c, "do", r, o, FALSE, 0)
      BY DEF Start
<1>2. rec \in Output /\ Gapless(rec) /\ 0 \in Steps
      BY PipelineAssumption
      DEF Output, RunStatus, Gapless, RanEveryStep, Steps
<1>3. Covered(rec.results, 0)
      BY DEF Covered
<1>4. rec # Free
      BY <1>2, OutputIsNotFree
<1> HIDE DEF rec
<1>5. /\ out' \in [Objects -> Output \cup {Free}]
      /\ out'[o] = rec
      /\ \A x \in Objects : x # o => out'[x] \in {out[x], Free}
      /\ \A d \in Callers : Busy(d) => out'[Obj(d)] = out[Obj(d)]
      BY <1>1, <1>2, AllocateOutput DEF Sound
<1>6. TypeOK'
  <2>1. call' \in [Callers -> Executing \cup {Idle}]
        BY <1>1, <1>2, EnterType DEF Sound
  <2>2. reply' \in [Callers -> Reply]
        BY DEF Start, Answer, Sound, TypeOK, Reply
  <2> QED
      BY <1>1, <1>5, <2>1, <2>2 DEF Start, Sound, TypeOK
<1>7. \A x \in Objects : out'[x] # Free => Gapless(out'[x])
      BY <1>2, <1>5 DEF Sound, NoStepSkipped
<1>8. \A d \in Callers : Busy(d) => out[Obj(d)] # Free
      BY DEF Sound, NoStepSkipped
<1>9. UNCHANGED stored
      BY DEF Start
<1>10. NoStepSkipped'
       BY <1>1, <1>2, <1>3, <1>4, <1>5, <1>7, <1>8, <1>9, EnterGapless DEF Sound
<1> QED
    BY <1>6, <1>10 DEF Sound

(* What the steps of the pipeline have in common: the call is at a step its *)
(* output covers, and what it records is a step result.                     *)
LEMMA StepContext ==
    ASSUME Sound, NEW c \in Callers, AtStep(c)
    PROVE  /\ Busy(c)
           /\ call[c] \in Executing
           /\ Obj(c) \in Objects
           /\ out[Obj(c)] \in Output
           /\ Gapless(out[Obj(c)])
           /\ call[c].step \in Steps
           /\ Covered(out[Obj(c)].results, call[c].step)
<1>1. Busy(c)
      BY DEF AtStep, Busy
<1>2. call[c] \in Executing
      BY <1>1, BusyExecutes DEF Sound
<1>3. /\ Obj(c) \in Objects
      /\ out[Obj(c)] \in Output
      /\ out[Obj(c)] # Free
      BY <1>1, ExecutedOutputExists, OutputIsNotFree DEF Sound
<1> QED
    BY <1>1, <1>2, <1>3 DEF Sound, NoStepSkipped, Executing

LEMMA RecordExtends ==
    ASSUME Sound, NEW c \in Callers, AtStep(c), NEW s \in StepStatus
    PROVE  /\ Record(c, s) \in Seq(StepResult)
           /\ \A p \in Steps : Covered(out[Obj(c)].results, p)
                                   => Covered(Record(c, s), p)
<1>1. out[Obj(c)] \in Output /\ call[c].step \in Steps
      BY StepContext
<1>2. out[Obj(c)].results \in Seq(StepResult)
      BY <1>1 DEF Output
<1>3. [step |-> call[c].step, status |-> s] \in StepResult
      BY <1>1 DEF StepResult
<1>4. \A p \in Steps : p \in Nat
      BY DEF Steps
<1> QED
    BY <1>2, <1>3, <1>4, CoveredAppend DEF Record

LEMMA CompleteStepSound ==
    ASSUME Sound, NEW c \in Callers, CompleteStep(c)
    PROVE  Sound'
<1> DEFINE rs == Record(c, "COMPLETED")
           new == [out[Obj(c)] EXCEPT !.results = rs]
           next == [call[c] EXCEPT !.step = @ + 1]
<1>0. AtStep(c) /\ "COMPLETED" \in StepStatus
      BY DEF CompleteStep, StepStatus
<1>1. /\ Busy(c) /\ call[c] \in Executing
      /\ Obj(c) \in Objects /\ out[Obj(c)] \in Output
      /\ Gapless(out[Obj(c)]) /\ call[c].step \in Steps
      /\ Covered(out[Obj(c)].results, call[c].step)
      BY <1>0, StepContext
<1>2. /\ rs \in Seq(StepResult)
      /\ \A p \in Steps : Covered(out[Obj(c)].results, p) => Covered(rs, p)
      BY <1>0, RecordExtends
<1>3. rs = Append(out[Obj(c)].results,
                  [step |-> call[c].step, status |-> "COMPLETED"])
      BY DEF Record
<1> HIDE DEF rs
<1>4. new \in Output /\ new.results = rs /\ new.status = out[Obj(c)].status
      BY <1>1, <1>2 DEF Output
<1>5. next \in Executing
      BY <1>1, PipelineAssumption DEF CompleteStep, Executing, Steps
<1>6. out' = [out EXCEPT ![Obj(c)] = new] /\ call' = [call EXCEPT ![c] = next]
      BY DEF CompleteStep, rs
<1>7. LastStep \in Steps
      BY PipelineAssumption DEF Steps
<1>8. RanEveryStep(new)
      BY <1>1, <1>2, <1>4, <1>7 DEF Gapless, RanEveryStep
<1>9. Gapless(new)
      BY <1>0, <1>1, <1>3, <1>4, <1>8, AppendGapless
<1>10. Covered(rs, call[c].step + 1)
  <2>1. out[Obj(c)].results \in Seq(StepResult) /\ call[c].step \in Nat
        BY <1>1 DEF Output, Steps
  <2> QED
      BY <1>1, <1>3, <2>1, CoveredNext
<1>11. new # Free
       BY <1>4, OutputIsNotFree
<1>12. /\ next.obj = Obj(c) /\ next.step = call[c].step + 1
       /\ next.first = call[c].first /\ next.first \in Steps
       BY <1>1 DEF Executing, Obj
<1> HIDE DEF new, next
<1>13. TypeOK'
       BY <1>4, <1>5, <1>6 DEF CompleteStep, Sound, TypeOK
<1>14. \A o \in Objects : out'[o] # Free => Gapless(out'[o])
       BY <1>6, <1>9 DEF Sound, TypeOK, NoStepSkipped
<1>15. \A o \in Objects : out[o] # Free => out'[o] # Free
       BY <1>6, <1>11 DEF Sound, TypeOK
<1>16. ASSUME NEW d \in Callers, Busy(d)'
       PROVE  /\ agentOut' # None
              /\ out'[Obj(d)'] # Free
              /\ Covered(out'[Obj(d)'].results, call'[d].step)
              /\ Covered(out'[Obj(d)'].results, call'[d].first)
  <2>1. agentOut # None /\ agentOut' = agentOut
        BY <1>1 DEF CompleteStep, Sound, NoStepSkipped
  <2>2. CASE d = c
    <3>1. call'[d] = next /\ out'[Obj(d)'] = new
          BY <1>1, <1>6, <1>12, <2>2 DEF Sound, TypeOK, Obj
    <3>2. Covered(out[Obj(c)].results, call[c].first)
          BY <1>1 DEF Sound, NoStepSkipped
    <3> QED
        BY <1>2, <1>4, <1>10, <1>11, <1>12, <2>1, <3>1, <3>2
  <2>3. CASE d # c
    <3>1. call'[d] = call[d]
          BY <1>6, <2>3 DEF Sound, TypeOK
    <3>2. Busy(d)
          BY <1>16, <3>1 DEF Busy
    <3>3. call[d] \in Executing /\ Obj(d)' = Obj(d) /\ Obj(d) \in Objects
          BY <3>1, <3>2, BusyExecutes DEF Sound, Executing, Obj
    <3>4. call[d].step \in Steps /\ call[d].first \in Steps
          BY <3>3 DEF Executing
    <3>5. /\ out[Obj(d)] # Free
          /\ Covered(out[Obj(d)].results, call[d].step)
          /\ Covered(out[Obj(d)].results, call[d].first)
          BY <3>2 DEF Sound, NoStepSkipped
    <3>6. CASE Obj(d) = Obj(c)
          BY <1>1, <1>2, <1>4, <1>6, <1>11, <2>1, <3>1, <3>3, <3>4, <3>5, <3>6
          DEF Sound, TypeOK
    <3>7. CASE Obj(d) # Obj(c)
          BY <1>6, <2>1, <3>1, <3>3, <3>5, <3>7 DEF Sound, TypeOK
    <3> QED
        BY <3>6, <3>7
  <2> QED
      BY <2>2, <2>3
<1>17. NoStepSkipped'
       BY <1>14, <1>15, <1>16 DEF CompleteStep, Sound, TypeOK, NoStepSkipped
<1> QED
    BY <1>13, <1>17 DEF Sound

(* The ways to stop.                                                        *)
LEMMA StopSound ==
    ASSUME Sound, NEW c \in Callers, AtStep(c), NEW rec \in Output,
           Gapless(rec),
           \A p \in Steps : Covered(out[Obj(c)].results, p)
                               => Covered(rec.results, p),
           NEW pc \in {"returning", "failed"}, Stop(c, rec, pc),
           UNCHANGED <<agentOut, agentRun, issued, registry, reply>>,
           faults' \in 0..MaxFaults
    PROVE  Sound'
<1>1. Busy(c)
      BY StepContext
<1>2. TypeOK'
      BY <1>1, StopType DEF Sound, TypeOK
<1>3. NoStepSkipped'
      BY <1>1, StopGapless DEF Sound
<1> QED
    BY <1>2, <1>3 DEF Sound

LEMMA FaultCounts ==
    ASSUME Sound, Fault
    PROVE  faults' \in 0..MaxFaults
BY MaxFaultsAssumption DEF Sound, TypeOK, Fault

LEMMA MemorySaveSound ==
    ASSUME Sound, NEW c \in Callers, MemorySave(c)
    PROVE  Sound'
<1> DEFINE rec == [out[Obj(c)] EXCEPT !.status = "completed"]
<1>0. AtStep(c) /\ call[c].step = LastStep
      BY DEF MemorySave
<1>1. /\ out[Obj(c)] \in Output /\ Gapless(out[Obj(c)])
      /\ Covered(out[Obj(c)].results, LastStep)
      BY <1>0, StepContext
<1>2. rec \in Output /\ rec.results = out[Obj(c)].results
      BY <1>1 DEF Output, RunStatus
<1>3. Gapless(rec)
      BY <1>1, <1>2 DEF Gapless, RanEveryStep
<1>4. /\ Stop(c, rec, "returning")
      /\ UNCHANGED <<agentOut, agentRun, issued, registry, reply>>
      /\ faults' \in 0..MaxFaults
      BY DEF MemorySave, Sound, TypeOK
<1> HIDE DEF rec
<1> QED
    BY <1>0, <1>2, <1>3, <1>4, StopSound

(* Recording a result that is not COMPLETED and taking its status.          *)
LEMMA RecordedStopSound ==
    ASSUME Sound, NEW c \in Callers, AtStep(c),
           NEW s \in StepStatus, NEW rec \in Output,
           rec.status # "completed", rec.results = Record(c, s),
           NEW pc \in {"returning", "failed"}, Stop(c, rec, pc),
           UNCHANGED <<agentOut, agentRun, issued, registry, reply>>,
           faults' \in 0..MaxFaults
    PROVE  Sound'
<1>1. /\ out[Obj(c)] \in Output /\ Gapless(out[Obj(c)])
      /\ call[c].step \in Steps
      /\ Covered(out[Obj(c)].results, call[c].step)
      BY StepContext
<1>2. Gapless(rec)
      BY <1>1, AppendGapless DEF Record
<1> QED
    BY <1>2, RecordExtends, StopSound

LEMMA CancelStepSound ==
    ASSUME Sound, NEW c \in Callers, CancelStep(c)
    PROVE  Sound'
<1> DEFINE rec == [out[Obj(c)] EXCEPT
                     !.status = "cancelled",
                     !.results = IF call[c].step = LastStep THEN @
                                 ELSE Record(c, "CANCELLED")]
<1>0. AtStep(c) /\ "CANCELLED" \in StepStatus
      BY DEF CancelStep, StepStatus
<1>1. out[Obj(c)] \in Output /\ Gapless(out[Obj(c)])
      BY <1>0, StepContext
<1>2. Record(c, "CANCELLED") \in Seq(StepResult)
      BY <1>0, RecordExtends
<1>3. /\ rec \in Output /\ rec.status = "cancelled"
      /\ rec.results = IF call[c].step = LastStep THEN out[Obj(c)].results
                       ELSE Record(c, "CANCELLED")
      BY <1>1, <1>2 DEF Output, RunStatus, Problematic
<1>4. /\ Stop(c, rec, "returning")
      /\ UNCHANGED <<agentOut, agentRun, issued, registry, reply>>
      /\ faults' \in 0..MaxFaults
      BY DEF CancelStep, Sound, TypeOK
<1> HIDE DEF rec
<1>5. CASE call[c].step = LastStep
  <2>1. Gapless(rec)
        BY <1>1, <1>3, <1>5 DEF Gapless, RanEveryStep
  <2> QED
      BY <1>0, <1>3, <1>4, <1>5, <2>1, StopSound
<1>6. CASE call[c].step # LastStep
      BY <1>0, <1>3, <1>4, <1>6, RecordedStopSound
<1> QED
    BY <1>5, <1>6

LEMMA PauseStepSound ==
    ASSUME Sound, NEW c \in Callers, PauseStep(c)
    PROVE  Sound'
<1> DEFINE rec == [out[Obj(c)] EXCEPT !.status = "paused",
                                      !.results = Record(c, "PAUSED"),
                                      !.answered = Append(@, FALSE)]
<1>0. AtStep(c) /\ "PAUSED" \in StepStatus
      BY DEF PauseStep, StepStatus
<1>1. out[Obj(c)] \in Output
      BY <1>0, StepContext
<1>2. Record(c, "PAUSED") \in Seq(StepResult)
      BY <1>0, RecordExtends
<1>3. Append(out[Obj(c)].answered, FALSE) \in Seq(BOOLEAN)
      BY <1>1 DEF Output
<1>4. /\ rec \in Output /\ rec.status = "paused"
      /\ rec.results = Record(c, "PAUSED")
      BY <1>1, <1>2, <1>3 DEF Output, RunStatus, Problematic
<1>5. /\ Stop(c, rec, "returning")
      /\ UNCHANGED <<agentOut, agentRun, issued, registry, reply>>
      /\ faults' \in 0..MaxFaults
      BY FaultCounts DEF PauseStep
<1> HIDE DEF rec
<1> QED
    BY <1>0, <1>4, <1>5, RecordedStopSound

LEMMA FailStepSound ==
    ASSUME Sound, NEW c \in Callers, FailStep(c)
    PROVE  Sound'
<1> DEFINE rec == [out[Obj(c)] EXCEPT !.status = "error",
                                      !.results = Record(c, "ERROR")]
<1>0. AtStep(c) /\ "ERROR" \in StepStatus
      BY DEF FailStep, StepStatus
<1>1. out[Obj(c)] \in Output
      BY <1>0, StepContext
<1>2. Record(c, "ERROR") \in Seq(StepResult)
      BY <1>0, RecordExtends
<1>3. /\ rec \in Output /\ rec.status = "error"
      /\ rec.results = Record(c, "ERROR")
      BY <1>1, <1>2 DEF Output, RunStatus, Problematic
<1>4. /\ Stop(c, rec, "failed")
      /\ UNCHANGED <<agentOut, agentRun, issued, registry, reply>>
      /\ faults' \in 0..MaxFaults
      BY FaultCounts DEF FailStep
<1> HIDE DEF rec
<1> QED
    BY <1>0, <1>3, <1>4, RecordedStopSound

-----------------------------------------------------------------------------
(* The ends of calls.                                                       *)
LEMMA AnswerType ==
    ASSUME Sound, NEW c \in Callers,
           NEW k \in {"none", "refused", "rejected", "raised"}, Answer(c, k)
    PROVE  reply' \in [Callers -> Reply]
BY DEF Answer, Sound, TypeOK, Reply

LEMMA ReturnSound ==
    ASSUME Sound, NEW c \in Callers, Return(c)
    PROVE  Sound'
<1>1. Busy(c)
      BY DEF Return, Busy
<1>2. call[c] \in Executing
      BY <1>1, BusyExecutes DEF Sound
<1>3. agentOut \in Objects /\ out[agentOut] \in Output
      BY <1>1, AgentOutputExists DEF Sound, NoStepSkipped
<1>4. TypeOK'
  <2>1. reply' \in [Callers -> Reply]
    <3>1. [kind |-> "output", entry |-> call[c].entry,
           asked |-> call[c].asked, got |-> out[agentOut].run,
           status |-> out[agentOut].status] \in Reply
          BY <1>2, <1>3 DEF Reply, Executing, Output
    <3> QED
        BY <3>1 DEF Return, Sound, TypeOK
  <2>2. call' \in [Callers -> Executing \cup {Idle}]
        BY DEF Return, Sound, TypeOK
  <2>3. registry' \in [Runs -> {"untracked", "live", "cancelled"}]
        BY DEF Return, Sound, TypeOK
  <2> QED
      BY <2>1, <2>2, <2>3 DEF Return, Sound, TypeOK
<1>5. \A d \in Callers : Busy(d)' => Busy(d) /\ call'[d] = call[d]
      BY DEF Return, Busy, Idle, Sound, TypeOK
<1>6. NoStepSkipped'
      BY <1>5 DEF Return, Sound, NoStepSkipped, Obj
<1> QED
    BY <1>4, <1>6 DEF Sound

LEMMA UnwindSound ==
    ASSUME Sound, NEW c \in Callers, Unwind(c)
    PROVE  Sound'
<1>1. Busy(c)
      BY DEF Unwind, Busy
<1>2. call[c] \in Executing
      BY <1>1, BusyExecutes DEF Sound
<1> DEFINE waiting == [call[c] EXCEPT !.pc = "backoff", !.attempt = @ + 1]
<1>3. CASE /\ call[c].attempt < Retry
           /\ call' = [call EXCEPT ![c].pc = "backoff",
                                   ![c].attempt = @ + 1]
           /\ UNCHANGED reply
  <2>a. call[c].attempt \in 1..Retry
        BY <1>2 DEF Executing
  <2>b. call[c].attempt + 1 \in 1..Retry
        BY <1>3, <2>a, RetryAssumption
  <2>1. waiting \in Executing
        BY <1>2, <2>b DEF Executing
  <2>2. call' = [call EXCEPT ![c] = waiting]
        BY <1>3 DEF Sound, TypeOK
  <2>3. TypeOK'
        BY <1>3, <2>1, <2>2 DEF Unwind, Sound, TypeOK
  <2>4. \A d \in Callers :
           /\ call'[d].obj = call[d].obj
           /\ call'[d].step = call[d].step
           /\ call'[d].first = call[d].first
        BY <1>2, <2>2 DEF Sound, TypeOK, Executing
  <2>5. \A d \in Callers : Busy(d)' => Busy(d)
        BY <1>1, <2>2 DEF Sound, TypeOK, Busy
  <2>6. NoStepSkipped'
        BY <2>4, <2>5 DEF Unwind, Sound, NoStepSkipped, Obj
  <2> QED
      BY <2>3, <2>6 DEF Sound
<1>4. CASE EndCall(c, "raised")
  <2>1. TypeOK'
        BY <1>4, AnswerType DEF EndCall, Unwind, Sound, TypeOK
  <2>2. \A d \in Callers : Busy(d)' => Busy(d) /\ call'[d] = call[d]
        BY <1>4 DEF EndCall, Busy, Idle, Sound, TypeOK
  <2>3. NoStepSkipped'
        BY <2>2 DEF Unwind, Sound, NoStepSkipped, Obj
  <2> QED
      BY <2>1, <2>3 DEF Sound
<1> QED
    BY <1>3, <1>4 DEF Unwind

LEMMA ReenterSound ==
    ASSUME Sound, NEW c \in Callers, Reenter(c)
    PROVE  Sound'
<1>1. Busy(c)
      BY DEF Reenter, Busy
<1>2. call[c] \in Executing
      BY <1>1, BusyExecutes DEF Sound
<1>3. Obj(c) \in Objects /\ out[Obj(c)] \in Output
      BY <1>1, ExecutedOutputExists DEF Sound
<1>4. out[Obj(c)] # Free
      BY <1>3, OutputIsNotFree
<1> DEFINE again == [call[c] EXCEPT !.pc = "step", !.step = call[c].first]
<1>5. CASE /\ call' = [call EXCEPT ![c].pc = "step",
                                   ![c].step = call[c].first]
           /\ Retake(c) /\ UNCHANGED reply
  <2>1. again \in Executing
        BY <1>2 DEF Executing
  <2>2. call' = [call EXCEPT ![c] = again]
        BY <1>5 DEF Sound, TypeOK
  <2>3. RunOf(c) \in Runs
        BY <1>3 DEF Output, RunOf
  <2>4. TypeOK'
        BY <1>3, <1>5, <2>1, <2>2, <2>3 DEF Reenter, Retake, Sound, TypeOK
  <2>5. \A d \in Callers :
           /\ call'[d].obj = call[d].obj
           /\ call'[d].step \in {call[d].step, call[d].first}
           /\ call'[d].first = call[d].first
        BY <1>2, <2>2 DEF Sound, TypeOK, Executing
  <2>6. \A d \in Callers : Busy(d)' => Busy(d)
        BY <1>1, <2>2 DEF Sound, TypeOK, Busy
  <2>7. agentOut' = Obj(c) /\ out' = out /\ stored' = stored
        BY <1>5 DEF Reenter, Retake
  <2>8. NoStepSkipped'
        BY <1>3, <1>4, <2>5, <2>6, <2>7, NoneAssumption, QuietGapless
        DEF Sound, NoStepSkipped
  <2> QED
      BY <2>4, <2>8 DEF Sound
<1>6. CASE EndCall(c, "refused") /\ UNCHANGED <<agentRun, agentOut>>
  <2>1. TypeOK'
        BY <1>6, AnswerType DEF EndCall, Reenter, Sound, TypeOK
  <2>2. \A d \in Callers : Busy(d)' => Busy(d) /\ call'[d] = call[d]
        BY <1>6 DEF EndCall, Busy, Idle, Sound, TypeOK
  <2>3. NoStepSkipped'
        BY <1>6, <2>2 DEF Reenter, Sound, NoStepSkipped, Obj
  <2> QED
      BY <2>1, <2>3 DEF Sound
<1> QED
    BY <1>5, <1>6 DEF Reenter

-----------------------------------------------------------------------------
(* Continuations.                                                           *)
LEMMA AcceptSound ==
    ASSUME Sound, NEW c \in Callers, NEW e \in {"task", "run"},
           NEW r \in Runs, NEW t \in Runs \cup {None},
           agentOut # None, Accept(c, e, r, agentOut, out[agentOut], t),
           UNCHANGED <<agentOut, task, issued, registry, stored, faults>>
    PROVE  Sound'
<1> DEFINE o == agentOut
           rec == out[o]
           new == [rec EXCEPT !.task = IF t = None THEN @ ELSE t]
<1>1. o \in Objects /\ rec \in Output
      BY AgentOutputExists DEF Sound
<1>2. rec # Free
      BY <1>1, OutputIsNotFree
<1>3. Gapless(rec)
      BY <1>1, <1>2 DEF Sound, NoStepSkipped
<1>4. new \in Output /\ new.results = rec.results /\ new.status = rec.status
      BY <1>1 DEF Output
<1>5. Gapless(new)
      BY <1>3, <1>4 DEF Gapless, RanEveryStep
<1>6. new # Free
      BY <1>4, OutputIsNotFree
<1>7. out' = [out EXCEPT ![o] = new]
      BY DEF Accept
<1>8. rec.run \in Runs
      BY <1>1 DEF Output
<1>9. /\ agentRun' \in Runs \cup {None}
      /\ Answer(c, "refused") \/ Answer(c, "none")
      BY <1>8 DEF Accept, Sound, TypeOK
<1>10. \/ UNCHANGED call
       \/ \E p \in Steps : ResumePoint(rec, p) /\ Enter(c, e, r, o, TRUE, p)
       BY DEF Accept
<1> HIDE DEF new
<1>11. \A x \in Objects : out'[x] # Free => Gapless(out'[x])
       BY <1>5, <1>7 DEF Sound, TypeOK, NoStepSkipped
<1>12. ASSUME NEW d \in Callers, Busy(d)
       PROVE  /\ out'[Obj(d)] # Free
              /\ out'[Obj(d)].results = out[Obj(d)].results
  <2>1. Obj(d) \in Objects /\ out[Obj(d)] # Free
        BY <1>12, ExecutedOutputExists, OutputIsNotFree DEF Sound
  <2> QED
      BY <1>4, <1>6, <1>7, <2>1 DEF Sound, TypeOK
<1>13. out'[o] = new /\ agentOut' = o
       BY <1>1, <1>7 DEF Sound, TypeOK
<1>14. out' \in [Objects -> Output \cup {Free}]
       BY <1>4, <1>7 DEF Sound, TypeOK
<1>15. reply' \in [Callers -> Reply]
       BY <1>9, AnswerType
<1>16. CASE UNCHANGED call
  <2>1. TypeOK'
        BY <1>9, <1>14, <1>15, <1>16 DEF Sound, TypeOK
  <2>2. \A d \in Callers : Busy(d)' = Busy(d) /\ call'[d] = call[d]
        BY <1>16 DEF Busy
  <2>3. \A d \in Callers : Busy(d) => agentOut' # None
        BY <1>1, <1>13, NoneAssumption
  <2>4. NoStepSkipped'
        BY <1>1, <1>6, <1>11, <1>12, <1>13, <2>2, <2>3, QuietGapless DEF Sound
  <2> QED
      BY <2>1, <2>4 DEF Sound
<1>17. CASE \E p \in Steps : ResumePoint(rec, p) /\ Enter(c, e, r, o, TRUE, p)
  <2>1. PICK p \in Steps : ResumePoint(rec, p) /\ Enter(c, e, r, o, TRUE, p)
        BY <1>17
  <2>2. call' \in [Callers -> Executing \cup {Idle}]
        BY <1>1, <2>1, EnterType DEF Sound
  <2>3. TypeOK'
        BY <1>9, <1>14, <1>15, <2>2 DEF Sound, TypeOK
  <2>4. Covered(out'[o].results, p)
        BY <1>1, <1>3, <1>4, <1>13, <2>1, ResumePointIsCovered
  <2>5. NoStepSkipped'
        BY <1>1, <1>6, <1>11, <1>12, <1>13, <2>1, <2>4, EnterGapless DEF Sound
  <2> QED
      BY <2>3, <2>5 DEF Sound
<1> QED
    BY <1>10, <1>16, <1>17

LEMMA ResumeInMemorySound ==
    ASSUME Sound, NEW c \in Callers, NEW e \in {"task", "run"},
           NEW r \in Runs, NEW t \in Runs \cup {None}, ResumeInMemory(c, e, r, t)
    PROVE  Sound'
<1>1. CASE Accept(c, e, r, agentOut, out[agentOut], t)
      BY <1>1, AcceptSound DEF ResumeInMemory
<1>2. CASE Reject(c) /\ UNCHANGED out
  <2>1. TypeOK'
        BY <1>2, AnswerType DEF ResumeInMemory, Reject, Sound, TypeOK
  <2>2. NoStepSkipped'
        BY <1>2 DEF ResumeInMemory, Reject, Sound, NoStepSkipped, Busy, Obj
  <2> QED
      BY <2>1, <2>2 DEF Sound
<1> QED
    BY <1>1, <1>2 DEF ResumeInMemory

LEMMA LoadedIsOutput ==
    ASSUME Sound, NEW r \in Runs, stored[r] # None,
           NEW results \in SUBSET DOMAIN stored[r].answered
    PROVE  /\ Loaded(r, results) \in Output
           /\ Loaded(r, results).results = stored[r].results
           /\ Loaded(r, results).status = stored[r].status
<1>1. stored[r] \in Output
      BY DEF Sound, TypeOK
<1> DEFINE old == stored[r].answered
           new == [i \in DOMAIN old |-> old[i] \/ i \in results]
<1>2. old \in Seq(BOOLEAN)
      BY <1>1 DEF Output
<1>3. /\ DOMAIN old = 1..Len(old) /\ Len(old) \in Nat
      /\ new \in [1..Len(old) -> BOOLEAN]
      BY <1>2
<1>4. new \in Seq(BOOLEAN)
      BY <1>3
<1>5. Loaded(r, results) = [stored[r] EXCEPT !.answered = new]
      BY DEF Loaded
<1> HIDE DEF new
<1> QED
    BY <1>1, <1>4, <1>5 DEF Output

LEMMA ResumeFromStorageSound ==
    ASSUME Sound, NEW c \in Callers, NEW e \in {"task", "run"},
           NEW r \in Runs, NEW t \in Runs \cup {None},
           ResumeFromStorage(c, e, r, t)
    PROVE  Sound'
<1>1. stored[r] # None /\ stored[r] \in Output
      BY DEF ResumeFromStorage, Sound, TypeOK
<1>2. PICK o \in Objects, results \in SUBSET DOMAIN stored[r].answered :
        LET rec == Loaded(r, results)
        IN /\ agentOut' = o
           /\ \/ /\ Allocate(o, [rec EXCEPT !.task = t])
                 /\ \E p \in Steps : /\ ResumePoint(rec, p)
                                     /\ Enter(c, e, r, o, TRUE, p)
                 /\ agentRun' = r
                 /\ Answer(c, "none")
              \/ Allocate(o, rec) /\ Reject(c)
      BY DEF ResumeFromStorage
<1> DEFINE rec == Loaded(r, results)
           new == [rec EXCEPT !.task = t]
<1>3. /\ rec \in Output /\ rec.results = stored[r].results
      /\ rec.status = stored[r].status
      BY <1>1, LoadedIsOutput
<1>4. Gapless(stored[r])
      BY <1>1 DEF Sound, NoStepSkipped
<1>5. Gapless(rec)
      BY <1>3, <1>4 DEF Gapless, RanEveryStep
<1> HIDE DEF rec
<1>6. new \in Output /\ new.results = rec.results /\ new.status = rec.status
      BY <1>3 DEF Output
<1>7. Gapless(new)
      BY <1>5, <1>6 DEF Gapless, RanEveryStep
<1> HIDE DEF new
<1>8. UNCHANGED <<task, issued, registry, stored, faults>>
      BY DEF ResumeFromStorage
<1>9. ASSUME NEW x \in Output, Gapless(x), Allocate(o, x)
      PROVE  /\ out' \in [Objects -> Output \cup {Free}]
             /\ out'[o] = x /\ out'[o] # Free
             /\ \A y \in Objects : out'[y] # Free => Gapless(out'[y])
             /\ \A d \in Callers : Busy(d) =>
                  out'[Obj(d)] # Free /\ out'[Obj(d)].results = out[Obj(d)].results
  <2>1. /\ out' \in [Objects -> Output \cup {Free}]
        /\ out'[o] = x
        /\ \A y \in Objects : y # o => out'[y] \in {out[y], Free}
        /\ \A d \in Callers : Busy(d) => out'[Obj(d)] = out[Obj(d)]
        BY <1>9, AllocateOutput DEF Sound
  <2>2. x # Free
        BY OutputIsNotFree
  <2> QED
      BY <1>9, <2>1, <2>2 DEF Sound, NoStepSkipped
<1>10. CASE /\ Allocate(o, new)
            /\ \E p \in Steps : /\ ResumePoint(rec, p)
                                /\ Enter(c, e, r, o, TRUE, p)
            /\ agentRun' = r
            /\ Answer(c, "none")
  <2>1. PICK p \in Steps : ResumePoint(rec, p) /\ Enter(c, e, r, o, TRUE, p)
        BY <1>10
  <2>2. Covered(new.results, p)
        BY <1>3, <1>5, <1>6, <2>1, ResumePointIsCovered
  <2>3. call' \in [Callers -> Executing \cup {Idle}]
        BY <2>1, EnterType DEF Sound
  <2>4. reply' \in [Callers -> Reply]
        BY <1>10, AnswerType
  <2>5. TypeOK'
        BY <1>2, <1>6, <1>7, <1>8, <1>9, <1>10, <2>3, <2>4 DEF Sound, TypeOK
  <2>6. NoStepSkipped'
        BY <1>2, <1>6, <1>7, <1>8, <1>9, <1>10, <2>1, <2>2, EnterGapless DEF Sound
  <2> QED
      BY <2>5, <2>6 DEF Sound
<1>11. CASE Allocate(o, rec) /\ Reject(c)
  <2>1. reply' \in [Callers -> Reply] /\ call' = call /\ agentRun' = agentRun
        BY <1>11, AnswerType DEF Reject
  <2>2. TypeOK'
        BY <1>2, <1>3, <1>5, <1>8, <1>9, <1>11, <2>1 DEF Sound, TypeOK
  <2>3. \A d \in Callers : Busy(d)' = Busy(d) /\ call'[d] = call[d]
        BY <2>1 DEF Busy
  <2>4. agentOut' = o /\ o # None
        BY <1>2, NoneAssumption
  <2>5. NoStepSkipped'
        BY <1>3, <1>5, <1>8, <1>9, <1>11, <2>3, <2>4, QuietGapless DEF Sound
  <2> QED
      BY <2>2, <2>5 DEF Sound
<1> QED
    BY <1>2, <1>10, <1>11 DEF rec, new

LEMMA ContinueSound ==
    ASSUME Sound, NEW c \in Callers, NEW r \in Runs,
           ContinueTask(c, r) \/ ContinueRun(c, r)
    PROVE  Sound'
<1>1. CASE ContinueTask(c, r)
      BY <1>1, ResumeInMemorySound, ResumeFromStorageSound DEF ContinueTask
<1>2. CASE ContinueRun(c, r)
      BY <1>2, ResumeInMemorySound, ResumeFromStorageSound DEF ContinueRun
<1> QED
    BY <1>1, <1>2

(* Calls that are answered at once.                                         *)
LEMMA AnsweredSound ==
    ASSUME Sound, NEW c \in Callers, NEW r \in Runs,
           \/ StartRefused(c, r) \/ ContinueUnknown(c, r) \/ ContinueRefused(c, r)
    PROVE  Sound'
<1>1. /\ Answer(c, "refused") \/ Answer(c, "raised")
      /\ UNCHANGED <<out, agentOut, agentRun, task, issued, registry, stored,
                     call, faults>>
      BY DEF StartRefused, ContinueUnknown, ContinueRefused
<1>2. TypeOK'
      BY <1>1, AnswerType DEF Sound, TypeOK
<1>3. NoStepSkipped'
      BY <1>1 DEF Sound, NoStepSkipped, Busy, Obj
<1> QED
    BY <1>2, <1>3 DEF Sound

-----------------------------------------------------------------------------
(* What happens around the calls.                                           *)
LEMMA CancelSound ==
    ASSUME Sound, NEW r \in Runs, Cancel(r)
    PROVE  Sound'
<1>1. TypeOK'
      BY FaultCounts DEF Cancel, Sound, TypeOK
<1>2. NoStepSkipped'
      BY DEF Cancel, Sound, NoStepSkipped, Busy, Obj
<1> QED
    BY <1>1, <1>2 DEF Sound

LEMMA SetResultSound ==
    ASSUME Sound, NEW o \in Objects, SetResult(o)
    PROVE  Sound'
<1>1. o = agentOut /\ agentOut # None /\ out[o] \in Output
      BY AgentOutputExists, NoneAssumption DEF SetResult, Sound
<1>2. PICK i \in DOMAIN out[o].answered :
        out' = [out EXCEPT ![o].answered[i] = TRUE]
      BY DEF SetResult
<1> DEFINE new == [out[o] EXCEPT
                     !.answered = [out[o].answered EXCEPT ![i] = TRUE]]
<1>3. [out[o].answered EXCEPT ![i] = TRUE] \in Seq(BOOLEAN)
      BY <1>1 DEF Output
<1>4. /\ new \in Output /\ new.results = out[o].results
      /\ new.status = out[o].status
      BY <1>1, <1>3 DEF Output
<1>5. new # Free
      BY <1>4, OutputIsNotFree
<1>6. Gapless(new)
      BY <1>1, <1>4, OutputIsNotFree
      DEF Sound, NoStepSkipped, Gapless, RanEveryStep
<1>7. out' = [out EXCEPT ![o] = new]
      BY <1>1, <1>2 DEF Sound, TypeOK
<1> HIDE DEF new
<1>8. UNCHANGED <<agentOut, agentRun, task, issued, registry, stored, call,
                  reply, faults>>
      BY DEF SetResult
<1>9. TypeOK'
      BY <1>4, <1>7, <1>8 DEF Sound, TypeOK
<1>10. \A x \in Objects : out'[x] # Free => Gapless(out'[x])
       BY <1>6, <1>7 DEF Sound, TypeOK, NoStepSkipped
<1>11. ASSUME NEW d \in Callers, Busy(d)
       PROVE  /\ out'[Obj(d)] # Free
              /\ out'[Obj(d)].results = out[Obj(d)].results
  <2>1. Obj(d) \in Objects /\ out[Obj(d)] # Free
        BY <1>11, ExecutedOutputExists, OutputIsNotFree DEF Sound
  <2> QED
      BY <1>4, <1>5, <1>7, <2>1 DEF Sound, TypeOK
<1>12. \A d \in Callers : Busy(d)' = Busy(d) /\ call'[d] = call[d]
       BY <1>8 DEF Busy
<1>13. agentOut' = o /\ agentOut' # None /\ out'[o] # Free
       BY <1>1, <1>5, <1>7, <1>8 DEF Sound, TypeOK
<1>14. NoStepSkipped'
       BY <1>8, <1>10, <1>11, <1>12, <1>13, QuietGapless DEF Sound
<1> QED
    BY <1>9, <1>14 DEF Sound

LEMMA RestartSound ==
    ASSUME Sound, NewAgent \/ Crash
    PROVE  Sound'
<1>1. CASE NewAgent
  <2>1. TypeOK'
        BY <1>1, FaultCounts DEF NewAgent, Sound, TypeOK
  <2>2. NoStepSkipped'
        BY <1>1 DEF NewAgent, Sound, NoStepSkipped, Busy
  <2> QED
      BY <2>1, <2>2 DEF Sound
<1>2. CASE Crash
  <2>1. TypeOK'
        BY <1>2, FaultCounts DEF Crash, Sound, TypeOK, Reply
  <2>2. NoStepSkipped'
        BY <1>2 DEF Crash, Sound, NoStepSkipped, Busy, Idle
  <2> QED
      BY <2>1, <2>2 DEF Sound
<1> QED
    BY <1>1, <1>2

-----------------------------------------------------------------------------
LEMMA InitSound == Init => Sound
<1> SUFFICES ASSUME Init
             PROVE  Sound
    OBVIOUS
<1>1. 0 \in 0..MaxFaults
      BY MaxFaultsAssumption
<1>2. TypeOK
      BY <1>1 DEF Init, TypeOK, Reply
<1>3. NoStepSkipped
      BY DEF Init, NoStepSkipped, Busy, Idle
<1> QED
    BY <1>2, <1>3 DEF Sound

LEMMA NextSound == Sound /\ [Next]_vars => Sound'
<1> SUFFICES ASSUME Sound, [Next]_vars
             PROVE  Sound'
    OBVIOUS
<1>1. ASSUME NEW c \in Callers, Progress(c)
      PROVE  Sound'
      BY <1>1, CompleteStepSound, MemorySaveSound, CancelStepSound,
         PauseStepSound, FailStepSound, ReturnSound, UnwindSound, ReenterSound
      DEF Progress, Pipeline
<1>2. ASSUME NEW c \in Callers, NEW r \in Runs, Call(c, r)
      PROVE  Sound'
      BY <1>2, StartSound, ContinueSound, AnsweredSound DEF Call
<1>3. CASE UNCHANGED vars
      BY <1>3 DEF vars, Sound, TypeOK, NoStepSkipped, Busy, Obj
<1> QED
    BY <1>1, <1>2, <1>3, CancelSound, SetResultSound, RestartSound DEF Next

(* Every variable keeps its type, for any number of callers and runs.       *)
THEOREM TypeCorrect == Spec => []TypeOK
<1>1. Init => Sound
      BY InitSound
<1>2. Sound /\ [Next]_vars => Sound'
      BY NextSound
<1>3. Sound => TypeOK
      BY DEF Sound
<1> QED
    BY <1>1, <1>2, <1>3, PTL DEF Spec

(* No call and no output ever has a gap behind it.                          *)
THEOREM NothingSkipped == Spec => []NoStepSkipped
<1>1. Init => Sound
      BY InitSound
<1>2. Sound /\ [Next]_vars => Sound'
      BY NextSound
<1>3. Sound => NoStepSkipped
      BY DEF Sound
<1> QED
    BY <1>1, <1>2, <1>3, PTL DEF Spec

(* A run that is marked completed, in memory or in storage, executed every  *)
(* step of the pipeline, however often it was stopped, resumed, retried,    *)
(* reloaded or executed by several calls at once.                           *)
THEOREM CompletedRunsAreWhole == Spec => []CompletedRanEveryStep
<1>1. NoStepSkipped => CompletedRanEveryStep
      BY DEF NoStepSkipped, CompletedRanEveryStep, Gapless
<1> QED
    BY <1>1, NothingSkipped, PTL

-----------------------------------------------------------------------------
(* One caller at a time: whose run a call executes, and what storage knows  *)
(* of it.                                                                   *)
OneCaller == \A c, d \in Callers : c = d

Known ==
    /\ \A r \in Runs : stored[r] # None => r \in issued /\ stored[r].run = r
    /\ agentOut # None => out[agentOut].run \in issued

(* A call executes the agent's own output, of the run it was asked for.     *)
Alone ==
    /\ Known
    /\ \A c \in Callers : Busy(c) =>
         /\ Obj(c) = agentOut
         /\ call[c].entry # "task" => out[agentOut].run = call[c].asked
    /\ ReplyOfOwnRun

(* What is common to the ways a step stops its run.                         *)
Stopping(c) == MemorySave(c) \/ CancelStep(c) \/ PauseStep(c) \/ FailStep(c)

LEMMA StoppingStops ==
    ASSUME Sound, NEW c \in Callers, Stopping(c)
    PROVE  /\ AtStep(c)
           /\ UNCHANGED <<agentOut, issued, reply>>
           /\ \E rec \in Output, pc \in {"returning", "failed"} :
                /\ rec.run = RunOf(c)
                /\ rec.status # "running"
                /\ pc = "failed" => rec.status # "completed"
                /\ Stop(c, rec, pc)
<1>1. AtStep(c) /\ UNCHANGED <<agentOut, issued, reply>>
      BY DEF Stopping, MemorySave, CancelStep, PauseStep, FailStep
<1>2. out[Obj(c)] \in Output /\ RunOf(c) = out[Obj(c)].run
      BY <1>1, StepContext DEF RunOf
<1>3. \A s \in StepStatus : Record(c, s) \in Seq(StepResult)
      BY <1>1, RecordExtends
<1>4. Append(out[Obj(c)].answered, FALSE) \in Seq(BOOLEAN)
      BY <1>2 DEF Output
<1>5. CASE MemorySave(c)
  <2> DEFINE rec == [out[Obj(c)] EXCEPT !.status = "completed"]
  <2>1. rec \in Output /\ rec.run = RunOf(c) /\ rec.status = "completed"
        BY <1>2 DEF Output, RunStatus
  <2>2. Stop(c, rec, "returning")
        BY <1>5 DEF MemorySave
  <2> QED
      BY <1>1, <2>1, <2>2
<1>6. CASE CancelStep(c)
  <2> DEFINE rec == [out[Obj(c)] EXCEPT
                       !.status = "cancelled",
                       !.results = IF call[c].step = LastStep THEN @
                                   ELSE Record(c, "CANCELLED")]
  <2>1. rec \in Output /\ rec.run = RunOf(c) /\ rec.status = "cancelled"
        BY <1>2, <1>3 DEF Output, RunStatus, Problematic, StepStatus
  <2>2. Stop(c, rec, "returning")
        BY <1>6 DEF CancelStep
  <2> QED
      BY <1>1, <2>1, <2>2
<1>7. CASE PauseStep(c)
  <2> DEFINE rec == [out[Obj(c)] EXCEPT !.status = "paused",
                                        !.results = Record(c, "PAUSED"),
                                        !.answered = Append(@, FALSE)]
  <2>1. rec \in Output /\ rec.run = RunOf(c) /\ rec.status = "paused"
        BY <1>2, <1>3, <1>4 DEF Output, RunStatus, Problematic, StepStatus
  <2>2. Stop(c, rec, "returning")
        BY <1>7 DEF PauseStep
  <2> QED
      BY <1>1, <2>1, <2>2
<1>8. CASE FailStep(c)
  <2> DEFINE rec == [out[Obj(c)] EXCEPT !.status = "error",
                                        !.results = Record(c, "ERROR")]
  <2>1. rec \in Output /\ rec.run = RunOf(c) /\ rec.status = "error"
        BY <1>2, <1>3 DEF Output, RunStatus, Problematic, StepStatus
  <2>2. Stop(c, rec, "failed")
        BY <1>8 DEF FailStep
  <2> QED
      BY <1>1, <2>1, <2>2
<1> QED
    BY <1>5, <1>6, <1>7, <1>8 DEF Stopping

(* What a call goes on with after an action of its own.                     *)
LEMMA StopEffect ==
    ASSUME Sound, NEW c \in Callers, AtStep(c), NEW rec \in Output,
           NEW pc \in {"returning", "failed"}, Stop(c, rec, pc)
    PROVE  /\ out'[Obj(c)] = rec
           /\ call'[c].pc = pc /\ call'[c].obj = Obj(c)
           /\ call'[c].entry = call[c].entry /\ call'[c].asked = call[c].asked
<1>1. call[c] \in Executing /\ Obj(c) \in Objects
      BY StepContext
<1>2. out'[Obj(c)] = rec
      BY <1>1 DEF Stop, Sound, TypeOK
<1>3. /\ call'[c].pc = pc /\ call'[c].obj = Obj(c)
      /\ call'[c].entry = call[c].entry /\ call'[c].asked = call[c].asked
      BY <1>1 DEF Stop, Sound, TypeOK, Executing, Obj
<1> QED
    BY <1>2, <1>3

LEMMA StopStores ==
    ASSUME Sound, NEW c \in Callers, NEW rec \in Output, NEW pc, Stop(c, rec, pc)
    PROVE  /\ rec.run \in Runs
           /\ \/ UNCHANGED stored
              \/ stored' = [stored EXCEPT ![rec.run] = [rec EXCEPT !.task = None]]
BY DEF Stop, Persist, Output

LEMMA CompleteEffect ==
    ASSUME Sound, NEW c \in Callers, CompleteStep(c)
    PROVE  /\ AtStep(c) /\ AtStep(c)' /\ UNCHANGED <<agentOut, issued, reply, stored>>
           /\ Obj(c) \in Objects /\ out'[Obj(c)].run = out[Obj(c)].run
           /\ out'[Obj(c)].status = out[Obj(c)].status
           /\ call'[c].obj = Obj(c)
           /\ call'[c].entry = call[c].entry /\ call'[c].asked = call[c].asked
<1>1. AtStep(c) /\ UNCHANGED <<agentOut, issued, reply, stored>>
      BY DEF CompleteStep
<1>2. call[c] \in Executing /\ Obj(c) \in Objects /\ out[Obj(c)] \in Output
      BY <1>1, StepContext
<1>3. out'[Obj(c)] = [out[Obj(c)] EXCEPT !.results = Record(c, "COMPLETED")]
      BY <1>2 DEF CompleteStep, Sound, TypeOK
<1>4. call'[c] = [call[c] EXCEPT !.step = @ + 1]
      BY DEF CompleteStep, Sound, TypeOK
<1>5. out'[Obj(c)].run = out[Obj(c)].run /\ out'[Obj(c)].status = out[Obj(c)].status
      BY <1>2, <1>3 DEF Output
<1>6. /\ call'[c].obj = Obj(c) /\ call'[c].pc = call[c].pc
      /\ call'[c].entry = call[c].entry /\ call'[c].asked = call[c].asked
      BY <1>2, <1>4 DEF Executing, Obj
<1> QED
    BY <1>1, <1>2, <1>5, <1>6 DEF AtStep

(* Between the attempts, and after the last, nothing is lost.               *)
LEMMA RetryEffect ==
    ASSUME Sound, NEW c \in Callers, Unwind(c) \/ Reenter(c)
    PROVE  /\ Busy(c) /\ call[c].pc \in {"failed", "backoff"}
           /\ UNCHANGED <<out, issued, stored>>
           /\ agentOut' \in {agentOut, Obj(c)}
           /\ reply'[c].kind = "output" => reply'[c] = reply[c]
           /\ \/ ~Busy(c)'
              \/ /\ call'[c].pc \in {"backoff", "step"} /\ call'[c].obj = Obj(c)
                 /\ call'[c].entry = call[c].entry /\ call'[c].asked = call[c].asked
<1>1. /\ Busy(c) /\ call[c].pc \in {"failed", "backoff"}
      /\ UNCHANGED <<out, issued, stored>> /\ agentOut' \in {agentOut, Obj(c)}
      BY DEF Unwind, Reenter, Retake, Busy
<1>2. call[c] \in Executing
      BY <1>1, BusyExecutes DEF Sound
<1>3. \A k \in {"raised", "refused"} : EndCall(c, k) => ~Busy(c)' /\ reply'[c].kind # "output"
      BY DEF EndCall, Answer, Busy, Idle, Sound, TypeOK
<1>4. CASE UNCHANGED reply /\ (\/ call' = [call EXCEPT ![c].pc = "backoff", ![c].attempt = @ + 1]
                               \/ call' = [call EXCEPT ![c].pc = "step", ![c].step = call[c].first])
      BY <1>1, <1>2, <1>4 DEF Sound, TypeOK, Executing, Obj
<1> QED
    BY <1>1, <1>3, <1>4 DEF Unwind, Reenter

LEMMA AnswerGiven ==
    ASSUME Sound, NEW c \in Callers, NEW k, k # "output", Answer(c, k)
    PROVE  reply'[c].kind # "output"
BY DEF Answer, Sound, TypeOK

(* A continuation takes the agent's own output, or the stored run that was  *)
(* asked for, as it is but for its Task and its answers.                    *)
LEMMA EnterEffect ==
    ASSUME Sound, NEW c \in Callers, NEW e, NEW r, NEW o, NEW resumed, NEW p,
           Enter(c, e, r, o, resumed, p)
    PROVE  /\ AtStep(c)' /\ Obj(c)' = o
           /\ call'[c].entry = e /\ call'[c].asked = r
BY DEF Enter, Sound, TypeOK, AtStep, Obj

LEMMA InMemoryEffect ==
    ASSUME Sound, NEW c \in Callers, NEW e \in {"task", "run"}, NEW r \in Runs,
           NEW t \in Runs \cup {None}, ResumeInMemory(c, e, r, t)
    PROVE  /\ agentOut \in Objects /\ UNCHANGED <<agentOut, stored, issued>>
           /\ out'[agentOut].run = out[agentOut].run
           /\ out'[agentOut].status = out[agentOut].status
           /\ out'[agentOut].results = out[agentOut].results
           /\ reply'[c].kind # "output"
           /\ \/ UNCHANGED call
              \/ /\ out[agentOut].status \in Problematic
                 /\ \E p \in Steps : Enter(c, e, r, agentOut, TRUE, p)
<1> DEFINE rec == out[agentOut]
           new == [rec EXCEPT !.task = IF t = None THEN @ ELSE t]
<1>1. agentOut \in Objects /\ rec \in Output /\ UNCHANGED <<agentOut, stored, issued>>
      BY AgentOutputExists DEF ResumeInMemory, Sound
<1>2. new.run = rec.run /\ new.status = rec.status /\ new.results = rec.results
      BY <1>1 DEF Output
<1> HIDE DEF new
<1>3. CASE Accept(c, e, r, agentOut, out[agentOut], t)
  <2>1. out'[agentOut] = new
        BY <1>1, <1>3 DEF Accept, new, Sound, TypeOK
  <2>2. rec.status \in Problematic
        BY <1>3 DEF Accept, Resumable
  <2>3. reply'[c].kind # "output"
        BY <1>3, AnswerGiven DEF Accept
  <2>4. UNCHANGED call \/ \E p \in Steps : Enter(c, e, r, agentOut, TRUE, p)
        BY <1>3 DEF Accept
  <2> QED
      BY <1>1, <1>2, <2>1, <2>2, <2>3, <2>4
<1>4. CASE Reject(c) /\ UNCHANGED out
      BY <1>1, <1>4, AnswerGiven DEF Reject
<1> QED
    BY <1>3, <1>4 DEF ResumeInMemory

LEMMA FromStorageEffect ==
    ASSUME Sound, NEW c \in Callers, NEW e \in {"task", "run"}, NEW r \in Runs,
           NEW t \in Runs \cup {None}, ResumeFromStorage(c, e, r, t)
    PROVE  /\ agentOut' \in Objects /\ UNCHANGED <<stored, issued>>
           /\ stored[r] # None /\ stored[r].status \in Problematic
           /\ out'[agentOut'].run = stored[r].run
           /\ out'[agentOut'].status = stored[r].status
           /\ out'[agentOut'].results = stored[r].results
           /\ reply'[c].kind # "output"
           /\ \/ UNCHANGED call
              \/ \E p \in Steps : Enter(c, e, r, agentOut', TRUE, p)
<1>1. /\ stored[r] # None /\ stored[r] \in Output /\ stored[r].status \in Problematic
      /\ UNCHANGED <<stored, issued>>
      BY DEF ResumeFromStorage, Sound, TypeOK
<1>2. PICK o \in Objects, results \in SUBSET DOMAIN stored[r].answered :
        LET rec == Loaded(r, results)
        IN /\ agentOut' = o
           /\ \/ /\ Allocate(o, [rec EXCEPT !.task = t])
                 /\ \E p \in Steps : Enter(c, e, r, o, TRUE, p)
                 /\ Answer(c, "none")
              \/ Allocate(o, rec) /\ Reject(c)
      BY DEF ResumeFromStorage
<1> DEFINE rec == Loaded(r, results)
           new == [rec EXCEPT !.task = t]
<1>3. /\ rec \in Output /\ rec.results = stored[r].results
      /\ rec.status = stored[r].status
      BY <1>1, LoadedIsOutput
<1>4. rec.run = stored[r].run
      BY <1>1 DEF Loaded, Output
<1> HIDE DEF rec
<1>5. new.run = rec.run /\ new.results = rec.results /\ new.status = rec.status
      BY <1>3 DEF Output
<1> HIDE DEF new
<1>6. out'[o] = rec \/ out'[o] = new
      BY <1>2 DEF Allocate, rec, new
<1>7. /\ out'[o].run = stored[r].run /\ out'[o].status = stored[r].status
      /\ out'[o].results = stored[r].results
      BY <1>3, <1>4, <1>5, <1>6
<1>8. reply'[c].kind # "output"
      BY <1>2, AnswerGiven DEF Reject
<1>9. UNCHANGED call \/ \E p \in Steps : Enter(c, e, r, o, TRUE, p)
      BY <1>2 DEF Reject
<1> QED
    BY <1>1, <1>2, <1>7, <1>8, <1>9

LEMMA ContinueEffect ==
    ASSUME Sound, Known, NEW c \in Callers, NEW r \in Runs,
           ContinueTask(c, r) \/ ContinueRun(c, r)
    PROVE  /\ ~Busy(c) /\ agentOut' \in Objects /\ UNCHANGED <<stored, issued>>
           /\ reply'[c].kind # "output"
           /\ LET new == out'[agentOut']
              IN /\ \/ /\ agentOut # None
                       /\ new.run = out[agentOut].run
                       /\ new.status = out[agentOut].status
                       /\ new.results = out[agentOut].results
                    \/ /\ stored[r] # None
                       /\ new.run = r
                       /\ new.status = stored[r].status
                       /\ new.results = stored[r].results
                 /\ \/ UNCHANGED call
                    \/ /\ AtStep(c)' /\ Obj(c)' = agentOut'
                       /\ call'[c].entry # "task" => new.run = call'[c].asked
                       /\ new.status \in Problematic
<1>1. ~Busy(c)
      BY DEF ContinueTask, ContinueRun
<1>2. stored[r] # None => stored[r].run = r
      BY DEF Known
<1>3. CASE ContinueTask(c, r)
  <2>1. CASE ResumeInMemory(c, "task", r, r)
        BY <1>1, <2>1, InMemoryEffect, EnterEffect, NoneAssumption
  <2>2. CASE ResumeFromStorage(c, "task", r, r)
        BY <1>1, <1>2, <2>2, FromStorageEffect, EnterEffect
  <2> QED
      BY <1>3, <2>1, <2>2 DEF ContinueTask
<1>4. CASE ContinueRun(c, r)
  <2> DEFINE t == None
             e == "run"
  <2>0. t \in Runs \cup {None} /\ e \in {"task", "run"}
        OBVIOUS
  <2> HIDE DEF t, e
  <2>1. CASE OwnRun(r) /\ ResumeInMemory(c, e, r, t)
    <3>1. out[agentOut].run = r
          BY <2>1 DEF OwnRun
    <3>2. \A p \in Steps : Enter(c, e, r, agentOut, TRUE, p) =>
             AtStep(c)' /\ Obj(c)' = agentOut /\ call'[c].asked = r
          BY EnterEffect
    <3> QED
        BY <1>1, <2>0, <2>1, <3>1, <3>2, InMemoryEffect, NoneAssumption
  <2>2. CASE ResumeFromStorage(c, e, r, t)
    <3>1. \A p \in Steps : Enter(c, e, r, agentOut', TRUE, p) =>
             AtStep(c)' /\ Obj(c)' = agentOut' /\ call'[c].asked = r
          BY EnterEffect
    <3> QED
        BY <1>1, <1>2, <2>0, <2>2, <3>1, FromStorageEffect
  <2> QED
      BY <1>4, <2>1, <2>2 DEF ContinueRun, t, e
<1> QED
    BY <1>3, <1>4

LEMMA StartEffect ==
    ASSUME Sound, NEW c \in Callers, NEW r \in Runs, Start(c, r)
    PROVE  /\ r \notin issued /\ issued' = issued \cup {r}
           /\ UNCHANGED stored /\ reply'[c].kind # "output"
           /\ agentOut' \in Objects /\ out'[agentOut'].run = r
           /\ AtStep(c)' /\ Obj(c)' = agentOut' /\ call'[c].asked = r
<1> DEFINE rec == [run |-> r, task |-> r, status |-> "running",
                   results |-> <<>>, answered |-> <<>>]
<1>1. PICK o \in Objects : /\ Allocate(o, rec)
                           /\ agentOut' = o
                           /\ Enter(c, "do", r, o, FALSE, 0)
      BY DEF Start
<1>2. out'[o].run = r
      BY <1>1 DEF Allocate
<1>3. AtStep(c)' /\ Obj(c)' = o /\ call'[c].asked = r
      BY <1>1, EnterEffect
<1>4. reply'[c].kind # "output"
      BY DEF Start, Answer, Sound, TypeOK
<1> QED
    BY <1>1, <1>2, <1>3, <1>4 DEF Start

(* The user sets a result.                                                  *)
LEMMA SetResultEffect ==
    ASSUME Sound, NEW o \in Objects, SetResult(o)
    PROVE  /\ UNCHANGED <<agentOut, issued, stored, call, reply>> /\ agentOut = o
           /\ out'[o].run = out[o].run /\ out'[o].status = out[o].status
           /\ out'[o].results = out[o].results
<1>1. o = agentOut /\ out[o] \in Output
      BY AgentOutputExists, NoneAssumption DEF SetResult, Sound
<1>2. PICK i \in DOMAIN out[o].answered :
        out' = [out EXCEPT ![o].answered[i] = TRUE]
      BY DEF SetResult
<1>3. out'[o] = [out[o] EXCEPT !.answered = [out[o].answered EXCEPT ![i] = TRUE]]
      BY <1>2 DEF Sound, TypeOK
<1>4. /\ out'[o].run = out[o].run /\ out'[o].status = out[o].status
      /\ out'[o].results = out[o].results
      BY <1>1, <1>3 DEF Output
<1> QED
    BY <1>1, <1>4 DEF SetResult

(* Calls that are answered at once, and cancellations.                      *)
Aside == \/ \E r \in Runs : Cancel(r)
         \/ \E c \in Callers, r \in Runs :
              StartRefused(c, r) \/ ContinueUnknown(c, r) \/ ContinueRefused(c, r)

LEMMA AsideEffect ==
    ASSUME Sound, Aside
    PROVE  /\ UNCHANGED <<out, agentOut, issued, stored, call>>
           /\ \A c \in Callers : reply'[c].kind = "output" => reply'[c] = reply[c]
BY DEF Aside, Cancel, StartRefused, ContinueUnknown, ContinueRefused, Answer, Sound, TypeOK

(* The actions, as they are treated below.                                  *)
LEMMA NextCases ==
    ASSUME Next
    PROVE  \/ \E c \in Callers : \/ CompleteStep(c) \/ Stopping(c) \/ Return(c)
                                 \/ Unwind(c) \/ Reenter(c)
           \/ \E c \in Callers, r \in Runs :
                Start(c, r) \/ ContinueTask(c, r) \/ ContinueRun(c, r)
           \/ \E o \in Objects : SetResult(o)
           \/ Aside \/ NewAgent \/ Crash
BY DEF Next, Progress, Pipeline, Stopping, Call, Aside

LEMMA KnownKept ==
    ASSUME OneCaller, Sound, Alone, Next
    PROVE  Known'
<1>0. Known
      BY DEF Alone
<1>1. ASSUME NEW c \in Callers, Stopping(c) PROVE Known'
  <2>1. PICK rec \in Output, pc \in {"returning", "failed"} :
          rec.run = RunOf(c) /\ Stop(c, rec, pc)
        BY <1>1, StoppingStops
  <2>2. AtStep(c) /\ UNCHANGED <<agentOut, issued>>
        BY <1>1, StoppingStops
  <2>3. Busy(c) /\ Obj(c) = agentOut /\ agentOut # None
        BY <2>2, StepContext DEF Alone, Sound, NoStepSkipped
  <2>4. rec.run \in issued
        BY <1>0, <2>1, <2>3 DEF Known, RunOf
  <2>5. [rec EXCEPT !.task = None].run = rec.run
        BY DEF Output
  <2>6. out'[Obj(c)] = rec
        BY <2>1, <2>2, StopEffect
  <2>7. \A r \in Runs : stored'[r] # stored[r] =>
          r = rec.run /\ stored'[r] = [rec EXCEPT !.task = None]
        BY <2>1, StopStores DEF Sound, TypeOK
  <2> QED
      BY <1>0, <2>2, <2>3, <2>4, <2>5, <2>6, <2>7 DEF Known
<1>2. ASSUME NEW c \in Callers, CompleteStep(c) PROVE Known'
  <2>1. Busy(c) /\ Obj(c) = agentOut
        BY <1>2, StepContext, CompleteEffect DEF Alone
  <2> QED
      BY <1>0, <1>2, <2>1, CompleteEffect DEF Known
<1>3. ASSUME NEW c \in Callers, Return(c) PROVE Known'
      BY <1>0, <1>3 DEF Return, Known
<1>4. ASSUME NEW c \in Callers, Unwind(c) \/ Reenter(c) PROVE Known'
  <2>1. Obj(c) = agentOut
        BY <1>4, RetryEffect DEF Alone
  <2> QED
      BY <1>0, <1>4, <2>1, RetryEffect DEF Known
<1>5. ASSUME NEW c \in Callers, NEW r \in Runs, Start(c, r) PROVE Known'
      BY <1>0, <1>5, StartEffect DEF Known
<1>6. ASSUME NEW c \in Callers, NEW r \in Runs, ContinueTask(c, r) \/ ContinueRun(c, r)
      PROVE  Known'
      BY <1>0, <1>6, ContinueEffect DEF Known
<1>7. ASSUME NEW o \in Objects, SetResult(o) PROVE Known'
      BY <1>0, <1>7, SetResultEffect DEF Known
<1>8. CASE Aside
      BY <1>0, <1>8, AsideEffect DEF Known
<1>9. CASE NewAgent \/ Crash
      BY <1>0, <1>9 DEF NewAgent, Crash, Known
<1> QED
    BY <1>1, <1>2, <1>3, <1>4, <1>5, <1>6, <1>7, <1>8, <1>9, NextCases

(* With one caller it is enough to see what becomes of that one.            *)
LEMMA AloneOf ==
    ASSUME OneCaller, NEW c \in Callers, Known',
           Busy(c)' => /\ Obj(c)' = agentOut'
                       /\ call'[c].entry # "task" => out'[agentOut'].run = call'[c].asked,
           (reply'[c].kind = "output" /\ reply'[c].entry # "task")
               => reply'[c].got = reply'[c].asked
    PROVE  Alone'
<1>1. \A d \in Callers : d = c
      BY DEF OneCaller
<1> QED
    BY <1>1 DEF Alone, ReplyOfOwnRun

LEMMA AloneKept ==
    ASSUME OneCaller, Sound, Alone, [Next]_vars
    PROVE  Alone'
<1>0. Next => Known'
      BY KnownKept
<1>1. ASSUME NEW c \in Callers, Stopping(c), Next PROVE Alone'
  <2>1. PICK rec \in Output, pc \in {"returning", "failed"} :
          rec.run = RunOf(c) /\ Stop(c, rec, pc)
        BY <1>1, StoppingStops
  <2>2. AtStep(c) /\ UNCHANGED <<agentOut, issued, reply>>
        BY <1>1, StoppingStops
  <2>3. /\ Busy(c) /\ Obj(c) = agentOut
        /\ call[c].entry # "task" => rec.run = call[c].asked
        BY <2>1, <2>2, StepContext DEF Alone, RunOf
  <2>a. /\ out'[Obj(c)] = rec /\ call'[c].obj = Obj(c)
        /\ call'[c].entry = call[c].entry /\ call'[c].asked = call[c].asked
        BY <2>1, <2>2, StopEffect
  <2>4. out'[agentOut] = rec /\ call'[c].obj = agentOut
        BY <2>3, <2>a
  <2> QED
      BY <1>0, <1>1, <2>2, <2>3, <2>4, <2>a, AloneOf DEF Alone, ReplyOfOwnRun, Obj
<1>2. ASSUME NEW c \in Callers, CompleteStep(c), Next PROVE Alone'
  <2>1. Busy(c) /\ Obj(c) = agentOut
        BY <1>2, StepContext, CompleteEffect DEF Alone
  <2> QED
      BY <1>0, <1>2, <2>1, CompleteEffect, AloneOf DEF Alone, ReplyOfOwnRun, Obj
<1>3. ASSUME NEW c \in Callers, Return(c), Next PROVE Alone'
  <2>1. Busy(c)
        BY <1>3 DEF Return, Busy
  <2>2. /\ ~Busy(c)'
        /\ reply'[c] = [kind |-> "output", entry |-> call[c].entry,
                        asked |-> call[c].asked, got |-> out[agentOut].run,
                        status |-> out[agentOut].status]
        BY <1>3 DEF Return, Busy, Idle, Sound, TypeOK
  <2> QED
      BY <1>0, <1>3, <2>1, <2>2, AloneOf DEF Alone
<1>4. ASSUME NEW c \in Callers, Unwind(c) \/ Reenter(c), Next PROVE Alone'
      BY <1>0, <1>4, RetryEffect, AloneOf DEF Alone, ReplyOfOwnRun, Obj
<1>5. ASSUME NEW c \in Callers, NEW r \in Runs, Start(c, r), Next PROVE Alone'
      BY <1>0, <1>5, StartEffect, AloneOf
<1>6. ASSUME NEW c \in Callers, NEW r \in Runs, ContinueTask(c, r) \/ ContinueRun(c, r), Next
      PROVE  Alone'
  <2>1. Known
        BY DEF Alone
  <2> QED
      BY <1>0, <1>6, <2>1, ContinueEffect, AloneOf DEF Busy
<1>7. ASSUME NEW o \in Objects, SetResult(o), Next PROVE Alone'
  <2>1. ASSUME NEW c \in Callers
        PROVE  /\ Busy(c)' = Busy(c) /\ Obj(c)' = Obj(c) /\ call'[c] = call[c]
               /\ reply'[c] = reply[c]
        BY <1>7, SetResultEffect DEF Busy, Obj
  <2> QED
      BY <1>0, <1>7, <2>1, SetResultEffect DEF Alone, ReplyOfOwnRun
<1>8. ASSUME Aside, Next PROVE Alone'
  <2>1. ASSUME NEW c \in Callers
        PROVE  /\ Busy(c)' = Busy(c) /\ Obj(c)' = Obj(c) /\ call'[c] = call[c]
               /\ reply'[c].kind = "output" => reply'[c] = reply[c]
        BY <1>8, AsideEffect DEF Busy, Obj
  <2> QED
      BY <1>0, <1>8, <2>1, AsideEffect DEF Alone, ReplyOfOwnRun
<1>9. ASSUME NewAgent \/ Crash, Next PROVE Alone'
  <2>1. ASSUME NEW c \in Callers
        PROVE  ~Busy(c)' /\ (reply'[c].kind = "output" => reply'[c] = reply[c])
        BY <1>9 DEF NewAgent, Crash, Busy, Idle
  <2> QED
      BY <1>0, <1>9, <2>1 DEF Alone, ReplyOfOwnRun
<1>10. CASE UNCHANGED vars
       BY <1>10 DEF vars, Alone, Known, ReplyOfOwnRun, Busy, Obj
<1>11. CASE Next
       BY <1>1, <1>2, <1>3, <1>4, <1>5, <1>6, <1>7, <1>8, <1>9, <1>11, NextCases
<1> QED
    BY <1>10, <1>11

LEMMA InitAlone == Init => Alone
BY DEF Init, Alone, Known, ReplyOfOwnRun, Busy, Idle

LEMMA AloneHolds == ASSUME OneCaller PROVE Spec => [](Sound /\ Alone)
  BY InitSound, NextSound, InitAlone, AloneKept, PTL DEF Spec

(* An Agent that has one caller at a time answers each with the output of   *)
(* the run it was asked for, through retries, restarts and failed saves     *)
(* (agent.py: do_async and continue_run_async return _agent_run_output).    *)
THEOREM RepliesAreOwn == ASSUME OneCaller PROVE Spec => []ReplyOfOwnRun
<1>1. Alone => ReplyOfOwnRun
      BY DEF Alone
<1> QED
    BY <1>1, AloneHolds, PTL

-----------------------------------------------------------------------------
(* With one caller the run that the pipeline polls for cancellation is the  *)
(* run that it executes.                                                    *)
Polled == \A c \in Callers : AtStep(c) => agentRun = RunOf(c)

LEMMA PolledOf ==
    ASSUME OneCaller, NEW c \in Callers, AtStep(c)' => agentRun' = RunOf(c)'
    PROVE  Polled'
<1>1. \A d \in Callers : d = c
      BY DEF OneCaller
<1> QED
    BY <1>1 DEF Polled

LEMMA InMemoryPolls ==
    ASSUME Sound, NEW c \in Callers, ~Busy(c), NEW e \in {"task", "run"}, NEW r \in Runs,
           NEW t \in Runs \cup {None}, ResumeInMemory(c, e, r, t), AtStep(c)'
    PROVE  agentRun' = RunOf(c)'
<1>1. agentOut \in Objects /\ out'[agentOut].run = out[agentOut].run
      BY InMemoryEffect
<1>2. ~(UNCHANGED call)
      BY DEF Busy, AtStep
<1>3. Accept(c, e, r, agentOut, out[agentOut], t)
      BY <1>2 DEF ResumeInMemory, Reject
<1>4. PICK p \in Steps : Enter(c, e, r, agentOut, TRUE, p)
      BY <1>2, <1>3 DEF Accept
<1>5. agentRun' = out[agentOut].run
      BY <1>2, <1>3 DEF Accept
<1>6. Obj(c)' = agentOut
      BY <1>4, EnterEffect
<1> QED
    BY <1>1, <1>5, <1>6 DEF RunOf

LEMMA FromStoragePolls ==
    ASSUME Sound, Known, NEW c \in Callers, ~Busy(c), NEW e \in {"task", "run"}, NEW r \in Runs,
           NEW t \in Runs \cup {None}, ResumeFromStorage(c, e, r, t), AtStep(c)'
    PROVE  agentRun' = RunOf(c)'
<1>1. agentOut' \in Objects /\ out'[agentOut'].run = r
      BY FromStorageEffect DEF Known
<1>2. ~(UNCHANGED call)
      BY DEF Busy, AtStep
<1>3. PICK p \in Steps : Enter(c, e, r, agentOut', TRUE, p) /\ agentRun' = r
      BY <1>2 DEF ResumeFromStorage, Reject
<1>4. Obj(c)' = agentOut'
      BY <1>3, EnterEffect
<1> QED
    BY <1>1, <1>3, <1>4 DEF RunOf

LEMMA PolledKept ==
    ASSUME OneCaller, Sound, Alone, Polled, [Next]_vars
    PROVE  Polled'
<1>1. ASSUME NEW c \in Callers, Stopping(c) PROVE Polled'
  <2>1. PICK rec \in Output, pc \in {"returning", "failed"} : Stop(c, rec, pc)
        BY <1>1, StoppingStops
  <2>2. ~AtStep(c)'
        BY <1>1, <2>1, StoppingStops, StopEffect DEF AtStep
  <2> QED
      BY <2>2, PolledOf
<1>2. ASSUME NEW c \in Callers, CompleteStep(c) PROVE Polled'
  <2>1. RunOf(c)' = RunOf(c) /\ AtStep(c)
        BY <1>2, CompleteEffect DEF RunOf, Obj
  <2>2. UNCHANGED agentRun
        BY <1>2 DEF CompleteStep
  <2> QED
      BY <2>1, <2>2, PolledOf DEF Polled
<1>3. ASSUME NEW c \in Callers, Return(c) PROVE Polled'
  <2>1. ~AtStep(c)'
        BY <1>3 DEF Return, AtStep, Idle, Sound, TypeOK
  <2> QED
      BY <2>1, PolledOf
<1>4. ASSUME NEW c \in Callers, Unwind(c) PROVE Polled'
  <2>1. call[c] \in Executing
        BY <1>4, BusyExecutes DEF Unwind, Busy, Sound
  <2>2. ~AtStep(c)'
        BY <1>4, <2>1 DEF Unwind, EndCall, AtStep, Idle, Sound, TypeOK, Executing
  <2> QED
      BY <2>2, PolledOf
<1>5. ASSUME NEW c \in Callers, Reenter(c) PROVE Polled'
  <2>1. UNCHANGED out /\ (Busy(c)' => call'[c].obj = Obj(c))
        BY <1>5, RetryEffect
  <2>2. AtStep(c)' => agentRun' = RunOf(c)
        BY <1>5 DEF Reenter, Retake, EndCall, AtStep, Idle, Sound, TypeOK
  <2>3. AtStep(c)' => RunOf(c)' = RunOf(c)
        BY <2>1 DEF AtStep, Busy, RunOf, Obj
  <2> QED
      BY <2>2, <2>3, PolledOf
<1>6. ASSUME NEW c \in Callers, NEW r \in Runs, Start(c, r) PROVE Polled'
  <2>1. agentRun' = r
        BY <1>6 DEF Start
  <2>2. RunOf(c)' = r
        BY <1>6, StartEffect DEF RunOf
  <2> QED
      BY <2>1, <2>2, PolledOf
<1>7. ASSUME NEW c \in Callers, NEW r \in Runs, ContinueTask(c, r) \/ ContinueRun(c, r)
      PROVE  Polled'
  <2> SUFFICES ASSUME AtStep(c)' PROVE agentRun' = RunOf(c)'
      BY PolledOf
  <2>1. ~Busy(c) /\ Known
        BY <1>7 DEF ContinueTask, ContinueRun, Alone
  <2>2. PICK e \in {"task", "run"}, t \in Runs \cup {None} :
          ResumeInMemory(c, e, r, t) \/ ResumeFromStorage(c, e, r, t)
        BY <1>7 DEF ContinueTask, ContinueRun
  <2> QED
      BY <2>1, <2>2, InMemoryPolls, FromStoragePolls
<1>8. ASSUME NEW o \in Objects, SetResult(o) PROVE Polled'
  <2>1. UNCHANGED <<agentRun, call>>
        BY <1>8 DEF SetResult
  <2>2. \A c \in Callers : AtStep(c) => Obj(c) # o
        BY <1>8 DEF SetResult, InUse, AtStep, Busy
  <2>3. \A x : x # o => out'[x] = out[x]
        BY <1>8 DEF SetResult
  <2> QED
      BY <2>1, <2>2, <2>3 DEF Polled, AtStep, RunOf, Obj
<1>9. CASE Aside
  <2>1. UNCHANGED agentRun
        BY <1>9 DEF Aside, Cancel, StartRefused, ContinueUnknown, ContinueRefused
  <2> QED
      BY <1>9, <2>1, AsideEffect DEF Polled, AtStep, RunOf, Obj
<1>10. CASE NewAgent \/ Crash
       BY <1>10 DEF NewAgent, Crash, Polled, AtStep, Busy, Idle
<1>11. CASE UNCHANGED vars
       BY <1>11 DEF vars, Polled, AtStep, RunOf, Obj
<1> QED
    BY <1>1, <1>2, <1>3, <1>4, <1>5, <1>6, <1>7, <1>8, <1>9, <1>10, <1>11, NextCases

(* Of an Agent that has one caller at a time a run that was cancelled       *)
(* executes no step any more and is not completed, through restarts, saves  *)
(* that failed and further attempts: raise_if_cancelled(agent.run_id) asks  *)
(* for the run that is executed (run/cancel.py, agent/pipeline/steps.py).   *)
THEOREM CancellationIsHonoured == ASSUME OneCaller PROVE Spec => CancelIsHonoured
<1>1. Sound /\ Alone /\ Polled
        => \A c \in Callers : (AtStep(c) /\ registry[RunOf(c)] = "cancelled")
                                => ~(CompleteStep(c) \/ MemorySave(c))
  <2> SUFFICES ASSUME Sound, Alone, Polled, NEW c \in Callers, AtStep(c),
                      registry[RunOf(c)] = "cancelled",
                      CompleteStep(c) \/ MemorySave(c)
               PROVE  FALSE
      OBVIOUS
  <2>1. agentRun = RunOf(c)
        BY DEF Polled
  <2>2. agentRun # None
        BY <2>1, StepContext, NoneAssumption DEF RunOf, Output
  <2> QED
      BY <2>1, <2>2 DEF CompleteStep, MemorySave, CancelSeen
<1>2. Init => Polled
      BY DEF Init, Polled, AtStep, Idle
<1>3. Sound /\ Alone /\ Polled /\ [Next]_vars => Polled'
      BY PolledKept
<1> QED
    BY <1>1, <1>2, <1>3, AloneHolds, PTL DEF Spec, CancelIsHonoured

-----------------------------------------------------------------------------
(* With one caller, whether or not saves succeed: what storage knows to be  *)
(* executed of the run that the agent has, the agent knows as well.         *)
Extends(a, b) == Len(a) <= Len(b) /\ \A i \in 1..Len(a) : b[i] = a[i]

Ahead ==
    (agentOut # None /\ stored[out[agentOut].run] # None)
        => Extends(stored[out[agentOut].run].results, out[agentOut].results)

LEMMA ExtendsAppend ==
    ASSUME NEW rs \in Seq(StepResult), NEW x \in StepResult
    PROVE  Extends(rs, rs) /\ Extends(rs, Append(rs, x))
BY DEF Extends

LEMMA ExtendsTransitive ==
    ASSUME NEW a \in Seq(StepResult), NEW b \in Seq(StepResult), NEW d \in Seq(StepResult),
           Extends(a, b), Extends(b, d)
    PROVE  Extends(a, d)
BY DEF Extends

LEMMA ExtendsPrefix ==
    ASSUME NEW a \in Seq(StepResult), NEW b \in Seq(StepResult), Extends(a, b)
    PROVE  Len(a) <= Len(b) /\ SubSeq(b, 1, Len(a)) = a
<1>1. Len(a) \in Nat /\ Len(b) \in Nat /\ Len(a) <= Len(b)
      BY DEF Extends
<1>2. /\ SubSeq(b, 1, Len(a)) \in Seq(StepResult) /\ Len(SubSeq(b, 1, Len(a))) = Len(a)
      /\ \A i \in 1..Len(a) : SubSeq(b, 1, Len(a))[i] = b[i]
      BY <1>1
<1>3. \A i \in 1..Len(a) : SubSeq(b, 1, Len(a))[i] = a[i]
      BY <1>2 DEF Extends
<1> QED
    BY <1>1, <1>2, <1>3

LEMMA ResultExtends ==
    ASSUME Sound, NEW c \in Callers, AtStep(c), NEW s \in StepStatus
    PROVE  Extends(out[Obj(c)].results, Record(c, s))
<1>1. /\ out[Obj(c)].results \in Seq(StepResult)
      /\ [step |-> call[c].step, status |-> s] \in StepResult
      BY StepContext DEF Output, StepResult
<1> QED
    BY <1>1, ExtendsAppend DEF Record

LEMMA StepExtends ==
    ASSUME Sound, NEW c \in Callers, Stopping(c) \/ CompleteStep(c)
    PROVE  Extends(out[Obj(c)].results, out'[Obj(c)].results)
<1>1. AtStep(c) /\ Obj(c) \in Objects /\ out[Obj(c)] \in Output /\ Obj(c) \in DOMAIN out
      BY StepContext DEF Stopping, MemorySave, CancelStep, PauseStep, FailStep, CompleteStep,
                         Sound, TypeOK
<1>2. \A rec, pc : Stop(c, rec, pc) => out'[Obj(c)] = rec
      BY <1>1 DEF Stop
<1>3. Extends(out[Obj(c)].results, out[Obj(c)].results)
      BY <1>1 DEF Extends, Output
<1>4. \A s \in StepStatus : Extends(out[Obj(c)].results, Record(c, s))
      BY <1>1, ResultExtends
<1>5. CASE MemorySave(c)
  <2>1. out'[Obj(c)].results = out[Obj(c)].results
        BY <1>1, <1>2, <1>5 DEF MemorySave, Output
  <2> QED
      BY <1>3, <2>1
<1>6. CASE CancelStep(c)
  <2>1. out'[Obj(c)].results \in {out[Obj(c)].results, Record(c, "CANCELLED")}
        BY <1>1, <1>2, <1>6 DEF CancelStep, Output
  <2> QED
      BY <1>3, <1>4, <2>1 DEF StepStatus
<1>7. CASE PauseStep(c)
  <2>1. out'[Obj(c)].results = Record(c, "PAUSED")
        BY <1>1, <1>2, <1>7 DEF PauseStep, Output
  <2> QED
      BY <1>4, <2>1 DEF StepStatus
<1>8. CASE FailStep(c)
  <2>1. out'[Obj(c)].results = Record(c, "ERROR")
        BY <1>1, <1>2, <1>8 DEF FailStep, Output
  <2> QED
      BY <1>4, <2>1 DEF StepStatus
<1>9. CASE CompleteStep(c)
  <2>1. out'[Obj(c)].results = Record(c, "COMPLETED")
        BY <1>1, <1>9 DEF CompleteStep, Output
  <2> QED
      BY <1>4, <2>1 DEF StepStatus
<1> QED
    BY <1>5, <1>6, <1>7, <1>8, <1>9 DEF Stopping

(* What a step does to storage.                                             *)
Grows ==
    \A r \in Runs : stored[r] # None =>
        stored'[r] # None /\ Extends(stored[r].results, stored'[r].results)

LEMMA StoredResults ==
    ASSUME Sound, NEW r \in Runs, stored[r] # None
    PROVE  stored[r].results \in Seq(StepResult)
BY DEF Sound, TypeOK, Output

LEMMA SameGrows == ASSUME Sound, UNCHANGED stored PROVE Grows
<1> SUFFICES ASSUME NEW r \in Runs, stored[r] # None
             PROVE  Extends(stored[r].results, stored[r].results)
    BY DEF Grows
<1> QED
    BY StoredResults DEF Extends

LEMMA OwnResults ==
    ASSUME Sound, agentOut # None
    PROVE  agentOut \in Objects /\ out[agentOut].run \in Runs
           /\ out[agentOut].results \in Seq(StepResult)
BY AgentOutputExists DEF Sound, Output

LEMMA AheadKept ==
    ASSUME OneCaller, Sound, Sound', Alone, Ahead, [Next]_vars
    PROVE  Ahead' /\ Grows
<1>0. Known
      BY DEF Alone
<1>1. ASSUME NEW c \in Callers, Stopping(c) PROVE Ahead' /\ Grows
  <2>1. PICK rec \in Output, pc \in {"returning", "failed"} :
          rec.run = RunOf(c) /\ Stop(c, rec, pc)
        BY <1>1, StoppingStops
  <2>2. /\ AtStep(c) /\ agentOut' = agentOut /\ Obj(c) = agentOut /\ agentOut # None
        /\ rec.run = out[agentOut].run
        BY <1>1, <2>1, StoppingStops, StepContext, NoneAssumption DEF Alone, RunOf
  <2>3. out'[agentOut] = rec
        BY <2>1, <2>2, StopEffect
  <2>4. Extends(out[agentOut].results, rec.results)
        BY <1>1, <2>2, <2>3, StepExtends
  <2>5. /\ rec.run \in Runs /\ rec.results \in Seq(StepResult)
        /\ out[agentOut].results \in Seq(StepResult)
        BY <2>2, OwnResults DEF Output
  <2>6. stored[rec.run] # None => Extends(stored[rec.run].results, rec.results)
    <3> SUFFICES ASSUME stored[rec.run] # None
                 PROVE  Extends(stored[rec.run].results, rec.results)
        OBVIOUS
    <3>1. Extends(stored[rec.run].results, out[agentOut].results)
          BY <2>2 DEF Ahead
    <3>2. stored[rec.run].results \in Seq(StepResult)
          BY <2>5, StoredResults
    <3> QED
        BY <2>4, <2>5, <3>1, <3>2, ExtendsTransitive
  <2>7. CASE UNCHANGED stored
        BY <2>2, <2>3, <2>6, <2>7, SameGrows DEF Ahead
  <2>8. CASE stored' = [stored EXCEPT ![rec.run] = [rec EXCEPT !.task = None]]
    <3> DEFINE new == [rec EXCEPT !.task = None]
    <3>1. new \in Output /\ new.results = rec.results
          BY DEF Output
    <3>2. new # None
          BY <3>1, OutputAssumption
    <3> HIDE DEF new
    <3>3. /\ stored'[rec.run] = new
          /\ \A r \in Runs : r # rec.run => stored'[r] = stored[r]
          BY <2>5, <2>8 DEF new, Sound, TypeOK
    <3>4. Ahead'
          BY <2>2, <2>3, <2>5, <3>1, <3>3 DEF Ahead, Extends
    <3>5. ASSUME NEW r \in Runs, stored[r] # None
          PROVE  stored'[r] # None /\ Extends(stored[r].results, stored'[r].results)
      <4>1. CASE r = rec.run
            BY <2>6, <3>1, <3>2, <3>3, <3>5, <4>1
      <4>2. CASE r # rec.run
            BY <3>3, <3>5, <4>2, StoredResults DEF Extends
      <4> QED
          BY <4>1, <4>2
    <3> QED
        BY <3>4, <3>5 DEF Grows
  <2> QED
      BY <2>1, <2>7, <2>8, StopStores
<1>2. ASSUME NEW c \in Callers, CompleteStep(c) PROVE Ahead' /\ Grows
  <2>1. /\ AtStep(c) /\ UNCHANGED <<agentOut, stored>>
        /\ out'[Obj(c)].run = out[Obj(c)].run
        BY <1>2, CompleteEffect
  <2>2. Obj(c) = agentOut /\ agentOut # None
        BY <2>1, StepContext, NoneAssumption DEF Alone
  <2>3. Extends(out[agentOut].results, out'[agentOut].results)
        BY <1>2, <2>2, StepExtends
  <2>4. /\ out[agentOut].run \in Runs /\ out[agentOut].results \in Seq(StepResult)
        /\ out'[agentOut].results \in Seq(StepResult)
    <3>1. out[Obj(c)] \in Output
          BY <2>1, StepContext
    <3>2. out'[Obj(c)] = [out[Obj(c)] EXCEPT !.results = Record(c, "COMPLETED")]
          BY <1>2, <2>1, StepContext DEF CompleteStep, Sound, TypeOK
    <3>3. Record(c, "COMPLETED") \in Seq(StepResult)
          BY <2>1, RecordExtends DEF StepStatus
    <3> QED
        BY <2>2, <3>1, <3>2, <3>3 DEF Output
  <2>5. Ahead'
    <3> SUFFICES ASSUME stored[out[agentOut].run] # None
                 PROVE  Extends(stored[out[agentOut].run].results, out'[agentOut].results)
        BY <2>1, <2>2 DEF Ahead
    <3>1. Extends(stored[out[agentOut].run].results, out[agentOut].results)
          BY <2>2 DEF Ahead
    <3>2. stored[out[agentOut].run].results \in Seq(StepResult)
          BY <2>4, StoredResults
    <3> QED
        BY <2>3, <2>4, <3>1, <3>2, ExtendsTransitive
  <2> QED
      BY <2>1, <2>5, SameGrows
<1>3. ASSUME UNCHANGED <<stored, out>>, agentOut' = agentOut PROVE Ahead' /\ Grows
      BY <1>3, SameGrows DEF Ahead
<1>4. ASSUME NEW c \in Callers, Return(c) \/ Unwind(c) \/ Reenter(c) PROVE Ahead' /\ Grows
  <2>1. UNCHANGED <<stored, out>> /\ agentOut' \in {agentOut, Obj(c)} /\ Busy(c)
        BY <1>4, RetryEffect DEF Return, Busy
  <2>2. agentOut' = agentOut
        BY <2>1 DEF Alone
  <2> QED
      BY <1>3, <2>1, <2>2
<1>5. ASSUME NEW c \in Callers, NEW r \in Runs, Start(c, r) PROVE Ahead' /\ Grows
  <2>1. /\ r \notin issued /\ UNCHANGED stored
        /\ agentOut' \in Objects /\ out'[agentOut'].run = r
        BY <1>5, StartEffect
  <2>2. stored[r] = None
        BY <1>0, <2>1 DEF Known
  <2> QED
      BY <2>1, <2>2, SameGrows DEF Ahead
<1>6. ASSUME NEW c \in Callers, NEW r \in Runs, ContinueTask(c, r) \/ ContinueRun(c, r)
      PROVE  Ahead' /\ Grows
  <2>1. UNCHANGED stored
        BY <1>0, <1>6, ContinueEffect
  <2>2. \/ /\ agentOut # None
           /\ out'[agentOut'].run = out[agentOut].run
           /\ out'[agentOut'].results = out[agentOut].results
        \/ /\ stored[r] # None
           /\ out'[agentOut'].run = r
           /\ out'[agentOut'].results = stored[r].results
        BY <1>0, <1>6, ContinueEffect
  <2>3. stored[r] # None => Extends(stored[r].results, stored[r].results)
        BY StoredResults DEF Extends
  <2> QED
      BY <2>1, <2>2, <2>3, SameGrows DEF Ahead
<1>7. ASSUME NEW o \in Objects, SetResult(o) PROVE Ahead' /\ Grows
  <2>1. /\ UNCHANGED <<agentOut, stored>> /\ agentOut = o
        /\ out'[o].run = out[o].run /\ out'[o].results = out[o].results
        BY <1>7, SetResultEffect
  <2> QED
      BY <2>1, SameGrows DEF Ahead
<1>8. CASE Aside
      BY <1>3, <1>8, AsideEffect
<1>9. CASE NewAgent \/ Crash
  <2>1. agentOut' = None /\ UNCHANGED stored
        BY <1>9 DEF NewAgent, Crash
  <2> QED
      BY <2>1, SameGrows DEF Ahead
<1>10. CASE UNCHANGED vars
       BY <1>3, <1>10 DEF vars
<1> QED
    BY <1>1, <1>2, <1>4, <1>5, <1>6, <1>7, <1>8, <1>9, <1>10, NextCases

(* With one caller storage never goes back: the steps it knows to be        *)
(* executed of a run stay known, through failed saves, reloads of old       *)
(* checkpoints and crashes (storage/memory/session/agent.py: asave).        *)
THEOREM ProgressIsKept == ASSUME OneCaller PROVE Spec => StoredProgressIsKept
<1>1. ASSUME Sound, Sound', Grows
      PROVE  \A r \in Runs : stored[r] # None =>
               /\ stored'[r] # None
               /\ Len(stored[r].results) <= Len(stored'[r].results)
               /\ SubSeq(stored'[r].results, 1, Len(stored[r].results)) = stored[r].results
  <2> SUFFICES ASSUME NEW r \in Runs, stored[r] # None
               PROVE  /\ stored'[r] # None
                      /\ Len(stored[r].results) <= Len(stored'[r].results)
                      /\ SubSeq(stored'[r].results, 1, Len(stored[r].results))
                           = stored[r].results
      OBVIOUS
  <2>1. stored'[r] # None /\ Extends(stored[r].results, stored'[r].results)
        BY <1>1 DEF Grows
  <2>2. stored[r].results \in Seq(StepResult) /\ stored'[r].results \in Seq(StepResult)
        BY <1>1, <2>1 DEF Sound, TypeOK, Output
  <2> QED
      BY <2>1, <2>2, ExtendsPrefix
<1>2. Init => Ahead
      BY DEF Init, Ahead
<1>3. Sound /\ Sound' /\ Alone /\ Ahead /\ [Next]_vars => Ahead' /\ Grows
      BY AheadKept
<1> DEFINE Kept == \A r \in Runs : stored[r] # None =>
                     /\ stored'[r] # None
                     /\ Len(stored[r].results) <= Len(stored'[r].results)
                     /\ SubSeq(stored'[r].results, 1, Len(stored[r].results))
                          = stored[r].results
<1>4. Sound /\ Sound' /\ Alone /\ Ahead /\ [Next]_vars => Ahead' /\ [Kept]_vars
      BY <1>1, <1>3
<1> QED
    BY <1>2, <1>4, AloneHolds, PTL DEF Spec, StoredProgressIsKept

-----------------------------------------------------------------------------
(* With a storage that works besides, storage and memory agree: on a run    *)
(* that is being executed storage has no completion, on any other it has    *)
(* what the agent has.                                                      *)
SavesWork == Saves = {TRUE}

Open(rec) == stored[rec.run] # None => stored[rec.run].status # "completed"

Held(rec) ==
    IF stored[rec.run] = None
    THEN rec.status = "completed" /\ rec.run \notin KeepsHistory
    ELSE /\ stored[rec.run].status = rec.status
         /\ stored[rec.run].results = rec.results

InStep ==
    \A c \in Callers : Busy(c) =>
        IF AtStep(c) THEN Open(out[agentOut])
        ELSE /\ Held(out[agentOut])
             /\ call[c].pc # "returning" => out[agentOut].status # "completed"

Durable == InStep /\ StopIsDurable

LEMMA DurableOf ==
    ASSUME OneCaller, NEW c \in Callers,
           Busy(c)' => IF AtStep(c)' THEN Open(out[agentOut])'
                       ELSE /\ Held(out[agentOut])'
                            /\ call'[c].pc # "returning"
                                 => out'[agentOut'].status # "completed",
           ~Busy(c)' => agentOut' = None \/ Held(out[agentOut])'
    PROVE  Durable'
<1>1. \A d \in Callers : d = c
      BY DEF OneCaller
<1>2. InStep'
      BY <1>1 DEF InStep
<1>3. StopIsDurable'
      BY <1>1 DEF StopIsDurable, Held
<1> QED
    BY <1>2, <1>3 DEF Durable

(* A save that works leaves in storage what the agent has.                  *)
LEMMA StopHolds ==
    ASSUME SavesWork, Sound, NEW c \in Callers, AtStep(c), Obj(c) = agentOut,
           UNCHANGED agentOut, NEW rec \in Output, rec.run = RunOf(c),
           NEW pc \in {"returning", "failed"}, Stop(c, rec, pc)
    PROVE  Held(out[agentOut])'
<1>0. out'[Obj(c)] = rec
      BY StopEffect
<1>1. out'[agentOut] = rec /\ rec.run \in Runs
      BY <1>0, StopStores
<1> DEFINE new == [rec EXCEPT !.task = None]
<1>2. /\ new \in Output /\ new.status = rec.status /\ new.results = rec.results
      /\ new # None
  <2>1. new \in Output /\ new.status = rec.status /\ new.results = rec.results
        BY DEF Output
  <2>2. new # None
        BY <2>1, OutputAssumption
  <2> QED
      BY <2>1, <2>2
<1>3. stored' = IF \/ rec.status # "completed"
                   \/ rec.run \in KeepsHistory
                   \/ stored[rec.run] # None
                THEN [stored EXCEPT ![rec.run] = new] ELSE stored
      BY DEF SavesWork, Stop, Persist
<1> HIDE DEF new
<1>4. stored' \in [Runs -> {new} \cup {stored[r] : r \in Runs}]
      BY <1>1, <1>3 DEF Sound, TypeOK
<1>5. stored'[rec.run] = IF \/ rec.status # "completed"
                            \/ rec.run \in KeepsHistory
                            \/ stored[rec.run] # None
                         THEN new ELSE stored[rec.run]
      BY <1>1, <1>3 DEF Sound, TypeOK
<1> QED
    BY <1>1, <1>2, <1>5 DEF Held

LEMMA HeldWhenIdle ==
    ASSUME OneCaller, Durable, NEW c \in Callers, ~Busy(c), agentOut # None
    PROVE  Held(out[agentOut])
<1>1. \A d \in Callers : ~Busy(d)
      BY DEF OneCaller
<1> QED
    BY <1>1 DEF Durable, StopIsDurable, Held

LEMMA DurableKept ==
    ASSUME OneCaller, SavesWork, Sound, Alone, Durable, [Next]_vars
    PROVE  Durable'
<1>1. ASSUME NEW c \in Callers, Stopping(c) PROVE Durable'
  <2>1. PICK rec \in Output, pc \in {"returning", "failed"} :
          /\ rec.run = RunOf(c) /\ Stop(c, rec, pc)
          /\ pc = "failed" => rec.status # "completed"
        BY <1>1, StoppingStops
  <2>2. AtStep(c) /\ UNCHANGED agentOut
        BY <1>1, StoppingStops
  <2>3. Busy(c) /\ Obj(c) = agentOut
        BY <2>2, StepContext DEF Alone
  <2>a. out'[Obj(c)] = rec /\ call'[c].pc = pc
        BY <2>1, <2>2, StopEffect
  <2>4. out'[agentOut] = rec
        BY <2>3, <2>a
  <2>5. Held(out[agentOut])'
        BY <2>1, <2>2, <2>3, StopHolds
  <2> QED
      BY <2>1, <2>2, <2>4, <2>5, <2>a, DurableOf DEF AtStep
<1>2. ASSUME NEW c \in Callers, CompleteStep(c) PROVE Durable'
  <2>1. Busy(c) /\ Obj(c) = agentOut /\ AtStep(c)
        BY <1>2, StepContext, CompleteEffect DEF Alone
  <2>2. Open(out[agentOut])
        BY <2>1 DEF Durable, InStep
  <2>3. Open(out[agentOut])'
        BY <1>2, <2>1, <2>2, CompleteEffect DEF Open
  <2>4. AtStep(c)' /\ Busy(c)'
        BY <1>2, CompleteEffect DEF AtStep, Busy
  <2> QED
      BY <2>3, <2>4, DurableOf
<1>3. ASSUME NEW c \in Callers, Return(c) PROVE Durable'
  <2>1. Busy(c) /\ ~AtStep(c)
        BY <1>3 DEF Return, Busy, AtStep
  <2>2. Held(out[agentOut])
        BY <2>1 DEF Durable, InStep
  <2>3. Held(out[agentOut])'
        BY <1>3, <2>2 DEF Return, Held
  <2>4. ~Busy(c)'
        BY <1>3 DEF Return, Busy, Idle, Sound, TypeOK
  <2> QED
      BY <2>3, <2>4, DurableOf
<1>4. ASSUME NEW c \in Callers, Unwind(c) \/ Reenter(c) PROVE Durable'
  <2>1. /\ Busy(c) /\ ~AtStep(c) /\ call[c].pc # "returning" /\ agentOut' = agentOut
        /\ UNCHANGED <<out, stored>>
        BY <1>4, RetryEffect DEF AtStep, Alone
  <2>2. Held(out[agentOut]) /\ out[agentOut].status # "completed"
        BY <2>1 DEF Durable, InStep
  <2>3. Held(out[agentOut])' /\ Open(out[agentOut])'
        BY <2>1, <2>2 DEF Held, Open
  <2> QED
      BY <1>4, <2>1, <2>2, <2>3, DurableOf
<1>5. ASSUME NEW c \in Callers, NEW r \in Runs, Start(c, r) PROVE Durable'
  <2>1. stored'[r] = None /\ out'[agentOut'].run = r
        BY <1>5, StartEffect DEF Alone, Known
  <2>2. Open(out[agentOut])'
        BY <2>1 DEF Open
  <2>3. AtStep(c)' /\ Busy(c)'
        BY <1>5, StartEffect DEF AtStep, Busy
  <2> QED
      BY <2>2, <2>3, DurableOf
<1>6. ASSUME NEW c \in Callers, NEW r \in Runs, ContinueTask(c, r) \/ ContinueRun(c, r)
      PROVE  Durable'
  <2>1. Known
        BY DEF Alone
  <2>2. ~Busy(c) /\ UNCHANGED stored
        BY <1>6, <2>1, ContinueEffect
  <2>3. agentOut # None => Held(out[agentOut])
        BY <2>2, HeldWhenIdle
  <2>4. stored[r] # None => stored[r].run = r
        BY <2>1 DEF Known
  <2>5. Held(out[agentOut])'
        BY <1>6, <2>1, <2>2, <2>3, <2>4, ContinueEffect DEF Held
  <2>6. out'[agentOut'].status \in Problematic => Open(out[agentOut])'
        BY <2>5 DEF Held, Open, Problematic
  <2>7. \/ UNCHANGED call
        \/ AtStep(c)' /\ out'[agentOut'].status \in Problematic
        BY <1>6, <2>1, ContinueEffect
  <2>8. CASE UNCHANGED call
        BY <2>2, <2>5, <2>8, DurableOf DEF Busy
  <2>9. CASE AtStep(c)' /\ out'[agentOut'].status \in Problematic
        BY <2>6, <2>9, DurableOf DEF AtStep, Busy
  <2> QED
      BY <2>7, <2>8, <2>9
<1>7. ASSUME NEW o \in Objects, SetResult(o) PROVE Durable'
  <2>1. \A c \in Callers : ~Busy(c) <=> ~Busy(c)'
        BY <1>7, SetResultEffect DEF Busy
  <2>2. \A c \in Callers : Busy(c) => FALSE
        BY <1>7, SetResultEffect DEF SetResult, InUse, Alone
  <2>3. agentOut # None
        BY <1>7, NoneAssumption, SetResultEffect
  <2>4. Held(out[agentOut])
        BY <2>2, <2>3 DEF Durable, StopIsDurable, Held
  <2>5. Held(out[agentOut])'
        BY <1>7, <2>4, SetResultEffect DEF Held
  <2> QED
      BY <2>1, <2>2, <2>5 DEF Durable, InStep, StopIsDurable, Held
<1>8. CASE Aside
  <2>1. UNCHANGED <<out, agentOut, stored, call>>
        BY <1>8, AsideEffect
  <2> QED
      BY <2>1 DEF Durable, InStep, StopIsDurable, Held, Open, Busy, AtStep
<1>9. CASE NewAgent \/ Crash
  <2>1. agentOut' = None /\ \A c \in Callers : ~Busy(c)'
        BY <1>9 DEF NewAgent, Crash, Busy, Idle
  <2> QED
      BY <2>1 DEF Durable, InStep, StopIsDurable
<1>10. CASE UNCHANGED vars
       BY <1>10 DEF vars, Durable, InStep, StopIsDurable, Held, Open, Busy, AtStep
<1> QED
    BY <1>1, <1>2, <1>3, <1>4, <1>5, <1>6, <1>7, <1>8, <1>9, <1>10, NextCases

LEMMA InitDurable == Init => Durable
BY DEF Init, Durable, InStep, StopIsDurable, Busy, Idle

LEMMA DurableHolds ==
    ASSUME OneCaller, SavesWork PROVE Spec => [](Sound /\ Alone /\ Durable)
  BY InitDurable, DurableKept, AloneHolds, PTL DEF Spec

(* Whenever no call is executing, storage has what the agent knows of its   *)
(* run, but for one that completed at once and keeps no history             *)
(* (pipeline/manager.py: the saves on every way out).                       *)
THEOREM StopsAreDurable ==
    ASSUME OneCaller, SavesWork PROVE Spec => []StopIsDurable
<1>1. Durable => StopIsDurable
      BY DEF Durable
<1> QED
    BY <1>1, DurableHolds, PTL

-----------------------------------------------------------------------------
(* The durable view: what storage knows, and what callers were told.        *)
Recorded == [r \in Runs |-> IF stored[r] = None THEN "none" ELSE stored[r].status]
Told == [c \in Callers |-> IF reply[c].kind # "output" THEN None
                           ELSE [run |-> reply[c].got, status |-> reply[c].status]]

(* A caller that is told nothing new, or whose call is answered otherwise.  *)
LEMMA AnswerForgets ==
    ASSUME UNCHANGED stored,
           \A c \in Callers : reply'[c].kind = "output" => reply'[c] = reply[c]
    PROVE  Lifecycle!Next
<1> DEFINE gone == {c \in Callers : reply'[c].kind # "output"}
<1>1. Told' = [c \in Callers |-> IF c \in gone THEN None ELSE Told[c]]
      BY DEF Told
<1>2. Recorded' = Recorded
      BY DEF Recorded
<1> QED
    BY <1>1, <1>2 DEF Lifecycle!Next, Lifecycle!Forget, Recorded, Told

LEMMA StopMaps ==
    ASSUME SavesWork, Sound, Alone, Durable, NEW c \in Callers, Stopping(c)
    PROVE  Lifecycle!Next \/ (UNCHANGED <<stored, reply>>)
<1>1. PICK rec \in Output, pc \in {"returning", "failed"} :
        rec.run = RunOf(c) /\ rec.status # "running" /\ Stop(c, rec, pc)
      BY StoppingStops
<1>2. AtStep(c) /\ UNCHANGED reply
      BY StoppingStops
<1>3. Busy(c) /\ Obj(c) = agentOut
      BY <1>2, StepContext DEF Alone
<1>4. Open(out[agentOut]) /\ rec.run = out[agentOut].run
      BY <1>1, <1>2, <1>3 DEF Durable, InStep, RunOf
<1> DEFINE r == rec.run
           new == [rec EXCEPT !.task = None]
<1>5. /\ new \in Output /\ new.status = rec.status
      /\ rec.status \in {"paused", "cancelled", "error", "running", "completed"}
      BY DEF Output, RunStatus, Problematic
<1>6. new # None
      BY <1>5, OutputAssumption
<1> HIDE DEF new
<1>7. r \in Runs /\ (UNCHANGED stored \/ stored' = [stored EXCEPT ![r] = new])
      BY <1>1, StopStores DEF new
<1>8. CASE stored' = [stored EXCEPT ![r] = new]
  <2>1. Recorded[r] # "completed"
        BY <1>4, <1>7 DEF Open, Recorded
  <2>2. Recorded' = [Recorded EXCEPT ![r] = rec.status]
        BY <1>5, <1>6, <1>7, <1>8 DEF Recorded, Sound, TypeOK
  <2>3. Told' = Told
        BY <1>2 DEF Told
  <2>4. CASE rec.status = "completed"
    <3>1. Lifecycle!Complete(r)
          BY <2>1, <2>2, <2>3, <2>4 DEF Lifecycle!Complete, Recorded, Told
    <3> QED
        BY <1>7, <3>1 DEF Lifecycle!Next
  <2>5. CASE rec.status \in Lifecycle!Stops
    <3>1. Lifecycle!Checkpoint(r)
          BY <2>1, <2>2, <2>3, <2>5 DEF Lifecycle!Checkpoint, Recorded, Told
    <3> QED
        BY <1>7, <3>1 DEF Lifecycle!Next
  <2> QED
      BY <1>1, <1>5, <2>4, <2>5 DEF Lifecycle!Stops
<1> QED
    BY <1>2, <1>7, <1>8

LEMMA ReturnMaps ==
    ASSUME Sound, Alone, Durable, NEW c \in Callers, Return(c)
    PROVE  Lifecycle!Next
<1>1. Busy(c) /\ ~AtStep(c) /\ UNCHANGED stored
      BY DEF Return, Busy, AtStep
<1>2. out[agentOut] \in Output
  <2>1. agentOut # None
        BY <1>1 DEF Sound, NoStepSkipped
  <2> QED
      BY <2>1, AgentOutputExists DEF Sound
<1>3. PICK rec \in Output : rec = out[agentOut]
      BY <1>2
<1>4. PICK r \in Runs : r = rec.run
      BY DEF Output
<1>5. Held(rec)
      BY <1>1, <1>3 DEF Durable, InStep
<1>6. Recorded' = Recorded
      BY <1>1 DEF Recorded
<1>7. Told' = [Told EXCEPT ![c] = [run |-> r, status |-> rec.status]]
  <2> DEFINE answer == [kind |-> "output", entry |-> call[c].entry,
                        asked |-> call[c].asked, got |-> r, status |-> rec.status]
  <2>1. reply' = [reply EXCEPT ![c] = answer]
        BY <1>3, <1>4 DEF Return
  <2>2. answer.kind = "output" /\ answer.got = r /\ answer.status = rec.status
        OBVIOUS
  <2> HIDE DEF answer
  <2> QED
      BY <2>1, <2>2 DEF Told, Sound, TypeOK
<1>8. CASE stored[r] = None
  <2>1. Recorded[r] = "none" /\ r \notin KeepsHistory /\ rec.status = "completed"
        BY <1>4, <1>5, <1>8 DEF Held, Recorded
  <2>2. Lifecycle!ReportUnrecorded(c, r)
        BY <1>6, <1>7, <2>1 DEF Lifecycle!ReportUnrecorded, Recorded, Told
  <2> QED
      BY <2>2 DEF Lifecycle!Next
<1>9. CASE stored[r] # None
  <2>1. Recorded[r] = rec.status /\ rec.status # "none"
        BY <1>4, <1>5, <1>9 DEF Held, Recorded, Output, RunStatus, Problematic
  <2>2. Lifecycle!Report(c, r)
        BY <1>6, <1>7, <2>1 DEF Lifecycle!Report, Recorded, Told
  <2> QED
      BY <2>2 DEF Lifecycle!Next
<1> QED
    BY <1>8, <1>9

LEMMA StepMaps ==
    ASSUME OneCaller, SavesWork, Sound, Alone, Durable, [Next]_vars
    PROVE  [Lifecycle!Next]_<<Recorded, Told>>
<1>1. ASSUME NEW c \in Callers, \/ CompleteStep(c) \/ Unwind(c) \/ Reenter(c)
                                \/ \E r \in Runs : \/ Start(c, r) \/ ContinueTask(c, r)
                                                   \/ ContinueRun(c, r)
      PROVE  Lifecycle!Next
  <2>1. \A d \in Callers : d = c
        BY DEF OneCaller
  <2>2. UNCHANGED stored /\ (reply'[c].kind = "output" => reply'[c] = reply[c])
        BY <1>1, CompleteEffect, RetryEffect, StartEffect, ContinueEffect DEF Alone
  <2> QED
      BY <2>1, <2>2, AnswerForgets
<1>2. ASSUME UNCHANGED <<stored, reply>>
      PROVE  UNCHANGED <<Recorded, Told>>
      BY <1>2 DEF Recorded, Told
<1>3. CASE Aside
      BY <1>3, AsideEffect, AnswerForgets
<1>4. ASSUME NEW o \in Objects, SetResult(o)
      PROVE  UNCHANGED <<stored, reply>>
      BY <1>4, SetResultEffect
<1>5. CASE NewAgent
      BY <1>2, <1>5 DEF NewAgent
<1>6. CASE Crash
  <2>1. UNCHANGED stored /\ \A c \in Callers : reply'[c].kind # "output"
        BY <1>6 DEF Crash
  <2> QED
      BY <2>1, AnswerForgets
<1>7. CASE UNCHANGED vars
      BY <1>2, <1>7 DEF vars
<1>8. ASSUME NEW c \in Callers, Stopping(c)
      PROVE  [Lifecycle!Next]_<<Recorded, Told>>
      BY <1>2, <1>8, StopMaps
<1> QED
    BY <1>1, <1>2, <1>3, <1>4, <1>5, <1>6, <1>7, <1>8, ReturnMaps, NextCases

(* One caller and a storage that works: whatever stops, is retried, reloaded *)
(* or crashes, storage knows of each run an atomic life in which completion *)
(* is final, and a caller is told what storage holds.                       *)
THEOREM RunsImplementLifecycle ==
    ASSUME OneCaller, SavesWork PROVE Spec => ImplementsLifecycle
<1>1. Init => Lifecycle!Init
      BY DEF Init, Lifecycle!Init
<1>2. (Sound /\ Alone /\ Durable) /\ [Next]_vars => [Lifecycle!Next]_<<Recorded, Told>>
      BY StepMaps
<1> QED
    BY <1>1, <1>2, DurableHolds, PTL DEF Spec, ImplementsLifecycle, Lifecycle!Spec, Recorded, Told
=============================================================================
