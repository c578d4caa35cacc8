------------------------ MODULE SessionStoreProofs -------------------------
(***************************************************************************)
(* Theorems about SessionStore, for any runs and bounds: its types and, as *)
(* long as no save overlaps another one, that the session is one record    *)
(* per run, and that the conversation in it is whole and in order and      *)
(* stays without what the user erased.                                     *)
(***************************************************************************)
EXTENDS SessionStore, SequenceTheorems, FiniteSetTheorems, WellFoundedInduction, TLAPS

-----------------------------------------------------------------------------
(* Type correctness.                                                        *)

LEMMA EmptySessionTyped == EmptySession \in Session
BY DEF EmptySession, Session

(* new_messages() of a run whose boundary lies within its messages.         *)
LEMMA NewMessagesTyped ==
    ASSUME TypeOK, NEW r \in Runs
    PROVE  NewMessages(r) \in Seq(Runs \X Nat)
<1>1. run[r].made - run[r].from \in Nat /\ run[r].from \in Nat
  BY DEF TypeOK, Output
<1>2. \A i \in 1..(run[r].made - run[r].from) :
          <<r, run[r].from + i>> \in Runs \X Nat
  BY <1>1
<1> QED
  BY <1>1, <1>2 DEF NewMessages

LEMMA SavedTyped ==
    ASSUME TypeOK, NEW r \in Runs, NEW s \in Session
    PROVE  Saved(s, r) \in Session
<1>1. s.messages \o NewMessages(r) \in Seq(Runs \X Nat)
  BY NewMessagesTyped, ConcatProperties DEF Session
<1>2. [s.runs EXCEPT ![r] = run[r]] \in [Runs -> Output \cup {None}]
  BY DEF Session, TypeOK
<1>3. s.usage + run[r].usage \in Nat
  BY DEF Session, TypeOK, Output
<1> QED
  BY <1>1, <1>2, <1>3 DEF Saved, Session

(* An edited history is a history.                                          *)
LEMMA EditsTyped ==
    ASSUME NEW m \in Seq(Runs \X Nat), NEW kept \in Edits(m)
    PROVE  kept \in Seq(Runs \X Nat)
<1>1. CASE kept = <<>>
  BY <1>1
<1>2. ASSUME NEW i \in 1..Len(m), kept = RemoveAt(m, i)
      PROVE  kept \in Seq(Runs \X Nat)
  <2>1. /\ SubSeq(m, 1, i - 1) \in Seq(Runs \X Nat)
        /\ SubSeq(m, i + 1, Len(m)) \in Seq(Runs \X Nat)
    BY <1>2, SubSeqProperties
  <2> QED
    BY <1>2, <2>1 DEF RemoveAt
<1> QED
  BY <1>1, <1>2 DEF Edits

(* A continued run has what it had when it stopped.                         *)
LEMMA ContinuedIs ==
    ASSUME NEW o \in Output, NEW at
    PROVE  /\ Continued(o, at) \in Output
           /\ Continued(o, at).status = IF at = "early" THEN "starting" ELSE "running"
           /\ Continued(o, at).made = o.made /\ Continued(o, at).from = o.from
BY DEF Continued, Output

(* A resumed one has its boundary behind them, unless it starts early.      *)
LEMMA ResumedIs ==
    ASSUME NEW o \in Output
    PROVE  /\ Resumed(o) \in Output
           /\ Resumed(o).status = IF o.point = "early" THEN "starting" ELSE "running"
           /\ Resumed(o).made = o.made
           /\ Resumed(o).from = IF o.point = "early" THEN o.from ELSE o.made
<1>1. CASE o.point = "early"
  BY <1>1, ContinuedIs DEF Resumed
<1>2. CASE o.point # "early"
  <2> DEFINE c == Continued(o, "late")
  <2>1. c \in Output /\ c.status = "running" /\ c.made = o.made /\ o.made \in Nat
    BY ContinuedIs DEF Output
  <2>2. Resumed(o) = [c EXCEPT !.from = o.made]
    BY <1>2 DEF Resumed
  <2> HIDE DEF c
  <2> QED
    BY <1>2, <2>1, <2>2 DEF Output
<1> QED
  BY <1>1, <1>2

LEMMA ToSetTyped ==
    ASSUME NEW S, NEW m \in Seq(S)
    PROVE  ToSet(m) \subseteq S
BY DEF ToSet

LEMMA InitTyped == Init => TypeOK
<1> SUFFICES ASSUME Init PROVE TypeOK
  OBVIOUS
<1>1. NewOutput \in Output
  BY DEF NewOutput, Output
<1> QED
  BY <1>1, EmptySessionTyped DEF Init, TypeOK

LEMMA NextTyped == TypeOK /\ [Next]_vars => TypeOK'
<1> SUFFICES ASSUME TypeOK, [Next]_vars PROVE TypeOK'
  OBVIOUS
<1>1. ASSUME NEW r \in Runs, Start(r) PROVE TypeOK'
  BY <1>1 DEF Start, TypeOK, Output
<1>2. ASSUME NEW r \in Runs, Build(r) PROVE TypeOK'
  <2> DEFINE o == [run[r] EXCEPT !.status = "running", !.made = 1, !.from = 0]
  <2>1. run[r] \in Output
    BY DEF TypeOK
  <2>2. \A k, l \in Nat : l <= k =>
           [run[r] EXCEPT !.status = "running", !.made = k, !.from = l] \in Output
    BY <2>1 DEF Output
  <2>3. 0 \in Nat /\ 1 \in Nat /\ 0 <= 1
    OBVIOUS
  <2>4. o \in Output
    BY <2>2, <2>3
  <2>5. run' = [run EXCEPT ![r] = o]
    BY <1>2 DEF Build
  <2> QED
    BY <1>2, <2>4, <2>5 DEF Build, TypeOK
<1>3. ASSUME NEW r \in Runs, NEW kept \in {0, 1}, Ask(r, kept) PROVE TypeOK'
  <2> DEFINE o == [run[r] EXCEPT !.usage = @ + 1, !.made = @ + kept]
  <2>1. run[r] \in Output
    BY DEF TypeOK
  <2>2. /\ run[r].usage + 1 \in Nat /\ run[r].made + kept \in Nat
        /\ run[r].from <= run[r].made + kept
    BY <2>1 DEF Output
  <2>3. \A u, k \in Nat : run[r].from <= k => [run[r] EXCEPT !.usage = u, !.made = k] \in Output
    BY <2>1 DEF Output
  <2>4. o = [run[r] EXCEPT !.usage = run[r].usage + 1, !.made = run[r].made + kept]
    OBVIOUS
  <2>5. o \in Output
    BY <2>2, <2>3, <2>4
  <2>6. run' = [run EXCEPT ![r] = o]
    BY <1>3 DEF Ask
  <2> QED
    BY <1>3, <2>5, <2>6 DEF Ask, TypeOK
<1>4. ASSUME NEW r \in Runs, NEW error \in BOOLEAN, Stop(r, error) PROVE TypeOK'
  <2> DEFINE o == [run[r] EXCEPT !.status = "stopped", !.point = Point(r, error),
                                 !.failed = @ \/ error]
  <2>1. run[r] \in Output
    BY DEF TypeOK
  <2>2. Point(r, error) \in {"none", "early", "late"}
    BY <2>1 DEF Point, Output
  <2>3. o \in Output
    BY <2>1, <2>2 DEF Output
  <2>4. run' = [run EXCEPT ![r] = o]
    BY <1>4 DEF Stop
  <2> QED
    BY <1>4, <2>3, <2>4 DEF Stop, TypeOK
<1>5. ASSUME NEW r \in Runs, Complete(r) PROVE TypeOK'
  BY <1>5 DEF Complete, TypeOK, Output
<1>6. ASSUME NEW r \in Runs, Load(r) PROVE TypeOK'
  BY <1>6 DEF Load, TypeOK
<1>7. ASSUME NEW r \in Runs, Write(r) PROVE TypeOK'
  <2>1. copy[r] \in Session
    BY <1>7 DEF Write, TypeOK, Writers
  <2>2. session' \in Session
    BY <1>7, <2>1, SavedTyped DEF Write, TypeOK
  <2> QED
    BY <1>7, <2>2 DEF Write, TypeOK
<1>8. ASSUME NEW r \in Runs, SaveFails(r) PROVE TypeOK'
  <2>1. copy' \in [Writers -> Session \cup {None}]
    BY <1>8 DEF SaveFails, TypeOK
  <2>2. stops' \in Nat /\ edits' \in Nat
    BY <1>8 DEF SaveFails, TypeOK
  <2>3. saving' \subseteq Runs /\ excused' \subseteq Runs
    BY <1>8 DEF SaveFails, TypeOK
  <2> QED
    BY <1>8, <2>1, <2>2, <2>3 DEF SaveFails, TypeOK
<1>9. ASSUME NEW r \in Runs, Resume(r) PROVE TypeOK'
  <2>1. /\ run[r].point \in {"none", "early", "late"}
        /\ Resumed(run[r]) \in Output
    BY ResumedIs DEF TypeOK, Output
  <2> QED
    BY <1>9, <2>1 DEF Resume, StartsOver, TypeOK
<1>10. ASSUME NEW r \in Runs, ResumeStored(r) PROVE TypeOK'
  <2>1. session.runs[r] \in Output
    BY <1>10 DEF ResumeStored, TypeOK, Session
  <2>2. /\ session.runs[r].point \in {"none", "early", "late"}
        /\ Resumed(session.runs[r]) \in Output
    BY <2>1, ResumedIs DEF Output
  <2> QED
    BY <1>10, <2>2 DEF ResumeStored, StartsOver, TypeOK
<1>11. ASSUME NEW r \in Runs, NEW at \in {"early", "late"}, GoOn(r, at) PROVE TypeOK'
  <2>1. Continued(run[r], at) \in Output
    BY ContinuedIs DEF TypeOK
  <2> QED
    BY <1>11, <2>1 DEF GoOn, StartsOver, TypeOK
<1>12. ASSUME LoadToEdit PROVE TypeOK'
  BY <1>12 DEF LoadToEdit, TypeOK, Writers
<1>13. ASSUME copy[Editor] # None,
              NEW kept \in Edits(copy[Editor].messages), Edit(kept)
       PROVE  TypeOK'
  <2>1. copy[Editor] \in Session
    BY <1>13 DEF TypeOK, Writers
  <2>2. kept \in Seq(Runs \X Nat)
    BY <1>13, <2>1, EditsTyped DEF Session
  <2>3. session' \in Session
    BY <1>13, <2>1, <2>2 DEF Edit, Session
  <2>4. ToSet(copy[Editor].messages) \subseteq Runs \X Nat
    BY <2>1, ToSetTyped DEF Session
  <2> QED
    BY <1>13, <2>3, <2>4 DEF Edit, TypeOK
<1>14. ASSUME Reset PROVE TypeOK'
  <2>1. ToSet(session.messages) \subseteq Runs \X Nat
    BY ToSetTyped DEF TypeOK, Session
  <2> QED
    BY <1>14, <2>1, EmptySessionTyped DEF Reset, TypeOK
<1>15. ASSUME Crash PROVE TypeOK'
  <2>1. NewOutput \in Output
    BY DEF NewOutput, Output
  <2>2. [NewOutput EXCEPT !.status = "gone"] \in Output
    BY <2>1 DEF Output
  <2>3. run' \in [Runs -> Output]
    BY <1>15, <2>2 DEF Crash, TypeOK
  <2> QED
    BY <1>15, <2>3 DEF Crash, TypeOK
<1>16. CASE UNCHANGED vars
  BY <1>16 DEF vars, TypeOK
<1> QED
  BY <1>1, <1>2, <1>3, <1>4, <1>5, <1>6, <1>7, <1>8, <1>9, <1>10, <1>11,
     <1>12, <1>13, <1>14, <1>15, <1>16 DEF Next

(* Every variable keeps its type, and the boundary of a run never lies      *)
(* beyond its messages: new_messages() always has a meaning.                *)
THEOREM SessionTypeCorrect == Spec => []TypeOK
<1> QED
  BY InitTyped, NextTyped, PTL DEF Spec
-----------------------------------------------------------------------------
(* What the missing lock would give: while saves do not overlap, the one    *)
(* copy that is out agrees with storage.                                    *)

Serial ==
    \A w \in Writers : copy[w] # None =>
        /\ copy[w] = session
        /\ \A v \in Writers : copy[v] # None => v = w

LEMMA SerialKept ==
    ASSUME ~Overlap, TypeOK, Serial, [Next]_vars
    PROVE  Serial'
<1> USE DEF Serial
<1>1. ASSUME NEW r \in Runs, Load(r) PROVE Serial'
  <2>1. \A w \in Writers : copy[w] = None
    BY <1>1 DEF Load, MayLoad
  <2>2. \A w \in Writers : copy'[w] # None => w = r /\ copy'[w] = session
    BY <1>1, <2>1 DEF Load, TypeOK
  <2> QED
    BY <1>1, <2>2 DEF Load
<1>2. ASSUME NEW r \in Runs, Write(r) PROVE Serial'
  <2>1. r \in Writers /\ copy[r] # None
    BY <1>2 DEF Write, Writers
  <2>2. \A w \in Writers : copy'[w] = None
    BY <1>2, <2>1 DEF Write, TypeOK
  <2> QED
    BY <2>2
<1>3. ASSUME NEW r \in Runs, SaveFails(r) PROVE Serial'
  <2>1. \A w \in Writers : copy'[w] # None => copy'[w] = copy[w]
    BY <1>3 DEF SaveFails, TypeOK
  <2> QED
    BY <1>3, <2>1 DEF SaveFails
<1>4. ASSUME LoadToEdit PROVE Serial'
  <2>1. \A w \in Writers : copy[w] = None
    BY <1>4 DEF LoadToEdit, MayLoad
  <2>2. \A w \in Writers : copy'[w] # None => w = Editor /\ copy'[w] = session
    BY <1>4, <2>1 DEF LoadToEdit, TypeOK
  <2> QED
    BY <1>4, <2>2 DEF LoadToEdit
<1>5. ASSUME copy[Editor] # None, NEW kept, Edit(kept) PROVE Serial'
  <2>1. Editor \in Writers
    BY DEF Writers
  <2>2. \A w \in Writers : copy'[w] = None
    BY <1>5, <2>1 DEF Edit, TypeOK
  <2> QED
    BY <2>2
<1>6. ASSUME Reset PROVE Serial'
  <2>1. \A w \in Writers : copy'[w] = None
    BY <1>6 DEF Reset, MayLoad
  <2> QED
    BY <2>1
<1>7. ASSUME Crash PROVE Serial'
  <2>1. \A w \in Writers : copy'[w] = None
    BY <1>7 DEF Crash
  <2> QED
    BY <2>1
<1>8. CASE UNCHANGED <<session, copy>>
  BY <1>8
<1>9. ASSUME NEW r \in Runs,
             \/ Start(r) \/ Build(r) \/ (\E kept \in {0, 1} : Ask(r, kept))
             \/ (\E error \in BOOLEAN : Stop(r, error)) \/ Complete(r)
             \/ Resume(r) \/ ResumeStored(r) \/ (\E at \in {"early", "late"} : GoOn(r, at))
      PROVE  UNCHANGED <<session, copy>>
  BY <1>9 DEF Start, Build, Ask, Stop, Complete, Resume, ResumeStored, GoOn
<1> QED
  BY <1>1, <1>2, <1>3, <1>4, <1>5, <1>6, <1>7, <1>8, <1>9 DEF Next, vars

LEMMA SerialHolds == ASSUME ~Overlap PROVE Spec => [](TypeOK /\ Serial)
<1>1. Init => Serial
  BY DEF Init, Serial
<1> QED
  BY <1>1, InitTyped, NextTyped, SerialKept, PTL DEF Spec

(* A save puts this run's record, and no other, into storage.               *)
LEMMA WriteSaves ==
    ASSUME TypeOK, Serial, NEW r \in Runs, Write(r)
    PROVE  \/ UNCHANGED session
           \/ session'.runs = [session.runs EXCEPT ![r] = run[r]]
<1>1. copy[r] = session
  BY DEF Write, Serial, Writers
<1>2. CASE Skips(copy[r], r)
  BY <1>2 DEF Write
<1>3. CASE ~Skips(copy[r], r)
  <2>1. session' = Saved(session, r)
    BY <1>1, <1>3 DEF Write
  <2> QED
    BY <2>1 DEF Saved
<1> QED
  BY <1>2, <1>3

LEMMA StepMaps ==
    ASSUME TypeOK, Serial, ~Overlap, [Next]_vars
    PROVE  [RecordsOfRuns!Next]_<<run, session.runs>>
<1>1. ASSUME NEW r \in Runs, Write(r)
      PROVE  RecordsOfRuns!Next
  <2>1. UNCHANGED session => RecordsOfRuns!Execute
    BY DEF RecordsOfRuns!Execute
  <2>2. session'.runs = [session.runs EXCEPT ![r] = run[r]] => RecordsOfRuns!Save(r)
    BY <1>1 DEF RecordsOfRuns!Save, Write
  <2> QED
    BY <1>1, <2>1, <2>2, WriteSaves DEF RecordsOfRuns!Next
<1>2. ASSUME copy[Editor] # None, NEW kept, Edit(kept)
      PROVE  RecordsOfRuns!Next
  <2>1. copy[Editor] = session /\ session \in Session
    BY <1>2 DEF Serial, Writers, TypeOK
  <2>2. session'.runs = session.runs
    BY <1>2, <2>1 DEF Edit, Session
  <2> QED
    BY <2>2 DEF RecordsOfRuns!Next, RecordsOfRuns!Execute
<1>3. ASSUME Reset PROVE RecordsOfRuns!Next
  BY <1>3 DEF Reset, EmptySession, RecordsOfRuns!Next, RecordsOfRuns!Reset
<1>4. ASSUME UNCHANGED session PROVE RecordsOfRuns!Next
  BY <1>4 DEF RecordsOfRuns!Next, RecordsOfRuns!Execute
<1>5. ASSUME NEW r \in Runs,
             \/ Start(r) \/ Build(r) \/ (\E kept \in {0, 1} : Ask(r, kept))
             \/ (\E error \in BOOLEAN : Stop(r, error)) \/ Complete(r)
             \/ Load(r) \/ SaveFails(r)
             \/ Resume(r) \/ ResumeStored(r) \/ (\E at \in {"early", "late"} : GoOn(r, at))
      PROVE  UNCHANGED session
  BY <1>5 DEF Start, Build, Ask, Stop, Complete, Load, SaveFails, Resume, ResumeStored, GoOn
<1>6. ASSUME LoadToEdit \/ Crash PROVE UNCHANGED session
  BY <1>6 DEF LoadToEdit, Crash
<1> QED
  BY <1>1, <1>2, <1>3, <1>4, <1>5, <1>6 DEF Next, vars

(* While nothing is awaited between load and upsert, storage is what the    *)
(* users of Memory take it for: one record per run.                         *)
THEOREM StoreImplementsRecords ==
    ASSUME ~Overlap PROVE Spec => ImplementsRunStore
<1>1. Init => RecordsOfRuns!Init
  BY DEF Init, EmptySession, RecordsOfRuns!Init
<1> QED
  BY <1>1, SerialHolds, StepMaps, PTL DEF Spec, ImplementsRunStore, RecordsOfRuns!Spec
-----------------------------------------------------------------------------
(* Checkpoints.                                                             *)

(* An action that leaves storage alone disturbs only what it does to run r: *)
(* r is no stopped run then, or its save is to come, or was refused.        *)
LEMMA CheckpointUndisturbed ==
    ASSUME CheckpointIsStored, NEW r \in Runs, UNCHANGED session,
           excused \subseteq excused',
           \A q \in Runs \ {r} :
               /\ run'[q] = run[q]
               /\ q \in saving <=> q \in saving',
           run'[r].status = "stopped" => r \in saving' \cup excused'
    PROVE  CheckpointIsStored'
BY DEF CheckpointIsStored

LEMMA CheckpointKept ==
    ASSUME TypeOK, Serial, CheckpointIsStored, [Next]_vars
    PROVE  CheckpointIsStored'
<1>1. ASSUME NEW r \in Runs, Start(r) PROVE CheckpointIsStored'
  <2>1. run'[r].status = "starting" /\ \A q \in Runs \ {r} : run'[q] = run[q]
    BY <1>1 DEF Start, TypeOK, Output
  <2> QED
    BY <1>1, <2>1, CheckpointUndisturbed DEF Start
<1>2. ASSUME NEW r \in Runs, Build(r) PROVE CheckpointIsStored'
  <2>1. run'[r].status = "running" /\ \A q \in Runs \ {r} : run'[q] = run[q]
    BY <1>2 DEF Build, TypeOK, Output
  <2> QED
    BY <1>2, <2>1, CheckpointUndisturbed DEF Build
<1>3. ASSUME NEW r \in Runs, NEW kept \in {0, 1}, Ask(r, kept) PROVE CheckpointIsStored'
  <2>1. run'[r].status = "running" /\ \A q \in Runs \ {r} : run'[q] = run[q]
    BY <1>3 DEF Ask, TypeOK, Output
  <2> QED
    BY <1>3, <2>1, CheckpointUndisturbed DEF Ask
<1>4. ASSUME NEW r \in Runs, NEW error \in BOOLEAN, Stop(r, error) PROVE CheckpointIsStored'
  <2>1. r \in saving' /\ \A q \in Runs \ {r} : run'[q] = run[q]
    BY <1>4 DEF Stop, TypeOK
  <2> QED
    BY <1>4, <2>1, CheckpointUndisturbed DEF Stop
<1>5. ASSUME NEW r \in Runs, Complete(r) PROVE CheckpointIsStored'
  <2>1. r \in saving' /\ \A q \in Runs \ {r} : run'[q] = run[q]
    BY <1>5 DEF Complete, TypeOK
  <2> QED
    BY <1>5, <2>1, CheckpointUndisturbed DEF Complete
<1>6. ASSUME NEW r \in Runs, Load(r) PROVE CheckpointIsStored'
  BY <1>6 DEF Load, CheckpointIsStored
<1>7. ASSUME NEW r \in Runs, Write(r) PROVE CheckpointIsStored'
  <2>1. copy[r] = session /\ session \in Session
    BY <1>7 DEF Write, Serial, Writers, TypeOK
  <2>2. CASE run[r].status = "stopped"
    <3>1. session' = Saved(session, r)
      BY <1>7, <2>1, <2>2 DEF Write, Skips
    <3>2. /\ session'.runs[r] = run[r]
          /\ \A q \in Runs \ {r} : session'.runs[q] = session.runs[q]
      BY <2>1, <3>1 DEF Saved, Session
    <3> QED
      BY <1>7, <3>2 DEF Write, CheckpointIsStored
  <2>3. CASE run[r].status # "stopped"
    <3>1. \A q \in Runs \ {r} : session'.runs[q] = session.runs[q]
      BY <1>7, <2>1 DEF Write, Saved, Session
    <3> QED
      BY <1>7, <2>3, <3>1 DEF Write, CheckpointIsStored
  <2> QED
    BY <2>2, <2>3
<1>8. ASSUME NEW r \in Runs, SaveFails(r) PROVE CheckpointIsStored'
  BY <1>8, CheckpointUndisturbed DEF SaveFails
<1>9. ASSUME NEW r \in Runs, Resume(r) PROVE CheckpointIsStored'
  <2>1. Resumed(run[r]).status # "stopped"
    BY ResumedIs DEF TypeOK
  <2>2. run'[r].status # "stopped" /\ \A q \in Runs \ {r} : run'[q] = run[q]
    BY <1>9, <2>1 DEF Resume, TypeOK
  <2> QED
    BY <1>9, <2>2, CheckpointUndisturbed DEF Resume
<1>10. ASSUME NEW r \in Runs, ResumeStored(r) PROVE CheckpointIsStored'
  <2>1. session.runs[r] \in Output
    BY <1>10 DEF ResumeStored, TypeOK, Session
  <2>2. Resumed(session.runs[r]).status # "stopped"
    BY <2>1, ResumedIs
  <2>3. run'[r].status # "stopped" /\ \A q \in Runs \ {r} : run'[q] = run[q]
    BY <1>10, <2>2 DEF ResumeStored, TypeOK
  <2> QED
    BY <1>10, <2>3, CheckpointUndisturbed DEF ResumeStored
<1>11. ASSUME NEW r \in Runs, NEW at \in {"early", "late"}, GoOn(r, at)
       PROVE  CheckpointIsStored'
  <2>1. Continued(run[r], at).status # "stopped"
    BY ContinuedIs DEF TypeOK
  <2>2. run'[r].status # "stopped" /\ \A q \in Runs \ {r} : run'[q] = run[q]
    BY <1>11, <2>1 DEF GoOn, TypeOK
  <2> QED
    BY <1>11, <2>2, CheckpointUndisturbed DEF GoOn
<1>12. ASSUME LoadToEdit PROVE CheckpointIsStored'
  BY <1>12 DEF LoadToEdit, CheckpointIsStored
<1>13. ASSUME copy[Editor] # None, NEW kept, Edit(kept)
       PROVE  CheckpointIsStored'
  <2>1. copy[Editor] = session /\ session \in Session
    BY <1>13 DEF Serial, Writers, TypeOK
  <2>2. session'.runs = session.runs
    BY <1>13, <2>1 DEF Edit, Session
  <2> QED
    BY <1>13, <2>2 DEF Edit, CheckpointIsStored
<1>14. ASSUME Reset PROVE CheckpointIsStored'
  <2>1. \A r \in Runs \ excused' : run'[r].status = "new"
    BY <1>14 DEF Reset
  <2> QED
    BY <2>1 DEF CheckpointIsStored
<1>15. ASSUME Crash PROVE CheckpointIsStored'
  <2>1. \A r \in Runs : run'[r].status \in {"new", "gone"}
    BY <1>15 DEF Crash, NewOutput, TypeOK, Output
  <2> QED
    BY <2>1 DEF CheckpointIsStored
<1>16. CASE UNCHANGED vars
  BY <1>16 DEF vars, CheckpointIsStored
<1> QED
  BY <1>1, <1>2, <1>3, <1>4, <1>5, <1>6, <1>7, <1>8, <1>9, <1>10, <1>11,
     <1>12, <1>13, <1>14, <1>15, <1>16 DEF Next

(* While nothing is awaited between load and upsert, every run that stopped *)
(* can be resumed from storage as it is, whatever other runs and the        *)
(* history editing did in between.                                          *)
THEOREM CheckpointsAreStored ==
    ASSUME ~Overlap PROVE Spec => []CheckpointIsStored
<1>1. Init => CheckpointIsStored
  BY DEF Init, CheckpointIsStored, NewOutput
<1> QED
  BY <1>1, SerialHolds, CheckpointKept, PTL DEF Spec
-----------------------------------------------------------------------------
(* The conversation, while saves do not overlap.  A message is known when   *)
(* the session holds it, or did until the user erased it.                   *)
Seen == ToSet(session.messages) \cup erased

Covers(r, k) == \A n \in 1..k : <<r, n>> \in Seen

Saving ==
    \A r \in Runs :
        /\ copy[r] # None => r \in saving
        /\ r \in saving => run[r].status \in {"stopped", "completed"}

(* A run that has yet to build its messages has none, or builds them again. *)
Opening(r) ==
    run[r].status \in {"new", "starting"} => run[r].made = 0 \/ r \in restarted

(* Its messages behind the boundary are yet to be saved.                    *)
ToCome(r) == run[r].status \in {"new", "starting", "running"} \/ r \in saving

Low(r) ==
    r \notin unmarked \cup restarted =>
        \A n \in Nat : <<r, n>> \in Seen =>
            /\ ToCome(r) => n <= run[r].from
            /\ run[r].status # "gone" => n <= run[r].made
            /\ session.runs[r] # None => n <= session.runs[r].made

Whole(r) ==
    r \notin excused =>
        /\ ToCome(r) => Covers(r, run[r].from)
        /\ run[r].status = "stopped" /\ r \notin saving => Covers(r, run[r].made)
        /\ (session.runs[r] # None /\ (session.runs[r].status = "stopped" \/ r \in KeepsHistory))
             => Covers(r, session.runs[r].made)

RunKept(r) == Opening(r) /\ Low(r) /\ Whole(r)

History == Saving /\ \A r \in Runs : RunKept(r)

LEMMA WholeFromHistory == History => ConversationIsWhole
BY DEF History, RunKept, Whole, Covers, Seen, ConversationIsWhole

LEMMA InitHistory == Init => History
<1> SUFFICES ASSUME Init PROVE History
  OBVIOUS
<1>1. Seen = {}
  BY DEF Init, EmptySession, Seen, ToSet
<1>2. \A r \in Runs : session.runs[r] = None /\ run[r] = NewOutput /\ r \notin saving
                      /\ copy[r] = None
  BY DEF Init, EmptySession, Writers
<1>3. /\ NewOutput.status = "new" /\ NewOutput.from = 0 /\ NewOutput.made = 0
  BY DEF NewOutput
<1> QED
  BY <1>1, <1>2, <1>3 DEF History, Saving, RunKept, Opening, Low, Whole, Covers, ToCome

(* What an action does not touch stays as it is.                            *)
LEMMA RunUntouched ==
    ASSUME TypeOK, NEW q \in Runs, RunKept(q), run'[q] = run[q],
           q \in saving' <=> q \in saving,
           session'.runs[q] = session.runs[q] \/ session'.runs[q] = None,
           \A n \in Nat : <<q, n>> \in Seen' <=> <<q, n>> \in Seen,
           q \in excused => q \in excused',
           unmarked \subseteq unmarked', restarted \subseteq restarted'
    PROVE  RunKept(q)'
<1>1. /\ run[q].from \in Nat /\ run[q].made \in Nat
      /\ session.runs[q] # None => session.runs[q].made \in Nat
  BY DEF TypeOK, Output, Session
<1>2. \A k \in Nat : \A n \in 1..k : n \in Nat
  OBVIOUS
<1>3. Opening(q)'
  BY DEF RunKept, Opening
<1>4. Low(q)'
  BY DEF RunKept, Low, ToCome
<1>5. Whole(q)'
  BY <1>1, <1>2 DEF RunKept, Whole, Covers, ToCome
<1> QED
  BY <1>3, <1>4, <1>5 DEF RunKept

(* A run that does not touch the session concerns only itself.              *)
LEMMA OwnStep ==
    ASSUME TypeOK, History, NEW r \in Runs, UNCHANGED <<session, erased>>,
           \A q \in Runs \ {r} : run'[q] = run[q] /\ (q \in saving' <=> q \in saving),
           \A q \in Runs \ {r} : copy'[q] # None => copy[q] # None,
           copy'[r] # None => r \in saving',
           r \in saving' => run'[r].status \in {"stopped", "completed"},
           excused \subseteq excused', unmarked \subseteq unmarked',
           restarted \subseteq restarted', RunKept(r)'
    PROVE  History'
<1>1. Seen' = Seen
  BY DEF Seen
<1>2. \A q \in Runs \ {r} : RunKept(q)'
  BY <1>1, RunUntouched DEF History
<1>3. Saving'
  BY DEF History, Saving
<1> QED
  BY <1>2, <1>3 DEF History

LEMMA StartHistory ==
    ASSUME TypeOK, History, NEW r \in Runs, Start(r) PROVE History'
<1> DEFINE o == [run[r] EXCEPT !.status = "starting"]
<1>1. o.status = "starting" /\ o.from = run[r].from /\ o.made = run[r].made
  BY DEF TypeOK, Output
<1>2. run'[r] = o /\ \A q \in Runs \ {r} : run'[q] = run[q]
  BY DEF Start, TypeOK
<1> HIDE DEF o
<1>3. /\ UNCHANGED <<session, saving, copy, unmarked, restarted, erased, excused>>
      /\ run[r].status = "new"
  BY DEF Start
<1>4. Seen' = Seen
  BY <1>3 DEF Seen
<1>5. RunKept(r)'
  BY <1>1, <1>2, <1>3, <1>4
  DEF History, RunKept, Opening, Low, Whole, Covers, ToCome
<1>6. r \notin saving
  BY <1>3 DEF History, Saving
<1> QED
  BY <1>1, <1>2, <1>3, <1>5, <1>6, OwnStep DEF History, Saving

LEMMA BuildHistory ==
    ASSUME TypeOK, History, NEW r \in Runs, Build(r) PROVE History'
<1> DEFINE o == [run[r] EXCEPT !.status = "running", !.made = 1, !.from = 0]
<1>1. o.status = "running" /\ o.from = 0 /\ o.made = 1
  BY DEF TypeOK, Output
<1>2. run'[r] = o /\ \A q \in Runs \ {r} : run'[q] = run[q]
  BY DEF Build, TypeOK
<1> HIDE DEF o
<1>3. /\ UNCHANGED <<session, saving, copy, unmarked, restarted, erased, excused>>
      /\ run[r].status = "starting"
  BY DEF Build
<1>4. r \notin restarted => run[r].made = 0 /\ run[r].from = 0
  BY <1>3 DEF History, RunKept, Opening, TypeOK, Output
<1>5. Seen' = Seen
  BY <1>3 DEF Seen
<1>6. Opening(r)'
  BY <1>1, <1>2 DEF Opening
<1>7. Low(r)'
  BY <1>1, <1>2, <1>3, <1>4, <1>5 DEF History, RunKept, Low, ToCome
<1>8. Whole(r)'
  BY <1>1, <1>2, <1>3, <1>5 DEF History, RunKept, Whole, Covers, ToCome
<1>9. r \notin saving
  BY <1>3 DEF History, Saving
<1> QED
  BY <1>1, <1>2, <1>3, <1>6, <1>7, <1>8, <1>9, OwnStep DEF History, Saving, RunKept

LEMMA AskHistory ==
    ASSUME TypeOK, History, NEW r \in Runs, NEW kept \in {0, 1}, Ask(r, kept) PROVE History'
<1> DEFINE o == [run[r] EXCEPT !.usage = @ + 1, !.made = @ + kept]
<1>1. /\ o.status = run[r].status /\ o.from = run[r].from /\ o.made = run[r].made + kept
      /\ run[r].made \in Nat
  BY DEF TypeOK, Output
<1>2. run'[r] = o /\ \A q \in Runs \ {r} : run'[q] = run[q]
  BY DEF Ask, TypeOK
<1> HIDE DEF o
<1>3. /\ UNCHANGED <<session, saving, copy, unmarked, restarted, erased, excused>>
      /\ run[r].status = "running"
  BY DEF Ask
<1>4. Seen' = Seen
  BY <1>3 DEF Seen
<1>5. RunKept(r)'
  BY <1>1, <1>2, <1>3, <1>4
  DEF History, RunKept, Opening, Low, Whole, Covers, ToCome
<1>6. r \notin saving
  BY <1>3 DEF History, Saving
<1> QED
  BY <1>1, <1>2, <1>3, <1>5, <1>6, OwnStep DEF History, Saving

LEMMA StopHistory ==
    ASSUME TypeOK, History, NEW r \in Runs, NEW error \in BOOLEAN, Stop(r, error)
    PROVE  History'
<1> DEFINE o == [run[r] EXCEPT !.status = "stopped", !.point = Point(r, error),
                               !.failed = @ \/ error]
<1>1. o.status = "stopped" /\ o.from = run[r].from /\ o.made = run[r].made
  BY DEF TypeOK, Output
<1>2. run'[r] = o /\ \A q \in Runs \ {r} : run'[q] = run[q]
  BY DEF Stop, TypeOK
<1> HIDE DEF o
<1>3. /\ UNCHANGED <<session, copy, unmarked, restarted, erased, excused>>
      /\ saving' = saving \cup {r} /\ run[r].status \in {"starting", "running"}
  BY DEF Stop, Executing
<1>4. Seen' = Seen
  BY <1>3 DEF Seen
<1>5. RunKept(r)'
  BY <1>1, <1>2, <1>3, <1>4
  DEF History, RunKept, Opening, Low, Whole, Covers, ToCome
<1> QED
  BY <1>1, <1>2, <1>3, <1>5, OwnStep DEF History, Saving

LEMMA CompleteHistory ==
    ASSUME TypeOK, History, NEW r \in Runs, Complete(r) PROVE History'
<1> DEFINE o == [run[r] EXCEPT !.status = "completed"]
<1>1. o.status = "completed" /\ o.from = run[r].from /\ o.made = run[r].made
  BY DEF TypeOK, Output
<1>2. run'[r] = o /\ \A q \in Runs \ {r} : run'[q] = run[q]
  BY DEF Complete, TypeOK
<1> HIDE DEF o
<1>3. /\ UNCHANGED <<session, copy, unmarked, restarted, erased, excused>>
      /\ saving' = saving \cup {r} /\ run[r].status \in {"starting", "running"}
  BY DEF Complete
<1>4. Seen' = Seen
  BY <1>3 DEF Seen
<1>5. RunKept(r)'
  BY <1>1, <1>2, <1>3, <1>4
  DEF History, RunKept, Opening, Low, Whole, Covers, ToCome
<1> QED
  BY <1>1, <1>2, <1>3, <1>5, OwnStep DEF History, Saving

LEMMA SaveFailsHistory ==
    ASSUME TypeOK, History, NEW r \in Runs, SaveFails(r) PROVE History'
<1>1. /\ UNCHANGED <<session, run, unmarked, restarted, erased>>
      /\ saving' = saving \ {r} /\ r \in saving
      /\ excused' = excused \cup {r}
      /\ copy'[r] = None /\ \A q \in Runs \ {r} : copy'[q] = copy[q]
  BY DEF SaveFails, TypeOK, Writers
<1>2. run[r].from <= run[r].made /\ run[r].from \in Nat /\ run[r].made \in Nat
  BY DEF TypeOK, Output
<1>3. Seen' = Seen
  BY <1>1 DEF Seen
<1>4. RunKept(r)'
  BY <1>1, <1>2, <1>3 DEF History, Saving, RunKept, Opening, Low, Whole, Covers, ToCome
<1> QED
  BY <1>1, <1>4, OwnStep

(* A stopped run, in memory or in storage, goes on as p: behind a boundary  *)
(* that covers what is seen, unless a ghost tells.                          *)
LEMMA AgainHistory ==
    ASSUME TypeOK, History, NEW r \in Runs, NEW o \in Output, NEW p \in Output,
           \/ o = run[r] /\ run[r].status = "stopped"
           \/ o = session.runs[r] /\ session.runs[r] # None
              /\ session.runs[r].status = "stopped",
           UNCHANGED <<session, saving, copy, erased, excused>>, r \notin saving,
           run' = [run EXCEPT ![r] = p],
           p.made = o.made,
           unmarked \subseteq unmarked', restarted \subseteq restarted',
           \/ p.status = "starting" /\ p.from = o.from
              /\ (o.made = 0 \/ r \in restarted')
           \/ p.status = "running" /\ p.from \in {o.from, o.made}
              /\ (p.from = o.made \/ r \in unmarked')
    PROVE  History'
<1>1. run'[r] = p /\ \A q \in Runs \ {r} : run'[q] = run[q]
  BY DEF TypeOK
<1>2. Seen' = Seen
  BY DEF Seen
<1>3. /\ o.from \in Nat /\ o.made \in Nat /\ o.from <= o.made
      /\ p.from \in Nat /\ p.from <= o.made
  BY DEF Output
<1>4. Opening(r)'
  BY <1>1 DEF Opening
<1>5. Low(r)'
  <2> SUFFICES ASSUME r \notin unmarked' \cup restarted',
                      NEW n \in Nat, <<r, n>> \in Seen
               PROVE  /\ n <= p.from
                      /\ n <= p.made
                      /\ session.runs[r] # None => n <= session.runs[r].made
    BY <1>1, <1>2 DEF Low
  <2>1. /\ n <= o.made
        /\ session.runs[r] # None => n <= session.runs[r].made
    BY DEF History, RunKept, Low
  <2>2. p.from = o.made
    BY <1>3
  <2> QED
    BY <2>1, <2>2
<1>6. Whole(r)'
  <2>1. r \notin excused => Covers(r, o.made)
    BY DEF History, RunKept, Whole
  <2>2. \A n \in 1..p.from : n \in 1..o.made
    BY <1>3
  <2>3. r \notin excused => \A n \in 1..p.from : <<r, n>> \in Seen
    BY <2>1, <2>2 DEF Covers
  <2> QED
    BY <1>1, <1>2, <2>3 DEF History, RunKept, Whole, Covers, ToCome
<1> QED
  BY <1>1, <1>4, <1>5, <1>6, OwnStep DEF History, Saving, RunKept

LEMMA ResumeHistory ==
    ASSUME TypeOK, History, NEW r \in Runs, Resume(r) \/ ResumeStored(r) PROVE History'
<1>1. PICK o \in Output :
        /\ run' = [run EXCEPT ![r] = Resumed(o)]
        /\ restarted' = restarted \cup StartsOver(r, o, o.point)
        /\ \/ o = run[r] /\ run[r].status = "stopped"
           \/ o = session.runs[r] /\ session.runs[r] # None
              /\ session.runs[r].status = "stopped"
  BY DEF Resume, ResumeStored, TypeOK, Session
<1>2. UNCHANGED <<session, saving, copy, unmarked, erased, excused>> /\ r \notin saving
  BY DEF Resume, ResumeStored
<1>3. o.point = "early" => o.made = 0 \/ r \in restarted'
  BY <1>1 DEF StartsOver, Output
<1>4. restarted \subseteq restarted'
  BY <1>1
<1>5. /\ Resumed(o) \in Output /\ Resumed(o).made = o.made
      /\ \/ Resumed(o).status = "starting" /\ Resumed(o).from = o.from
            /\ (o.made = 0 \/ r \in restarted')
         \/ Resumed(o).status = "running" /\ Resumed(o).from = o.made
  BY <1>3, ResumedIs
<1>6. PICK p \in Output : p = Resumed(o)
  BY <1>5
<1> QED
  BY <1>1, <1>2, <1>4, <1>5, <1>6, AgainHistory

LEMMA GoOnHistory ==
    ASSUME TypeOK, History, NEW r \in Runs, NEW at \in {"early", "late"}, GoOn(r, at)
    PROVE  History'
<1> DEFINE o == run[r]
           p == Continued(o, at)
<1>1. /\ run' = [run EXCEPT ![r] = p] /\ run[r].status = "stopped"
      /\ restarted' = restarted \cup StartsOver(r, o, at)
      /\ unmarked' = IF at = "late" /\ o.from < o.made THEN unmarked \cup {r} ELSE unmarked
      /\ UNCHANGED <<session, saving, copy, erased, excused>> /\ r \notin saving
  BY DEF GoOn
<1>2. o \in Output /\ o.from \in Nat /\ o.made \in Nat /\ o.from <= o.made
  BY DEF TypeOK, Output
<1>3. /\ p \in Output /\ p.made = o.made /\ p.from = o.from
      /\ p.status = IF at = "early" THEN "starting" ELSE "running"
  BY <1>2, ContinuedIs
<1>4. at = "early" => o.made = 0 \/ r \in restarted'
  BY <1>1, <1>2 DEF StartsOver
<1>5. at = "late" => o.from = o.made \/ r \in unmarked'
  BY <1>1, <1>2
<1>6. unmarked \subseteq unmarked' /\ restarted \subseteq restarted'
  BY <1>1
<1>7. o = run[r]
  OBVIOUS
<1>8. \/ p.status = "starting" /\ p.from = o.from /\ (o.made = 0 \/ r \in restarted')
      \/ p.status = "running" /\ p.from \in {o.from, o.made}
         /\ (p.from = o.made \/ r \in unmarked')
  <2> HIDE DEF o, p
  <2> QED
    BY <1>3, <1>4, <1>5
<1>9. p \in Output /\ p.made = o.made
  BY <1>3
<1>10. \E a, b \in Output : a = o /\ b = p
  BY <1>2, <1>3
<1>11. PICK a \in Output, b \in Output : a = o /\ b = p
  BY <1>10
<1> QED
  <2>1. /\ a = run[r] /\ run[r].status = "stopped" /\ run' = [run EXCEPT ![r] = b]
        /\ b.made = a.made
        /\ \/ b.status = "starting" /\ b.from = a.from /\ (a.made = 0 \/ r \in restarted')
           \/ b.status = "running" /\ b.from \in {a.from, a.made}
              /\ (b.from = a.made \/ r \in unmarked')
    BY <1>1, <1>8, <1>9, <1>11
  <2> HIDE DEF o, p
  <2> QED
    BY <1>1, <1>6, <2>1, AgainHistory

(* What a save appends: the messages behind the boundary.                   *)
LEMMA NewMessagesAre ==
    ASSUME TypeOK, NEW r \in Runs
    PROVE  /\ NewMessages(r) \in Seq(Runs \X Nat)
           /\ Len(NewMessages(r)) = run[r].made - run[r].from
           /\ \A i \in 1..Len(NewMessages(r)) : NewMessages(r)[i] = <<r, run[r].from + i>>
<1>1. run[r].made - run[r].from \in Nat
  BY DEF TypeOK, Output
<1> QED
  BY <1>1, NewMessagesTyped DEF NewMessages

LEMMA AppendedSeen ==
    ASSUME TypeOK, NEW r \in Runs, NEW m \in Seq(Runs \X Nat), NEW q \in Runs, NEW n \in Nat
    PROVE  <<q, n>> \in ToSet(m \o NewMessages(r)) <=>
             \/ <<q, n>> \in ToSet(m)
             \/ q = r /\ run[r].from < n /\ n <= run[r].made
<1> DEFINE new == NewMessages(r)
           k == run[r].made - run[r].from
<1>1. /\ new \in Seq(Runs \X Nat) /\ Len(new) = k
      /\ \A i \in 1..Len(new) : new[i] = <<r, run[r].from + i>>
  BY NewMessagesAre
<1>2. k \in Nat /\ run[r].from \in Nat /\ run[r].made \in Nat
  BY DEF TypeOK, Output
<1> HIDE DEF new
<1>3. /\ Len(m \o new) = Len(m) + k /\ Len(m) \in Nat
      /\ \A i \in 1..Len(m) : (m \o new)[i] = m[i]
      /\ \A i \in 1..k : (m \o new)[Len(m) + i] = <<r, run[r].from + i>>
  BY <1>1, <1>2
<1>4. /\ DOMAIN (m \o new) = 1..(Len(m) + k) /\ DOMAIN m = 1..Len(m)
  BY <1>1, <1>3
<1>5. ASSUME <<q, n>> \in ToSet(m \o new)
      PROVE  <<q, n>> \in ToSet(m) \/ (q = r /\ run[r].from < n /\ n <= run[r].made)
  <2>1. PICK i \in 1..(Len(m) + k) : <<q, n>> = (m \o new)[i]
    BY <1>4, <1>5 DEF ToSet
  <2>2. CASE i \in 1..Len(m)
    BY <1>3, <1>4, <2>1, <2>2 DEF ToSet
  <2>3. CASE i \notin 1..Len(m)
    <3>1. i - Len(m) \in 1..k /\ Len(m) + (i - Len(m)) = i
      BY <1>2, <1>3, <2>3
    <3>2. <<q, n>> = <<r, run[r].from + (i - Len(m))>>
      BY <1>3, <2>1, <3>1
    <3> QED
      BY <1>2, <3>1, <3>2
  <2> QED
    BY <2>2, <2>3
<1>6. ASSUME <<q, n>> \in ToSet(m)
      PROVE  <<q, n>> \in ToSet(m \o new)
  <2>1. PICK i \in 1..Len(m) : m[i] = <<q, n>>
    BY <1>4, <1>6 DEF ToSet
  <2>2. i \in 1..(Len(m) + k) /\ (m \o new)[i] = <<q, n>>
    BY <1>2, <1>3, <2>1
  <2> QED
    BY <1>4, <2>2 DEF ToSet
<1>7. ASSUME q = r, run[r].from < n, n <= run[r].made
      PROVE  <<q, n>> \in ToSet(m \o new)
  <2>1. n - run[r].from \in 1..k /\ run[r].from + (n - run[r].from) = n
    BY <1>2, <1>7
  <2>2. (m \o new)[Len(m) + (n - run[r].from)] = <<q, n>>
    BY <1>3, <1>7, <2>1
  <2>3. Len(m) + (n - run[r].from) \in 1..(Len(m) + k)
    <3>1. \A l, a, b \in Nat : a \in 1..b => l + a \in 1..(l + b)
      OBVIOUS
    <3> HIDE DEF k
    <3>2. n - run[r].from \in Nat
      BY <1>2, <2>1
    <3> QED
      BY <1>2, <1>3, <2>1, <3>1, <3>2
  <2> QED
    BY <1>4, <2>2, <2>3 DEF ToSet
<1> QED
  BY <1>5, <1>6, <1>7 DEF new

(* What a save makes of the session.                                        *)
LEMMA WriteEffect ==
    ASSUME TypeOK, Serial, History, NEW r \in Runs, Write(r)
    PROVE  /\ r \in saving /\ saving' = saving \ {r}
           /\ run[r].status \in {"stopped", "completed"}
           /\ copy'[r] = None /\ \A q \in Runs \ {r} : copy'[q] = copy[q]
           /\ UNCHANGED <<run, unmarked, restarted, erased, excused>>
           /\ \/ /\ UNCHANGED session
                 /\ session.runs[r] = None /\ run[r].status = "completed"
              \/ /\ session'.runs[r] = run[r]
                 /\ \A q \in Runs \ {r} : session'.runs[q] = session.runs[q]
                 /\ \/ /\ session'.messages = session.messages
                       /\ run[r].status = "completed" /\ r \notin KeepsHistory
                    \/ session'.messages = session.messages \o NewMessages(r)
<1>1. copy[r] = session /\ r \in saving /\ session \in Session
  BY DEF Write, Serial, History, Saving, Writers, TypeOK
<1>2. /\ saving' = saving \ {r} /\ run[r].status \in {"stopped", "completed"}
      /\ copy'[r] = None /\ \A q \in Runs \ {r} : copy'[q] = copy[q]
      /\ UNCHANGED <<run, unmarked, restarted, erased, excused>>
  BY <1>1 DEF Write, History, Saving, TypeOK, Writers
<1>3. CASE Skips(session, r)
  BY <1>1, <1>2, <1>3 DEF Write, Skips
<1>4. CASE ~Skips(session, r)
  <2>1. session' = Saved(session, r)
    BY <1>1, <1>4 DEF Write
  <2> QED
    BY <1>1, <1>2, <2>1 DEF Saved, Session
<1> QED
  BY <1>3, <1>4

LEMMA WriteHistory ==
    ASSUME TypeOK, Serial, History, NEW r \in Runs, Write(r) PROVE History'
<1>1. /\ r \in saving /\ saving' = saving \ {r}
      /\ run[r].status \in {"stopped", "completed"}
      /\ copy'[r] = None /\ \A q \in Runs \ {r} : copy'[q] = copy[q]
      /\ UNCHANGED <<run, unmarked, restarted, erased, excused>>
  BY WriteEffect
<1>2. Saving'
  BY <1>1 DEF History, Saving
<1>3. /\ run[r].from \in Nat /\ run[r].made \in Nat /\ run[r].from <= run[r].made
      /\ session.messages \in Seq(Runs \X Nat)
  BY DEF TypeOK, Output, Session
<1>4. \A q \in Runs, n \in Nat :
        <<q, n>> \in ToSet(session.messages \o NewMessages(r)) <=>
          \/ <<q, n>> \in ToSet(session.messages)
          \/ q = r /\ run[r].from < n /\ n <= run[r].made
  BY <1>3, AppendedSeen
<1>5. \A q \in Runs \ {r} : session'.runs[q] = session.runs[q]
  BY WriteEffect
<1>6. \A q \in Runs \ {r}, n \in Nat : <<q, n>> \in Seen' <=> <<q, n>> \in Seen
  BY <1>1, <1>4, WriteEffect DEF Seen
<1>7. \A n \in Nat : <<r, n>> \in Seen' =>
        <<r, n>> \in Seen \/ (run[r].from < n /\ n <= run[r].made)
  BY <1>1, <1>4, WriteEffect DEF Seen
<1>8. \A n \in Nat : <<r, n>> \in Seen => <<r, n>> \in Seen'
  BY <1>1, <1>4, WriteEffect DEF Seen
<1>9. (run[r].status = "stopped" \/ r \in KeepsHistory) /\ session'.runs[r] # None =>
        \A n \in Nat : run[r].from < n /\ n <= run[r].made => <<r, n>> \in Seen'
  <2>1. (run[r].status = "stopped" \/ r \in KeepsHistory) /\ session'.runs[r] # None =>
          session'.messages = session.messages \o NewMessages(r)
    BY <1>1, WriteEffect
  <2> QED
    BY <1>4, <2>1 DEF Seen
<1>10. Opening(r)'
  BY <1>1 DEF Opening
<1>11. session'.runs[r] # None => session'.runs[r] = run[r]
  BY WriteEffect
<1>12. Low(r)'
  BY <1>1, <1>3, <1>7, <1>11 DEF History, RunKept, Low, ToCome
<1>13. Whole(r)'
  <2>1. r \notin excused => \A n \in 1..run[r].from : <<r, n>> \in Seen'
    BY <1>1, <1>3, <1>8 DEF History, RunKept, Whole, Covers, ToCome
  <2>2. (r \notin excused /\ (run[r].status = "stopped" \/ r \in KeepsHistory)
             /\ session'.runs[r] # None)
          => \A n \in 1..run[r].made : <<r, n>> \in Seen'
    BY <1>3, <1>9, <2>1
  <2>3. run[r].status = "stopped" => session'.runs[r] # None
    <3>1. run[r] # None
      BY NoneAssumption DEF TypeOK
    <3> QED
      BY <3>1, WriteEffect
  <2>4. ~ToCome(r)'
    BY <1>1 DEF ToCome
  <2> QED
    BY <1>1, <1>11, <2>2, <2>3, <2>4 DEF Whole, Covers
<1>14. ASSUME NEW q \in Runs, q # r PROVE RunKept(q)'
  BY <1>1, <1>5, <1>6, <1>14, RunUntouched DEF History
<1> QED
  BY <1>2, <1>10, <1>12, <1>13, <1>14 DEF History, RunKept

(* Where the elements of a concatenation are.                               *)
LEMMA JoinParts ==
    ASSUME NEW S, NEW s \in Seq(S), NEW t \in Seq(S)
    PROVE  /\ Len(s \o t) = Len(s) + Len(t)
           /\ \A j \in 1..Len(s) : (s \o t)[j] = s[j]
           /\ \A j \in 1..Len(t) : (s \o t)[Len(s) + j] = t[j]
  OBVIOUS

(* Editing keeps messages, in their order, and forgets none that it drops.  *)
LEMMA EditsSubsequence ==
    ASSUME NEW m \in Seq(Runs \X Nat), NEW kept \in Edits(m)
    PROVE  /\ kept \in Seq(Runs \X Nat)
           /\ ToSet(kept) \subseteq ToSet(m)
           /\ \E at \in [1..Len(kept) -> 1..Len(m)] :
                /\ \A j \in 1..Len(kept) : kept[j] = m[at[j]]
                /\ \A j, k \in 1..Len(kept) : j < k => at[j] < at[k]
<1>1. kept \in Seq(Runs \X Nat)
  BY EditsTyped
<1>2. CASE kept = <<>>
  <2>1. Len(kept) = 0 /\ 1..Len(kept) = {} /\ ToSet(kept) = {}
    BY <1>2 DEF ToSet
  <2>2. [j \in {} |-> 1] \in [1..Len(kept) -> 1..Len(m)]
    BY <2>1
  <2> QED
    BY <1>1, <2>1, <2>2
<1>3. ASSUME NEW i \in 1..Len(m), kept = RemoveAt(m, i)
      PROVE  /\ ToSet(kept) \subseteq ToSet(m)
             /\ \E at \in [1..Len(kept) -> 1..Len(m)] :
                  /\ \A j \in 1..Len(kept) : kept[j] = m[at[j]]
                  /\ \A j, k \in 1..Len(kept) : j < k => at[j] < at[k]
  <2> DEFINE at == [j \in 1..(Len(m) - 1) |-> IF j < i THEN j ELSE j + 1]
  <2>0. Len(m) \in Nat /\ Len(m) > 0 /\ i \in Nat
    OBVIOUS
  <2> DEFINE a == SubSeq(m, 1, i - 1)
             b == SubSeq(m, i + 1, Len(m))
  <2>1. /\ a \in Seq(Runs \X Nat) /\ Len(a) = i - 1
        /\ \A j \in 1..(i - 1) : a[j] = m[j]
    BY <2>0
  <2>2. /\ b \in Seq(Runs \X Nat) /\ Len(b) = Len(m) - i
        /\ \A j \in 1..(Len(m) - i) : b[j] = m[i + j]
    BY <2>0
  <2>c. kept = a \o b
    BY <1>3 DEF RemoveAt
  <2> HIDE DEF a, b
  <2>d. /\ Len(a \o b) = Len(a) + Len(b)
        /\ \A j \in 1..Len(a) : (a \o b)[j] = a[j]
        /\ \A j \in 1..Len(b) : (a \o b)[Len(a) + j] = b[j]
    <3>1. a \in Seq(Runs \X Nat) /\ b \in Seq(Runs \X Nat)
      BY <2>1, <2>2
    <3> QED
      BY <3>1, JoinParts
  <2>3. Len(kept) = Len(m) - 1
    BY <2>0, <2>1, <2>2, <2>c, <2>d
  <2>4. ASSUME NEW j \in 1..Len(kept) PROVE kept[j] = m[at[j]] /\ at[j] \in 1..Len(m)
    <3>1. j \in 1..(Len(m) - 1) /\ at[j] = (IF j < i THEN j ELSE j + 1)
      BY <2>3
    <3>2. CASE j < i
      BY <2>0, <2>1, <2>c, <2>d, <3>1, <3>2
    <3>3. CASE ~(j < i)
      <4>1. j - (i - 1) \in 1..(Len(m) - i) /\ i + (j - (i - 1)) = j + 1
        BY <2>0, <3>1, <3>3
      <4>2. j = Len(a) + (j - (i - 1)) /\ j - (i - 1) \in 1..Len(b)
        BY <2>0, <2>1, <2>2, <3>1, <4>1
      <4>3. kept[j] = b[j - (i - 1)]
        BY <2>c, <2>d, <4>2
      <4> QED
        BY <2>0, <2>2, <3>1, <3>3, <4>1, <4>3
    <3> QED
      BY <3>2, <3>3
  <2>5. \A j, k \in 1..Len(kept) : j < k => at[j] < at[k]
    BY <2>0, <2>3
  <2>6. at \in [1..Len(kept) -> 1..Len(m)]
    BY <2>0, <2>3
  <2>7. ToSet(kept) \subseteq ToSet(m)
    <3>1. DOMAIN kept = 1..Len(kept) /\ DOMAIN m = 1..Len(m)
      BY <1>1
    <3> HIDE DEF at
    <3> QED
      BY <2>4, <3>1 DEF ToSet
  <2> HIDE DEF at
  <2> QED
    BY <2>4, <2>5, <2>6, <2>7
<1> QED
  BY <1>1, <1>2, <1>3 DEF Edits

LEMMA EditsEmbed ==
    ASSUME NEW m \in Seq(Runs \X Nat), NEW kept \in Edits(m)
    PROVE  \E at \in [1..Len(kept) -> 1..Len(m)] :
             /\ \A j \in 1..Len(kept) : kept[j] = m[at[j]]
             /\ \A j, k \in 1..Len(kept) : j < k => at[j] < at[k]
  BY EditsSubsequence

LEMMA EditEffect ==
    ASSUME TypeOK, Serial, copy[Editor] # None,
           NEW kept \in Edits(copy[Editor].messages), Edit(kept)
    PROVE  /\ kept \in Edits(session.messages) /\ session.messages \in Seq(Runs \X Nat)
           /\ session'.runs = session.runs /\ session'.messages = kept
           /\ erased' = erased \cup (ToSet(session.messages) \ ToSet(kept))
           /\ ToSet(kept) \subseteq ToSet(session.messages)
           /\ Seen' = Seen
           /\ UNCHANGED <<run, saving, unmarked, restarted, excused>>
           /\ \A r \in Runs : copy'[r] # None => copy[r] # None
<1>1. copy[Editor] = session /\ session \in Session /\ session.messages \in Seq(Runs \X Nat)
  BY DEF Serial, Writers, TypeOK, Session
<1>2. session'.runs = session.runs /\ session'.messages = kept
  BY <1>1 DEF Edit, Session
<1>3. /\ erased' = erased \cup (ToSet(session.messages) \ ToSet(kept))
      /\ UNCHANGED <<run, saving, unmarked, restarted, excused>>
  BY <1>1 DEF Edit
<1>4. ToSet(kept) \subseteq ToSet(session.messages)
  BY <1>1, EditsSubsequence
<1>5. Seen' = Seen
  BY <1>2, <1>3, <1>4 DEF Seen
<1>6. \A r \in Runs : copy'[r] # None => copy[r] # None
  BY DEF Edit, TypeOK, Writers
<1> QED
  BY <1>1, <1>2, <1>3, <1>4, <1>5, <1>6

LEMMA ResetEffect ==
    ASSUME TypeOK, Reset
    PROVE  /\ \A r \in Runs : session'.runs[r] = None
           /\ session'.messages = <<>> /\ ToSet(session'.messages) = {}
           /\ erased' = erased \cup ToSet(session.messages)
           /\ Seen' = Seen
           /\ UNCHANGED <<run, saving, copy, unmarked, restarted>>
           /\ excused \subseteq excused'
<1>1. /\ \A r \in Runs : session'.runs[r] = None
      /\ session'.messages = <<>>
      /\ erased' = erased \cup ToSet(session.messages)
      /\ UNCHANGED <<run, saving, copy, unmarked, restarted>>
      /\ excused \subseteq excused'
  BY DEF Reset, EmptySession
<1>2. ToSet(session'.messages) = {}
  BY <1>1 DEF ToSet
<1>3. Seen' = Seen
  BY <1>1, <1>2 DEF Seen
<1> QED
  BY <1>1, <1>2, <1>3

LEMMA CrashHistory ==
    ASSUME TypeOK, History, Crash PROVE History'
<1>1. /\ UNCHANGED <<session, unmarked, restarted, erased, excused>> /\ saving' = {}
      /\ \A r \in Runs : copy'[r] = None
  BY DEF Crash, Writers
<1>2. Seen' = Seen
  BY <1>1 DEF Seen
<1>3. ASSUME NEW r \in Runs PROVE RunKept(r)'
  <2>1. CASE run[r].status = "new"
    <3>1. run'[r] = run[r] /\ r \notin saving
      BY <2>1 DEF Crash, History, Saving
    <3> QED
      BY <1>1, <1>2, <3>1, RunUntouched DEF History
  <2>2. CASE run[r].status # "new"
    <3>1. run'[r].status = "gone"
      BY <2>2 DEF Crash, NewOutput
    <3>2. Opening(r)'
      BY <3>1 DEF Opening
    <3>3. Low(r)'
      BY <1>1, <1>2, <3>1 DEF History, RunKept, Low, ToCome
    <3>4. Whole(r)'
      BY <1>1, <1>2, <3>1 DEF History, RunKept, Whole, ToCome, Covers
    <3> QED
      BY <3>2, <3>3, <3>4 DEF RunKept
  <2> QED
    BY <2>1, <2>2
<1> QED
  BY <1>1, <1>3 DEF History, Saving

LEMMA HistoryKept ==
    ASSUME TypeOK, Serial, History, [Next]_vars
    PROVE  History'
<1>1. ASSUME NEW r \in Runs, Load(r) PROVE History'
  <2>1. /\ UNCHANGED <<session, run, saving, unmarked, restarted, erased, excused>>
        /\ r \in saving /\ \A q \in Runs \ {r} : copy'[q] = copy[q]
    BY <1>1 DEF Load, TypeOK, Writers
  <2> QED
    BY <2>1, RunUntouched DEF History, Saving, Seen
<1>2. ASSUME LoadToEdit PROVE History'
  <2>1. /\ UNCHANGED <<session, run, saving, unmarked, restarted, erased, excused>>
        /\ \A q \in Runs : copy'[q] = copy[q]
    BY <1>2, EditorAssumption DEF LoadToEdit, TypeOK, Writers
  <2> QED
    BY <2>1, RunUntouched DEF History, Saving, Seen
<1>3. ASSUME copy[Editor] # None,
              NEW kept \in Edits(copy[Editor].messages), Edit(kept)
      PROVE  History'
  <2>1. \A q \in Runs : RunKept(q)'
    BY <1>3, EditEffect, RunUntouched DEF History
  <2> QED
    BY <1>3, <2>1, EditEffect DEF History, Saving
<1>4. ASSUME Reset PROVE History'
  <2>1. \A q \in Runs : RunKept(q)'
    BY <1>4, ResetEffect, RunUntouched DEF History
  <2> QED
    BY <1>4, <2>1, ResetEffect DEF History, Saving
<1>5. CASE UNCHANGED vars
  BY <1>5 DEF vars, History, Saving, RunKept, Opening, Low, Whole, Covers, ToCome, Seen
<1> QED
  BY <1>1, <1>2, <1>3, <1>4, <1>5, StartHistory, BuildHistory, AskHistory, StopHistory,
     CompleteHistory, SaveFailsHistory, ResumeHistory, GoOnHistory, WriteHistory,
     CrashHistory DEF Next

LEMMA HistoryHolds ==
    ASSUME ~Overlap PROVE Spec => [](TypeOK /\ Serial /\ History)
  BY SerialHolds, InitHistory, HistoryKept, PTL DEF Spec

(* While saves do not overlap no message of a stored run is missing, unless *)
(* the user erased it, however often the run stopped and was resumed.       *)
THEOREM ConversationsAreWhole ==
    ASSUME ~Overlap PROVE Spec => []ConversationIsWhole
  BY HistoryHolds, WholeFromHistory, PTL

-----------------------------------------------------------------------------
(* The order of the messages, and those the user erased.                    *)
Tidy == MessagesOnceInOrder /\ ErasedStaysErased

LEMMA TidyUntouched ==
    ASSUME Tidy, UNCHANGED <<session, erased>>,
           unmarked \subseteq unmarked', restarted \subseteq restarted'
    PROVE  Tidy'
BY DEF Tidy, MessagesOnceInOrder, InOrder, ErasedStaysErased

LEMMA WriteTidy ==
    ASSUME TypeOK, Serial, History, Tidy, NEW r \in Runs, Write(r) PROVE Tidy'
<1>1. CASE session'.messages = session.messages
  BY <1>1, WriteEffect DEF Tidy, MessagesOnceInOrder, InOrder, ErasedStaysErased
<1>2. CASE session'.messages = session.messages \o NewMessages(r)
  <2> DEFINE m == session.messages
             new == NewMessages(r)
  <2>1. /\ m \in Seq(Runs \X Nat) /\ new \in Seq(Runs \X Nat)
        /\ \A i \in 1..Len(new) : new[i] = <<r, run[r].from + i>>
        /\ run[r].from \in Nat
    BY NewMessagesAre DEF TypeOK, Session, Output
  <2>2. /\ UNCHANGED <<run, erased, unmarked, restarted>> /\ ToCome(r)
    BY WriteEffect DEF ToCome
  <2>3. ASSUME r \notin unmarked \cup restarted, NEW n \in Nat, <<r, n>> \in Seen PROVE n <= run[r].from
    BY <2>2, <2>3 DEF History, RunKept, Low
  <2>4. /\ Len(m \o new) = Len(m) + Len(new) /\ Len(m) \in Nat /\ Len(new) \in Nat
        /\ \A i \in 1..Len(m) : (m \o new)[i] = m[i]
        /\ \A i \in 1..(Len(m) + Len(new)) :
             i \notin 1..Len(m) => /\ i - Len(m) \in 1..Len(new)
                                   /\ (m \o new)[i] = new[i - Len(m)]
    BY <2>1
  <2>5. \A i \in 1..Len(m) : m[i] \in Runs \X Nat /\ m[i] \in ToSet(m)
    BY <2>1 DEF ToSet
  <2> HIDE DEF m, new
  <2>6. ASSUME NEW q \in Runs, q \notin unmarked \cup restarted,
               NEW i \in 1..(Len(m) + Len(new)), NEW j \in 1..(Len(m) + Len(new)), i < j,
               (m \o new)[i][1] = q, (m \o new)[j][1] = q
        PROVE  (m \o new)[i][2] < (m \o new)[j][2]
    <3>1. CASE j \in 1..Len(m)
      <4>1. i \in 1..Len(m)
        BY <2>4, <2>6, <3>1
      <4> QED
        BY <2>4, <2>6, <3>1, <4>1 DEF Tidy, MessagesOnceInOrder, InOrder, m
    <3>2. CASE j \notin 1..Len(m)
      <4>1. j - Len(m) \in 1..Len(new) /\ (m \o new)[j] = <<r, run[r].from + (j - Len(m))>>
        BY <2>1, <2>4, <3>2
      <4>2. q = r /\ (m \o new)[j][2] = run[r].from + (j - Len(m))
        BY <2>6, <4>1
      <4>3. CASE i \in 1..Len(m)
        <5>1. m[i] = <<r, m[i][2]>> /\ m[i][2] \in Nat /\ m[i] \in Seen
          BY <2>4, <2>5, <2>6, <4>2, <4>3 DEF Seen, m
        <5>2. m[i][2] <= run[r].from
          BY <2>3, <2>6, <4>2, <5>1
        <5>3. (m \o new)[i][2] = m[i][2]
          BY <2>4, <4>3
        <5>4. j - Len(m) \in Nat /\ j - Len(m) > 0 /\ run[r].from \in Nat
          BY <2>1, <2>4, <4>1
        <5> QED
          BY <4>2, <5>1, <5>2, <5>3, <5>4
      <4>4. CASE i \notin 1..Len(m)
        <5>1. /\ i - Len(m) \in 1..Len(new)
              /\ (m \o new)[i] = <<r, run[r].from + (i - Len(m))>>
          BY <2>1, <2>4, <4>4
        <5>2. (m \o new)[i][2] = run[r].from + (i - Len(m))
          BY <5>1
        <5>3. /\ i - Len(m) < j - Len(m) /\ run[r].from \in Nat
              /\ i - Len(m) \in Nat /\ j - Len(m) \in Nat
          BY <2>1, <2>4, <2>6, <4>1, <5>1
        <5> QED
          BY <4>2, <5>2, <5>3
      <4> QED
        BY <4>3, <4>4
    <3> QED
      BY <3>1, <3>2
  <2>7. MessagesOnceInOrder'
    <3> SUFFICES ASSUME NEW q \in Runs, q \notin unmarked \cup restarted PROVE InOrder(q)'
      BY <2>2 DEF MessagesOnceInOrder
    <3>1. session'.messages = m \o new /\ Len(m \o new) = Len(m) + Len(new)
      BY <1>2, <2>4 DEF m, new
    <3> QED
      BY <2>6, <3>1 DEF InOrder
  <2>8. ErasedStaysErased'
    <3> SUFFICES ASSUME NEW x \in ToSet(m \o new), x \in erased
                 PROVE  x[1] \in unmarked \cup restarted
      BY <1>2, <2>2 DEF ErasedStaysErased, m, new
    <3>1. CASE x \in ToSet(m)
      BY <3>1 DEF Tidy, ErasedStaysErased, m
    <3>2. CASE x \notin ToSet(m)
      <4>1. PICK q \in Runs, n \in Nat : x = <<q, n>>
        BY DEF TypeOK
      <4>2. q = r /\ run[r].from < n
        BY <2>1, <3>2, <4>1, AppendedSeen DEF new
      <4>3. x \in Seen
        BY DEF Seen
      <4> QED
        BY <2>1, <2>3, <4>1, <4>2, <4>3
    <3> QED
      BY <3>1, <3>2
  <2> QED
    BY <2>7, <2>8 DEF Tidy
<1> QED
  BY <1>1, <1>2, WriteEffect

LEMMA EditTidy ==
    ASSUME TypeOK, Serial, Tidy, copy[Editor] # None,
           NEW kept \in Edits(copy[Editor].messages), Edit(kept)
    PROVE  Tidy'
<1> DEFINE m == session.messages
<1>1. /\ kept \in Edits(m) /\ m \in Seq(Runs \X Nat)
      /\ session'.messages = kept /\ erased' = erased \cup (ToSet(m) \ ToSet(kept))
      /\ ToSet(kept) \subseteq ToSet(m) /\ UNCHANGED <<unmarked, restarted>>
  BY EditEffect
<1>2. PICK at \in [1..Len(kept) -> 1..Len(m)] :
        /\ \A j \in 1..Len(kept) : kept[j] = m[at[j]]
        /\ \A j, k \in 1..Len(kept) : j < k => at[j] < at[k]
  <2>1. kept \in Edits(m) /\ m \in Seq(Runs \X Nat)
    BY <1>1
  <2> HIDE DEF m
  <2>2. \E at \in [1..Len(kept) -> 1..Len(m)] :
          /\ \A j \in 1..Len(kept) : kept[j] = m[at[j]]
          /\ \A j, k \in 1..Len(kept) : j < k => at[j] < at[k]
    BY <2>1, EditsEmbed
  <2> QED
    BY <2>2
<1>3. ASSUME NEW r \in Runs, InOrder(r) PROVE InOrder(r)'
  <2> SUFFICES ASSUME NEW j \in 1..Len(kept), NEW k \in 1..Len(kept), j < k,
                      kept[j][1] = r, kept[k][1] = r
               PROVE  kept[j][2] < kept[k][2]
    BY <1>1 DEF InOrder
  <2>1. /\ at[j] \in 1..Len(m) /\ at[k] \in 1..Len(m) /\ at[j] < at[k]
        /\ kept[j] = m[at[j]] /\ kept[k] = m[at[k]]
    BY <1>2
  <2> QED
    BY <1>3, <2>1 DEF InOrder
<1>4. MessagesOnceInOrder'
  BY <1>1, <1>3 DEF Tidy, MessagesOnceInOrder
<1>5. ErasedStaysErased'
  BY <1>1 DEF Tidy, ErasedStaysErased
<1> QED
  BY <1>4, <1>5 DEF Tidy

LEMMA TidyKept ==
    ASSUME TypeOK, Serial, History, Tidy, [Next]_vars
    PROVE  Tidy'
<1>1. ASSUME NEW r \in Runs,
             \/ Start(r) \/ Build(r) \/ (\E kept \in {0, 1} : Ask(r, kept))
             \/ (\E error \in BOOLEAN : Stop(r, error)) \/ Complete(r)
             \/ Load(r) \/ SaveFails(r)
             \/ Resume(r) \/ ResumeStored(r) \/ (\E at \in {"early", "late"} : GoOn(r, at))
      PROVE  Tidy'
  <2>1. UNCHANGED <<session, erased>>
    BY <1>1 DEF Start, Build, Ask, Stop, Complete, Load, SaveFails, Resume, ResumeStored, GoOn
  <2>2. unmarked \subseteq unmarked' /\ restarted \subseteq restarted'
    BY <1>1 DEF Start, Build, Ask, Stop, Complete, Load, SaveFails, Resume, ResumeStored, GoOn
  <2> QED
    BY <2>1, <2>2, TidyUntouched
<1>2. ASSUME LoadToEdit PROVE Tidy'
  BY <1>2, TidyUntouched DEF LoadToEdit
<1>3. ASSUME Reset PROVE Tidy'
  <2>1. session'.messages = <<>> /\ ToSet(session'.messages) = {}
    BY <1>3, ResetEffect
  <2> QED
    BY <2>1 DEF Tidy, MessagesOnceInOrder, InOrder, ErasedStaysErased
<1>4. ASSUME Crash PROVE Tidy'
  BY <1>4, TidyUntouched DEF Crash
<1>5. CASE UNCHANGED vars
  BY <1>5, TidyUntouched DEF vars
<1> QED
  BY <1>1, <1>2, <1>3, <1>4, <1>5, WriteTidy, EditTidy DEF Next

LEMMA InitTidy == Init => Tidy
BY DEF Init, EmptySession, NewOutput, Tidy, MessagesOnceInOrder, InOrder, ErasedStaysErased

LEMMA TidyHolds == ASSUME ~Overlap PROVE Spec => []Tidy
  BY HistoryHolds, InitTidy, TidyKept, PTL DEF Spec

(* While saves do not overlap the session has the messages of a run once    *)
(* and in their order, if its continuations marked what it had before and   *)
(* did not build it anew.                                                   *)
THEOREM MessagesAreInOrder ==
    ASSUME ~Overlap PROVE Spec => []MessagesOnceInOrder
<1>1. Tidy => MessagesOnceInOrder
  BY DEF Tidy
<1> QED
  BY <1>1, TidyHolds, PTL

(* While saves do not overlap no later save of such a run brings back what  *)
(* the user erased.                                                         *)
THEOREM ErasedIsGone ==
    ASSUME ~Overlap PROVE Spec => []ErasedStaysErased
<1>1. Tidy => ErasedStaysErased
  BY DEF Tidy
<1> QED
  BY <1>1, TidyHolds, PTL
-----------------------------------------------------------------------------
(* Induction over the subsets of a finite set, and over the naturals.        *)

Picked(s) == CHOOSE x \in s : TRUE

LEMMA PickedIsElement == ASSUME NEW s, s # {} PROVE Picked(s) \in s
BY DEF Picked

(* The naturals are well ordered.                                           *)
LEMMA LeastExists ==
  ASSUME NEW T \in SUBSET Nat, T # {}
  PROVE  \E n \in T : \A m \in T : n <= m
<1> DEFINE Down == {0..n : n \in T}
<1>1. \A n \in T : 0..n \in SUBSET Nat /\ IsFiniteSet(0..n)
  BY FS_Interval
<1>2. Down \subseteq FiniteSubsetsOf(Nat) /\ Down # {}
  BY <1>1 DEF FiniteSubsetsOf
<1>3. PICK d \in Down : \A e \in Down : ~(<<e, d>> \in StrictSubsetOrdering(Nat))
  <2> HIDE DEF Down
  <2> QED
    BY <1>2, FS_StrictSubsetOrderingWellFounded, WFMin
<1>4. PICK n \in T : d = 0..n
  OBVIOUS
<1>5. \A m \in T : n <= m
  <2> SUFFICES ASSUME NEW m \in T, m < n PROVE FALSE
    BY <1>4
  <2>1. /\ 0..m \subseteq 0..n /\ n \in 0..n /\ n \notin 0..m
        /\ 0..m \in SUBSET Nat /\ 0..n \in SUBSET Nat /\ 0..m \in Down
    BY <1>4
  <2>2. <<0..m, 0..n>> \in StrictSubsetOrdering(Nat)
    BY <2>1 DEF StrictSubsetOrdering
  <2> QED
    BY <1>3, <1>4, <2>1, <2>2
<1> QED
  BY <1>5

LEMMA SubsetInduction ==
  ASSUME NEW S, IsFiniteSet(S), NEW Q,
         \A s \in SUBSET S : (s = {} \/ s \ {Picked(s)} \in Q) => s \in Q
  PROVE  SUBSET S \subseteq Q
<1> DEFINE Wrong == (SUBSET S) \ Q
<1> SUFFICES ASSUME Wrong # {} PROVE FALSE
  OBVIOUS
<1>1. Wrong \subseteq FiniteSubsetsOf(S)
  BY FS_Subset DEF FiniteSubsetsOf
<1>2. PICK s \in Wrong : \A t \in Wrong : ~(<<t, s>> \in StrictSubsetOrdering(S))
  <2> HIDE DEF Wrong
  <2> QED
    BY <1>1, FS_StrictSubsetOrderingWellFounded, WFMin
<1>3. s # {}
  BY <1>2
<1>4. /\ s \ {Picked(s)} \in SUBSET S
      /\ <<s \ {Picked(s)}, s>> \in StrictSubsetOrdering(S)
  BY <1>2, <1>3, PickedIsElement DEF StrictSubsetOrdering
<1> QED
  BY <1>2, <1>4

(* SumFunction adds up what a recursive function on the subsets of the      *)
(* domain gives.                                                            *)
IsSum(f, g) ==
    g = [s \in SUBSET DOMAIN f |-> IF s = {} THEN 0 ELSE f[Picked(s)] + g[s \ {Picked(s)}]]

LEMMA SumIs == ASSUME NEW f PROVE SumFunction(f) = (CHOOSE g : IsSum(f, g))[DOMAIN f]
BY DEF SumFunction, SumFunctionOnSet, FoldFunctionOnSet, MapThenFoldSet, IsSum, Picked

(* The sums of the subsets with up to n elements.                           *)
SumsUpTo(f, n, g) ==
    g \in [{s \in SUBSET DOMAIN f : Cardinality(s) <= n} -> Nat]
    /\ \A s \in DOMAIN g :
         g[s] = IF s = {} THEN 0 ELSE f[Picked(s)] + g[s \ {Picked(s)}]

LEMMA SumExists ==
  ASSUME NEW S, IsFiniteSet(S), NEW f \in [S -> Nat]
  PROVE  \E g : IsSum(f, g)
<1> DEFINE Small(n) == {s \in SUBSET S : Cardinality(s) <= n}
           T == {n \in Nat : ~\E g : SumsUpTo(f, n, g)}
<1>1. \A s \in SUBSET S : IsFiniteSet(s) /\ Cardinality(s) \in Nat
                          /\ Cardinality(s) <= Cardinality(S)
  BY FS_Subset, FS_CardinalityType
<1>2. \A s \in SUBSET S : s # {} =>
          /\ Picked(s) \in s
          /\ s \ {Picked(s)} \in SUBSET S
          /\ Cardinality(s \ {Picked(s)}) = Cardinality(s) - 1
  BY <1>1, PickedIsElement, FS_RemoveElement
<1>3. T = {}
  <2> SUFFICES ASSUME T # {} PROVE FALSE
    OBVIOUS
  <2>1. PICK n \in T : \A m \in T : n <= m
    BY LeastExists
  <2>2. CASE n = 0
    <3>1. Small(0) = {{}}
      <4>1. \A s \in Small(0) : s = {}
        BY <1>1, FS_EmptySet
      <4> QED
        BY <4>1, FS_EmptySet
    <3>2. SumsUpTo(f, 0, [s \in Small(0) |-> 0])
      BY <3>1 DEF SumsUpTo
    <3> QED
      BY <2>1, <2>2, <3>2
  <2>3. CASE n # 0
    <3>1. n - 1 \in Nat /\ n \in Nat /\ n - 1 \notin T
      BY <2>1, <2>3
    <3>2. PICK g : SumsUpTo(f, n - 1, g)
      BY <3>1
    <3> DEFINE h == [s \in Small(n) |-> IF s = {} THEN 0 ELSE f[Picked(s)] + g[s \ {Picked(s)}]]
    <3>3. g \in [Small(n - 1) -> Nat]
      BY <3>2 DEF SumsUpTo
    <3>4. \A s \in Small(n) : s # {} => s \ {Picked(s)} \in Small(n - 1) /\ Picked(s) \in S
      BY <1>1, <1>2, <3>1
    <3>5. h \in [Small(n) -> Nat]
      BY <3>3, <3>4
    <3>6. \A s \in Small(n - 1) : h[s] = g[s]
      <4>1. \A s \in Small(n - 1) : s \in Small(n)
        BY <1>1, <3>1
      <4> QED
        BY <4>1, <3>2 DEF SumsUpTo
    <3>7. \A s \in Small(n) : h[s] = IF s = {} THEN 0 ELSE f[Picked(s)] + h[s \ {Picked(s)}]
      BY <3>4, <3>6
    <3>8. SumsUpTo(f, n, h)
      <4> HIDE DEF h
      <4> QED
        BY <3>5, <3>7 DEF SumsUpTo
    <3> QED
      BY <2>1, <3>8
  <2> QED
    BY <2>2, <2>3
<1>4. Cardinality(S) \in Nat
  BY FS_CardinalityType
<1>5. PICK g : SumsUpTo(f, Cardinality(S), g)
  BY <1>3, <1>4
<1>6. Small(Cardinality(S)) = SUBSET S
  BY <1>1
<1>7. IsSum(f, g)
  BY <1>5, <1>6 DEF SumsUpTo, IsSum
<1> QED
  BY <1>7

LEMMA SumOfZeros ==
  ASSUME NEW S, IsFiniteSet(S)
  PROVE  SumFunction([x \in S |-> 0]) = 0
<1> DEFINE f == [x \in S |-> 0]
           g == CHOOSE x : IsSum(f, x)
           Zero == {s \in SUBSET S : g[s] = 0}
<1>1. f \in [S -> Nat] /\ DOMAIN f = S /\ \A x \in S : f[x] = 0
  OBVIOUS
<1> HIDE DEF f
<1>2. IsSum(f, g)
  BY <1>1, SumExists
<1> HIDE DEF g
<1>3. \A s \in SUBSET S :
        g[s] = IF s = {} THEN 0 ELSE f[Picked(s)] + g[s \ {Picked(s)}]
  BY <1>1, <1>2 DEF IsSum
<1>4. ASSUME NEW s \in SUBSET S, s = {} \/ s \ {Picked(s)} \in Zero PROVE s \in Zero
  <2>1. CASE s = {}
    BY <1>3, <2>1
  <2>2. CASE s # {}
    <3>1. Picked(s) \in S /\ g[s \ {Picked(s)}] = 0
      BY <1>4, <2>2, PickedIsElement
    <3> QED
      BY <1>1, <1>3, <2>2, <3>1
  <2> QED
    BY <2>1, <2>2
<1>5. S \in Zero
  <2> HIDE DEF Zero
  <2> QED
    BY <1>4, SubsetInduction
<1> QED
  BY <1>1, <1>5, SumIs DEF f, g

(* Changing one value of a function changes the sum by as much.             *)
LEMMA SumChanged ==
  ASSUME NEW S, IsFiniteSet(S), NEW f \in [S -> Nat], NEW r \in S, NEW v \in Nat
  PROVE  /\ SumFunction(f) \in Nat
         /\ SumFunction([f EXCEPT ![r] = v]) = SumFunction(f) - f[r] + v
<1> DEFINE g == CHOOSE x : IsSum(f, x)
           e == [f EXCEPT ![r] = v]
           h == CHOOSE x : IsSum(e, x)
           Holds(s) == g[s] \in Nat /\ h[s] = IF r \in s THEN g[s] + v - f[r] ELSE g[s]
           Right == {s \in SUBSET S : Holds(s)}
<1>1. e \in [S -> Nat] /\ e[r] = v /\ \A x \in S \ {r} : e[x] = f[x]
  OBVIOUS
<1>2. IsSum(f, g) /\ IsSum(e, h)
  <2> HIDE DEF e
  <2> QED
    BY <1>1, SumExists
<1> HIDE DEF g, h, e
<1>3. \A s \in SUBSET S :
        /\ g[s] = IF s = {} THEN 0 ELSE f[Picked(s)] + g[s \ {Picked(s)}]
        /\ h[s] = IF s = {} THEN 0 ELSE e[Picked(s)] + h[s \ {Picked(s)}]
  BY <1>1, <1>2 DEF IsSum
<1>4. Holds({})
  <2>1. {} \in SUBSET S
    OBVIOUS
  <2>2. g[{}] = 0 /\ h[{}] = 0
    BY <1>3, <2>1
  <2> QED
    BY <2>2
<1>5. ASSUME NEW s \in SUBSET S, s # {}, Holds(s \ {Picked(s)}) PROVE Holds(s)
  <2>1. Picked(s) \in s
    BY <1>5, PickedIsElement
  <2>2. f[Picked(s)] \in Nat /\ f[r] \in Nat
    BY <2>1
  <2>3. /\ g[s] = f[Picked(s)] + g[s \ {Picked(s)}]
        /\ h[s] = e[Picked(s)] + h[s \ {Picked(s)}]
    BY <1>3, <1>5
  <2>4. CASE Picked(s) = r
    BY <1>1, <1>5, <2>1, <2>2, <2>3, <2>4
  <2>5. CASE Picked(s) # r
    <3>1. e[Picked(s)] = f[Picked(s)] /\ (r \in s <=> r \in s \ {Picked(s)})
      BY <1>1, <2>1, <2>5
    <3> QED
      BY <1>5, <2>2, <2>3, <3>1
  <2> QED
    BY <2>4, <2>5
<1>6. Holds(S)
  <2>1. \A s \in SUBSET S : (s = {} \/ s \ {Picked(s)} \in Right) => s \in Right
    <3> HIDE DEF Holds
    <3> QED
      BY <1>4, <1>5
  <2>2. S \in Right
    <3> HIDE DEF Right
    <3> QED
      BY <2>1, SubsetInduction
  <2> QED
    BY <2>2
<1>7. DOMAIN f = S /\ DOMAIN e = S
  BY <1>1
<1> QED
  <2>1. SumFunction(f) = g[S] /\ SumFunction(e) = h[S]
    BY <1>7, SumIs DEF g, h
  <2>2. h[S] = g[S] + v - f[r] /\ g[S] \in Nat /\ f[r] \in Nat
    BY <1>6
  <2>3. SumFunction(e) = SumFunction(f) - f[r] + v /\ SumFunction(f) \in Nat
    BY <2>1, <2>2
  <2> QED
    BY <2>3 DEF e
-----------------------------------------------------------------------------
(* What the session counts, also while saves overlap: of a save that is     *)
(* overwritten the record is lost together with the usage.                  *)

StoredUsage(runs) == [r \in Runs |-> IF runs[r] = None THEN 0 ELSE runs[r].usage]
CountsRuns(s) == SumFunction(StoredUsage(s.runs)) <= s.usage
AllCount ==
    /\ CountsRuns(session)
    /\ \A w \in Writers : copy[w] # None => CountsRuns(copy[w])

LEMMA EmptyCounts == CountsRuns(EmptySession)
<1>1. EmptySession.usage = 0 /\ StoredUsage(EmptySession.runs) = [r \in Runs |-> 0]
  BY DEF EmptySession, StoredUsage
<1> QED
  BY <1>1, RunsAssumption, SumOfZeros DEF CountsRuns

LEMMA SavedCounts ==
    ASSUME TypeOK, NEW r \in Runs, NEW s \in Session, CountsRuns(s)
    PROVE  CountsRuns(Saved(s, r))
<1> DEFINE f == StoredUsage(s.runs)
           v == run[r].usage
           t == Saved(s, r)
<1>1. run[r] \in Output /\ run[r] # None /\ v \in Nat /\ s.usage \in Nat
  BY NoneAssumption DEF TypeOK, Output, Session
<1>2. f \in [Runs -> Nat]
  BY DEF StoredUsage, Session, Output
<1>3. t.runs = [s.runs EXCEPT ![r] = run[r]] /\ t.usage = s.usage + v
  BY DEF Saved
<1>4. StoredUsage(t.runs) = [f EXCEPT ![r] = v]
  BY <1>1, <1>3 DEF StoredUsage, Session
<1>5. SumFunction(f) <= s.usage
  BY DEF CountsRuns
<1> HIDE DEF f, v, t
<1>6. /\ SumFunction(f) \in Nat /\ f[r] \in Nat
      /\ SumFunction([f EXCEPT ![r] = v]) = SumFunction(f) - f[r] + v
  BY <1>1, <1>2, RunsAssumption, SumChanged
<1>7. SumFunction(StoredUsage(t.runs)) <= t.usage
  BY <1>1, <1>3, <1>4, <1>5, <1>6
<1> QED
  BY <1>7 DEF CountsRuns, t

LEMMA CountKept ==
    ASSUME TypeOK, AllCount, [Next]_vars
    PROVE  AllCount'
<1> USE DEF AllCount
<1>1. ASSUME UNCHANGED session,
             \A w \in Writers : copy'[w] \in {None, session, copy[w]}
      PROVE  AllCount'
  BY <1>1 DEF CountsRuns
<1>2. ASSUME CountsRuns(session'), \A w \in Writers : copy'[w] \in {None, copy[w]}
      PROVE  AllCount'
  BY <1>2 DEF CountsRuns
<1>3. ASSUME NEW r \in Runs, Write(r) PROVE AllCount'
  <2>1. copy[r] \in Session /\ CountsRuns(copy[r])
    BY <1>3 DEF Write, Writers, TypeOK
  <2>2. session' \in {session, Saved(copy[r], r)}
    BY <1>3 DEF Write
  <2>3. CountsRuns(session')
    BY <2>1, <2>2, SavedCounts
  <2>4. \A w \in Writers : copy'[w] \in {None, copy[w]}
    BY <1>3 DEF Write, TypeOK
  <2> QED
    BY <1>2, <2>3, <2>4
<1>4. ASSUME copy[Editor] # None, NEW kept, Edit(kept) PROVE AllCount'
  <2>1. copy[Editor] \in Session /\ CountsRuns(copy[Editor])
    BY <1>4 DEF Writers, TypeOK
  <2>2. session'.runs = copy[Editor].runs /\ session'.usage = copy[Editor].usage
    BY <1>4, <2>1 DEF Edit, Session
  <2>3. CountsRuns(session')
    BY <2>1, <2>2 DEF CountsRuns
  <2>4. \A w \in Writers : copy'[w] \in {None, copy[w]}
    BY <1>4 DEF Edit, TypeOK
  <2> QED
    BY <1>2, <2>3, <2>4
<1>5. ASSUME Reset PROVE AllCount'
  <2>1. session' = EmptySession /\ copy' = copy
    BY <1>5 DEF Reset
  <2> QED
    BY <1>2, <2>1, EmptyCounts
<1>6. ASSUME NEW r \in Runs, Load(r) \/ SaveFails(r) PROVE AllCount'
  <2>1. session' = session /\ \A w \in Writers : copy'[w] \in {None, session, copy[w]}
    BY <1>6 DEF Load, SaveFails, TypeOK
  <2> QED
    BY <1>1, <2>1
<1>7. ASSUME LoadToEdit \/ Crash PROVE AllCount'
  <2>1. session' = session /\ \A w \in Writers : copy'[w] \in {None, session, copy[w]}
    BY <1>7 DEF LoadToEdit, Crash, TypeOK
  <2> QED
    BY <1>1, <2>1
<1>8. ASSUME NEW r \in Runs,
             \/ Start(r) \/ Build(r) \/ (\E kept \in {0, 1} : Ask(r, kept))
             \/ (\E error \in BOOLEAN : Stop(r, error)) \/ Complete(r)
             \/ Resume(r) \/ ResumeStored(r) \/ (\E at \in {"early", "late"} : GoOn(r, at))
      PROVE  UNCHANGED <<session, copy>>
  BY <1>8 DEF Start, Build, Ask, Stop, Complete, Resume, ResumeStored, GoOn
<1>9. ASSUME UNCHANGED <<session, copy>> PROVE AllCount'
  BY <1>1, <1>9
<1> QED
  BY <1>3, <1>4, <1>5, <1>6, <1>7, <1>8, <1>9 DEF Next, vars

(* The session never counts less than the runs in it used, however often    *)
(* they are saved, resumed and reset, and even if saves overlap.            *)
THEOREM UsageIsCovered == Spec => []UsageCovered
<1>1. Init => AllCount
  BY EmptyCounts DEF Init, AllCount
<1>2. TypeOK /\ AllCount => UsageCovered
  <2> SUFFICES ASSUME TypeOK, AllCount PROVE UsageCovered
    OBVIOUS
  <2>1. StoredUsage(session.runs) \in [Runs -> Nat] /\ session.usage \in Nat
    BY DEF StoredUsage, TypeOK, Session, Output
  <2>2. SumFunction(StoredUsage(session.runs)) <= session.usage
    BY DEF AllCount, CountsRuns
  <2> QED
    BY <2>2 DEF UsageCovered, UsageOfRuns, StoredUsage
<1> QED
  BY <1>1, <1>2, SessionTypeCorrect, CountKept, PTL DEF Spec
=============================================================================
