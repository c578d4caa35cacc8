------------------------ MODULE PolicyKnowledgeProofs ------------------------
(***************************************************************************)
(* Theorems about PolicyCheck and KnowledgeBase.  The two share nothing:   *)
(* KnowledgeBase is set up for a search, PolicyCheck stands around one     *)
(* question to the model.                                                  *)
(*                                                                         *)
(* PolicyCheck, for any calls, policies, words and rounds: an answer was   *)
(* checked by every policy unless calls share an Agent; and a call by      *)
(* itself asks the model what the policies made of its prompt, and gets    *)
(* its own words back as long as each placeholder stands for one.          *)
(*                                                                         *)
(* KnowledgeBase, for any tasks, documents, failures, cancellations,       *)
(* restarts and closings: with one base, a task searches the whole index,  *)
(* as long as no set-up that was given up left a part of one behind.       *)
(***************************************************************************)
EXTENDS PolicyCheck, KnowledgeBase, SequenceTheorems, FiniteSetTheorems,
        WellFoundedInduction, TLAPS

-----------------------------------------------------------------------------

(* Induction over the naturals, from the well-foundedness of finite sets.   *)

LEMMA LeastExists ==
  ASSUME NEW T \in SUBSET Nat, T # {}
  PROVE  \E n \in T : \A m \in T : n <= m
<1> DEFINE Down == {0..n : n \in T}
<1>1. \A n \in T : 0..n \in SUBSET Nat /\ IsFiniteSet(0..n)
  BY FS_Interval
<1>2. Down \subseteq FiniteSubsetsOf(Nat) /\ Down # {}
  BY <1>1 DEF FiniteSubsetsOf
<1>3. PICK d \in Down : \A e \in Down : ~(<<e, d>> \in StrictSubsetOrdering(Nat))
  <2> HIDE DEF Down
  <2> QED
    BY <1>2, FS_StrictSubsetOrderingWellFounded, WFMin
<1>4. PICK n \in T : d = 0..n
  OBVIOUS
<1>5. \A m \in T : n <= m
  <2> SUFFICES ASSUME NEW m \in T, m < n PROVE FALSE
    BY <1>4
  <2>1. /\ 0..m \subseteq 0..n /\ n \in 0..n /\ n \notin 0..m
        /\ 0..m \in SUBSET Nat /\ 0..n \in SUBSET Nat /\ 0..m \in Down
    BY <1>4
  <2>2. <<0..m, 0..n>> \in StrictSubsetOrdering(Nat)
    BY <2>1 DEF StrictSubsetOrdering
  <2> QED
    BY <1>3, <1>4, <2>1, <2>2
<1> QED
  BY <1>5

LEMMA UpwardInduction ==
  ASSUME NEW n \in Nat, NEW Q, 0 \in Q, \A k \in 1..n : k - 1 \in Q => k \in Q
  PROVE  0..n \subseteq Q
<1> DEFINE T == (0..n) \ Q
<1> SUFFICES ASSUME T # {} PROVE FALSE
  OBVIOUS
<1>1. PICK k \in T : \A m \in T : k <= m
  <2> HIDE DEF T
  <2>1. T \in SUBSET Nat
    BY DEF T
  <2> QED
    BY <2>1, LeastExists
<1>2. k \in 1..n /\ k - 1 \in 0..n /\ k - 1 \notin T
  BY <1>1
<1> QED
  BY <1>1, <1>2

LEMMA MaxIsElement ==
  ASSUME NEW n \in Nat, NEW s \in SUBSET (1..n), s # {}
  PROVE  Max(s) \in s
<1> DEFINE T == {n - x : x \in s}
<1>1. T \in SUBSET Nat /\ T # {}
  OBVIOUS
<1>2. PICK d \in T : \A m \in T : d <= m
  <2> HIDE DEF T
  <2> QED
    BY <1>1, LeastExists
<1>3. PICK x \in s : d = n - x
  OBVIOUS
<1>4. \A y \in s : x >= y
  <2> SUFFICES ASSUME NEW y \in s PROVE x >= y
    OBVIOUS
  <2>1. n - x <= n - y /\ x \in 1..n /\ y \in 1..n
    BY <1>2, <1>3
  <2> QED
    BY <2>1
<1> QED
  BY <1>4 DEF Max

LEMMA MaxOfInterval ==
  ASSUME NEW n \in Nat \ {0}
  PROVE  Max(1..n) = n /\ (1..n) \ {n} = 1..(n - 1)
<1>1. n \in 1..n /\ \A y \in 1..n : n >= y
  OBVIOUS
<1>2. \A x \in 1..n : (\A y \in 1..n : x >= y) => x = n
  BY <1>1
<1>3. Max(1..n) = n
  BY <1>1, <1>2 DEF Max
<1>4. (1..n) \ {n} = 1..(n - 1)
  OBVIOUS
<1> QED
  BY <1>3, <1>4

(* A fold over a sequence is a recursive function on the sets of positions; *)
(* with step as a function, such a function exists.                         *)
IsFold(n, base, step, g) ==
    g = [s \in SUBSET (1..n) |->
           IF s = {} THEN base ELSE step[Max(s), g[s \ {Max(s)}]]]

FoldsUpTo(n, base, step, B, k, g) ==
    /\ g \in [{s \in SUBSET (1..n) : Cardinality(s) <= k} -> B]
    /\ \A s \in DOMAIN g :
         g[s] = IF s = {} THEN base ELSE step[Max(s), g[s \ {Max(s)}]]

LEMMA FoldExists ==
  ASSUME NEW n \in Nat, NEW B, NEW base \in B, NEW step \in [(1..n) \X B -> B]
  PROVE  \E g \in [SUBSET (1..n) -> B] : IsFold(n, base, step, g)
<1> DEFINE S == 1..n
           Small(k) == {s \in SUBSET S : Cardinality(s) <= k}
           Q == {k \in Nat : \E g : FoldsUpTo(n, base, step, B, k, g)}
<1>1. IsFiniteSet(S) /\ Cardinality(S) = n
  BY FS_Interval
<1>2. ASSUME NEW s \in SUBSET S
      PROVE  IsFiniteSet(s) /\ Cardinality(s) \in Nat /\ Cardinality(s) <= n
  <2>1. IsFiniteSet(s) /\ Cardinality(s) <= Cardinality(S)
    BY <1>1, FS_Subset, Zenon
  <2> QED
    BY <1>1, <2>1, FS_CardinalityType
<1>3. \A s \in SUBSET S : s # {} =>
          /\ Max(s) \in s
          /\ s \ {Max(s)} \in SUBSET S
          /\ Cardinality(s \ {Max(s)}) = Cardinality(s) - 1
  BY <1>2, MaxIsElement, FS_RemoveElement
<1>4. 0 \in Q
  <2>1. Small(0) = {{}}
    <3>1. \A s \in Small(0) : s = {}
      BY <1>2, FS_EmptySet
    <3> QED
      BY <3>1, FS_EmptySet
  <2>2. FoldsUpTo(n, base, step, B, 0, [s \in Small(0) |-> base])
    BY <2>1 DEF FoldsUpTo
  <2> QED
    BY <2>2
<1>5. ASSUME NEW k \in 1..n, k - 1 \in Q PROVE k \in Q
  <2>1. PICK g : FoldsUpTo(n, base, step, B, k - 1, g)
    BY <1>5
  <2> DEFINE h == [s \in Small(k) |-> IF s = {} THEN base ELSE step[Max(s), g[s \ {Max(s)}]]]
  <2>2. g \in [Small(k - 1) -> B]
    BY <2>1 DEF FoldsUpTo
  <2>3. ASSUME NEW s \in Small(k), s # {}
        PROVE  s \ {Max(s)} \in Small(k - 1) /\ Max(s) \in S
    <3>1. s \in SUBSET S /\ Cardinality(s) <= k /\ Cardinality(s) \in Nat
      BY <1>2
    <3>2. /\ Max(s) \in s /\ s \ {Max(s)} \in SUBSET S
          /\ Cardinality(s \ {Max(s)}) = Cardinality(s) - 1
      BY <1>3, <2>3, <3>1
    <3>3. Cardinality(s \ {Max(s)}) <= k - 1
      BY <3>1, <3>2
    <3> QED
      BY <3>1, <3>2, <3>3
  <2>4. h \in [Small(k) -> B]
    BY <2>2, <2>3
  <2>5. \A s \in Small(k - 1) : h[s] = g[s]
    <3>1. \A s \in Small(k - 1) : s \in Small(k)
      BY <1>2
    <3> QED
      BY <2>1, <3>1 DEF FoldsUpTo
  <2>6. \A s \in Small(k) : h[s] = IF s = {} THEN base ELSE step[Max(s), h[s \ {Max(s)}]]
    BY <2>3, <2>5
  <2>7. FoldsUpTo(n, base, step, B, k, h)
    <3> HIDE DEF h
    <3> QED
      BY <2>4, <2>6 DEF FoldsUpTo
  <2>8. k \in Nat
    OBVIOUS
  <2> HIDE DEF h
  <2> QED
    BY <2>7, <2>8
<1>6. PICK g : FoldsUpTo(n, base, step, B, n, g)
  <2>1. n \in Q
    <3> HIDE DEF Q
    <3> QED
      BY <1>4, <1>5, UpwardInduction
  <2> QED
    BY <2>1
<1>7. Small(n) = SUBSET S
  BY <1>2
<1> QED
  BY <1>6, <1>7 DEF FoldsUpTo, IsFold

-----------------------------------------------------------------------------
(* What the user's policies make of a text, one after the other.            *)
Applied(p, text) == {IF w \in Finds[p] THEN Cover[p][w] ELSE w : w \in text}

IsPipeline(text, g) ==
    g = [s \in SUBSET DOMAIN UserPolicies |->
           IF s = {} THEN text ELSE Applied(UserPolicies[Max(s)], g[s \ {Max(s)}])]

After(k, text) == (CHOOSE g : IsPipeline(text, g))[1..k]

LEMMA PolicyIsTyped ==
  ASSUME NEW i \in DOMAIN UserPolicies
  PROVE  /\ UserPolicies[i] \in Policies
         /\ UserPolicies[i] \in ToSet(UserPolicies)
BY DEF Policies, ToSet

LEMMA AppliedIsText ==
  ASSUME NEW p \in Policies, NEW text \in Texts
  PROVE  Applied(p, text) \in Texts
BY PolicyAssumption DEF Applied, Texts

LEMMA PipelineExists ==
  ASSUME NEW text \in Texts
  PROVE  \E g : IsPipeline(text, g)
<1> DEFINE n == Len(UserPolicies)
           step == [x \in (1..n) \X Texts |-> Applied(UserPolicies[x[1]], x[2])]
<1>1. n \in Nat /\ DOMAIN UserPolicies = 1..n
  BY PolicyAssumption
<1>2. step \in [(1..n) \X Texts -> Texts]
  BY <1>1, PolicyIsTyped, AppliedIsText
<1>3. PICK g \in [SUBSET (1..n) -> Texts] : IsFold(n, text, step, g)
  <2> HIDE DEF n, step
  <2> QED
    BY <1>1, <1>2, FoldExists
<1>4. ASSUME NEW s \in SUBSET (1..n), s # {}
      PROVE  step[Max(s), g[s \ {Max(s)}]] = Applied(UserPolicies[Max(s)], g[s \ {Max(s)}])
  <2>1. Max(s) \in 1..n
    BY <1>1, <1>4, MaxIsElement
  <2>2. g[s \ {Max(s)}] \in Texts
    OBVIOUS
  <2> HIDE DEF n
  <2> QED
    BY <2>1, <2>2
<1>5. IsPipeline(text, g)
  <2>1. g = [s \in SUBSET (1..n) |-> IF s = {} THEN text ELSE step[Max(s), g[s \ {Max(s)}]]]
    BY <1>3 DEF IsFold
  <2>2. \A s \in SUBSET (1..n) :
          (IF s = {} THEN text ELSE step[Max(s), g[s \ {Max(s)}]])
            = IF s = {} THEN text ELSE Applied(UserPolicies[Max(s)], g[s \ {Max(s)}])
    BY <1>4
  <2> HIDE DEF step, n
  <2> QED
    BY <1>1, <2>1, <2>2 DEF IsPipeline
<1> QED
  BY <1>5

LEMMA AfterSteps ==
  ASSUME NEW text \in Texts
  PROVE  /\ After(0, text) = text
         /\ \A k \in DOMAIN UserPolicies :
              After(k, text) = Applied(UserPolicies[k], After(k - 1, text))
         /\ \A k \in 0..Len(UserPolicies) : After(k, text) \in Texts
         /\ After(Len(UserPolicies), text) = Processed(text)
<1> DEFINE n == Len(UserPolicies)
           g == CHOOSE f : IsPipeline(text, f)
<1>1. n \in Nat /\ DOMAIN UserPolicies = 1..n
  BY PolicyAssumption
<1>2. IsPipeline(text, g)
  BY PipelineExists
<1>3. g[1..0] = text
  <2>1. 1..0 = {} /\ {} \in SUBSET DOMAIN UserPolicies
    OBVIOUS
  <2> HIDE DEF g
  <2> QED
    BY <1>2, <2>1 DEF IsPipeline
<1>4. \A k \in 1..n : g[1..k] = Applied(UserPolicies[k], g[1..(k - 1)])
  <2> SUFFICES ASSUME NEW k \in 1..n PROVE g[1..k] = Applied(UserPolicies[k], g[1..(k - 1)])
    OBVIOUS
  <2>1. 1..k \in SUBSET (1..n) /\ 1..k # {}
    OBVIOUS
  <2>2. Max(1..k) = k /\ (1..k) \ {k} = 1..(k - 1)
    BY MaxOfInterval
  <2> HIDE DEF g, n
  <2> QED
    BY <1>1, <1>2, <2>1, <2>2 DEF IsPipeline
<1> DEFINE Q == {k \in 0..n : g[1..k] \in Texts}
<1>5. 0..n \subseteq Q
  <2> HIDE DEF g
  <2>1. 0 \in Q
    BY <1>1, <1>3
  <2>2. ASSUME NEW k \in 1..n, k - 1 \in Q PROVE k \in Q
    <3>1. g[1..(k - 1)] \in Texts
      BY <2>2
    <3>2. Applied(UserPolicies[k], g[1..(k - 1)]) \in Texts
      BY <1>1, <3>1, PolicyIsTyped, AppliedIsText
    <3>3. g[1..k] \in Texts
      BY <1>4, <3>2, Zenon
    <3>4. k \in 0..n
      OBVIOUS
    <3> QED
      BY <3>3, <3>4, Zenon
  <2> HIDE DEF Q, n
  <2> QED
    BY <1>1, <2>1, <2>2, UpwardInduction
<1>6. g[DOMAIN UserPolicies] = Processed(text)
  BY DEF Processed, FoldLeft, MapThenFoldSet, IsPipeline, Applied
<1> QED
  BY <1>1, <1>3, <1>4, <1>5, <1>6 DEF After

(* A word of the text goes through by itself.                               *)
LEMMA AfterEach ==
  ASSUME NEW text \in Texts, NEW k \in 0..Len(UserPolicies)
  PROVE  \A x : x \in After(k, text) <=> \E w \in text : x \in After(k, {w})
<1> DEFINE n == Len(UserPolicies)
           Each(j) == \A x : x \in After(j, text) <=> \E w \in text : x \in After(j, {w})
           Q == {j \in 0..n : Each(j)}
<1>1. n \in Nat /\ DOMAIN UserPolicies = 1..n
  BY PolicyAssumption
<1>2. \A w \in text : {w} \in Texts
  BY DEF Texts
<1>3. Each(0)
  <2>1. \A w \in text : After(0, {w}) = {w}
    BY <1>2, AfterSteps
  <2>2. After(0, text) = text
    BY AfterSteps
  <2> QED
    BY <2>1, <2>2
<1>4. ASSUME NEW j \in 1..n, Each(j - 1) PROVE Each(j)
  <2>2. After(j, text) = Applied(UserPolicies[j], After(j - 1, text))
    BY <1>1, AfterSteps
  <2>3. \A w \in text : After(j, {w}) = Applied(UserPolicies[j], After(j - 1, {w}))
    BY <1>1, <1>2, AfterSteps
  <2> DEFINE p == UserPolicies[j]
             One(y) == IF y \in Finds[p] THEN Cover[p][y] ELSE y
  <2>4. \A x : x \in After(j, text) <=> \E y \in After(j - 1, text) : x = One(y)
    BY <2>2 DEF Applied
  <2>5. \A w \in text : \A x : x \in After(j, {w}) <=> \E y \in After(j - 1, {w}) : x = One(y)
    BY <2>3 DEF Applied
  <2> HIDE DEF One, p, n
  <2> QED
    BY <1>4, <2>4, <2>5
<1>5. 0..n \subseteq Q
  <2>1. 0 \in Q
    <3> HIDE DEF Each, n
    <3> QED
      BY <1>1, <1>3
  <2>2. \A j \in 1..n : j - 1 \in Q => j \in Q
    <3> HIDE DEF Each
    <3> QED
      BY <1>4
  <2> HIDE DEF Q, n
  <2> QED
    BY <1>1, <2>1, <2>2, UpwardInduction
<1> QED
  BY <1>5


(* A policy of the user that replaces a word.                               *)
Replaces(p, w) == p \in ToSet(UserPolicies) /\ Kind[p] = "transform" /\ w \in Finds[p]

Entry == [original : Words, anonymous : Words]

(* A placeholder tells what it stands for: no policy finds it, no other     *)
(* word gets it, and no prompt has it.                                      *)
PlaceholdersTell ==
    \A p \in Policies, w \in Words : Replaces(p, w) =>
        /\ \A q \in Policies : ~Replaces(q, Cover[p][w])
        /\ \A q \in Policies, v \in Words :
              Replaces(q, v) /\ Cover[q][v] = Cover[p][w] => v = w
        /\ \A t \in Prompts : Cover[p][w] \notin t

(* The entries of a map tell what the first k policies made of each word.   *)
TellsOf(k, entries, text) ==
    /\ \A e \in entries :
          /\ e.original \in text
          /\ After(k, {e.original}) = {e.anonymous}
          /\ \E p \in Policies : Replaces(p, e.original) /\ e.anonymous = Cover[p][e.original]
    /\ \A w \in text : (\A e \in entries : e.original # w) => After(k, {w}) = {w}

EntriesOf(p, hits) == {[original |-> w, anonymous |-> Cover[p][w]] : w \in hits}

LEMMA TellsAtStart ==
  ASSUME NEW text \in Texts
  PROVE  TellsOf(0, {}, text)
<1>1. \A w \in text : {w} \in Texts
  BY DEF Texts
<1> QED
  BY <1>1, AfterSteps DEF TellsOf

(* A policy that finds nothing changes nothing.                             *)
LEMMA NothingFound ==
  ASSUME NEW k \in DOMAIN UserPolicies, NEW text \in Texts, NEW entries,
         After(k - 1, text) \cap Finds[UserPolicies[k]] = {}
  PROVE  /\ After(k, text) = After(k - 1, text)
         /\ TellsOf(k - 1, entries, text) => TellsOf(k, entries, text)
<1>1. k \in 1..Len(UserPolicies) /\ k - 1 \in 0..Len(UserPolicies)
  BY PolicyAssumption
<1>2. \A w \in text : {w} \in Texts
  BY DEF Texts
<1>3. After(k, text) = Applied(UserPolicies[k], After(k - 1, text))
  BY AfterSteps
<1>4. After(k, text) = After(k - 1, text)
  BY <1>3 DEF Applied
<1>5. ASSUME NEW w \in text PROVE After(k, {w}) = After(k - 1, {w})
  <2>1. After(k, {w}) = Applied(UserPolicies[k], After(k - 1, {w}))
    BY <1>2, AfterSteps
  <2>2. \A x \in After(k - 1, {w}) : x \in After(k - 1, text)
    BY <1>1, AfterEach
  <2> QED
    BY <2>1, <2>2 DEF Applied
<1> QED
  BY <1>4, <1>5 DEF TellsOf

(* A policy that replaces words adds an entry for each of them.             *)
LEMMA WordsReplaced ==
  ASSUME PlaceholdersTell,
         NEW k \in DOMAIN UserPolicies, Kind[UserPolicies[k]] = "transform",
         NEW text \in Prompts, NEW entries \in SUBSET Entry, TellsOf(k - 1, entries, text),
         NEW hits, hits = After(k - 1, text) \cap Finds[UserPolicies[k]]
  PROVE  TellsOf(k, entries \cup EntriesOf(UserPolicies[k], hits), text)
<1> DEFINE p == UserPolicies[k]
           new == EntriesOf(p, hits)
<1>1. k \in 1..Len(UserPolicies) /\ k - 1 \in 0..Len(UserPolicies)
  BY PolicyAssumption
<1>2. text \in Texts /\ \A w \in text : {w} \in Texts /\ w \in Words
  BY PolicyAssumption DEF Texts
<1>3. p \in Policies /\ \A w : Replaces(p, w) <=> w \in Finds[p]
  BY PolicyIsTyped DEF Replaces
<1>4. \A w \in text : After(k, {w}) = Applied(p, After(k - 1, {w}))
  BY <1>2, AfterSteps
<1>5. ASSUME NEW e \in entries
      PROVE  /\ e.original \in text /\ After(k - 1, {e.original}) = {e.anonymous}
             /\ e.anonymous \notin Finds[p]
             /\ \E q \in Policies : Replaces(q, e.original) /\ e.anonymous = Cover[q][e.original]
  <2>1. /\ e.original \in text /\ e.original \in Words
        /\ After(k - 1, {e.original}) = {e.anonymous}
    BY DEF TellsOf, Entry
  <2>2. PICK q \in Policies : Replaces(q, e.original) /\ e.anonymous = Cover[q][e.original]
    BY DEF TellsOf
  <2>3. ~Replaces(p, e.anonymous)
    BY <1>3, <2>1, <2>2 DEF PlaceholdersTell
  <2> QED
    BY <1>3, <2>1, <2>2, <2>3
<1>6. ASSUME NEW e \in entries PROVE After(k, {e.original}) = {e.anonymous}
  BY <1>4, <1>5 DEF Applied
<1>7. ASSUME NEW w \in hits
      PROVE  /\ w \in text /\ After(k - 1, {w}) = {w} /\ w \in Finds[p]
             /\ After(k, {w}) = {Cover[p][w]}
  <2>1. PICK v \in text : w \in After(k - 1, {v})
    BY <1>1, <1>2, AfterEach
  <2>2. w \in Finds[p]
    OBVIOUS
  <2>3. \A e \in entries : e.original # v
    BY <1>5, <2>1, <2>2
  <2>4. After(k - 1, {v}) = {v}
    BY <2>3 DEF TellsOf
  <2>5. w = v
    BY <2>1, <2>4
  <2> QED
    BY <1>4, <2>2, <2>4, <2>5 DEF Applied
<1>8. ASSUME NEW w \in text, \A e \in entries \cup new : e.original # w
      PROVE  After(k, {w}) = {w}
  <2>1. After(k - 1, {w}) = {w}
    BY <1>8 DEF TellsOf
  <2>2. w \in After(k - 1, text)
    BY <1>1, <1>2, <2>1, AfterEach
  <2>3. w \notin hits
    <3> SUFFICES ASSUME w \in hits PROVE FALSE
      OBVIOUS
    <3>1. [original |-> w, anonymous |-> Cover[p][w]] \in new
      BY DEF EntriesOf
    <3> QED
      BY <1>8, <3>1
  <2>4. w \notin Finds[p]
    BY <2>2, <2>3
  <2> QED
    BY <1>4, <2>1, <2>4 DEF Applied
<1>9. ASSUME NEW e \in new
      PROVE  /\ e.original \in text /\ After(k, {e.original}) = {e.anonymous}
             /\ \E q \in Policies : Replaces(q, e.original) /\ e.anonymous = Cover[q][e.original]
  <2>1. PICK w \in hits : e = [original |-> w, anonymous |-> Cover[p][w]]
    BY DEF EntriesOf
  <2> QED
    BY <1>3, <1>7, <2>1
<1> HIDE DEF new, p
<1> QED
  BY <1>5, <1>6, <1>8, <1>9 DEF TellsOf, p, new

-----------------------------------------------------------------------------
(* What putting the words of a map back makes of a text, entry by entry.    *)
PutBack(e, text) == {IF w = e.anonymous THEN e.original ELSE w : w \in text}

IsRestoring(text, map, g) ==
    g = [s \in SUBSET DOMAIN map |->
           IF s = {} THEN text ELSE PutBack(map[Max(s)], g[s \ {Max(s)}])]

LEMMA RestoringExists ==
  ASSUME NEW text \in Texts, NEW map \in Seq(Entry)
  PROVE  \E g : IsRestoring(text, map, g)
<1> DEFINE n == Len(map)
           step == [x \in (1..n) \X Texts |-> PutBack(map[x[1]], x[2])]
<1>1. n \in Nat /\ DOMAIN map = 1..n /\ \A i \in 1..n : map[i] \in Entry
  OBVIOUS
<1>2. step \in [(1..n) \X Texts -> Texts]
  BY <1>1 DEF PutBack, Entry, Texts
<1>3. PICK g \in [SUBSET (1..n) -> Texts] : IsFold(n, text, step, g)
  <2> HIDE DEF n, step
  <2> QED
    BY <1>1, <1>2, FoldExists
<1>4. ASSUME NEW s \in SUBSET (1..n), s # {}
      PROVE  step[Max(s), g[s \ {Max(s)}]] = PutBack(map[Max(s)], g[s \ {Max(s)}])
  <2>1. Max(s) \in 1..n
    BY <1>1, <1>4, MaxIsElement
  <2>2. g[s \ {Max(s)}] \in Texts
    OBVIOUS
  <2> HIDE DEF n
  <2> QED
    BY <2>1, <2>2
<1>5. IsRestoring(text, map, g)
  <2>1. g = [s \in SUBSET (1..n) |-> IF s = {} THEN text ELSE step[Max(s), g[s \ {Max(s)}]]]
    BY <1>3 DEF IsFold
  <2>2. \A s \in SUBSET (1..n) :
          (IF s = {} THEN text ELSE step[Max(s), g[s \ {Max(s)}]])
            = IF s = {} THEN text ELSE PutBack(map[Max(s)], g[s \ {Max(s)}])
    BY <1>4
  <2> HIDE DEF step, n
  <2> QED
    BY <1>1, <2>1, <2>2 DEF IsRestoring
<1> QED
  BY <1>5

Back(k, text, map) == (CHOOSE g : IsRestoring(text, map, g))[1..k]

LEMMA BackSteps ==
  ASSUME NEW text \in Texts, NEW map \in Seq(Entry)
  PROVE  /\ Back(0, text, map) = text
         /\ \A k \in 1..Len(map) : Back(k, text, map) = PutBack(map[k], Back(k - 1, text, map))
         /\ Back(Len(map), text, map) = Restored(text, map)
<1> DEFINE n == Len(map)
           g == CHOOSE f : IsRestoring(text, map, f)
<1>1. n \in Nat /\ DOMAIN map = 1..n
  OBVIOUS
<1>2. IsRestoring(text, map, g)
  BY RestoringExists
<1>3. g[1..0] = text
  <2>1. 1..0 = {} /\ {} \in SUBSET DOMAIN map
    OBVIOUS
  <2> HIDE DEF g
  <2> QED
    BY <1>2, <2>1 DEF IsRestoring
<1>4. \A k \in 1..n : g[1..k] = PutBack(map[k], g[1..(k - 1)])
  <2> SUFFICES ASSUME NEW k \in 1..n PROVE g[1..k] = PutBack(map[k], g[1..(k - 1)])
    OBVIOUS
  <2> HIDE DEF g, n
  <2>0. k \in 1..k /\ \A i \in 1..k : i \in 1..n
    BY <1>1
  <2>1. 1..k \in SUBSET (1..n) /\ 1..k # {}
    BY <2>0, Zenon
  <2>2. Max(1..k) = k /\ (1..k) \ {k} = 1..(k - 1)
    BY MaxOfInterval
  <2> QED
    BY <1>1, <1>2, <2>1, <2>2 DEF IsRestoring
<1>5. g[DOMAIN map] = Restored(text, map)
  BY DEF Restored, FoldLeft, MapThenFoldSet, IsRestoring, PutBack
<1> QED
  BY <1>1, <1>3, <1>4, <1>5 DEF Back

LEMMA RestoredIsText ==
  ASSUME NEW text \in Texts, NEW map \in Seq(Entry)
  PROVE  Restored(text, map) \in Texts
<1> DEFINE n == Len(map)
           Q == {k \in 0..n : Back(k, text, map) \in Texts}
<1>1. n \in Nat /\ \A k \in 1..n : map[k] \in Entry
  OBVIOUS
<1>2. 0 \in Q
  BY <1>1, BackSteps
<1>3. ASSUME NEW k \in 1..n, k - 1 \in Q PROVE k \in Q
  <2>1. Back(k - 1, text, map) \in Texts /\ map[k] \in Entry
    BY <1>1, <1>3
  <2>2. PutBack(map[k], Back(k - 1, text, map)) \in Texts
    BY <2>1 DEF PutBack, Entry, Texts
  <2>3. Back(k, text, map) \in Texts
    BY <2>2, BackSteps, Zenon
  <2>4. k \in 0..n
    OBVIOUS
  <2> QED
    BY <2>3, <2>4, Zenon
<1>4. 0..n \subseteq Q
  <2> HIDE DEF Q, n
  <2> QED
    BY <1>1, <1>2, <1>3, UpwardInduction
<1>5. n \in Q
  <2> HIDE DEF Q, n
  <2> QED
    BY <1>1, <1>4
<1> QED
  BY <1>5, BackSteps

(* Where each placeholder stands for one word, and no word is one, each     *)
(* placeholder of the text becomes its word again.                          *)
LEMMA RestoredWords ==
  ASSUME NEW text \in Texts, NEW map \in Seq(Entry),
         \A d, e \in ToSet(map) : /\ d.anonymous # e.original
                                  /\ d.anonymous = e.anonymous => d.original = e.original
  PROVE  \A x : x \in Restored(text, map) <=>
            \/ x \in text /\ \A e \in ToSet(map) : x # e.anonymous
            \/ \E e \in ToSet(map) : e.anonymous \in text /\ x = e.original
<1> DEFINE n == Len(map)
           b(k) == Back(k, text, map)
<1>1. /\ n \in Nat /\ DOMAIN map = 1..n
      /\ \A e : e \in ToSet(map) <=> \E i \in 1..n : e = map[i]
  BY DEF ToSet
<1>3. b(0) = text /\ b(n) = Restored(text, map)
  BY BackSteps
<1>4. \A k \in 1..n : b(k) = PutBack(map[k], b(k - 1))
  BY BackSteps, Zenon
<1> HIDE DEF b
<1> DEFINE IsBack(k) ==
      \A x : x \in b(k) <=>
        \/ x \in text /\ \A i \in 1..k : x # map[i].anonymous
        \/ \E i \in 1..k : map[i].anonymous \in text /\ x = map[i].original
           Q == {k \in 0..n : IsBack(k)}
<1>5. IsBack(0)
  BY <1>3
<1>6. ASSUME NEW k \in 1..n, IsBack(k - 1) PROVE IsBack(k)
  <2> DEFINE a(i) == map[i].anonymous
             o(i) == map[i].original
  <2>1. \A i, j \in 1..n : a(i) # o(j) /\ (a(i) = a(j) => o(i) = o(j))
    BY <1>1
  <2>2. \A x : x \in b(k) <=> \E w \in b(k - 1) : x = IF w = a(k) THEN o(k) ELSE w
    BY <1>4 DEF PutBack
  <2>3. \A x : x \in b(k - 1) <=>
          \/ x \in text /\ \A i \in 1..(k - 1) : x # a(i)
          \/ \E i \in 1..(k - 1) : a(i) \in text /\ x = o(i)
    BY <1>6
  <2>4. \A i : i \in 1..k <=> i = k \/ i \in 1..(k - 1)
    OBVIOUS
  <2>5. 1..k \subseteq 1..n
    OBVIOUS
  <2> DEFINE Kept(x) == x \in text /\ \A i \in 1..k : x # a(i)
             Returned(x) == \E i \in 1..k : a(i) \in text /\ x = o(i)
  <2> HIDE DEF a, o, n
  <2>6. ASSUME NEW x \in b(k) PROVE Kept(x) \/ Returned(x)
    <3>1. PICK w \in b(k - 1) : x = IF w = a(k) THEN o(k) ELSE w
      BY <2>2
    <3>2. CASE w = a(k)
      BY <2>1, <2>3, <2>4, <2>5, <3>1, <3>2
    <3>3. CASE w # a(k)
      BY <2>3, <2>4, <3>1, <3>3
    <3> QED
      BY <3>2, <3>3
  <2>7. ASSUME NEW x, Kept(x) PROVE x \in b(k)
    BY <2>2, <2>3, <2>4, <2>7
  <2>8. ASSUME NEW x, Returned(x) PROVE x \in b(k)
    <3>1. PICK i \in 1..k : a(i) \in text /\ x = o(i)
      BY <2>8
    <3>2. x # a(k)
      BY <2>1, <2>5, <3>1
    <3>3. CASE i \in 1..(k - 1)
      BY <2>2, <2>3, <3>1, <3>2, <3>3
    <3>4. CASE i = k /\ \E j \in 1..(k - 1) : a(j) = a(k)
      <4>1. PICK j \in 1..(k - 1) : a(j) = a(k)
        BY <3>4
      <4>2. x = o(j) /\ a(j) \in text
        BY <2>1, <2>4, <2>5, <3>1, <3>4, <4>1
      <4> QED
        BY <2>2, <2>3, <3>2, <4>2
    <3>5. CASE i = k /\ \A j \in 1..(k - 1) : a(j) # a(k)
      <4>1. a(k) \in b(k - 1)
        BY <2>3, <3>1, <3>5
      <4> QED
        BY <2>2, <3>1, <3>5, <4>1
    <3> QED
      BY <2>4, <3>3, <3>4, <3>5
  <2> QED
    BY <2>6, <2>7, <2>8 DEF a, o
<1>7. 0..n \subseteq Q
  <2>1. 0 \in Q
    <3> HIDE DEF IsBack, n
    <3> QED
      BY <1>1, <1>5
  <2>2. \A k \in 1..n : k - 1 \in Q => k \in Q
    <3> HIDE DEF IsBack
    <3> QED
      BY <1>6
  <2> HIDE DEF Q, n
  <2> QED
    BY <1>1, <2>1, <2>2, UpwardInduction
<1>8. IsBack(n)
  <2> HIDE DEF IsBack
  <2> QED
    BY <1>1, <1>7
<1> QED
  <2> HIDE DEF n
  <2> QED
    BY <1>1, <1>3, <1>8


(* So an answer that mentions all it was asked mentions the user's words.   *)
LEMMA WordsComeBack ==
  ASSUME PlaceholdersTell, NEW text \in Prompts, NEW map \in Seq(Entry),
         TellsOf(Len(UserPolicies), ToSet(map), text),
         NEW said \in Texts, After(Len(UserPolicies), text) \subseteq said
  PROVE  Restored(said, map) =
           (said \ After(Len(UserPolicies), text))
             \cup {w \in text : Processed({w}) \subseteq said}
<1> DEFINE n == Len(UserPolicies)
           out == After(n, text)
<1>1. n \in 0..n /\ text \in Texts /\ \A w \in text : {w} \in Texts
  BY PolicyAssumption DEF Texts
<1>2. \A w \in text : Processed({w}) = After(n, {w})
  BY <1>1, AfterSteps
<1>3. \A e \in ToSet(map) : e \in Entry
  BY DEF ToSet
<1>4. ASSUME NEW e \in ToSet(map)
      PROVE  /\ e.original \in text /\ e.original \in Words
             /\ After(n, {e.original}) = {e.anonymous}
             /\ e.anonymous \in out /\ e.anonymous \notin text
             /\ \E p \in Policies : Replaces(p, e.original) /\ e.anonymous = Cover[p][e.original]
  <2>1. /\ e.original \in text /\ After(n, {e.original}) = {e.anonymous} /\ e.original \in Words
        /\ \E p \in Policies : Replaces(p, e.original) /\ e.anonymous = Cover[p][e.original]
    BY <1>3 DEF TellsOf, Entry
  <2>2. e.anonymous \in out
    BY <1>1, <2>1, AfterEach
  <2>3. e.anonymous \notin text
    BY <2>1 DEF PlaceholdersTell
  <2> QED
    BY <2>1, <2>2, <2>3
<1>5. \A w \in text : (\A e \in ToSet(map) : e.original # w) => After(n, {w}) = {w}
  BY DEF TellsOf
<1>6. ASSUME NEW d \in ToSet(map), NEW e \in ToSet(map)
      PROVE  /\ d.anonymous # e.original
             /\ d.anonymous = e.anonymous => d.original = e.original
  <2>1. PICK p \in Policies : Replaces(p, d.original) /\ d.anonymous = Cover[p][d.original]
    BY <1>4
  <2>2. PICK q \in Policies : Replaces(q, e.original) /\ e.anonymous = Cover[q][e.original]
    BY <1>4
  <2>3. d.original \in Words /\ e.original \in Words
    BY <1>4
  <2>4. d.anonymous = e.anonymous => d.original = e.original
    BY <2>1, <2>2, <2>3 DEF PlaceholdersTell
  <2> QED
    BY <1>4, <2>4
<1>7. \A x : x \in out => \E w \in text : x \in After(n, {w})
  BY <1>1, AfterEach
<1> HIDE DEF n, out
<1>8. ASSUME NEW x \in said, \A e \in ToSet(map) : x # e.anonymous
      PROVE  x \notin out \/ (x \in text /\ After(n, {x}) \subseteq said)
  <2> SUFFICES ASSUME x \in out PROVE x \in text /\ After(n, {x}) \subseteq said
    OBVIOUS
  <2>1. PICK w \in text : x \in After(n, {w})
    BY <1>7
  <2>2. \A e \in ToSet(map) : e.original # w
    BY <1>4, <1>8, <2>1
  <2>3. After(n, {w}) = {w}
    BY <1>5, <2>2
  <2> QED
    BY <2>1, <2>3
<1>9. ASSUME NEW e \in ToSet(map), e.anonymous \in said
      PROVE  e.original \in text /\ After(n, {e.original}) \subseteq said
  BY <1>4, <1>9
<1>10. ASSUME NEW x \in text, After(n, {x}) \subseteq said
       PROVE  \/ x \in said /\ \A e \in ToSet(map) : x # e.anonymous
              \/ \E e \in ToSet(map) : e.anonymous \in said /\ x = e.original
  BY <1>4, <1>5, <1>10
<1>11. \A x \in said \ out : \A e \in ToSet(map) : x # e.anonymous
  BY <1>4
<1>12. \A x : x \in Restored(said, map) <=>
          \/ x \in said /\ \A e \in ToSet(map) : x # e.anonymous
          \/ \E e \in ToSet(map) : e.anonymous \in said /\ x = e.original
  BY <1>6, RestoredWords
<1>13. \A x : x \in Restored(said, map) <=>
          x \in (said \ out) \cup {w \in text : After(n, {w}) \subseteq said}
  <2> SUFFICES ASSUME NEW x
               PROVE  x \in Restored(said, map) <=>
                        x \in said \ out \/ (x \in text /\ After(n, {x}) \subseteq said)
    OBVIOUS
  <2>1. x \in Restored(said, map) =>
          x \in said \ out \/ (x \in text /\ After(n, {x}) \subseteq said)
    BY <1>8, <1>9, <1>12
  <2>2. x \in said \ out => x \in Restored(said, map)
    BY <1>11, <1>12
  <2>3. x \in text /\ After(n, {x}) \subseteq said => x \in Restored(said, map)
    BY <1>10, <1>12
  <2> QED
    BY <2>1, <2>2, <2>3
<1>14. Restored(said, map) = (said \ out) \cup {w \in text : After(n, {w}) \subseteq said}
  BY <1>13
<1>15. {w \in text : After(n, {w}) \subseteq said} = {w \in text : Processed({w}) \subseteq said}
  BY <1>2
<1> QED
  BY <1>14, <1>15 DEF n, out

(* The entries of an action are those of the words it found.                *)
LEMMA EveryHitOnce ==
  ASSUME NEW hits \in Texts
  PROVE  /\ SetToSeq(hits) \in Seq(hits)
         /\ \A w : w \in hits <=> \E i \in DOMAIN SetToSeq(hits) : w = SetToSeq(hits)[i]
<1> DEFINE m == Cardinality(hits)
           f == SetToSeq(hits)
<1>1. IsFiniteSet(hits)
  BY PolicyAssumption, FS_Subset DEF Texts
<1>2. m \in Nat /\ ExistsBijection(1..m, hits)
  BY <1>1, FS_CardinalityType
<1>3. \E h \in [1..m -> hits] : IsInjective(h)
  BY <1>2 DEF ExistsBijection, Bijection, Injection, IsInjective
<1>4. f \in [1..m -> hits] /\ IsInjective(f)
  BY <1>3 DEF SetToSeq
<1>5. IsFiniteSet(1..m) /\ Cardinality(1..m) = m
  BY <1>2, FS_Interval
<1>6. f \in Injection(1..m, hits)
  BY <1>4 DEF Injection, IsInjective
<1>7. f \in Surjection(1..m, hits)
  <2> HIDE DEF f
  <2> QED
    BY <1>1, <1>5, <1>6, FS_Injection
<1> HIDE DEF f, m
<1>8. \A w \in hits : \E i \in 1..m : f[i] = w
  BY <1>7 DEF Surjection
<1> QED
  BY <1>2, <1>4, <1>8 DEF f

LEMMA EntriesOfWork ==
  ASSUME NEW p \in Policies, NEW work \in [text : Texts, hits : Texts]
  PROVE  /\ Entries(p, work) \in Seq(Entry)
         /\ ToSet(Entries(p, work)) = EntriesOf(p, work.hits)
<1> DEFINE f == SetToSeq(work.hits)
           es == Entries(p, work)
<1>1. work.hits \in Texts /\ \A w \in work.hits : w \in Words /\ Cover[p][w] \in Words
  BY PolicyAssumption DEF Texts
<1>2. /\ f \in Seq(work.hits)
      /\ \A w : w \in work.hits <=> \E i \in DOMAIN f : w = f[i]
  BY <1>1, EveryHitOnce
<1>3. es = [i \in DOMAIN f |-> [original |-> f[i], anonymous |-> Cover[p][f[i]]]]
  BY DEF Entries
<1> HIDE DEF f, es
<1>4. DOMAIN f = 1..Len(f) /\ Len(f) \in Nat /\ \A i \in DOMAIN f : f[i] \in work.hits
  BY <1>2
<1>5. \A i \in DOMAIN f : es[i] \in Entry
  BY <1>1, <1>3, <1>4 DEF Entry
<1>6. es \in Seq(Entry)
  BY <1>3, <1>4, <1>5
<1>7. \A e : e \in ToSet(es) <=> e \in EntriesOf(p, work.hits)
  BY <1>2, <1>3 DEF ToSet, EntriesOf
<1> QED
  BY <1>6, <1>7 DEF es

LEMMA MergedEntries ==
  ASSUME NEW map \in Seq(Entry), NEW more \in Seq(Entry)
  PROVE  /\ Merged(map, more) \in Seq(Entry)
         /\ ToSet(Merged(map, more)) = ToSet(map) \cup ToSet(more)
<1> DEFINE all == map \o more
<1>1. /\ all \in Seq(Entry) /\ Len(all) = Len(map) + Len(more)
      /\ Len(map) \in Nat /\ Len(more) \in Nat
      /\ DOMAIN map = 1..Len(map) /\ DOMAIN more = 1..Len(more)
      /\ DOMAIN all = 1..(Len(map) + Len(more))
      /\ \A i \in 1..Len(map) : all[i] = map[i]
      /\ \A i \in 1..Len(more) : all[Len(map) + i] = more[i]
  OBVIOUS
<1> HIDE DEF all
<1>2. ASSUME NEW i \in DOMAIN all PROVE all[i] \in ToSet(map) \cup ToSet(more)
  <2>1. CASE i <= Len(map)
    BY <1>1, <2>1 DEF ToSet
  <2>2. CASE i > Len(map)
    <3>1. i - Len(map) \in DOMAIN more /\ all[i] = more[i - Len(map)]
      BY <1>1, <2>2
    <3> QED
      BY <3>1 DEF ToSet
  <2> QED
    BY <1>1, <2>1, <2>2
<1>3. ASSUME NEW i \in DOMAIN map PROVE map[i] \in ToSet(all)
  BY <1>1 DEF ToSet
<1>4. ASSUME NEW i \in DOMAIN more PROVE more[i] \in ToSet(all)
  <2>1. Len(map) + i \in DOMAIN all
    BY <1>1
  <2> QED
    BY <1>1, <2>1 DEF ToSet
<1>5. ToSet(all) = ToSet(map) \cup ToSet(more)
  BY <1>2, <1>3, <1>4 DEF ToSet
<1> QED
  BY <1>1, <1>5 DEF all, Merged

-----------------------------------------------------------------------------
(* Types.                                                                   *)
Places == {"idle", "rule", "action", "feedback", "send", "done"}
Phases == {"user", "agent"}
Positions == Nat \ {0}
Maps == Seq(Entry)
CallType ==
    [pc : Places, phase : Phases, k : Positions, text : Texts, hits : Texts,
     verdict : Verdicts, told : BOOLEAN, map : Maps, round : Nat]

PolicyTypeOK ==
    /\ shared \in Sharings
    /\ prompt \in [Calls -> Texts]
    /\ built \in [Calls -> [text : Texts, done : BOOLEAN]]
    /\ current \in [Calls -> Calls] /\ retries \in [Calls -> Nat]
    /\ action \in [Calls \X Policies -> [text : Texts, hits : Texts]]
    /\ call \in [Calls -> CallType]
    /\ reply \in [Calls -> {"none", "raised", "message", "answer"}]
    /\ faults \in Nat
    /\ asked \in [Calls -> Texts] /\ sent \in [Calls -> Texts]
    /\ answer \in [Calls -> Texts] /\ passed \in [Calls -> SUBSET Nat]

LEMMA EmptyIsText == {} \in Texts /\ NoWork \in [text : Texts, hits : Texts]
BY DEF Texts, NoWork

LEMMA IdleIsTyped == Idle \in CallType /\ [Idle EXCEPT !.pc = "done"] \in CallType
<1>1. Idle \in CallType
  <2>1. <<>> \in Maps /\ {} \in Texts /\ 1 \in Positions
    BY EmptyIsText DEF Maps, Positions
  <2> QED
    BY <2>1 DEF Idle, CallType, Places, Phases, Verdicts
<1> QED
  BY <1>1 DEF CallType, Places

LEMMA CheckingIsTyped ==
  ASSUME NEW rec \in CallType, NEW phase \in Phases, NEW text \in Texts, NEW r \in Nat
  PROVE  /\ Checking(rec, phase, text) \in CallType
         /\ [Checking(rec, phase, text) EXCEPT !.round = r] \in CallType
<1>1. /\ <<>> \in Maps /\ {} \in Texts /\ 1 \in Positions
      /\ "rule" \in Places /\ "allow" \in Verdicts /\ FALSE \in BOOLEAN
  BY EmptyIsText DEF Maps, Positions, Places, Verdicts
<1>2. Checking(rec, phase, text) \in CallType
  BY <1>1, ZenonT(60) DEF Checking, CallType
<1> QED
  BY <1>2 DEF CallType

(* The fields of a check that starts.                                       *)
IsStarted(new, rec, phase, text) ==
    /\ new.pc = "rule" /\ new.phase = phase /\ new.k = 1 /\ new.text = text
    /\ new.hits = {} /\ new.verdict = "allow" /\ new.told = FALSE
    /\ new.map = <<>> /\ new.round = rec.round

LEMMA CheckingStarts ==
  ASSUME NEW rec \in CallType, NEW phase, NEW text
  PROVE  IsStarted(Checking(rec, phase, text), rec, phase, text)
BY ZenonT(60) DEF Checking, CallType, IsStarted

LEMMA NextIsTyped ==
  ASSUME NEW rec \in CallType
  PROVE  NextPolicy(rec) \in CallType
<1>1. rec.k + 1 \in Positions /\ {} \in Texts
  BY EmptyIsText DEF CallType, Positions
<1> QED
  BY <1>1 DEF NextPolicy, CallType, Places

LEMMA ChainIsTyped ==
  ASSUME NEW c \in Calls
  PROVE  Chain(c) \in Seq(Policies)
BY PolicyAssumption DEF Chain

LEMMA StopIsTyped ==
  ASSUME NEW c \in Calls, NEW rec \in CallType
  PROVE  Stop(rec, c) \in CallType
<1>1. Len(Chain(c)) + 1 \in Positions
  BY ChainIsTyped DEF Positions
<1> QED
  BY <1>1, EmptyIsText DEF Stop, CallType, Places

LEMMA SharedIsTyped ==
  ASSUME PolicyTypeOK, NEW c \in Calls
  PROVE  /\ AgentOf(c) \in Calls
         /\ call[c] \in CallType
         /\ \A p \in Policies : ActionOf(c, p) \in Calls \X Policies
         /\ call[c].k <= Len(Chain(c)) => Here(c) \in Policies
<1>1. Common \in Calls
  BY DEF Common
<1>2. call[c] \in CallType
  BY DEF PolicyTypeOK
<1>3. call[c].k <= Len(Chain(c)) => Here(c) \in Policies
  <2>1. call[c].k \in Nat \ {0}
    BY <1>2 DEF CallType, Positions
  <2> QED
    BY <2>1, ChainIsTyped DEF Here
<1> QED
  BY <1>1, <1>2, <1>3 DEF AgentOf, ActionOf

LEMMA TransformedIsText ==
  ASSUME NEW p \in Policies, NEW work \in [text : Texts, hits : Texts]
  PROVE  Transformed(p, work) \in Texts
BY PolicyAssumption DEF Transformed, Texts

(* Every variable keeps its type, so each step is a step of one call.       *)
LEMMA StartIsTyped ==
  ASSUME PolicyTypeOK, NEW c \in Calls, Start(c)
  PROVE  PolicyTypeOK'
<1>1. PICK text \in Prompts :
        /\ prompt' = [prompt EXCEPT ![c] = text]
        /\ asked' = [asked EXCEPT ![c] = text]
        /\ call' = [call EXCEPT ![c] = Checking(@, "user", text)]
  BY DEF Start
<1>2. text \in Texts /\ AgentOf(c) \in Calls /\ call[c] \in CallType
  BY PolicyAssumption, SharedIsTyped
<1>3. Checking(call[c], "user", text) \in CallType
  BY <1>2, CheckingIsTyped DEF Phases
<1> QED
  BY <1>1, <1>2, <1>3 DEF Start, PolicyTypeOK

LEMMA CheckIsTyped ==
  ASSUME PolicyTypeOK, NEW c \in Calls, Check(c)
  PROVE  PolicyTypeOK'
<1> DEFINE hits == call[c].text \cap Finds[Here(c)]
           rec == [call[c] EXCEPT !.pc = "action", !.hits = hits]
<1>1. call[c] \in CallType /\ Here(c) \in Policies /\ ActionOf(c, Here(c)) \in Calls \X Policies
  BY SharedIsTyped DEF Check, AtPolicy
<1>2. hits \in Texts /\ call[c].text \in Texts
  BY <1>1 DEF CallType, Texts
<1>3. rec \in CallType
  BY <1>1, <1>2 DEF CallType, Places
<1>4. /\ action' = [action EXCEPT ![ActionOf(c, Here(c))] = [text |-> call[c].text, hits |-> hits]]
      /\ call' = [call EXCEPT ![c] = rec]
  BY DEF Check, PolicyTypeOK
<1>5. UNCHANGED <<shared, prompt, built, current, retries, reply, faults, history, passed>>
  BY DEF Check
<1> HIDE DEF hits, rec
<1>6. action' \in [Calls \X Policies -> [text : Texts, hits : Texts]]
  BY <1>1, <1>2, <1>4 DEF PolicyTypeOK
<1>7. call' \in [Calls -> CallType]
  BY <1>3, <1>4 DEF PolicyTypeOK
<1> QED
  BY <1>5, <1>6, <1>7 DEF PolicyTypeOK, history

LEMMA LeaveIsTyped ==
  ASSUME PolicyTypeOK, NEW c \in Calls, Here(c) \in Policies, Leave(c)
  PROVE  action' \in [Calls \X Policies -> [text : Texts, hits : Texts]]
<1>1. action' = action \/ action' = [action EXCEPT ![ActionOf(c, Here(c))] = NoWork]
  BY DEF Leave
<1> QED
  BY <1>1, EmptyIsText DEF PolicyTypeOK

LEMMA PassIsTyped ==
  ASSUME PolicyTypeOK, NEW c \in Calls, Pass(c)
  PROVE  passed' \in [Calls -> SUBSET Nat]
<1>1. call[c].k \in Nat
  BY SharedIsTyped DEF CallType, Positions
<1> QED
  BY <1>1 DEF Pass, PolicyTypeOK

LEMMA FailIsTyped ==
  ASSUME PolicyTypeOK, NEW c \in Calls, Fail(c)
  PROVE  PolicyTypeOK'
<1>1. call[c] \in CallType /\ Here(c) \in Policies
  BY SharedIsTyped DEF Fail, AtPolicy
<1>2. NextPolicy(call[c]) \in CallType
  BY <1>1, NextIsTyped
<1>3. /\ action' \in [Calls \X Policies -> [text : Texts, hits : Texts]]
      /\ passed' \in [Calls -> SUBSET Nat]
  BY <1>1, LeaveIsTyped, PassIsTyped DEF Fail
<1>4. /\ call' = [call EXCEPT ![c] = NextPolicy(@)] /\ faults' = faults + 1
      /\ UNCHANGED <<shared, prompt, built, current, retries, reply, history>>
  BY DEF Fail
<1>5. call' \in [Calls -> CallType]
  BY <1>2, <1>4 DEF PolicyTypeOK
<1> QED
  BY <1>3, <1>4, <1>5 DEF PolicyTypeOK, history

(* What the record of a call becomes when its action has run.               *)
Ended(c) ==
    LET p == Here(c)
        rec == [call[c] EXCEPT !.verdict = Kind[p],
                               !.pc = IF CanRetry(c) THEN "feedback" ELSE "rule"]
        work == action[ActionOf(c, p)]
        done == [rec EXCEPT !.text = Transformed(p, work),
                            !.map = Merged(@, Entries(p, work))]
    IN IF call[c].hits = {} THEN NextPolicy(call[c])
       ELSE IF Kind[p] = "transform" THEN IF CanRetry(c) THEN done ELSE NextPolicy(done)
       ELSE IF CanRetry(c) THEN rec ELSE Stop(rec, c)

LEMMA EndedIsTyped ==
  ASSUME PolicyTypeOK, NEW c \in Calls, Here(c) \in Policies
  PROVE  Ended(c) \in CallType
<1> DEFINE p == Here(c)
           rec == [call[c] EXCEPT !.verdict = Kind[p],
                                  !.pc = IF CanRetry(c) THEN "feedback" ELSE "rule"]
           work == action[ActionOf(c, p)]
           done == [rec EXCEPT !.text = Transformed(p, work),
                               !.map = Merged(@, Entries(p, work))]
<1>1. call[c] \in CallType /\ ActionOf(c, p) \in Calls \X Policies
  BY SharedIsTyped
<1>2. rec \in CallType
  BY <1>1, PolicyAssumption DEF CallType, Places, Verdicts
<1>3. work \in [text : Texts, hits : Texts]
  BY <1>1 DEF PolicyTypeOK
<1>4. Transformed(p, work) \in Texts
  BY <1>3, TransformedIsText
<1>5. Merged(rec.map, Entries(p, work)) \in Seq(Entry)
  <2>1. rec.map \in Seq(Entry)
    BY <1>2 DEF CallType, Maps
  <2> HIDE DEF rec
  <2> QED
    BY <1>3, <2>1, EntriesOfWork, MergedEntries
<1>6. done \in CallType
  <2> HIDE DEF rec, work, p
  <2> QED
    BY <1>2, <1>4, <1>5 DEF CallType, Maps
<1>7. /\ NextPolicy(call[c]) \in CallType /\ NextPolicy(done) \in CallType
      /\ Stop(rec, c) \in CallType
  <2> HIDE DEF rec, done
  <2> QED
    BY <1>1, <1>2, <1>6, NextIsTyped, StopIsTyped
<1> QED
  BY <1>2, <1>6, <1>7, Zenon DEF Ended

LEMMA ActEnds ==
  ASSUME PolicyTypeOK, NEW c \in Calls, Act(c)
  PROVE  call' = [call EXCEPT ![c] = Ended(c)]
BY Zenon DEF Act, Ended

LEMMA ActIsTyped ==
  ASSUME PolicyTypeOK, NEW c \in Calls, Act(c)
  PROVE  PolicyTypeOK'
<1>1. Here(c) \in Policies
  BY SharedIsTyped DEF Act, AtPolicy
<1>2. Ended(c) \in CallType
  BY <1>1, EndedIsTyped
<1>3. /\ action' \in [Calls \X Policies -> [text : Texts, hits : Texts]]
      /\ passed' \in [Calls -> SUBSET Nat]
  BY <1>1, LeaveIsTyped, PassIsTyped DEF Act
<1>4. call' = [call EXCEPT ![c] = Ended(c)]
  BY ActEnds
<1>5. UNCHANGED <<shared, prompt, built, current, retries, reply, faults, history>>
  BY DEF Act
<1>6. call' \in [Calls -> CallType]
  BY <1>2, <1>4 DEF PolicyTypeOK
<1> QED
  BY <1>3, <1>5, <1>6 DEF PolicyTypeOK, history

LEMMA ExplainIsTyped ==
  ASSUME PolicyTypeOK, NEW c \in Calls, Explain(c)
  PROVE  PolicyTypeOK'
<1>1. PICK fails \in 0..1 :
        LET rec == [call[c] EXCEPT !.told = @ \/ fails = 0]
        IN /\ faults' = faults + fails
           /\ call' = [call EXCEPT ![c] = IF rec.verdict = "transform" THEN NextPolicy(rec)
                                          ELSE Stop(rec, c)]
  BY DEF Explain
<1> DEFINE rec == [call[c] EXCEPT !.told = @ \/ fails = 0]
           next == IF rec.verdict = "transform" THEN NextPolicy(rec) ELSE Stop(rec, c)
<1>2. call[c] \in CallType
  BY SharedIsTyped
<1>3. (call[c].told \/ fails = 0) \in BOOLEAN
  BY <1>2, Zenon DEF CallType
<1>4. rec \in CallType
  BY <1>2, <1>3 DEF CallType
<1>5. next \in CallType
  <2> HIDE DEF rec
  <2> QED
    BY <1>4, NextIsTyped, StopIsTyped
<1>6. call' = [call EXCEPT ![c] = next] /\ faults' = faults + fails
  BY <1>1
<1>7. UNCHANGED <<shared, prompt, built, shares, reply, history, passed>>
  BY DEF Explain
<1> HIDE DEF next
<1>8. call' \in [Calls -> CallType]
  BY <1>5, <1>6 DEF PolicyTypeOK
<1> QED
  BY <1>6, <1>7, <1>8 DEF PolicyTypeOK, history, shares

LEMMA ReturnIsTyped ==
  ASSUME PolicyTypeOK, NEW c \in Calls, NEW kind \in {"raised", "message", "answer"},
         Return(c, kind)
  PROVE  /\ reply' \in [Calls -> {"none", "raised", "message", "answer"}]
         /\ call' \in [Calls -> CallType]
         /\ asked' \in [Calls -> Texts] /\ sent' \in [Calls -> Texts]
         /\ answer' \in [Calls -> Texts]
BY IdleIsTyped, EmptyIsText DEF PolicyTypeOK, Return

LEMMA RefuseIsTyped ==
  ASSUME PolicyTypeOK, NEW c \in Calls, Refuse(c) \/ Deliver(c)
  PROVE  PolicyTypeOK'
<1>1. \E kind \in {"raised", "message", "answer"} : Return(c, kind)
  BY DEF Refuse, Deliver
<1>2. UNCHANGED <<shared, prompt, built, shares, faults, passed>>
  BY DEF Refuse, Deliver
<1> QED
  BY <1>1, <1>2, ReturnIsTyped DEF PolicyTypeOK, shares

LEMMA AcceptIsTyped ==
  ASSUME PolicyTypeOK, NEW c \in Calls, Accept(c)
  PROVE  PolicyTypeOK'
<1>1. call[c] \in CallType
  BY SharedIsTyped
<1>2. call[c].text \in Texts /\ [call[c] EXCEPT !.pc = "send"] \in CallType
  BY <1>1 DEF CallType, Places
<1>3. call' = [call EXCEPT ![c] = [call[c] EXCEPT !.pc = "send"]]
  BY DEF Accept, PolicyTypeOK
<1>4. prompt' = prompt \/ prompt' = [prompt EXCEPT ![current[AgentOf(c)]] = call[c].text]
  BY DEF Accept
<1>5. UNCHANGED <<shared, built, shares, reply, faults, history, passed>>
  BY DEF Accept
<1>6. call' \in [Calls -> CallType]
  BY <1>2, <1>3 DEF PolicyTypeOK
<1>7. prompt' \in [Calls -> Texts]
  BY <1>2, <1>4 DEF PolicyTypeOK
<1> QED
  BY <1>5, <1>6, <1>7 DEF PolicyTypeOK, shares, history

(* What the model is sent, and what it says.                                *)
ToSend(c) ==
    IF built[current[AgentOf(c)]].done THEN built[current[AgentOf(c)]].text
    ELSE prompt[current[AgentOf(c)]]

LEMMA SendSends ==
  ASSUME PolicyTypeOK, NEW c \in Calls, Send(c)
  PROVE  /\ built' = [built EXCEPT ![current[AgentOf(c)]] = Built(ToSend(c))]
         /\ sent' = [sent EXCEPT ![c] = ToSend(c)]
         /\ \E said \in Answers(ToSend(c)) :
               /\ answer' = [answer EXCEPT ![c] = said]
               /\ call' = [call EXCEPT ![c] =
                     [Checking(call[c], "agent", Restored(said, call[c].map)) EXCEPT !.round = 1]]
BY Zenon DEF Send, ToSend, PolicyTypeOK

LEMMA AnswerIsText ==
  ASSUME NEW text \in Texts, NEW said \in Answers(text)
  PROVE  said \in Texts /\ text \subseteq said
BY PolicyAssumption DEF Answers, Texts

LEMMA SendIsTyped ==
  ASSUME PolicyTypeOK, NEW c \in Calls, Send(c)
  PROVE  PolicyTypeOK'
<1>1. PICK said \in Answers(ToSend(c)) :
        /\ answer' = [answer EXCEPT ![c] = said]
        /\ call' = [call EXCEPT ![c] =
              [Checking(call[c], "agent", Restored(said, call[c].map)) EXCEPT !.round = 1]]
  BY SendSends
<1>2. call[c] \in CallType /\ AgentOf(c) \in Calls /\ current[AgentOf(c)] \in Calls
  BY SharedIsTyped DEF PolicyTypeOK
<1>3. ToSend(c) \in Texts
  BY <1>2 DEF ToSend, PolicyTypeOK
<1>4. said \in Texts /\ call[c].map \in Seq(Entry)
  BY <1>2, <1>3, AnswerIsText DEF CallType, Maps
<1>5. [Checking(call[c], "agent", Restored(said, call[c].map)) EXCEPT !.round = 1] \in CallType
  BY <1>2, <1>4, RestoredIsText, CheckingIsTyped DEF Phases
<1>6. /\ built' = [built EXCEPT ![current[AgentOf(c)]] = Built(ToSend(c))]
      /\ sent' = [sent EXCEPT ![c] = ToSend(c)]
  BY SendSends
<1>7. /\ retries' = [retries EXCEPT ![AgentOf(c)] = 0]
      /\ UNCHANGED <<shared, prompt, current, action, reply, faults, asked, passed>>
  BY DEF Send
<1>8. built' \in [Calls -> [text : Texts, done : BOOLEAN]] /\ sent' \in [Calls -> Texts]
  BY <1>2, <1>3, <1>6 DEF Built, PolicyTypeOK
<1>9. call' \in [Calls -> CallType] /\ answer' \in [Calls -> Texts]
  BY <1>1, <1>4, <1>5 DEF PolicyTypeOK
<1> QED
  BY <1>2, <1>7, <1>8, <1>9 DEF PolicyTypeOK

(* A retry: what the record of a call becomes when the model answers anew.  *)
Retried(c, said) == [Checking(call[c], "agent", said) EXCEPT !.round = call[c].round + 1]

LEMMA RetryAsks ==
  ASSUME PolicyTypeOK, NEW c \in Calls, AskAgain(c)
  PROVE  \/ /\ call[c].round < Rounds
            /\ UNCHANGED <<reply, asked, sent>>
            /\ \E said \in Answers(sent[c]) :
                 /\ answer' = [answer EXCEPT ![c] = said]
                 /\ call' = [call EXCEPT ![c] = Retried(c, said)]
         \/ /\ ~(call[c].round < Rounds)
            /\ Return(c, "answer")
<1>1. CASE call[c].round < Rounds
  <2>1. PICK said \in Answers(sent[c]) :
          /\ answer' = [answer EXCEPT ![c] = said]
          /\ call' = [call EXCEPT ![c] = [Checking(@, "agent", said)
                                           EXCEPT !.round = call[c].round + 1]]
    BY <1>1 DEF AskAgain
  <2>2. call' = [call EXCEPT ![c] = Retried(c, said)]
    BY <2>1, Zenon DEF Retried
  <2> QED
    BY <1>1, <2>1, <2>2 DEF AskAgain
<1>2. CASE ~(call[c].round < Rounds)
  BY <1>2 DEF AskAgain
<1> QED
  BY <1>1, <1>2

LEMMA AskAgainIsTyped ==
  ASSUME PolicyTypeOK, NEW c \in Calls, AskAgain(c)
  PROVE  PolicyTypeOK'
<1>1. AgentOf(c) \in Calls /\ call[c] \in CallType /\ sent[c] \in Texts /\ call[c].round \in Nat
  BY SharedIsTyped DEF PolicyTypeOK, CallType
<1>2. /\ retries' = [retries EXCEPT ![AgentOf(c)] = @ + 1]
      /\ passed' = [passed EXCEPT ![c] = {}]
      /\ UNCHANGED <<shared, prompt, built, current, action, faults>>
  BY DEF AskAgain
<1>3. /\ reply' \in [Calls -> {"none", "raised", "message", "answer"}]
      /\ call' \in [Calls -> CallType]
      /\ asked' \in [Calls -> Texts] /\ sent' \in [Calls -> Texts]
      /\ answer' \in [Calls -> Texts]
  <2>1. CASE Return(c, "answer")
    BY <2>1, ReturnIsTyped
  <2>2. CASE ~Return(c, "answer")
    <3>1. PICK said \in Answers(sent[c]) :
            /\ answer' = [answer EXCEPT ![c] = said]
            /\ call' = [call EXCEPT ![c] = Retried(c, said)]
            /\ UNCHANGED <<reply, asked, sent>>
      BY <2>2, RetryAsks
    <3>2. said \in Texts /\ Retried(c, said) \in CallType
      BY <1>1, AnswerIsText, CheckingIsTyped DEF Retried, Phases
    <3> QED
      BY <3>1, <3>2 DEF PolicyTypeOK
  <2> QED
    BY <2>1, <2>2
<1>4. retries' \in [Calls -> Nat]
  <2>1. retries[AgentOf(c)] + 1 \in Nat
    BY <1>1 DEF PolicyTypeOK
  <2> QED
    BY <1>2, <2>1 DEF PolicyTypeOK
<1>5. passed' \in [Calls -> SUBSET Nat]
  BY <1>2 DEF PolicyTypeOK
<1> QED
  BY <1>2, <1>3, <1>4, <1>5 DEF PolicyTypeOK

LEMMA StepKeepsTypes == PolicyTypeOK /\ [Next]_vars => PolicyTypeOK'
<1> SUFFICES ASSUME PolicyTypeOK, [Next]_vars PROVE PolicyTypeOK'
  OBVIOUS
<1>1. CASE UNCHANGED vars
  BY <1>1 DEF vars, shares, history, PolicyTypeOK
<1>2. ASSUME NEW c \in Calls, Start(c) \/ Step(c) PROVE PolicyTypeOK'
  BY <1>2, StartIsTyped, CheckIsTyped, FailIsTyped, ActIsTyped, ExplainIsTyped, RefuseIsTyped,
     AcceptIsTyped, SendIsTyped, AskAgainIsTyped, Zenon DEF Step
<1> QED
  BY <1>1, <1>2 DEF Next

LEMMA InitIsOK == Init => PolicyTypeOK
<1> SUFFICES ASSUME Init PROVE PolicyTypeOK
  OBVIOUS
<1>1. call \in [Calls -> CallType]
  BY IdleIsTyped DEF Init
<1>2. /\ shared \in Sharings
      /\ prompt \in [Calls -> Texts]
      /\ built \in [Calls -> [text : Texts, done : BOOLEAN]]
      /\ action \in [Calls \X Policies -> [text : Texts, hits : Texts]]
      /\ asked \in [Calls -> Texts] /\ sent \in [Calls -> Texts] /\ answer \in [Calls -> Texts]
  BY EmptyIsText DEF Init, NotBuilt
<1>3. current \in [Calls -> Calls] /\ retries \in [Calls -> Nat] /\ faults \in Nat
      /\ reply \in [Calls -> {"none", "raised", "message", "answer"}]
      /\ passed \in [Calls -> SUBSET Nat]
  BY DEF Init
<1> QED
  BY <1>1, <1>2, <1>3 DEF PolicyTypeOK


(* Each step moves one call; where it moves to.                             *)
IsNext(new, old) ==
    /\ new.pc = "rule" /\ new.phase = old.phase /\ new.k = old.k + 1 /\ new.text = old.text
    /\ new.hits = {} /\ new.verdict = old.verdict /\ new.told = old.told
    /\ new.map = old.map /\ new.round = old.round

IsStopped(new, old, n) ==
    /\ new.pc = "rule" /\ new.phase = old.phase /\ new.k = n + 1 /\ new.text = old.text
    /\ new.hits = {} /\ new.verdict = old.verdict /\ new.told = old.told
    /\ new.map = old.map /\ new.round = old.round

LEMMA NextMoves ==
  ASSUME NEW rec \in CallType
  PROVE  IsNext(NextPolicy(rec), rec)
BY DEF NextPolicy, CallType, IsNext

LEMMA StopMoves ==
  ASSUME NEW rec \in CallType, NEW c
  PROVE  IsStopped(Stop(rec, c), rec, Len(Chain(c)))
BY DEF Stop, CallType, IsStopped

LEMMA StartMoves ==
  ASSUME PolicyTypeOK, NEW c \in Calls, Start(c)
  PROVE  \E text \in Prompts :
            /\ prompt' = [prompt EXCEPT ![c] = text] /\ asked'[c] = text
            /\ IsStarted(call'[c], call[c], "user", text)
<1>1. PICK text \in Prompts :
        /\ prompt' = [prompt EXCEPT ![c] = text]
        /\ asked' = [asked EXCEPT ![c] = text]
        /\ call' = [call EXCEPT ![c] = Checking(@, "user", text)]
  BY DEF Start
<1>2. call'[c] = Checking(call[c], "user", text) /\ asked'[c] = text /\ call[c] \in CallType
  BY <1>1 DEF PolicyTypeOK
<1> QED
  BY <1>1, <1>2, CheckingStarts

IsAtAction(new, old, found) ==
    /\ new.pc = "action" /\ new.phase = old.phase /\ new.k = old.k /\ new.text = old.text
    /\ new.hits = found /\ new.verdict = old.verdict /\ new.told = old.told
    /\ new.map = old.map /\ new.round = old.round

LEMMA CheckMoves ==
  ASSUME PolicyTypeOK, NEW c \in Calls, Check(c)
  PROVE  LET hits == call[c].text \cap Finds[Here(c)]
         IN /\ IsAtAction(call'[c], call[c], hits)
            /\ action' = [action EXCEPT ![ActionOf(c, Here(c))] =
                            [text |-> call[c].text, hits |-> hits]]
<1> DEFINE hits == call[c].text \cap Finds[Here(c)]
<1>1. /\ action' = [action EXCEPT ![ActionOf(c, Here(c))] = [text |-> call[c].text, hits |-> hits]]
      /\ call' = [call EXCEPT ![c].pc = "action", ![c].hits = hits]
  BY DEF Check
<1>2. call[c] \in CallType /\ call \in [Calls -> CallType]
  BY DEF PolicyTypeOK
<1> HIDE DEF hits
<1>3. IsAtAction(call'[c], call[c], hits)
  BY <1>1, <1>2 DEF CallType, IsAtAction
<1> QED
  BY <1>1, <1>3 DEF hits

LEMMA FailMoves ==
  ASSUME PolicyTypeOK, NEW c \in Calls, Fail(c)
  PROVE  /\ IsNext(call'[c], call[c])
         /\ faults' = faults + 1
<1>1. call' = [call EXCEPT ![c] = NextPolicy(@)] /\ faults' = faults + 1
  BY DEF Fail
<1>2. call'[c] = NextPolicy(call[c]) /\ call[c] \in CallType
  BY <1>1 DEF PolicyTypeOK
<1> QED
  BY <1>1, <1>2, NextMoves

(* After an action: the next policy if it found nothing; the feedback if    *)
(* retries are left; the next policy or the verdict if not.                 *)
IsReplaced(new, old, p, work) ==
    /\ new.phase = old.phase /\ new.told = old.told /\ new.round = old.round
    /\ new.verdict = "transform" /\ Kind[p] = "transform"
    /\ new.text = Transformed(p, work) /\ new.map = Merged(old.map, Entries(p, work))
    /\ \/ new.pc = "feedback" /\ new.k = old.k
       \/ new.pc = "rule" /\ new.k = old.k + 1

IsRefused(new, old, p, n) ==
    /\ new.phase = old.phase /\ new.told = old.told /\ new.round = old.round
    /\ new.verdict = Kind[p] /\ new.verdict \in {"block", "raise"}
    /\ new.text = old.text /\ new.map = old.map
    /\ \/ new.pc = "feedback" /\ new.k = old.k
       \/ new.pc = "rule" /\ new.k = n + 1

LEMMA ActMoves ==
  ASSUME PolicyTypeOK, NEW c \in Calls, Act(c)
  PROVE  \/ call[c].hits = {} /\ IsNext(call'[c], call[c])
         \/ IsReplaced(call'[c], call[c], Here(c), action[ActionOf(c, Here(c))])
         \/ IsRefused(call'[c], call[c], Here(c), Len(Chain(c)))
<1> DEFINE p == Here(c)
           rec == [call[c] EXCEPT !.verdict = Kind[p],
                                  !.pc = IF CanRetry(c) THEN "feedback" ELSE "rule"]
           work == action[ActionOf(c, p)]
           done == [rec EXCEPT !.text = Transformed(p, work),
                               !.map = Merged(@, Entries(p, work))]
<1>1. call[c] \in CallType /\ p \in Policies /\ ActionOf(c, p) \in Calls \X Policies
  BY SharedIsTyped DEF Act, AtPolicy
<1>2. call'[c] = Ended(c)
  BY ActEnds DEF PolicyTypeOK
<1>3. Kind[p] \in {"transform", "block", "raise"}
  BY <1>1, PolicyAssumption DEF Verdicts
<1>4. rec \in CallType
  BY <1>1, <1>3 DEF CallType, Places, Verdicts
<1>5. /\ rec.phase = call[c].phase /\ rec.told = call[c].told /\ rec.round = call[c].round
      /\ rec.verdict = Kind[p] /\ rec.text = call[c].text /\ rec.map = call[c].map
      /\ rec.k = call[c].k
      /\ rec.pc = IF CanRetry(c) THEN "feedback" ELSE "rule"
  BY <1>1 DEF CallType
<1>6. work \in [text : Texts, hits : Texts]
  BY <1>1 DEF PolicyTypeOK
<1>7. /\ Transformed(p, work) \in Texts /\ Merged(rec.map, Entries(p, work)) \in Maps
  <2>1. rec.map \in Seq(Entry)
    BY <1>4 DEF CallType, Maps
  <2> HIDE DEF rec, work, p
  <2> QED
    BY <1>1, <1>6, <2>1, TransformedIsText, EntriesOfWork, MergedEntries DEF Maps
<1>8. done \in CallType
  <2> HIDE DEF rec, work, p
  <2> QED
    BY <1>4, <1>7 DEF CallType
<1>9. /\ done.phase = rec.phase /\ done.told = rec.told /\ done.round = rec.round
      /\ done.verdict = rec.verdict /\ done.text = Transformed(p, work)
      /\ done.map = Merged(rec.map, Entries(p, work)) /\ done.k = rec.k /\ done.pc = rec.pc
  <2> HIDE DEF rec, work, p
  <2> QED
    BY <1>4 DEF CallType
<1>10. /\ IsNext(NextPolicy(call[c]), call[c])
       /\ IsNext(NextPolicy(done), done)
       /\ IsStopped(Stop(rec, c), rec, Len(Chain(c)))
  <2> HIDE DEF rec, done
  <2> QED
    BY <1>1, <1>4, <1>8, NextMoves, StopMoves
<1>11. call'[c] = IF call[c].hits = {} THEN NextPolicy(call[c])
                  ELSE IF Kind[p] = "transform" THEN IF CanRetry(c) THEN done ELSE NextPolicy(done)
                  ELSE IF CanRetry(c) THEN rec ELSE Stop(rec, c)
  BY <1>2 DEF Ended
<1> HIDE DEF rec, done, work, p
<1>12. CASE call[c].hits = {}
  BY <1>10, <1>11, <1>12
<1>13. CASE call[c].hits # {} /\ Kind[p] = "transform"
  <2>1. IsReplaced(call'[c], call[c], p, work)
    BY <1>5, <1>9, <1>10, <1>11, <1>13 DEF IsReplaced, IsNext
  <2> QED
    BY <2>1 DEF p, work
<1>14. CASE call[c].hits # {} /\ Kind[p] # "transform"
  <2>1. IsRefused(call'[c], call[c], p, Len(Chain(c)))
    BY <1>3, <1>5, <1>10, <1>11, <1>14 DEF IsRefused, IsStopped
  <2> QED
    BY <2>1 DEF p
<1> QED
  BY <1>12, <1>13, <1>14

IsTold(new, old, n) ==
    /\ new.phase = old.phase /\ new.round = old.round /\ new.verdict = old.verdict
    /\ new.text = old.text /\ new.map = old.map /\ new.pc = "rule"
    /\ IF old.verdict = "transform" THEN new.k = old.k + 1 ELSE new.k = n + 1

LEMMA ExplainMoves ==
  ASSUME PolicyTypeOK, NEW c \in Calls, Explain(c)
  PROVE  /\ IsTold(call'[c], call[c], Len(Chain(c)))
         /\ faults' \in {faults, faults + 1}
<1>1. PICK fails \in 0..1 :
        LET rec == [call[c] EXCEPT !.told = @ \/ fails = 0]
        IN /\ faults' = faults + fails
           /\ call' = [call EXCEPT ![c] = IF rec.verdict = "transform" THEN NextPolicy(rec)
                                          ELSE Stop(rec, c)]
  BY DEF Explain
<1> DEFINE rec == [call[c] EXCEPT !.told = @ \/ fails = 0]
<1>2. call[c] \in CallType
  BY SharedIsTyped
<1>3. (call[c].told \/ fails = 0) \in BOOLEAN
  BY <1>2, Zenon DEF CallType
<1>4. rec \in CallType
  BY <1>2, <1>3 DEF CallType
<1>5. /\ rec.phase = call[c].phase /\ rec.round = call[c].round /\ rec.verdict = call[c].verdict
      /\ rec.text = call[c].text /\ rec.map = call[c].map /\ rec.k = call[c].k
  BY <1>2 DEF CallType
<1>6. IsNext(NextPolicy(rec), rec) /\ IsStopped(Stop(rec, c), rec, Len(Chain(c)))
  <2> HIDE DEF rec
  <2> QED
    BY <1>4, NextMoves, StopMoves
<1>7. /\ call'[c] = IF rec.verdict = "transform" THEN NextPolicy(rec) ELSE Stop(rec, c)
      /\ faults' = faults + fails
  BY <1>1 DEF PolicyTypeOK
<1>8. faults' \in {faults, faults + 1}
  BY <1>7 DEF PolicyTypeOK
<1> HIDE DEF rec
<1> QED
  BY <1>5, <1>6, <1>7, <1>8 DEF IsTold, IsNext, IsStopped

LEMMA AcceptMoves ==
  ASSUME PolicyTypeOK, NEW c \in Calls, Accept(c)
  PROVE  /\ call'[c].pc = "send" /\ call'[c].phase = call[c].phase
         /\ call'[c].verdict = call[c].verdict /\ call'[c].map = call[c].map
         /\ call'[c].round = call[c].round
<1>1. call' = [call EXCEPT ![c].pc = "send"] /\ call[c] \in CallType
  BY DEF Accept, PolicyTypeOK
<1> QED
  BY <1>1 DEF PolicyTypeOK, CallType

LEMMA SendMoves ==
  ASSUME PolicyTypeOK, NEW c \in Calls, Send(c)
  PROVE  /\ sent'[c] = ToSend(c)
         /\ \E said \in Answers(ToSend(c)) :
              LET new == call'[c]
              IN /\ answer'[c] = said
                 /\ new.pc = "rule" /\ new.phase = "agent" /\ new.k = 1 /\ new.round = 1
                 /\ new.verdict = "allow" /\ new.text = Restored(said, call[c].map)
<1>1. PICK said \in Answers(ToSend(c)) :
        /\ answer' = [answer EXCEPT ![c] = said]
        /\ call' = [call EXCEPT ![c] =
              [Checking(call[c], "agent", Restored(said, call[c].map)) EXCEPT !.round = 1]]
  BY SendSends
<1> DEFINE new == Checking(call[c], "agent", Restored(said, call[c].map))
<1>2. call[c] \in CallType /\ AgentOf(c) \in Calls /\ current[AgentOf(c)] \in Calls
  BY SharedIsTyped DEF PolicyTypeOK
<1>3. ToSend(c) \in Texts
  BY <1>2 DEF ToSend, PolicyTypeOK
<1>4. said \in Texts /\ call[c].map \in Seq(Entry)
  BY <1>2, <1>3, AnswerIsText DEF CallType, Maps
<1>5. new \in CallType
  BY <1>2, <1>4, RestoredIsText, CheckingIsTyped DEF Phases
<1>6. IsStarted(new, call[c], "agent", Restored(said, call[c].map))
  BY <1>2, CheckingStarts
<1>7. call'[c] = [new EXCEPT !.round = 1] /\ answer'[c] = said
  BY <1>1 DEF PolicyTypeOK
<1>8. sent'[c] = ToSend(c)
  BY SendSends DEF PolicyTypeOK
<1> HIDE DEF new
<1>9. LET r == call'[c]
      IN /\ r.pc = new.pc /\ r.phase = new.phase /\ r.k = new.k /\ r.text = new.text
         /\ r.verdict = new.verdict /\ r.round = 1
  BY <1>5, <1>7 DEF CallType
<1> QED
  BY <1>6, <1>7, <1>8, <1>9 DEF IsStarted

LEMMA ReturnMoves ==
  ASSUME PolicyTypeOK, NEW c \in Calls, NEW kind, Return(c, kind)
  PROVE  /\ reply'[c] = kind
         /\ call'[c].pc = "done" /\ call'[c].phase = "user" /\ call'[c].verdict = "allow"
BY DEF Return, Idle, PolicyTypeOK

LEMMA RetryMoves ==
  ASSUME PolicyTypeOK, NEW c \in Calls, NEW said \in Answers(sent[c]),
         call' = [call EXCEPT ![c] = Retried(c, said)]
  PROVE  LET new == call'[c]
         IN /\ new.pc = "rule" /\ new.phase = "agent" /\ new.k = 1
            /\ new.verdict = "allow" /\ new.round = call[c].round + 1
<1> DEFINE new == Checking(call[c], "agent", said)
<1>1. call[c] \in CallType /\ call[c].round \in Nat
  BY SharedIsTyped DEF CallType
<1>2. said \in Texts
  BY AnswerIsText DEF PolicyTypeOK
<1>3. new \in CallType /\ IsStarted(new, call[c], "agent", said)
  BY <1>1, <1>2, CheckingIsTyped, CheckingStarts DEF Phases
<1>4. call'[c] = [new EXCEPT !.round = call[c].round + 1]
  BY DEF PolicyTypeOK, Retried
<1> HIDE DEF new
<1> QED
  BY <1>3, <1>4 DEF IsStarted, CallType

(* What belongs to the other calls stays as it is.                          *)
Untouched(d) ==
    /\ call'[d] = call[d] /\ reply'[d] = reply[d] /\ passed'[d] = passed[d]
    /\ asked'[d] = asked[d] /\ sent'[d] = sent[d] /\ answer'[d] = answer[d]

LEMMA OthersStay ==
  ASSUME PolicyTypeOK, NEW c \in Calls, Start(c) \/ Step(c), NEW d \in Calls \ {c}
  PROVE  Untouched(d) /\ shared' = shared
<1> USE DEF Untouched, history, shares
<1>1. CASE Start(c)
  <2>1. \E text \in Prompts : /\ asked' = [asked EXCEPT ![c] = text]
                              /\ call' = [call EXCEPT ![c] = Checking(@, "user", text)]
    BY <1>1 DEF Start
  <2>2. UNCHANGED <<shared, reply, passed, sent, answer>>
    BY <1>1 DEF Start
  <2> QED
    BY <2>1, <2>2 DEF PolicyTypeOK
<1>2. CASE Check(c)
  <2>1. \E hits : call' = [call EXCEPT ![c].pc = "action", ![c].hits = hits]
    BY <1>2 DEF Check
  <2>2. UNCHANGED <<shared, reply, passed, history>>
    BY <1>2 DEF Check
  <2> QED
    BY <2>1, <2>2 DEF PolicyTypeOK
<1>3. CASE Fail(c)
  <2>1. call' = [call EXCEPT ![c] = NextPolicy(@)] /\ Pass(c)
    BY <1>3 DEF Fail
  <2>2. UNCHANGED <<shared, reply, history>>
    BY <1>3 DEF Fail
  <2> QED
    BY <2>1, <2>2 DEF PolicyTypeOK, Pass
<1>4. CASE Act(c)
  <2>1. call' = [call EXCEPT ![c] = Ended(c)] /\ Pass(c)
    BY <1>4, ActEnds DEF Act
  <2>2. UNCHANGED <<shared, reply, history>>
    BY <1>4 DEF Act
  <2> QED
    BY <2>1, <2>2 DEF PolicyTypeOK, Pass
<1>5. CASE Explain(c)
  <2>1. \E rec : call' = [call EXCEPT ![c] = rec]
    BY <1>5 DEF Explain
  <2>2. UNCHANGED <<shared, reply, passed, history>>
    BY <1>5 DEF Explain
  <2> QED
    BY <2>1, <2>2 DEF PolicyTypeOK
<1>6. CASE Refuse(c) \/ Deliver(c)
  <2>1. \E kind : Return(c, kind)
    BY <1>6 DEF Refuse, Deliver
  <2>2. UNCHANGED <<shared, passed>>
    BY <1>6 DEF Refuse, Deliver
  <2> QED
    BY <2>1, <2>2 DEF PolicyTypeOK, Return
<1>7. CASE Accept(c)
  BY <1>7 DEF Accept, PolicyTypeOK
<1>8. CASE Send(c)
  <2>1. \E new, s, a : /\ call' = [call EXCEPT ![c] = new]
                       /\ sent' = [sent EXCEPT ![c] = s]
                       /\ answer' = [answer EXCEPT ![c] = a]
    BY <1>8, SendSends
  <2>2. UNCHANGED <<shared, reply, asked, passed>>
    BY <1>8 DEF Send
  <2> QED
    BY <2>1, <2>2 DEF PolicyTypeOK
<1>9. CASE AskAgain(c)
  <2>1. shared' = shared /\ passed' = [passed EXCEPT ![c] = {}]
    BY <1>9 DEF AskAgain
  <2>2. CASE Return(c, "answer")
    BY <2>1, <2>2 DEF PolicyTypeOK, Return
  <2>3. CASE ~Return(c, "answer")
    <3>1. PICK said \in Answers(sent[c]) :
            /\ answer' = [answer EXCEPT ![c] = said]
            /\ call' = [call EXCEPT ![c] = Retried(c, said)]
            /\ UNCHANGED <<reply, asked, sent>>
      BY <1>9, <2>3, RetryAsks
    <3> QED
      BY <2>1, <3>1 DEF PolicyTypeOK
  <2> QED
    BY <2>2, <2>3
<1> QED
  BY <1>1, <1>2, <1>3, <1>4, <1>5, <1>6, <1>7, <1>8, <1>9 DEF Step

-----------------------------------------------------------------------------
(* Where a call is in its chain of policies: it leaves the chain once one   *)
(* of them refuses.                                                         *)
Refused(rec) == rec.verdict \in {"block", "raise"}
LengthOf(rec) == IF rec.phase = "user" THEN Len(UserPolicies) ELSE Len(AgentPolicies)

WellPlaced(rec) ==
    /\ rec.pc \in {"idle", "send", "done"} => rec.phase = "user"
    /\ rec.pc = "rule" => rec.k <= LengthOf(rec) + 1
    /\ rec.pc \in {"action", "feedback"} => rec.k <= LengthOf(rec)
    /\ rec.pc = "rule" /\ Refused(rec) => rec.k = LengthOf(rec) + 1
    /\ rec.pc \in {"action", "send"} => ~Refused(rec)
    /\ rec.pc = "feedback" => rec.verdict # "allow"

InChain == \A c \in Calls : WellPlaced(call[c])

LEMMA ChainLength ==
  ASSUME PolicyTypeOK, NEW c \in Calls
  PROVE  /\ Len(Chain(c)) = LengthOf(call[c]) /\ LengthOf(call[c]) \in Nat
         /\ call[c].k \in Nat /\ call[c].k >= 1
         /\ call[c].verdict \in Verdicts /\ call[c].phase \in Phases
         /\ call[c].pc \in Places /\ call[c].round \in Nat
<1>1. call[c] \in CallType
  BY SharedIsTyped
<1>2. Len(UserPolicies) \in Nat /\ Len(AgentPolicies) \in Nat
  BY PolicyAssumption
<1> QED
  BY <1>1, <1>2 DEF CallType, Positions, Chain, LengthOf

LEMMA StepStaysInChain ==
  ASSUME PolicyTypeOK, InChain, NEW c \in Calls, Start(c) \/ Step(c)
  PROVE  WellPlaced(call'[c])
<1>1. /\ WellPlaced(call[c])
      /\ Len(Chain(c)) = LengthOf(call[c]) /\ LengthOf(call[c]) \in Nat
      /\ call[c].k \in Nat /\ call[c].k >= 1
      /\ call[c].verdict \in Verdicts
      /\ Len(UserPolicies) \in Nat /\ Len(AgentPolicies) \in Nat
  BY ChainLength, PolicyAssumption DEF InChain
<1> USE <1>1 DEF WellPlaced, Refused, LengthOf
<1>2. CASE Start(c)
  <2>1. \E text : IsStarted(call'[c], call[c], "user", text)
    BY <1>2, StartMoves
  <2> QED
    BY <2>1 DEF IsStarted
<1>3. CASE Check(c)
  <2>1. call[c].pc = "rule" /\ call[c].k <= LengthOf(call[c])
    BY <1>3 DEF Check, AtPolicy
  <2>2. \E hits : IsAtAction(call'[c], call[c], hits)
    BY <1>3, CheckMoves
  <2> QED
    BY <2>1, <2>2 DEF IsAtAction
<1>4. CASE Fail(c)
  <2>1. call[c].pc \in {"rule", "action"} /\ call[c].k <= LengthOf(call[c])
    BY <1>4 DEF Fail, AtPolicy
  <2>2. IsNext(call'[c], call[c])
    BY <1>4, FailMoves
  <2> QED
    BY <2>1, <2>2 DEF IsNext
<1>5. CASE Act(c)
  <2>1. call[c].k <= LengthOf(call[c]) /\ call[c].pc = "action"
    BY <1>5 DEF Act, AtPolicy
  <2>2. CASE IsNext(call'[c], call[c])
    BY <2>1, <2>2 DEF IsNext
  <2>3. CASE IsReplaced(call'[c], call[c], Here(c), action[ActionOf(c, Here(c))])
    BY <2>1, <2>3 DEF IsReplaced
  <2>4. CASE IsRefused(call'[c], call[c], Here(c), Len(Chain(c)))
    BY <2>1, <2>4 DEF IsRefused
  <2> QED
    BY <1>5, <2>2, <2>3, <2>4, ActMoves
<1>6. CASE Explain(c)
  <2>1. call[c].pc = "feedback" /\ call[c].k <= LengthOf(call[c])
    BY <1>6 DEF Explain, AtPolicy
  <2>2. IsTold(call'[c], call[c], Len(Chain(c)))
    BY <1>6, ExplainMoves
  <2> QED
    BY <2>1, <2>2 DEF IsTold, Verdicts
<1>7. CASE Refuse(c) \/ Deliver(c)
  <2>1. \E kind : Return(c, kind)
    BY <1>7 DEF Refuse, Deliver
  <2> QED
    BY <2>1, ReturnMoves
<1>8. CASE Accept(c)
  BY <1>8, AcceptMoves DEF Accept, AtVerdict, Refusing
<1>9. CASE Send(c)
  BY <1>9, SendMoves
<1>10. CASE AskAgain(c)
  <2>1. CASE Return(c, "answer")
    BY <2>1, ReturnMoves
  <2>2. CASE ~Return(c, "answer")
    BY <1>10, <2>2, RetryAsks, RetryMoves
  <2> QED
    BY <2>1, <2>2
<1> QED
  BY <1>2, <1>3, <1>4, <1>5, <1>6, <1>7, <1>8, <1>9, <1>10 DEF Step

ChainInv == PolicyTypeOK /\ InChain

LEMMA NextStaysInChain == ChainInv /\ [Next]_vars => ChainInv'
<1> SUFFICES ASSUME ChainInv, [Next]_vars PROVE InChain'
  BY StepKeepsTypes DEF ChainInv
<1>1. CASE UNCHANGED vars
  BY <1>1 DEF vars, ChainInv, InChain
<1>2. ASSUME NEW c \in Calls, Start(c) \/ Step(c) PROVE InChain'
  <2> SUFFICES ASSUME NEW d \in Calls PROVE WellPlaced(call'[d])
    BY DEF InChain, WellPlaced, Refused, LengthOf
  <2>1. CASE d = c
    BY <1>2, <2>1, StepStaysInChain DEF ChainInv
  <2>2. CASE d # c
    BY <1>2, <2>2, OthersStay DEF Untouched, ChainInv, InChain
  <2> QED
    BY <2>1, <2>2
<1> QED
  BY <1>1, <1>2 DEF Next

(* What the agent's policies passed, and the rounds of a call whose count   *)
(* of retries is its own.                                                   *)
Passing(c) ==
    /\ call[c].phase = "agent" =>
         /\ call[c].round = retries[c] + 1
         /\ call[c].pc # "feedback" /\ ~Refused(call[c]) => passed[c] = 1..(call[c].k - 1)
         /\ call[c].pc = "feedback" => passed[c] = 1..call[c].k
    /\ call[c].phase = "user" /\ call[c].pc # "done" => passed[c] = {}
    /\ reply[c] # "none" => call[c].pc = "done"
    /\ reply[c] = "answer" => passed[c] = 1..Len(AgentPolicies)

PassInv == "agent" \notin shared => \A c \in Calls : Passing(c)

LEMMA StepKeepsPassing ==
  ASSUME ChainInv, PassInv, "agent" \notin shared, NEW c \in Calls, Start(c) \/ Step(c)
  PROVE  Passing(c)'
<1>1. /\ Passing(c) /\ WellPlaced(call[c])
      /\ Len(Chain(c)) = LengthOf(call[c]) /\ LengthOf(call[c]) \in Nat
      /\ call[c].k \in Nat /\ call[c].k >= 1 /\ call[c].round \in Nat
      /\ call[c].phase \in {"user", "agent"}
      /\ AgentOf(c) = c /\ retries \in [Calls -> Nat] /\ retries[c] \in Nat
      /\ passed \in [Calls -> SUBSET Nat] /\ passed[c] \in SUBSET Nat
      /\ reply \in [Calls -> {"none", "raised", "message", "answer"}]
      /\ PolicyTypeOK
  BY ChainLength DEF ChainInv, PassInv, InChain, AgentOf, PolicyTypeOK, Phases
<1> USE <1>1 DEF Passing, Refused
<1>2. CASE Start(c)
  <2>1. \E text : IsStarted(call'[c], call[c], "user", text)
    BY <1>2, StartMoves
  <2>2. UNCHANGED <<passed, retries, reply>> /\ call[c].pc = "idle"
    BY <1>2 DEF Start
  <2> QED
    BY <2>1, <2>2 DEF IsStarted, WellPlaced
<1>3. CASE Check(c)
  <2>1. UNCHANGED <<passed, retries, reply>> /\ AtPolicy(c, "rule")
    BY <1>3 DEF Check
  <2>2. ~Refused(call[c])
    BY <2>1 DEF AtPolicy, WellPlaced
  <2>3. \E hits : IsAtAction(call'[c], call[c], hits)
    BY <1>3, CheckMoves
  <2> QED
    BY <2>1, <2>2, <2>3 DEF IsAtAction, AtPolicy
<1>4. CASE Fail(c) \/ Act(c)
  <2>1. /\ UNCHANGED <<retries, reply>> /\ Pass(c)
        /\ call[c].pc \in {"rule", "action"} /\ call[c].k <= LengthOf(call[c])
    BY <1>4 DEF Fail, Act, AtPolicy
  <2>2. ~Refused(call[c])
    BY <2>1 DEF WellPlaced
  <2>3. call[c].phase = "agent" => passed'[c] = 1..call[c].k
    <3>1. 1..(call[c].k - 1) \cup {call[c].k} = 1..call[c].k
      OBVIOUS
    <3> QED
      BY <2>1, <2>2, <3>1 DEF Pass
  <2>4. call[c].phase = "user" => passed'[c] = {}
    BY <2>1 DEF Pass
  <2>5. reply'[c] = "none"
    BY <2>1
  <2>6. CASE IsNext(call'[c], call[c])
    BY <2>1, <2>3, <2>4, <2>5, <2>6 DEF IsNext
  <2>7. CASE IsReplaced(call'[c], call[c], Here(c), action[ActionOf(c, Here(c))])
    BY <2>1, <2>3, <2>4, <2>5, <2>7 DEF IsReplaced
  <2>8. CASE IsRefused(call'[c], call[c], Here(c), Len(Chain(c)))
    BY <2>1, <2>3, <2>4, <2>5, <2>8 DEF IsRefused
  <2> QED
    BY <1>4, <2>6, <2>7, <2>8, FailMoves, ActMoves
<1>5. CASE Explain(c)
  <2>1. UNCHANGED <<passed, retries, reply>> /\ call[c].pc = "feedback"
    BY <1>5 DEF Explain, AtPolicy, shares
  <2>2. call[c].verdict \in {"transform", "block", "raise"}
    BY <2>1, ChainLength DEF WellPlaced, Verdicts
  <2>3. IsTold(call'[c], call[c], Len(Chain(c)))
    BY <1>5, ExplainMoves
  <2> QED
    BY <2>1, <2>2, <2>3 DEF IsTold
<1>6. CASE Refuse(c)
  <2>1. \E kind \in {"raised", "message"} : Return(c, kind)
    BY <1>6 DEF Refuse
  <2> QED
    BY <2>1, ReturnMoves
<1>7. CASE Accept(c)
  <2>1. UNCHANGED <<passed, retries, reply>> /\ call[c].pc = "rule" /\ call[c].phase = "user"
    BY <1>7 DEF Accept, AtVerdict, shares
  <2> QED
    BY <1>7, <2>1, AcceptMoves
<1>8. CASE Send(c)
  <2>1. /\ retries' = [retries EXCEPT ![c] = 0] /\ UNCHANGED <<reply, passed>>
        /\ call[c].pc = "send"
    BY <1>8 DEF Send
  <2>2. passed'[c] = {} /\ retries'[c] = 0 /\ reply'[c] = "none"
    BY <2>1 DEF WellPlaced
  <2>3. LET new == call'[c]
        IN new.pc = "rule" /\ new.phase = "agent" /\ new.k = 1 /\ new.round = 1
    BY <1>8, SendMoves
  <2> QED
    BY <2>2, <2>3
<1>9. CASE Deliver(c)
  <2>1. /\ Return(c, "answer") /\ UNCHANGED passed
        /\ call[c].pc = "rule" /\ call[c].phase = "agent" /\ call[c].k > LengthOf(call[c])
        /\ ~Refused(call[c])
    BY <1>9 DEF Deliver, AtVerdict, Refusing
  <2>2. passed'[c] = 1..Len(AgentPolicies)
    <3>1. call[c].k - 1 = Len(AgentPolicies)
      BY <2>1 DEF WellPlaced, LengthOf
    <3> QED
      BY <2>1, <3>1
  <2> QED
    BY <2>1, <2>2, ReturnMoves
<1>10. CASE AskAgain(c)
  <2>1. /\ call[c].pc = "rule" /\ call[c].phase = "agent" /\ retries[c] < LoopCount
        /\ retries' = [retries EXCEPT ![c] = @ + 1]
        /\ passed' = [passed EXCEPT ![c] = {}]
    BY <1>10 DEF AskAgain, AtVerdict, AsksForRetry, CanRetry
  <2>2. call[c].round < Rounds
    BY <2>1, PolicyAssumption DEF Rounds
  <2>3. PICK said \in Answers(sent[c]) :
          /\ call' = [call EXCEPT ![c] = Retried(c, said)]
          /\ UNCHANGED <<reply, asked, sent>>
    BY <1>10, <2>2, RetryAsks
  <2>4. LET new == call'[c]
        IN new.pc = "rule" /\ new.phase = "agent" /\ new.k = 1 /\ new.round = call[c].round + 1
    BY <2>3, RetryMoves
  <2>5. passed'[c] = {} /\ retries'[c] = retries[c] + 1 /\ reply'[c] = "none"
    BY <2>1, <2>3
  <2> QED
    BY <2>1, <2>4, <2>5
<1> QED
  BY <1>2, <1>3, <1>4, <1>5, <1>6, <1>7, <1>8, <1>9, <1>10 DEF Step

LEMMA RetriesStay ==
  ASSUME PolicyTypeOK, "agent" \notin shared, NEW c \in Calls, Start(c) \/ Step(c),
         NEW d \in Calls \ {c}
  PROVE  retries'[d] = retries[d]
<1>1. AgentOf(c) = c
  BY DEF AgentOf
<1>2. \/ UNCHANGED retries
      \/ retries' = [retries EXCEPT ![c] = 0] \/ retries' = [retries EXCEPT ![c] = @ + 1]
  BY <1>1, Zenon
     DEF Start, Step, Check, Fail, Act, Explain, Refuse, Accept, Send, Deliver, AskAgain, shares
<1> QED
  BY <1>2 DEF PolicyTypeOK

LEMMA NextKeepsPassing == ChainInv /\ PassInv /\ [Next]_vars => PassInv'
<1> SUFFICES ASSUME ChainInv, PassInv, [Next]_vars, "agent" \notin shared', NEW d \in Calls
             PROVE  Passing(d)'
  BY DEF PassInv
<1>1. CASE UNCHANGED vars
  BY <1>1 DEF vars, shares, PassInv, Passing, Refused
<1>2. ASSUME NEW c \in Calls, Start(c) \/ Step(c) PROVE Passing(d)'
  <2>1. CASE d = c
    <3>1. shared' = shared
      BY <1>2, Zenon
         DEF Start, Step, Check, Fail, Act, Explain, Refuse, Accept, Send, Deliver, AskAgain
    <3> QED
      BY <1>2, <2>1, <3>1, StepKeepsPassing
  <2>2. CASE d # c
    <3>1. Untouched(d) /\ shared' = shared
      BY <1>2, <2>2, OthersStay DEF ChainInv
    <3>2. retries'[d] = retries[d]
      BY <1>2, <2>2, <3>1, RetriesStay DEF ChainInv
    <3>3. Passing(d)
      BY <3>1 DEF PassInv
    <3> QED
      BY <3>1, <3>2, <3>3 DEF Untouched, Passing, Refused
  <2> QED
    BY <2>1, <2>2
<1> QED
  BY <1>1, <1>2 DEF Next

LEMMA InitPasses == Init => ChainInv /\ PassInv
<1> SUFFICES ASSUME Init PROVE InChain /\ PassInv
  BY InitIsOK DEF ChainInv
<1>1. \A c \in Calls : call[c] = Idle /\ passed[c] = {} /\ reply[c] = "none"
  BY DEF Init
<1> QED
  BY <1>1 DEF InChain, PassInv, WellPlaced, Passing, Refused, LengthOf, Idle

LEMMA PassesAlways == Spec => [](ChainInv /\ PassInv)
<1>1. ChainInv /\ PassInv /\ [Next]_vars => (ChainInv /\ PassInv)'
  BY NextStaysInChain, NextKeepsPassing
<1> QED
  BY InitPasses, <1>1, PTL DEF Spec

(* Every variable keeps its type, for any calls, policies and words.        *)
THEOREM PolicyTypesCorrect == Spec => []PolicyTypeOK
<1>1. ChainInv /\ PassInv => PolicyTypeOK
  BY DEF ChainInv
<1> QED
  BY PassesAlways, <1>1, PTL

(* Unless calls share an Agent, the answer that a call returns was checked  *)
(* by every agent policy, or the policy failed to: no feedback, retry or    *)
(* last round lets one through unchecked.                                   *)
THEOREM AnswersChecked == Spec => []AnswersAreChecked
<1>1. ChainInv /\ PassInv => AnswersAreChecked
  <2>1. DOMAIN AgentPolicies = 1..Len(AgentPolicies)
    BY PolicyAssumption
  <2> QED
    BY <2>1 DEF PassInv, Passing, AnswersAreChecked, ReturnedIsChecked
<1> QED
  BY PassesAlways, <1>1, PTL

-----------------------------------------------------------------------------
(* A call that shares nothing, when no policy failed: what its policies     *)
(* made of its prompt so far, and what its map tells of the words of it.    *)
PolicyOf(rec) == (IF rec.phase = "user" THEN UserPolicies ELSE AgentPolicies)[rec.k]
InUserChain(rec) == rec.phase = "user" /\ rec.pc \in {"rule", "action", "feedback"}
Done(rec) == IF rec.pc = "feedback" THEN rec.k ELSE rec.k - 1
All == Len(UserPolicies)

Asking(c) ==
    /\ current[c] = c
    /\ call[c].pc \notin {"idle", "done"} => asked[c] \in Prompts
    /\ call[c].phase = "user" /\ call[c].pc # "done" => ~built[c].done
    /\ InUserChain(call[c]) =>
         /\ prompt[c] = asked[c]
         /\ call[c].verdict = "allow" => call[c].text = asked[c]
         /\ ~Refused(call[c]) => call[c].text = After(Done(call[c]), asked[c])
    /\ call[c].pc = "action" =>
         /\ action[<<c, PolicyOf(call[c])>>] = [text |-> call[c].text, hits |-> call[c].hits]
         /\ call[c].hits = call[c].text \cap Finds[PolicyOf(call[c])]
    /\ call[c].pc = "send" => prompt[c] = After(All, asked[c])
    /\ call[c].phase = "agent" => sent[c] = After(All, asked[c])

ComesBack(c) ==
    (call[c].round = 1 /\ call[c].phase = "agent" /\ call[c].k = 1 /\ call[c].pc = "rule") =>
        call[c].text = (answer[c] \ sent[c])
                         \cup {w \in asked[c] : Processed({w}) \subseteq answer[c]}

Telling(c) ==
    /\ InUserChain(call[c]) /\ ~Refused(call[c]) =>
         TellsOf(Done(call[c]), ToSet(call[c].map), asked[c])
    /\ call[c].pc = "send" => TellsOf(All, ToSet(call[c].map), asked[c])
    /\ ComesBack(c)

AskInv ==
    shared = {} /\ faults = 0 =>
        \A c \in Calls : Asking(c) /\ (PlaceholdersTell => Telling(c))

(* The other calls of a program whose calls share nothing.                  *)
LEMMA OthersKeepTheirs ==
  ASSUME PolicyTypeOK, shared = {}, NEW c \in Calls, current[c] = c, Start(c) \/ Step(c),
         NEW d \in Calls \ {c}
  PROVE  /\ current'[d] = current[d] /\ prompt'[d] = prompt[d] /\ built'[d] = built[d]
         /\ \A p \in Policies : action'[<<d, p>>] = action[<<d, p>>]
<1>1. AgentOf(c) = c /\ \A p : ActionOf(c, p) = <<c, p>>
  BY DEF AgentOf, ActionOf
<1>2. /\ current \in [Calls -> Calls] /\ prompt \in [Calls -> Texts] /\ DOMAIN built = Calls
      /\ action \in [Calls \X Policies -> [text : Texts, hits : Texts]]
  BY DEF PolicyTypeOK
<1>3. CASE Start(c)
  <2>1. /\ current' = [current EXCEPT ![c] = c] /\ UNCHANGED <<built, action>>
        /\ \E text : prompt' = [prompt EXCEPT ![c] = text]
    BY <1>1, <1>3 DEF Start
  <2> QED
    BY <1>2, <2>1
<1>4. CASE Check(c)
  <2>1. /\ \E w : action' = [action EXCEPT ![<<c, Here(c)>>] = w]
        /\ UNCHANGED <<current, prompt, built>>
    BY <1>1, <1>4 DEF Check
  <2> QED
    BY <1>2, <2>1
<1>5. CASE Fail(c) \/ Act(c)
  <2>1. Leave(c) /\ UNCHANGED <<current, prompt, built>>
    BY <1>5 DEF Fail, Act
  <2>2. action' = action \/ action' = [action EXCEPT ![<<c, Here(c)>>] = NoWork]
    BY <1>1, <2>1 DEF Leave
  <2> QED
    BY <1>2, <2>1, <2>2
<1>6. CASE Explain(c) \/ Refuse(c) \/ Deliver(c) \/ AskAgain(c)
  <2>1. UNCHANGED <<current, prompt, built, action>>
    BY <1>6 DEF Explain, Refuse, Deliver, AskAgain, shares
  <2> QED
    BY <2>1
<1>7. CASE Accept(c)
  <2>1. /\ prompt' = prompt \/ prompt' = [prompt EXCEPT ![c] = call[c].text]
        /\ UNCHANGED <<current, built, action>>
    BY <1>1, <1>7 DEF Accept, shares
  <2> QED
    BY <1>2, <2>1
<1>8. CASE Send(c)
  <2>1. /\ built' = [built EXCEPT ![c] = Built(ToSend(c))]
        /\ UNCHANGED <<current, prompt, action>>
    BY <1>1, <1>8, SendSends DEF Send
  <2> QED
    BY <1>2, <2>1
<1> QED
  BY <1>3, <1>4, <1>5, <1>6, <1>7, <1>8 DEF Step

LEMMA FaultsCount ==
  ASSUME PolicyTypeOK, [Next]_vars, faults' = 0
  PROVE  faults = 0 /\ shared' = shared
<1>1. faults \in Nat
  BY DEF PolicyTypeOK
<1>2. ASSUME NEW c \in Calls, Start(c) \/ Step(c)
      PROVE  faults' \in {faults, faults + 1} /\ shared' = shared
  <2>1. CASE Fail(c)
    BY <2>1 DEF Fail
  <2>2. CASE Explain(c)
    BY <2>2, ExplainMoves DEF Explain
  <2>3. CASE ~Fail(c) /\ ~Explain(c)
    <3>1. UNCHANGED <<faults, shared>>
      BY <1>2, <2>3, Zenon
         DEF Start, Step, Check, Act, Refuse, Accept, Send, Deliver, AskAgain
    <3> QED
      BY <3>1
  <2> QED
    BY <2>1, <2>2, <2>3
<1> QED
  BY <1>1, <1>2 DEF Next, vars

(* The steps of a call by itself.                                           *)
LEMMA AskingStarts ==
  ASSUME ChainInv, shared = {}, NEW c \in Calls, Asking(c), Start(c)
  PROVE  Asking(c)' /\ Telling(c)'
<1>1. PICK text \in Prompts :
        /\ prompt' = [prompt EXCEPT ![c] = text] /\ asked'[c] = text
        /\ IsStarted(call'[c], call[c], "user", text)
  BY StartMoves DEF ChainInv
<1>2. /\ current' = [current EXCEPT ![c] = c] /\ UNCHANGED built /\ call[c].pc = "idle"
  BY DEF Start, AgentOf
<1>3. call[c].phase = "user"
  BY <1>2 DEF ChainInv, InChain, WellPlaced
<1>4. current'[c] = c /\ prompt'[c] = text /\ ~built'[c].done
  BY <1>1, <1>2, <1>3 DEF Asking, ChainInv, PolicyTypeOK
<1>5. text \in Texts /\ After(0, text) = text
  BY PolicyAssumption, AfterSteps
<1>6. Done(call'[c]) = 0 /\ ToSet(call'[c].map) = {}
  BY <1>1 DEF Done, IsStarted, ToSet
<1>7. Asking(c)'
  BY <1>1, <1>4, <1>5, <1>6 DEF Asking, IsStarted, InUserChain
<1>8. TellsOf(0, {}, text)
  BY <1>5, TellsAtStart
<1>9. Telling(c)'
  BY <1>1, <1>6, <1>8 DEF Telling, ComesBack, IsStarted, InUserChain
<1> QED
  BY <1>7, <1>9

LEMMA AskingChecks ==
  ASSUME ChainInv, shared = {}, NEW c \in Calls, Asking(c), Check(c)
  PROVE  Asking(c)' /\ (Telling(c) => Telling(c)')
<1> DEFINE hits == call[c].text \cap Finds[Here(c)]
<1>1. /\ IsAtAction(call'[c], call[c], hits)
      /\ action' = [action EXCEPT ![<<c, Here(c)>>] = [text |-> call[c].text, hits |-> hits]]
  BY CheckMoves DEF ChainInv, ActionOf
<1>2. /\ Here(c) = PolicyOf(call[c]) /\ Here(c) \in Policies /\ call[c].pc = "rule"
  BY SharedIsTyped DEF Check, AtPolicy, Here, Chain, PolicyOf, ChainInv
<1>3. UNCHANGED <<current, built, prompt, asked, sent, answer>>
  BY DEF Check, history
<1>4. PolicyOf(call'[c]) = PolicyOf(call[c]) /\ Done(call'[c]) = Done(call[c])
  BY <1>1, <1>2 DEF PolicyOf, Done, IsAtAction
<1>5. action'[<<c, Here(c)>>] = [text |-> call[c].text, hits |-> hits]
  BY <1>1, <1>2 DEF ChainInv, PolicyTypeOK
<1> HIDE DEF hits
<1>6. Asking(c)'
  <2>1. hits = call[c].text \cap Finds[PolicyOf(call[c])]
    BY <1>2 DEF hits
  <2> QED
    BY <1>1, <1>2, <1>3, <1>4, <1>5, <2>1 DEF Asking, IsAtAction, InUserChain, Refused
<1>7. Telling(c) => Telling(c)'
  BY <1>1, <1>2, <1>3, <1>4 DEF Telling, ComesBack, IsAtAction, InUserChain, Refused
<1> QED
  BY <1>6, <1>7

LEMMA AskingActs ==
  ASSUME ChainInv, shared = {}, NEW c \in Calls, Asking(c), Act(c)
  PROVE  Asking(c)' /\ (PlaceholdersTell /\ Telling(c) => Telling(c)')
<1> DEFINE p == PolicyOf(call[c])
           k == call[c].k
           work == action[<<c, p>>]
<1>1. /\ Here(c) = p /\ ActionOf(c, p) = <<c, p>> /\ p \in Policies /\ call[c].pc = "action"
      /\ k \in Nat /\ k >= 1 /\ k <= LengthOf(call[c]) /\ LengthOf(call[c]) \in Nat
      /\ Len(Chain(c)) = LengthOf(call[c])
      /\ call[c].map \in Seq(Entry) /\ call[c].text \in Texts
      /\ ~Refused(call[c]) /\ call[c].phase \in {"user", "agent"}
  BY SharedIsTyped, ChainLength
     DEF Act, AtPolicy, Here, Chain, PolicyOf, ChainInv, ActionOf, CallType, Maps, Phases,
         InChain, WellPlaced
<1>2. UNCHANGED <<current, built, prompt, asked, sent, answer>>
  BY DEF Act, history
<1>3. /\ work = [text |-> call[c].text, hits |-> call[c].hits]
      /\ call[c].hits = call[c].text \cap Finds[p]
      /\ work \in [text : Texts, hits : Texts] /\ asked[c] \in Prompts
  BY <1>1 DEF Asking, ChainInv, PolicyTypeOK
<1>4. \/ call[c].hits = {} /\ IsNext(call'[c], call[c])
      \/ IsReplaced(call'[c], call[c], p, work)
      \/ IsRefused(call'[c], call[c], p, LengthOf(call[c]))
  BY <1>1, ActMoves DEF ChainInv
<1>5. call'[c].phase = call[c].phase /\ call'[c].pc \in {"rule", "feedback"}
  BY <1>4 DEF IsNext, IsReplaced, IsRefused
<1> HIDE DEF work
<1>6. CASE call[c].phase = "agent"
  <2>1. ~(call'[c].k = 1 /\ call'[c].pc = "rule")
    BY <1>1, <1>4 DEF IsNext, IsReplaced, IsRefused
  <2>2. Asking(c)'
    BY <1>2, <1>3, <1>5, <1>6, <1>1 DEF Asking, InUserChain
  <2> QED
    BY <1>5, <1>6, <2>1, <2>2 DEF Telling, ComesBack, InUserChain
<1>7. CASE call[c].phase = "user"
  <2>1. /\ k \in DOMAIN UserPolicies /\ p = UserPolicies[k] /\ k - 1 = Done(call[c])
    BY <1>1, <1>7, PolicyAssumption DEF LengthOf, PolicyOf, Done
  <2>2. /\ call[c].text = After(k - 1, asked[c]) /\ prompt[c] = asked[c]
        /\ call[c].verdict = "allow" => call[c].text = asked[c]
        /\ asked[c] \in Texts /\ asked[c] \in Prompts
    BY <1>1, <1>3, <1>7, <2>1, PolicyAssumption DEF Asking, InUserChain
  <2>3. Telling(c) => TellsOf(k - 1, ToSet(call[c].map), asked[c])
    BY <1>1, <1>7, <2>1 DEF Telling, InUserChain
  <2>4. ~built[c].done /\ current[c] = c
    BY <1>1, <1>7 DEF Asking
  <2> HIDE DEF p, k
  <2>5. CASE call[c].hits = {} /\ IsNext(call'[c], call[c])
    <3>1. After(k - 1, asked[c]) \cap Finds[UserPolicies[k]] = {}
      BY <1>3, <2>1, <2>2, <2>5
    <3>2. /\ After(k, asked[c]) = After(k - 1, asked[c])
          /\ TellsOf(k - 1, ToSet(call[c].map), asked[c]) =>
               TellsOf(k, ToSet(call[c].map), asked[c])
      BY <2>1, <2>2, <3>1, NothingFound
    <3>3. Done(call'[c]) = k
      BY <1>1, <2>5 DEF Done, IsNext, k
    <3>4. Asking(c)'
      BY <1>2, <1>7, <2>2, <2>4, <2>5, <3>2, <3>3 DEF Asking, IsNext, InUserChain, Refused
    <3>5. Telling(c) => Telling(c)'
      BY <1>2, <1>7, <2>3, <2>5, <3>2, <3>3 DEF Telling, ComesBack, IsNext, InUserChain
    <3> QED
      BY <3>4, <3>5
  <2>6. CASE IsReplaced(call'[c], call[c], p, work)
    <3>1. Transformed(p, work) = Applied(p, call[c].text)
      BY <1>3 DEF Transformed, Applied
    <3>2. After(k, asked[c]) = Applied(p, After(k - 1, asked[c]))
      BY <2>1, <2>2, AfterSteps
    <3>3. Done(call'[c]) = k /\ call'[c].text = After(k, asked[c])
      BY <1>1, <2>2, <2>6, <3>1, <3>2 DEF Done, IsReplaced, k
    <3>4. Asking(c)'
      BY <1>2, <1>3, <1>7, <2>2, <2>4, <2>6, <3>3 DEF Asking, IsReplaced, InUserChain, Refused
    <3>5. ToSet(call'[c].map) = ToSet(call[c].map) \cup EntriesOf(p, call[c].hits)
      <4>1. /\ Entries(p, work) \in Seq(Entry)
            /\ ToSet(Entries(p, work)) = EntriesOf(p, work.hits)
        BY <1>1, <1>3, EntriesOfWork
      <4>2. work.hits = call[c].hits
        BY <1>3
      <4> QED
        BY <1>1, <2>6, <4>1, <4>2, MergedEntries DEF IsReplaced
    <3>6. ASSUME PlaceholdersTell, Telling(c)
          PROVE  TellsOf(k, ToSet(call'[c].map), asked[c])
      <4>1. ToSet(call[c].map) \in SUBSET Entry
        BY <1>1 DEF ToSet
      <4>2. Kind[UserPolicies[k]] = "transform"
        BY <2>1, <2>6 DEF IsReplaced
      <4>3. call[c].hits = After(k - 1, asked[c]) \cap Finds[UserPolicies[k]]
        BY <1>3, <2>1, <2>2
      <4>4. TellsOf(k - 1, ToSet(call[c].map), asked[c])
        BY <2>3, <3>6
      <4>5. TellsOf(k, ToSet(call[c].map) \cup EntriesOf(UserPolicies[k], call[c].hits), asked[c])
        BY <2>1, <2>2, <3>6, <4>1, <4>2, <4>3, <4>4, WordsReplaced
      <4> QED
        BY <2>1, <3>5, <4>5
    <3>7. PlaceholdersTell /\ Telling(c) => Telling(c)'
      BY <1>2, <1>7, <2>6, <3>3, <3>6 DEF Telling, ComesBack, IsReplaced, InUserChain
    <3> QED
      BY <3>4, <3>7
  <2>7. CASE IsRefused(call'[c], call[c], p, LengthOf(call[c]))
    <3>1. Asking(c)'
      BY <1>2, <1>3, <1>7, <2>2, <2>4, <2>7 DEF Asking, IsRefused, InUserChain, Refused
    <3>2. Telling(c)'
      BY <1>7, <2>7 DEF Telling, ComesBack, IsRefused, InUserChain, Refused
    <3> QED
      BY <3>1, <3>2
  <2> QED
    BY <1>4, <2>5, <2>6, <2>7
<1> QED
  BY <1>1, <1>6, <1>7

LEMMA AskingExplains ==
  ASSUME ChainInv, NEW c \in Calls, Asking(c), Explain(c)
  PROVE  Asking(c)' /\ (Telling(c) => Telling(c)')
<1>1. /\ IsTold(call'[c], call[c], LengthOf(call[c])) /\ call[c].pc = "feedback"
      /\ call[c].verdict \in {"transform", "block", "raise"}
      /\ call[c].k \in Nat /\ call[c].k >= 1 /\ call[c].k <= LengthOf(call[c])
      /\ LengthOf(call[c]) \in Nat
  BY ExplainMoves, ChainLength
     DEF Explain, AtPolicy, ChainInv, InChain, WellPlaced, Verdicts
<1>2. UNCHANGED <<current, built, prompt, asked, sent, answer>>
  BY DEF Explain, history, shares
<1>3. ~Refused(call[c]) => Done(call'[c]) = Done(call[c]) /\ Done(call[c]) = call[c].k
  BY <1>1 DEF Done, IsTold, Refused
<1>4. ~(call'[c].k = 1)
  BY <1>1 DEF IsTold
<1>5. Asking(c)'
  BY <1>1, <1>2, <1>3 DEF Asking, IsTold, InUserChain, Refused
<1>6. Telling(c) => Telling(c)'
  BY <1>1, <1>2, <1>3, <1>4 DEF Telling, ComesBack, IsTold, InUserChain, Refused
<1> QED
  BY <1>5, <1>6

LEMMA AskingAccepts ==
  ASSUME ChainInv, shared = {}, NEW c \in Calls, Asking(c), Accept(c)
  PROVE  Asking(c)' /\ (Telling(c) => Telling(c)')
<1>1. /\ call[c].pc = "rule" /\ call[c].phase = "user" /\ ~Refused(call[c])
      /\ call[c].k = All + 1 /\ All \in Nat /\ call[c].verdict \in {"allow", "transform"}
      /\ AgentOf(c) = c
  BY ChainLength
     DEF Accept, AtVerdict, Refusing, Refused, ChainInv, InChain, WellPlaced, LengthOf, All,
         Verdicts, AgentOf
<1>2. /\ prompt' = IF call[c].verdict = "transform"
                   THEN [prompt EXCEPT ![current[c]] = call[c].text] ELSE prompt
      /\ UNCHANGED <<current, built, asked, sent, answer>>
  BY <1>1 DEF Accept, history, shares
<1>3. /\ current[c] = c /\ prompt[c] = asked[c] /\ ~built[c].done /\ asked[c] \in Prompts
      /\ call[c].text = After(All, asked[c])
      /\ call[c].verdict = "allow" => call[c].text = asked[c]
  BY <1>1 DEF Asking, InUserChain, Done
<1>4. prompt'[c] = After(All, asked[c])
  BY <1>1, <1>2, <1>3 DEF ChainInv, PolicyTypeOK
<1>5. /\ call'[c].pc = "send" /\ call'[c].phase = "user" /\ call'[c].map = call[c].map
  BY <1>1, AcceptMoves DEF ChainInv
<1>6. Asking(c)'
  BY <1>2, <1>3, <1>4, <1>5 DEF Asking, InUserChain
<1>7. Telling(c) => Telling(c)'
  BY <1>1, <1>2, <1>5 DEF Telling, ComesBack, InUserChain, Done
<1> QED
  BY <1>6, <1>7

LEMMA AskingSends ==
  ASSUME ChainInv, shared = {}, NEW c \in Calls, Asking(c), Send(c)
  PROVE  Asking(c)' /\ (PlaceholdersTell /\ Telling(c) => Telling(c)')
<1>1. call[c].pc = "send" /\ call[c].phase = "user" /\ AgentOf(c) = c
  BY DEF Send, AgentOf, ChainInv, InChain, WellPlaced
<1>2. /\ current[c] = c /\ ~built[c].done /\ asked[c] \in Prompts
      /\ prompt[c] = After(All, asked[c])
  BY <1>1 DEF Asking
<1>3. ToSend(c) = After(All, asked[c])
  BY <1>1, <1>2 DEF ToSend
<1>4. PICK said \in Answers(ToSend(c)) :
        LET new == call'[c]
        IN /\ answer'[c] = said
           /\ new.pc = "rule" /\ new.phase = "agent" /\ new.k = 1 /\ new.round = 1
           /\ new.verdict = "allow" /\ new.text = Restored(said, call[c].map)
  BY SendMoves DEF ChainInv
<1>5. sent'[c] = ToSend(c) /\ UNCHANGED <<current, asked>>
  BY SendMoves DEF Send, ChainInv
<1>6. Asking(c)'
  BY <1>2, <1>3, <1>4, <1>5 DEF Asking, InUserChain
<1>7. ASSUME PlaceholdersTell, Telling(c) PROVE Telling(c)'
  <2>1. TellsOf(All, ToSet(call[c].map), asked[c])
    BY <1>1, <1>7 DEF Telling
  <2>2. call[c].map \in Seq(Entry) /\ ToSend(c) \in Texts
    BY <1>2, <1>3, SharedIsTyped DEF ChainInv, CallType, Maps, PolicyTypeOK
  <2>3. said \in Texts /\ After(All, asked[c]) \subseteq said
    BY <1>3, <2>2, AnswerIsText
  <2>4. Restored(said, call[c].map) =
          (said \ After(All, asked[c])) \cup {w \in asked[c] : Processed({w}) \subseteq said}
    BY <1>2, <1>7, <2>1, <2>2, <2>3, WordsComeBack DEF All
  <2>5. ComesBack(c)'
    <3>1. /\ call'[c].text = Restored(said, call[c].map)
          /\ answer'[c] = said /\ sent'[c] = After(All, asked[c]) /\ asked'[c] = asked[c]
      BY <1>3, <1>4, <1>5
    <3>2. call'[c].text = (answer'[c] \ sent'[c])
                            \cup {w \in asked'[c] : Processed({w}) \subseteq answer'[c]}
      BY <2>4, <3>1
    <3> QED
      BY <3>2 DEF ComesBack
  <2> QED
    BY <1>4, <2>5 DEF Telling, InUserChain
<1> QED
  BY <1>6, <1>7

LEMMA AskingEnds ==
  ASSUME ChainInv, PassInv, shared = {}, NEW c \in Calls, Asking(c),
         Refuse(c) \/ Deliver(c) \/ AskAgain(c)
  PROVE  Asking(c)' /\ Telling(c)'
<1>1. UNCHANGED <<current, built, prompt>> /\ current[c] = c
  BY DEF Refuse, Deliver, AskAgain, shares, Asking
<1>2. CASE \E kind : Return(c, kind)
  <2>1. call'[c].pc = "done" /\ call'[c].phase = "user"
    BY <1>2, ReturnMoves DEF ChainInv
  <2> QED
    BY <1>1, <2>1 DEF Asking, Telling, ComesBack, InUserChain
<1>3. CASE ~\E kind : Return(c, kind)
  <2>1. AskAgain(c)
    BY <1>3 DEF Refuse, Deliver
  <2>2. PICK said \in Answers(sent[c]) :
          /\ call' = [call EXCEPT ![c] = Retried(c, said)]
          /\ UNCHANGED <<reply, asked, sent>>
    BY <1>3, <2>1, RetryAsks DEF ChainInv
  <2>3. LET new == call'[c]
        IN new.pc = "rule" /\ new.phase = "agent" /\ new.round = call[c].round + 1
    BY <2>2, RetryMoves DEF ChainInv
  <2>4. call[c].phase = "agent" /\ call[c].pc = "rule"
    BY <2>1 DEF AskAgain, AtVerdict
  <2>5. call'[c].round # 1
    <3>1. call[c].round = retries[c] + 1 /\ retries[c] \in Nat
      BY <2>4 DEF PassInv, Passing, ChainInv, PolicyTypeOK
    <3> QED
      BY <2>3, <3>1
  <2>6. asked[c] \in Prompts /\ sent[c] = After(All, asked[c])
    BY <2>4 DEF Asking
  <2> QED
    BY <1>1, <2>2, <2>3, <2>5, <2>6 DEF Asking, Telling, ComesBack, InUserChain
<1> QED
  BY <1>2, <1>3

LEMMA NextKeepsAsking == ChainInv /\ PassInv /\ AskInv /\ [Next]_vars => AskInv'
<1> SUFFICES ASSUME ChainInv, PassInv, AskInv, [Next]_vars, shared' = {}, faults' = 0,
                    NEW d \in Calls
             PROVE  Asking(d)' /\ (PlaceholdersTell => Telling(d)')
  BY DEF AskInv, PlaceholdersTell, Replaces
<1>1. shared = {} /\ faults = 0
  BY FaultsCount DEF ChainInv
<1>2. \A c \in Calls : Asking(c) /\ (PlaceholdersTell => Telling(c))
  BY <1>1 DEF AskInv
<1>3. CASE UNCHANGED vars
  BY <1>2, <1>3 DEF vars, shares, history, Asking, Telling, ComesBack
<1>4. ASSUME NEW c \in Calls, Start(c) \/ Step(c)
      PROVE  Asking(d)' /\ (PlaceholdersTell => Telling(d)')
  <2>1. CASE d = c
    <3>1. ~Fail(c)
      BY <1>1 DEF Fail
    <3> QED
      BY <1>1, <1>2, <1>4, <2>1, <3>1, AskingStarts, AskingChecks, AskingActs, AskingExplains,
         AskingAccepts, AskingSends, AskingEnds, Zenon DEF Step
  <2>2. CASE d # c
    <3>1. Untouched(d)
      BY <1>4, <2>2, OthersStay DEF ChainInv
    <3>2. /\ current'[d] = current[d] /\ prompt'[d] = prompt[d] /\ built'[d] = built[d]
          /\ \A p \in Policies : action'[<<d, p>>] = action[<<d, p>>]
      <4>1. current[c] = c /\ PolicyTypeOK
        BY <1>2 DEF Asking, ChainInv
      <4> QED
        BY <1>1, <1>4, <2>2, <4>1, OthersKeepTheirs
    <3>3. call[d].pc = "action" => PolicyOf(call[d]) \in Policies
      <4>1. call[d].pc = "action" => call[d].k <= Len(Chain(d))
        BY ChainLength DEF ChainInv, InChain, WellPlaced
      <4> QED
        BY <4>1, SharedIsTyped DEF ChainInv, Here, Chain, PolicyOf
    <3>4. Asking(d)'
      BY <1>2, <3>1, <3>2, <3>3 DEF Untouched, Asking
    <3>5. PlaceholdersTell => Telling(d)'
      BY <1>2, <3>1 DEF Untouched, Telling, ComesBack
    <3> QED
      BY <3>4, <3>5
  <2> QED
    BY <2>1, <2>2
<1> QED
  BY <1>3, <1>4 DEF Next

LEMMA AsksAlways == Spec => [](ChainInv /\ PassInv /\ AskInv)
<1>1. Init => AskInv
  <2> SUFFICES ASSUME Init, NEW c \in Calls PROVE Asking(c) /\ Telling(c)
    BY DEF AskInv
  <2>1. call[c] = Idle /\ current[c] = c /\ built[c] = NotBuilt
    BY DEF Init
  <2> QED
    BY <2>1 DEF Asking, Telling, ComesBack, InUserChain, Idle, NotBuilt
<1>2. ChainInv /\ PassInv /\ AskInv /\ [Next]_vars => (ChainInv /\ PassInv /\ AskInv)'
  BY NextStaysInChain, NextKeepsPassing, NextKeepsAsking
<1> QED
  BY InitPasses, <1>1, <1>2, PTL DEF Spec

(* A call that shares neither its Agent nor its policies asks the model     *)
(* what all of its policies, each after the other, made of its own prompt.  *)
THEOREM AskedIsProcessed == Spec => []ModelIsAsked
<1>1. ChainInv /\ AskInv => ModelIsAsked
  <2> SUFFICES ASSUME ChainInv, AskInv, shared = {}, faults = 0, NEW c \in Calls,
                      call[c].phase = "agent"
               PROVE  sent[c] = Processed(asked[c])
    BY DEF ModelIsAsked, ModelIsAskedProcessed
  <2>1. sent[c] = After(All, asked[c]) /\ asked[c] \in Texts
    BY DEF AskInv, Asking, ChainInv, PolicyTypeOK
  <2> QED
    BY <2>1, AfterSteps DEF All
<1> QED
  BY AsksAlways, <1>1, PTL

(* ... and gets the words of the user back in its answer, if a placeholder  *)
(* tells what it stands for.                                                *)
THEOREM OriginalsReturn ==
  ASSUME PlaceholdersTell
  PROVE  Spec => []OriginalsComeBack
<1>1. AskInv => OriginalsComeBack
  <2> SUFFICES ASSUME AskInv, shared = {}, faults = 0 PROVE \A c \in Calls : ComesBack(c)
    BY DEF OriginalsComeBack, ComesBack
  <2> QED
    BY PlaceholdersTell DEF AskInv, Telling
<1> QED
  BY AsksAlways, <1>1, PTL

-----------------------------------------------------------------------------
(* KnowledgeBase.                                                           *)

(* The lock is held by whoever is in set-up, on its own base.               *)
LockIsHeld ==
    /\ \A t \in Tasks : pc[t] \in Setting => holder[Base[t]] = t
    /\ \A b \in Bases, t \in Tasks : holder[b] = t => Base[t] = b /\ pc[t] \in Setting

ReadyIsFree == \A b \in Bases : ready[b] => holder[b] = None
UsesReady == \A t \in Tasks : pc[t] = "use" => ready[Base[t]]
NothingThere == ~collection.exists => collection.has = {} /\ loaded = {}

(* A set-up that has stored some of its chunks, or may have.                *)
Unfinished(t) == pc[t] \in {"store", "clean"} /\ chunks[t] # {}

StoredIsLoaded ==
    /\ (\A t \in Tasks : ~Unfinished(t)) => collection.has = loaded
    /\ \A t \in Tasks : pc[t] = "store" => loaded = collection.has \cup chunks[t]

LockInv == TypeOK /\ LockIsHeld /\ ReadyIsFree /\ UsesReady
IndexInv == NothingThere /\ ((OneBase /\ ~abandoned) => StoredIsLoaded)
BaseInv == LockInv /\ IndexInv
-----------------------------------------------------------------------------
LEMMA BaseStarts == KBInit => BaseInv
<1> SUFFICES ASSUME KBInit PROVE BaseInv
  OBVIOUS
<1> USE BaseAssumption DEF KBInit, NoCollection, Setting
<1>1. TypeOK
  <2>1. collection \in [exists : BOOLEAN, has : SUBSET Documents]
    BY Zenon
  <2>2. chunks \in [Tasks -> SUBSET Documents]
    OBVIOUS
  <2>3. failures \in 0..MaxFailures
    OBVIOUS
  <2> QED
    BY <2>1, <2>2, <2>3 DEF TypeOK
<1>2. LockIsHeld /\ ReadyIsFree /\ UsesReady
  BY DEF LockIsHeld, ReadyIsFree, UsesReady
<1>3. NothingThere
  BY DEF NothingThere
<1>4. StoredIsLoaded
  BY DEF StoredIsLoaded, Unfinished
<1> QED
  BY <1>1, <1>2, <1>3, <1>4 DEF BaseInv, LockInv, IndexInv

(* Every variable keeps its type.                                           *)
LEMMA BaseStepIsTyped == TypeOK /\ [KBNext]_KBvars => TypeOK'
<1> SUFFICES ASSUME TypeOK, [KBNext]_KBvars PROVE TypeOK'
  OBVIOUS
<1> USE BaseAssumption DEF TypeOK, Setting, GoTo, Hold
<1>1. ASSUME NEW t \in Tasks, Request(t) PROVE TypeOK'
  BY <1>1 DEF Request, objects
<1>2. ASSUME NEW t \in Tasks, Acquire(t) PROVE TypeOK'
  BY <1>2 DEF Acquire
<1>3. ASSUME NEW t \in Tasks, Connect(t) PROVE TypeOK'
  BY <1>3 DEF Connect
<1>4. ASSUME NEW t \in Tasks, Find(t) \/ LoadNothing(t) PROVE TypeOK'
  BY <1>4 DEF Find, LoadNothing, BeReady
<1>5. ASSUME NEW t \in Tasks, Load(t) PROVE TypeOK'
  BY <1>5 DEF Load, objects
<1>6. ASSUME NEW t \in Tasks, Embed(t) \/ Raise(t) \/ Search(t) PROVE TypeOK'
  BY <1>6 DEF Embed, Raise, Search, objects
<1>7. ASSUME NEW t \in Tasks, Create(t) PROVE TypeOK'
  BY <1>7 DEF Create, objects
<1>8. ASSUME NEW t \in Tasks, Store(t) PROVE TypeOK'
  <2>1. PICK batch \in (SUBSET chunks[t]) \ {{}} :
          /\ collection' = [collection EXCEPT !.has = @ \cup batch]
          /\ chunks' = [chunks EXCEPT ![t] = @ \ batch]
          /\ IF batch = chunks[t] THEN BeReady(t) ELSE UNCHANGED <<pc, objects>>
    BY <1>8 DEF Store
  <2>2. batch \in SUBSET Documents /\ chunks[t] \ batch \in SUBSET Documents
    BY <2>1
  <2>3. collection' \in [exists : BOOLEAN, has : SUBSET Documents]
    BY <2>1, <2>2
  <2>4. chunks' \in [Tasks -> SUBSET Documents]
    BY <2>1, <2>2
  <2>5. /\ connected' \in [Bases -> BOOLEAN] /\ closed' \in [Bases -> BOOLEAN]
        /\ ready' \in [Bases -> BOOLEAN]
        /\ holder' \in [Bases -> Tasks \cup {None}]
        /\ pc' \in [Tasks -> Setting \cup {"idle", "lock", "use", "done"}]
    BY <2>1 DEF BeReady, objects
  <2> QED
    BY <1>8, <2>3, <2>4, <2>5 DEF Store
<1>9. ASSUME NEW t \in Tasks, FailSetup(t) PROVE TypeOK'
  BY <1>9 DEF FailSetup, objects
<1>10. ASSUME NEW t \in Tasks, CleanUp(t) PROVE TypeOK'
  BY <1>10 DEF CleanUp, EndTask, NoCollection
<1>11. ASSUME NEW t \in Tasks, CleanNothing(t) PROVE TypeOK'
  BY <1>11 DEF CleanNothing, EndTask
<1>12. ASSUME NEW t \in Tasks, Delete(t) PROVE TypeOK'
  BY <1>12 DEF Delete, objects
<1>13. ASSUME NEW t \in Tasks, Cancel(t) PROVE TypeOK'
  BY <1>13 DEF Cancel, EndTask
<1>14. ASSUME NEW b \in Bases, Close(b) PROVE TypeOK'
  BY <1>14 DEF Close, tasks
<1>15. CASE Crash
  BY <1>15 DEF Crash
<1>16. CASE UNCHANGED KBvars
  BY <1>16 DEF KBvars, objects, tasks
<1> QED
  BY <1>1, <1>2, <1>3, <1>4, <1>5, <1>6, <1>7, <1>8, <1>9, <1>10, <1>11, <1>12, <1>13,
     <1>14, <1>15, <1>16 DEF KBNext, KBStep

(* Set-ups of a base exclude each other, and none goes on once it is ready. *)
LEMMA BaseStepKeepsLock == LockInv /\ [KBNext]_KBvars => LockInv'
<1> SUFFICES ASSUME LockInv, [KBNext]_KBvars PROVE LockInv'
  OBVIOUS
<1>0. TypeOK'
  BY BaseStepIsTyped DEF LockInv
<1> DEFINE Lock == LockIsHeld' /\ ReadyIsFree' /\ UsesReady'
<1> USE BaseAssumption, <1>0
    DEF LockInv, TypeOK, LockIsHeld, ReadyIsFree, UsesReady, Setting, GoTo, Hold
<1>1. ASSUME NEW t \in Tasks, Request(t) PROVE Lock
  BY <1>1 DEF Request, objects
<1>2. ASSUME NEW t \in Tasks, Acquire(t) PROVE Lock
  BY <1>2 DEF Acquire
<1>3. ASSUME NEW t \in Tasks, Connect(t) PROVE Lock
  BY <1>3 DEF Connect
<1>4. ASSUME NEW t \in Tasks, Find(t) \/ LoadNothing(t) PROVE Lock
  BY <1>4 DEF Find, LoadNothing, BeReady
<1>5. ASSUME NEW t \in Tasks, Load(t) PROVE Lock
  BY <1>5 DEF Load, objects
<1>6. ASSUME NEW t \in Tasks, Embed(t) \/ Raise(t) \/ Search(t) PROVE Lock
  BY <1>6 DEF Embed, Raise, Search, Impossible, objects
<1>7. ASSUME NEW t \in Tasks, Create(t) PROVE Lock
  BY <1>7 DEF Create, objects
<1>8. ASSUME NEW t \in Tasks, Store(t) PROVE Lock
  BY <1>8 DEF Store, BeReady, objects
<1>9. ASSUME NEW t \in Tasks, FailSetup(t) PROVE Lock
  BY <1>9 DEF FailSetup, objects
<1>10. ASSUME NEW t \in Tasks, CleanUp(t) PROVE Lock
  BY <1>10 DEF CleanUp, EndTask
<1>11. ASSUME NEW t \in Tasks, CleanNothing(t) PROVE Lock
  BY <1>11 DEF CleanNothing, EndTask
<1>12. ASSUME NEW t \in Tasks, Delete(t) PROVE Lock
  BY <1>12 DEF Delete, objects
<1>13. ASSUME NEW t \in Tasks, Cancel(t) PROVE Lock
  BY <1>13 DEF Cancel, EndTask
<1>14. ASSUME NEW b \in Bases, Close(b) PROVE Lock
  BY <1>14 DEF Close, tasks
<1>15. CASE Crash
  BY <1>15 DEF Crash
<1>16. CASE UNCHANGED KBvars
  BY <1>16 DEF KBvars, objects, tasks
<1> QED
  BY <1>1, <1>2, <1>3, <1>4, <1>5, <1>6, <1>7, <1>8, <1>9, <1>10, <1>11, <1>12, <1>13,
     <1>14, <1>15, <1>16 DEF KBNext, KBStep

(* With one base, at most one task is in set-up, and none is when another   *)
(* uses the index.                                                          *)
LEMMA Exclusion ==
  ASSUME LockInv, OneBase
  PROVE  /\ \A t, u \in Tasks : pc[t] \in Setting /\ pc[u] \in Setting => t = u
         /\ \A t, u \in Tasks : pc[t] = "use" => pc[u] \notin Setting
BY BaseAssumption DEF LockInv, OneBase, LockIsHeld, ReadyIsFree, UsesReady, TypeOK
-----------------------------------------------------------------------------
LEMMA BaseStepKeepsIndex == BaseInv /\ [KBNext]_KBvars => IndexInv'
<1> SUFFICES ASSUME BaseInv, [KBNext]_KBvars PROVE IndexInv'
  OBVIOUS
<1>0. TypeOK /\ TypeOK' /\ LockInv /\ NothingThere
  BY BaseStepIsTyped DEF BaseInv, LockInv, IndexInv
<1>a. OneBase /\ ~abandoned => StoredIsLoaded
  BY DEF BaseInv, IndexInv
<1>b. OneBase => /\ \A t, u \in Tasks : pc[t] \in Setting /\ pc[u] \in Setting => t = u
                 /\ \A t, u \in Tasks : pc[t] = "use" => pc[u] \notin Setting
  BY <1>0, Exclusion
<1>c. OneBase' <=> OneBase
  BY DEF OneBase
<1> USE BaseAssumption, <1>0, <1>a, <1>b, <1>c
    DEF IndexInv, TypeOK, NothingThere, StoredIsLoaded, Unfinished, Setting, GoTo, Hold
<1>1. ASSUME NEW t \in Tasks, Request(t) PROVE IndexInv'
  BY <1>1 DEF Request, objects
<1>2. ASSUME NEW t \in Tasks, Acquire(t) PROVE IndexInv'
  BY <1>2 DEF Acquire
<1>3. ASSUME NEW t \in Tasks, Connect(t) PROVE IndexInv'
  BY <1>3 DEF Connect
<1>4. ASSUME NEW t \in Tasks, Find(t) \/ LoadNothing(t) PROVE IndexInv'
  BY <1>4 DEF Find, LoadNothing, BeReady
<1>5. ASSUME NEW t \in Tasks, Load(t) PROVE IndexInv'
  BY <1>5 DEF Load, objects
<1>6. ASSUME NEW t \in Tasks, Embed(t) \/ Search(t) PROVE IndexInv'
  BY <1>6 DEF Embed, Search, objects
<1>6a. ASSUME NEW t \in Tasks, Raise(t) PROVE IndexInv'
  BY <1>6a DEF Raise, Impossible, objects
<1>7. ASSUME NEW t \in Tasks, Create(t) PROVE IndexInv'
  BY <1>7 DEF Create, objects
<1>8. ASSUME NEW t \in Tasks, Store(t) PROVE IndexInv'
  BY <1>8 DEF Store, BeReady, objects
<1>9. ASSUME NEW t \in Tasks, FailSetup(t) PROVE IndexInv'
  BY <1>9 DEF FailSetup, objects
<1>10. ASSUME NEW t \in Tasks, CleanUp(t) PROVE IndexInv'
  BY <1>10 DEF CleanUp, EndTask, NoCollection
<1>11. ASSUME NEW t \in Tasks, CleanNothing(t) PROVE IndexInv'
  BY <1>11 DEF CleanNothing, EndTask
<1>12. ASSUME NEW t \in Tasks, Delete(t) PROVE IndexInv'
  <2>1. CASE ~connected[Base[t]]
    BY <1>12, <2>1 DEF Delete, objects
  <2>2. CASE connected[Base[t]]
    <3>1. /\ collection'.exists = collection.exists
          /\ collection'.has = collection.has \ {wants[t]}
          /\ loaded' = loaded \ {wants[t]}
          /\ abandoned' = abandoned /\ chunks' = chunks
      BY <1>12, <2>2 DEF Delete, objects
    <3>2. NothingThere'
      BY <3>1
    <3>3. pc[t] = "use" /\ pc' = [pc EXCEPT ![t] = "done"]
      BY <1>12 DEF Delete
    <3>4. SUFFICES ASSUME OneBase, ~abandoned PROVE StoredIsLoaded'
      BY <3>1, <3>2
    <3>5. \A u \in Tasks : pc[u] \notin Setting
      BY <3>3, <3>4
    <3>6. collection.has = loaded
      BY <3>4, <3>5
    <3>7. \A u \in Tasks : pc'[u] # "store"
      BY <3>3, <3>5
    <3> QED
      BY <3>1, <3>6, <3>7
  <2> QED
    BY <2>1, <2>2
<1>13. ASSUME NEW t \in Tasks, Cancel(t) PROVE IndexInv'
  BY <1>13 DEF Cancel, EndTask
<1>14. ASSUME NEW b \in Bases, Close(b) PROVE IndexInv'
  BY <1>14 DEF Close, tasks
<1>15. CASE Crash
  BY <1>15 DEF Crash
<1>16. CASE UNCHANGED KBvars
  BY <1>16 DEF KBvars, objects, tasks
<1> QED
  BY <1>1, <1>2, <1>3, <1>4, <1>5, <1>6, <1>6a, <1>7, <1>8, <1>9, <1>10, <1>11, <1>12,
     <1>13, <1>14, <1>15, <1>16 DEF KBNext, KBStep

LEMMA BaseInvariance == KBSpec => []BaseInv
<1>1. BaseInv /\ [KBNext]_KBvars => BaseInv'
  BY BaseStepKeepsLock, BaseStepKeepsIndex DEF BaseInv
<1> QED
  BY BaseStarts, <1>1, PTL DEF KBSpec

(* Every variable keeps its type, for any tasks and bases.                  *)
THEOREM BaseTypesCorrect == KBSpec => []TypeOK
<1>1. BaseInv => TypeOK
  BY DEF BaseInv, LockInv
<1> QED
  BY BaseInvariance, <1>1, PTL

(* Whoever searches finds what was loaded and not deleted: set-up lets no   *)
(* task pass before the index is whole, and removes what it does not finish.*)
THEOREM IndexIsWhole == KBSpec => []AnswersAreWhole
<1>1. BaseInv => AnswersAreWhole
  <2> SUFFICES ASSUME BaseInv, OneBase, ~abandoned, NEW t \in Tasks, pc[t] = "use"
               PROVE  collection.has = loaded
    BY DEF AnswersAreWhole, SearchedIsWhole
  <2>1. \A u \in Tasks : pc[u] \notin Setting
    BY Exclusion DEF BaseInv
  <2>2. \A u \in Tasks : ~Unfinished(u)
    BY <2>1 DEF Unfinished, Setting
  <2> QED
    BY <2>2 DEF BaseInv, IndexInv, StoredIsLoaded
<1> QED
  BY BaseInvariance, <1>1, PTL
=============================================================================
