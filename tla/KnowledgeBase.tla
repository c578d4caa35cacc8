---------------------------- MODULE KnowledgeBase ----------------------------
(***************************************************************************)
(* KnowledgeBase: documents are indexed just in time.  The first task that *)
(* asks a base something connects, loads, embeds and stores under the lock *)
(* of the base; the others wait and find it ready.  A collection that      *)
(* exists counts as indexed, whoever made it; a set-up that fails deletes  *)
(* the collection.  The vector database outlives the process.              *)
(***************************************************************************)
EXTENDS Naturals

CONSTANTS
    Tasks, Bases, Documents, None,
    Base,           \* of a task: the base that it asks
    Sources,        \* of a base: the documents it was made of
    Deletable,      \* what tasks may delete
    Interruptions,  \* of "cancel", "crash" and "close"
    MaxFailures

ASSUME BaseAssumption ==
    /\ None \notin Tasks \cup Documents
    /\ Base \in [Tasks -> Bases]
    /\ Sources \in [Bases -> SUBSET Documents]
    /\ Deletable \subseteq Documents
    /\ MaxFailures \in Nat

VARIABLES
    collection,     \* in the database: whether it exists, and what is in it
    connected, closed, ready, holder,   \* by base; holder of _setup_lock
    pc, wants,      \* by task: where it is; the document it deletes, if any
    chunks,         \* by task: what its set-up has yet to store
    loaded,         \* what set-ups loaded and no one deleted
    abandoned,      \* a set-up ended and left a part of a collection behind
    failures

objects == <<connected, closed, ready, holder>>
tasks == <<pc, wants, chunks>>
KBvars == <<collection, objects, tasks, loaded, abandoned, failures>>

Setting == {"connect", "look", "embed", "create", "store", "clean"}
NoCollection == [exists |-> FALSE, has |-> {}]

TypeOK ==
    /\ collection \in [exists : BOOLEAN, has : SUBSET Documents]
    /\ connected \in [Bases -> BOOLEAN] /\ closed \in [Bases -> BOOLEAN]
    /\ ready \in [Bases -> BOOLEAN]
    /\ holder \in [Bases -> Tasks \cup {None}]
    /\ pc \in [Tasks -> Setting \cup {"idle", "lock", "use", "done"}]
    /\ wants \in [Tasks -> Documents \cup {None}]
    /\ chunks \in [Tasks -> SUBSET Documents]
    /\ loaded \in SUBSET Documents
    /\ abandoned \in BOOLEAN
    /\ failures \in 0..MaxFailures

KBInit ==
    /\ collection = NoCollection
    /\ connected = [b \in Bases |-> FALSE] /\ closed = [b \in Bases |-> FALSE]
    /\ ready = [b \in Bases |-> FALSE]
    /\ holder = [b \in Bases |-> None]
    /\ pc = [t \in Tasks |-> "idle"]
    /\ wants = [t \in Tasks |-> None]
    /\ chunks = [t \in Tasks |-> {}]
    /\ loaded = {}
    /\ abandoned = FALSE
    /\ failures = 0
-----------------------------------------------------------------------------
GoTo(t, place) == pc' = [pc EXCEPT ![t] = place]
Hold(b, t) == holder' = [holder EXCEPT ![b] = t]

(* The set-up of t's base is complete: the lock is given back.              *)
BeReady(t) ==
    /\ ready' = [ready EXCEPT ![Base[t]] = TRUE]
    /\ Hold(Base[t], None)
    /\ GoTo(t, "use")
    /\ UNCHANGED <<connected, closed>>

(* query_async or delete_document, which begin with setup_async.            *)
Request(t) ==
    /\ pc[t] = "idle"
    /\ \E w \in Deletable \cup {None} : wants' = [wants EXCEPT ![t] = w]
    /\ GoTo(t, "lock")
    /\ UNCHANGED <<collection, objects, chunks, loaded, abandoned, failures>>

\* Mutant: set-ups are not serialised.
AcquireAnyway(t) ==
    /\ pc[t] = "lock"
    /\ IF ready[Base[t]] THEN GoTo(t, "use") /\ UNCHANGED holder
       ELSE GoTo(t, "connect") /\ Hold(Base[t], t)
    /\ UNCHANGED <<collection, connected, closed, ready, wants, chunks, loaded, abandoned, failures>>

Acquire(t) ==
    /\ pc[t] = "lock"
    /\ holder[Base[t]] = None
    /\ IF ready[Base[t]] THEN GoTo(t, "use") /\ UNCHANGED holder
       ELSE GoTo(t, "connect") /\ Hold(Base[t], t)
    /\ UNCHANGED <<collection, connected, closed, ready, wants, chunks, loaded, abandoned, failures>>

Connect(t) ==
    /\ pc[t] = "connect"
    /\ connected' = [connected EXCEPT ![Base[t]] = TRUE]
    /\ GoTo(t, "look")
    /\ UNCHANGED <<collection, closed, ready, holder, wants, chunks, loaded, abandoned, failures>>

(* A collection that exists is taken as the index of the base.              *)
Find(t) ==
    /\ pc[t] = "look"
    /\ connected[Base[t]] /\ collection.exists
    /\ BeReady(t)
    /\ UNCHANGED <<collection, wants, chunks, loaded, abandoned, failures>>

(* A source that cannot be loaded or chunked is skipped.                    *)
Load(t) ==
    /\ pc[t] = "look"
    /\ connected[Base[t]] /\ ~collection.exists
    /\ \E docs \in (SUBSET Sources[Base[t]]) \ {{}} : chunks' = [chunks EXCEPT ![t] = docs]
    /\ GoTo(t, "embed")
    /\ UNCHANGED <<collection, objects, wants, loaded, abandoned, failures>>

LoadNothing(t) ==
    /\ pc[t] = "look"
    /\ connected[Base[t]] /\ ~collection.exists
    /\ BeReady(t)
    /\ UNCHANGED <<collection, wants, chunks, loaded, abandoned, failures>>

Embed(t) ==
    /\ pc[t] = "embed"
    /\ GoTo(t, "create")
    /\ UNCHANGED <<collection, objects, wants, chunks, loaded, abandoned, failures>>

Create(t) ==
    /\ pc[t] = "create"
    /\ connected[Base[t]]
    /\ collection' = [collection EXCEPT !.exists = TRUE]
    /\ loaded' = loaded \cup chunks[t]
    /\ GoTo(t, "store")
    /\ UNCHANGED <<objects, wants, chunks, abandoned, failures>>

(* upsert stores batch after batch.                                         *)
Store(t) ==
    /\ pc[t] = "store"
    /\ connected[Base[t]] /\ collection.exists
    /\ \E batch \in (SUBSET chunks[t]) \ {{}} :
         /\ collection' = [collection EXCEPT !.has = @ \cup batch]
         /\ chunks' = [chunks EXCEPT ![t] = @ \ batch]
         /\ IF batch = chunks[t] THEN BeReady(t) ELSE UNCHANGED <<pc, objects>>
    /\ UNCHANGED <<wants, loaded, abandoned, failures>>

(* What the database cannot do raises: it is not connected, or there is no  *)
(* such collection any more.                                                *)
Impossible(t) ==
    \/ pc[t] \in {"look", "create", "store"} /\ ~connected[Base[t]]
    \/ pc[t] = "store" /\ ~collection.exists

Raise(t) ==
    /\ Impossible(t)
    /\ GoTo(t, "clean")
    /\ UNCHANGED <<collection, objects, wants, chunks, loaded, abandoned, failures>>

FailSetup(t) ==
    /\ pc[t] \in Setting \ {"clean"}
    /\ failures < MaxFailures /\ failures' = failures + 1
    /\ GoTo(t, "clean")
    /\ UNCHANGED <<collection, objects, wants, chunks, loaded, abandoned>>

(* The end of a task, which gives back the lock if it has it.               *)
EndTask(t) ==
    /\ GoTo(t, "done")
    /\ chunks' = [chunks EXCEPT ![t] = {}]
    /\ holder' = [b \in Bases |-> IF holder[b] = t THEN None ELSE holder[b]]
    /\ UNCHANGED <<connected, closed, ready, wants>>

\* Mutant: the cleanup keeps the lock.
CleanUpLocked(t) ==
    /\ pc[t] = "clean" /\ connected[Base[t]]
    /\ collection' = NoCollection /\ loaded' = {}
    /\ GoTo(t, "done")
    /\ chunks' = [chunks EXCEPT ![t] = {}]
    /\ UNCHANGED <<objects, wants, abandoned, failures>>

CleanUp(t) ==
    /\ pc[t] = "clean" /\ connected[Base[t]]
    /\ collection' = NoCollection /\ loaded' = {}
    /\ EndTask(t)
    /\ UNCHANGED <<abandoned, failures>>

(* The cleanup is best effort.                                              *)
CleanNothing(t) ==
    /\ pc[t] = "clean"
    /\ connected[Base[t]] => failures < MaxFailures
    /\ failures' = IF connected[Base[t]] THEN failures + 1 ELSE failures
    /\ abandoned' = (abandoned \/ (collection.exists /\ chunks[t] # {}))
    /\ EndTask(t)
    /\ UNCHANGED <<collection, loaded>>

(* A query embeds its text and searches; or it raises.                      *)
Search(t) ==
    /\ pc[t] = "use" /\ wants[t] = None
    /\ GoTo(t, "done")
    /\ UNCHANGED <<collection, objects, wants, chunks, loaded, abandoned, failures>>

Delete(t) ==
    /\ pc[t] = "use" /\ wants[t] # None
    /\ IF connected[Base[t]]
       THEN /\ collection' = [collection EXCEPT !.has = @ \ {wants[t]}]
            /\ loaded' = loaded \ {wants[t]}
       ELSE UNCHANGED <<collection, loaded>>
    /\ GoTo(t, "done")
    /\ UNCHANGED <<objects, wants, chunks, abandoned, failures>>

(* A timeout or its caller cancels a task.  CancelledError is not an        *)
(* Exception: nothing is cleaned up.                                        *)
Cancel(t) ==
    /\ "cancel" \in Interruptions
    /\ pc[t] \notin {"idle", "clean", "done"}
    /\ failures < MaxFailures /\ failures' = failures + 1
    /\ abandoned' = (abandoned \/ pc[t] = "store")
    /\ EndTask(t)
    /\ UNCHANGED <<collection, loaded>>

Crash ==
    /\ "crash" \in Interruptions
    /\ failures < MaxFailures /\ failures' = failures + 1
    /\ connected' = [b \in Bases |-> FALSE] /\ closed' = [b \in Bases |-> FALSE]
    /\ ready' = [b \in Bases |-> FALSE]
    /\ holder' = [b \in Bases |-> None]
    /\ pc' = [t \in Tasks |-> IF pc[t] = "idle" THEN "idle" ELSE "done"]
    /\ chunks' = [t \in Tasks |-> {}]
    /\ abandoned' = (abandoned \/ \E t \in Tasks : pc[t] \in {"store", "clean"} /\ chunks[t] # {})
    /\ UNCHANGED <<collection, wants, loaded>>

Close(b) ==
    /\ "close" \in Interruptions
    /\ ~closed[b]
    /\ closed' = [closed EXCEPT ![b] = TRUE]
    /\ connected' = [connected EXCEPT ![b] = FALSE]
    /\ UNCHANGED <<collection, ready, holder, tasks, loaded, abandoned, failures>>

KBStep(t) ==
    \/ Acquire(t) \/ Connect(t)
    \/ Find(t) \/ Load(t) \/ LoadNothing(t)
    \/ Embed(t) \/ Create(t) \/ Store(t)
    \/ Raise(t) \/ FailSetup(t) \/ CleanUp(t) \/ CleanNothing(t)
    \/ Search(t) \/ Delete(t)

KBNext ==
    \/ \E t \in Tasks : Request(t) \/ KBStep(t) \/ Cancel(t)
    \/ \E b \in Bases : Close(b)
    \/ Crash

KBSpec == KBInit /\ [][KBNext]_KBvars
KBFairSpec == KBSpec /\ \A t \in Tasks : WF_KBvars(KBStep(t))
-----------------------------------------------------------------------------
OneBase == \A a, b \in Bases : a = b

(* Whoever searches the collection finds in it everything that was loaded   *)
(* for it and not deleted: no task sees the index while another fills it.   *)
SearchedIsWhole == \A t \in Tasks : pc[t] = "use" => collection.has = loaded

(* So it is for one base, through failures, restarts and closing, as long   *)
(* as each set-up that is given up has removed what it had stored.          *)
AnswersAreWhole == (OneBase /\ ~abandoned) => SearchedIsWhole

(* Every request ends, however set-ups before it end.                       *)
EveryRequestEnds ==
    \A t \in Tasks : (pc[t] \notin {"idle", "done"}) ~> (pc[t] = "done")

(* A base that is ready searches what it was made of.                       *)
SourcesAreIndexed ==
    \A t \in Tasks : (pc[t] = "use" /\ loaded # {}) => Sources[Base[t]] \cap loaded # {}

(* A set-up that fails deletes no more than it stored.                      *)
OnlyPartsAreDeleted ==
    [][(collection.exists /\ ~collection'.exists) => collection.has # loaded]_KBvars

(* A base whose set-up is over has a connection.                            *)
ReadyIsConnected == \A t \in Tasks : pc[t] = "use" => connected[Base[t]]
=============================================================================
