---------------------------- MODULE MCTaskGraph ----------------------------
(***************************************************************************)
(* Instances of TaskGraph for TLC: graphs as TaskChain builds them.        *)
(***************************************************************************)
EXTENDS TaskGraph, TaskChain

CONSTANTS a, b, c, e, z, x, y     \* five tasks and two decisions

None == [d \in {x, y} |-> Empty]

(* a >> b, a >> c >> z, b >> e and z >> e, which share their nodes.          *)
Fan ==
    LET chain(m, n) == AddTask(One(m), n)
    IN GraphOf(Union(Union(Union(chain(a, b), AddTask(chain(a, c), z)), chain(b, e)),
                     chain(z, e)),
               None, None)

(* a >> x.if_true(b).if_false(c) >> e, beside z.                             *)
Fork ==
    LET yes == [None EXCEPT ![x] = One(b)]
        no == [None EXCEPT ![x] = One(c)]
    IN GraphOf(Union(AddTask(AddDecision(One(a), x, yes[x], no[x]), e), One(z)), yes, no)

(* a >> x, whose one branch is y and then e, whose branches are b and c;    *)
(* the other branch is z.                                                   *)
Nest ==
    LET inner == AddTask(AddDecision(Empty, y, One(b), One(c)), e)
        yes == [d \in {x, y} |-> IF d = x THEN inner ELSE One(b)]
        no == [d \in {x, y} |-> IF d = x THEN One(z) ELSE One(c)]
    IN GraphOf(AddChain(One(a), AddDecision(Empty, x, inner, One(z))), yes, no)

Whole == {Fan, Fork, Nest}

(* a >> x.if_true(b) >> c                                                   *)
OneSided ==
    LET yes == [None EXCEPT ![x] = One(b)]
    IN {GraphOf(AddTask(AddDecision(One(a), x, One(b), Empty), c), yes, None)}

(* a >> x.if_true(b >> e).if_false(c >> e)                                  *)
Meeting ==
    LET yes == [None EXCEPT ![x] = AddTask(One(b), e)]
        no == [None EXCEPT ![x] = AddTask(One(c), e)]
    IN {GraphOf(AddDecision(One(a), x, yes[x], no[x]), yes, no)}

(* a >> x.if_true(y.if_true(b).if_false(c)).if_false(e)                     *)
Bare ==
    LET yes == [d \in {x, y} |-> IF d = x THEN One(y) ELSE One(b)]
        no == [d \in {x, y} |-> IF d = x THEN One(e) ELSE One(c)]
    IN {GraphOf(AddDecision(One(a), x, One(y), One(e)), yes, no)}
=============================================================================
