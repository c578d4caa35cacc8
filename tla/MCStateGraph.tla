---------------------------- MODULE MCStateGraph ----------------------------
(***************************************************************************)
(* Instances of StateGraph for TLC: a graph that forks, joins and loops, a *)
(* chain with every kind of interrupt and one without, and two with Sends. *)
(***************************************************************************)
EXTENDS StateGraph, TLC

CONSTANTS a, b, c

To(targets) == [to |-> targets, send |-> FALSE]
SendTo(targets) == [to |-> targets, send |-> TRUE]

Plain == [n \in Nodes |-> {}]
Never == [n \in Nodes |-> 0]
Once == [n \in Nodes |-> 1]

Fork == [entry |-> {a},
         edges |-> a :> {To({b, c})} @@ b :> {To({END}), To({a})} @@ c :> {To({a})},
         gotos |-> [Plain EXCEPT ![b] = {To({c})}],
         before |-> {}, after |-> {}, questions |-> Never,
         attempts |-> [Once EXCEPT ![a] = 2]]

Chain == [entry |-> {a},
          edges |-> a :> {To({b})} @@ b :> {To({c})} @@ c :> {To({END})},
          gotos |-> [Plain EXCEPT ![a] = {To({c})}],
          before |-> {c}, after |-> {b}, questions |-> [Never EXCEPT ![a] = 1],
          attempts |-> [Once EXCEPT ![a] = 2]]

Line == [Chain EXCEPT !.before = {}, !.after = {}, !.questions = Never, !.gotos = Plain]

FanOut == [entry |-> {a},
           edges |-> a :> {SendTo({b, c})} @@ b :> {To({c})} @@ c :> {To({END})},
           gotos |-> Plain,
           before |-> {}, after |-> {}, questions |-> Never,
           attempts |-> Once]

AskFirst == [FanOut EXCEPT !.questions = [Never EXCEPT ![a] = 1]]

(* Two branches behind an interrupt.                                        *)
Branching == [Line EXCEPT !.edges = a :> {To({b, c})} @@ b :> {To({END})} @@ c :> {To({END})},
                          !.after = {a}]

ForkedGraphs == {Branching}

AllGraphs == {Fork, Chain, Line, FanOut, AskFirst}
=============================================================================
