---------------------------- MODULE MCPolicyCheck ----------------------------
(***************************************************************************)
(* Instances of PolicyCheck for TLC.  Two user policies replace words and  *)
(* a third refuses one; of the agent's, one replaces and one refuses.      *)
(***************************************************************************)
EXTENDS PolicyCheck, TLC

CONSTANTS m, n, mm, nn, x, bad,   \* words: two names, what replaces them, ...
          u, v, r, h, g           \* policies

TheKind == u :> "transform" @@ v :> "transform" @@ r :> "raise"
           @@ h :> "transform" @@ g :> "block"

TheFinds == u :> {m} @@ v :> {n} @@ r :> {bad} @@ h :> {n} @@ g :> {bad}

Same == [w \in Words |-> w]

TheCover == u :> [Same EXCEPT ![m] = mm] @@ v :> [Same EXCEPT ![n] = nn] @@ r :> Same
            @@ h :> [Same EXCEPT ![n] = x] @@ g :> Same

ThePrompts == {{m, n}, {bad}}
ThreePrompts == ThePrompts \cup {{n}}

(* v finds what u puts in the place of a word, as both look for numbers.    *)
Overlapping == [TheFinds EXCEPT ![v] = {n, mm}]
OverlappingCover == [TheCover EXCEPT ![v] = [@ EXCEPT ![mm] = x]]

(* v puts the same text in the place of every word it finds.                *)
Redacting == [TheFinds EXCEPT ![u] = {}, ![v] = {m, n}]
RedactingCover == [TheCover EXCEPT ![v] = [Same EXCEPT ![m] = x, ![n] = x]]

Chain3 == <<u, v, r>>
Chain2 == <<h, g>>
Alone == {{}}
OneAgent == {{}, {"agent"}}
PoliciesOnly == {{"policies"}}
AllSharings == SUBSET {"agent", "policies"}
=============================================================================
