----------------------------- MODULE MCToolLoop -----------------------------
(***************************************************************************)
(* Instances of ToolLoop for TLC: a sequential tool, a parallel one and    *)
(* one that is executed outside, in sequence or not; or one that stops.    *)
(***************************************************************************)
EXTENDS ToolLoop

CONSTANTS s, p, x

Mixed == [sequential |-> {s}, external |-> {x}, stopping |-> {}]
Ordered == [sequential |-> {s, x}, external |-> {x}, stopping |-> {p}]

AllSetups == {Mixed, Ordered}
=============================================================================
