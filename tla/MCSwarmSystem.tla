---------------------------- MODULE MCSwarmSystem ----------------------------
(* Instances of SwarmSystem for TLC. *)
EXTENDS SwarmSystem

CONSTANTS a, b, far     \* two locations on the canvas, one far outside it

OnCanvas == {a, b}
OnePlace == {a}
Everywhere == {a, b, far}
FarAway == {far}

\* Other clients: a move beyond 1000 and a stop.
Foreign == {[type |-> "GoToLocation", location |-> far], [type |-> "Halt"]}
NoForeign == {}

Robots == 0..Cardinality(Task)
NoTasks == {}
=============================================================================
