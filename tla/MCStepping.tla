------------------------------ MODULE MCStepping ------------------------------
(* Stepping, and the engine that completes, on two tasks and two worlds;   *)
(* one choice, decided either way, or no decision.                         *)
EXTENDS Stepping

CONSTANT w1

Birth(positive) == [support |-> World, decision |-> {w1}, positive |-> positive]

Lists == {<<>>, <<Birth(TRUE)>>, <<Birth(FALSE), Birth(FALSE)>>}
=============================================================================
