------------------------- MODULE MCControllerRound -------------------------
EXTENDS ControllerRound

CONSTANTS w1, w2

(* w2 follows w1 in the plan. *)
Plan == [w \in Works |-> IF w = w1 /\ w2 \in Works THEN w2 ELSE None]
=============================================================================
