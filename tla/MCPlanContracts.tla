--------------------------- MODULE MCPlanContracts --------------------------
EXTENDS PlanContracts

CONSTANTS s1, s2

(* s2 waits for s1.                                                         *)
InOrder == [s \in Steps |-> IF s = s2 THEN {s1} \intersect Steps ELSE {}]
Free == [s \in Steps |-> {}]
=============================================================================
