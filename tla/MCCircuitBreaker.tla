------------------------- MODULE MCCircuitBreaker -------------------------
(* Instances of CircuitBreaker for TLC.                                    *)
EXTENDS CircuitBreaker, TLC

CONSTANTS e1, e2, t1, t2, w1, w2

OneTenant == [e \in Events |-> t1]

=============================================================================
