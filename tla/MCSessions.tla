----------------------------- MODULE MCSessions -----------------------------
(* Instances of Sessions for TLC.                                          *)
EXTENDS Sessions, TLC

CONSTANTS u1, r1, r2

OneUser == [t \in Tokens |-> u1]

\* Requests are interchangeable.
RequestSymmetry == Permutations(Requests)

=============================================================================
