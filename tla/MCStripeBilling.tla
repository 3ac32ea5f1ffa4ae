-------------------------- MODULE MCStripeBilling --------------------------
(* Instances of StripeBilling for TLC: every subscription is tenant t1's.  *)
EXTENDS StripeBilling, TLC

CONSTANTS t1, s1, s2, c1, c2, d1, d2

MCTenantOf   == [s \in Subs |-> t1]
MCCustomerOf == [s \in Subs |-> IF s = s1 THEN c1 ELSE c2]

DeliverySymmetry == Permutations(Deliveries)

=============================================================================
