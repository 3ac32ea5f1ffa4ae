------------------------- MODULE MCWebhookDelivery -------------------------
(* Instances of WebhookDelivery for TLC.                                   *)
EXTENDS WebhookDelivery, TLC

CONSTANTS e1, e2, t1, t2, w1, w2

OneTenant  == [e \in Events |-> t1]
OwnTenants == (e1 :> t1) @@ (e2 :> t2)

\* Runs of the job are interchangeable, and so are events of one tenant.
WorkerSymmetry == Permutations(Workers)
Symmetry       == Permutations(Workers) \cup Permutations(Events)

=============================================================================
