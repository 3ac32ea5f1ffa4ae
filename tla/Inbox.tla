------------------------------- MODULE Inbox -------------------------------
(***************************************************************************)
(* What auth-org-service promises about the messages of Stripe, without    *)
(* its handlers, its requests and their overlap: a message is recorded     *)
(* before it has any effect; it touches no row but that of the tenant      *)
(* whose subscription it is about; a binding message is settled only after *)
(* it was handled, and a message is acknowledged only when it is settled.  *)
(* Each may be handled again at any time.                                  *)
(***************************************************************************)
CONSTANTS Messages, Subjects, NoSubject, Owner, Tenants, Rows

VARIABLES
    subject,    \* what each message is about; NoSubject until it is sent
    binding,    \* messages that must not be passed over
    record,     \* "absent", "seen" or "processed"
    handled,    \* messages that were applied to the rows
    acked,      \* messages the sender was told not to send again
    tenant      \* the row of each tenant

vars == <<subject, binding, record, handled, acked, tenant>>

Init ==
    /\ subject = [m \in Messages |-> NoSubject]
    /\ binding = {}
    /\ record  = [m \in Messages |-> "absent"]
    /\ handled = {}
    /\ acked   = {}
    /\ tenant \in [Tenants -> Rows]

Send(m, s) ==
    /\ subject[m] = NoSubject
    /\ subject' = [subject EXCEPT ![m] = s]
    /\ binding' \in {binding, binding \cup {m}}
    /\ UNCHANGED <<record, handled, acked, tenant>>

Record(m) ==
    /\ subject[m] # NoSubject /\ record[m] = "absent"
    /\ record' = [record EXCEPT ![m] = "seen"]
    /\ UNCHANGED <<subject, binding, handled, acked, tenant>>

\* A part of the handling, or all of it.
Handle(m) ==
    /\ record[m] # "absent"
    /\ \E row \in Rows : tenant' = [tenant EXCEPT ![Owner[subject[m]]] = row]
    /\ handled' \in {handled, handled \cup {m}}
    /\ UNCHANGED <<subject, binding, record, acked>>

Settle(m) ==
    /\ record[m] # "absent"
    /\ m \in binding => m \in handled
    /\ record' = [record EXCEPT ![m] = "processed"]
    /\ UNCHANGED <<subject, binding, handled, acked, tenant>>

Acknowledge(m) ==
    /\ record[m] = "processed"
    /\ acked' = acked \cup {m}
    /\ UNCHANGED <<subject, binding, record, handled, tenant>>

Next == \E m \in Messages : \/ \E s \in Subjects : Send(m, s)
                            \/ Record(m) \/ Handle(m) \/ Settle(m) \/ Acknowledge(m)

Spec == Init /\ [][Next]_vars

=============================================================================
