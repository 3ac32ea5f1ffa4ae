------------------------------- MODULE Outbox -------------------------------
(***************************************************************************)
(* What analytics-webhook-service promises about each accepted event,      *)
(* without the job, its batches, the retry times and the circuit breaker:  *)
(* requests are sent only while the event waits, it is delivered only when *)
(* a request was accepted, given up only after MaxAttempts requests, and a *)
(* settled event is taken up again only through its dead letter.           *)
(***************************************************************************)
EXTENDS Naturals

CONSTANTS Events, MaxAttempts

VARIABLES
    status,     \* the deliveryStatus of each event
    lettered,   \* the event has a dead letter
    sent,       \* requests sent
    accepted    \* one of them was accepted by the tenant's server

vars == <<status, lettered, sent, accepted>>

Init ==
    /\ status   = [e \in Events |-> "ABSENT"]
    /\ lettered = [e \in Events |-> FALSE]
    /\ sent     = [e \in Events |-> 0]
    /\ accepted = [e \in Events |-> FALSE]

Accept(e) ==
    /\ status[e] = "ABSENT"
    /\ status' = [status EXCEPT ![e] = "PENDING"]
    /\ UNCHANGED <<lettered, sent, accepted>>

Send(e) ==
    /\ status[e] = "PENDING"
    /\ sent' = [sent EXCEPT ![e] = @ + 1]
    /\ \/ accepted' = [accepted EXCEPT ![e] = TRUE]
       \/ UNCHANGED accepted
    /\ UNCHANGED <<status, lettered>>

Deliver(e) ==
    /\ status[e] = "PENDING" /\ accepted[e]
    /\ status' = [status EXCEPT ![e] = "DELIVERED"]
    /\ UNCHANGED <<lettered, sent, accepted>>

GiveUp(e) ==
    /\ status[e] = "PENDING" /\ sent[e] >= MaxAttempts
    /\ status'   = [status EXCEPT ![e] = "FAILED"]
    /\ lettered' = [lettered EXCEPT ![e] = TRUE]
    /\ UNCHANGED <<sent, accepted>>

Skip(e) ==
    /\ status[e] = "PENDING"
    /\ status' = [status EXCEPT ![e] = "SKIPPED"]
    /\ UNCHANGED <<lettered, sent, accepted>>

Requeue(e) ==
    /\ lettered[e]
    /\ status' = [status EXCEPT ![e] = "PENDING"]
    /\ UNCHANGED <<lettered, sent, accepted>>

Next == \E e \in Events : \/ Accept(e) \/ Send(e) \/ Deliver(e)
                          \/ GiveUp(e) \/ Skip(e) \/ Requeue(e)

Spec == Init /\ [][Next]_vars

=============================================================================
