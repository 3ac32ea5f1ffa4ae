---------------------------- MODULE CircuitBreaker ----------------------------
(***************************************************************************)
(* What the circuit breaker of WebhookDelivery is worth when runs of the   *)
(* job overlap.                                                            *)
(*                                                                         *)
(* consecutiveFailures and circuitOpenUntil are read with the endpoint,    *)
(* before the POST, and used after it.  So a request can go into a circuit *)
(* that another run has opened in between, and a failure can be recorded   *)
(* over the failures that other runs recorded in between.  Neither can be  *)
(* excluded; this module counts both, in two history variables beside the  *)
(* steps of WebhookDelivery, and bounds them.                              *)
(***************************************************************************)
EXTENDS WebhookDelivery, Combinatorics

ASSUME WorkersAssumption == IsFiniteSet(Workers)

VARIABLES
    strays,   \* history: requests sent to the tenant since its circuit opened, 0 while closed
    streak    \* history: failures recorded since the last success or opening, 0 while open

breakerVars == <<vars, strays, streak>>

BreakerInit ==
    /\ Init
    /\ strays = [t \in Tenants |-> 0]
    /\ streak = [t \in Tenants |-> 0]

Tenant(w) == TenantOf[worker[w].evt]

\* What a step does for the tenant t.
Sends(t)    == \E e \in Events : TenantOf[e] = t /\ posts'[e] # posts[e]
Succeeds(t) == \E w \in Workers : CommitSuccess(w) /\ Tenant(w) = t
Fails(t)    == \E w \in Workers : RecordFailure(w) /\ Tenant(w) = t

CountStrays ==
    strays' = [t \in Tenants |->
        IF circuit[t] = 0 \/ circuit'[t] = 0 THEN 0
        ELSE IF Sends(t) THEN strays[t] + 1 ELSE strays[t]]

CountStreak ==
    streak' = [t \in Tenants |->
        IF circuit'[t] > 0 \/ Succeeds(t) THEN 0
        ELSE IF Fails(t) THEN streak[t] + 1 ELSE streak[t]]

BreakerNext == Next /\ CountStrays /\ CountStreak

BreakerSpec == BreakerInit /\ [][BreakerNext]_breakerVars

FairBreakerSpec == BreakerSpec /\ Fairness

-----------------------------------------------------------------------------
\* The runs that have seen the tenant's circuit closed and not yet sent their request.
Asking(t) == {w \in Workers : worker[w].pc = "post" /\ Tenant(w) = t}

\* The circuit keeps the job from asking: from the moment it opens until it
\* closes, a tenant gets at most one request from each run other than the one
\* that opened it, the requests still under way included.  The run that tests
\* circuitOpenUntil and the run that writes it need not be the same.
OpenCircuitHolds ==
    \A t \in Tenants :
        circuit[t] > 0 => strays[t] + Cardinality(Asking(t)) < Cardinality(Workers)

\* The circuit opens for a tenant whose server fails: runs that write back
\* snapshot + 1 can set the count of failures back, but only as long as a run
\* still holds an older count.  Each failure moves the counts that the n runs
\* hold up, so with a threshold of T there are at most (T + n - 1 over n) - 1 in
\* a row before the one that opens it; T - 1 if runs do not overlap.
FailuresOpenCircuit ==
    LET n == Cardinality(Workers)
    IN  \A t \in Tenants : streak[t] < choose(CircuitThreshold + n - 1, n)

=============================================================================
