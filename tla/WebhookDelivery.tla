-------------------------- MODULE WebhookDelivery --------------------------
(***************************************************************************)
(* The delivery half of analytics-webhook-service: the EventBuffer outbox, *)
(* the per-tenant WebhookEndpoint with its circuit breaker, the dead       *)
(* letters, and the cron job deliverPendingWebhooks that moves events from *)
(* PENDING to DELIVERED, FAILED or SKIPPED.                                *)
(*                                                                         *)
(* The job starts every ten seconds whether or not its previous run has    *)
(* ended (there is no overlap guard, and fetch has no time limit), and the *)
(* service may be replicated: each member of Workers is one run of the     *)
(* job.  A run works from SNAPSHOTS: deliveryAttempts is read with the     *)
(* batch, consecutiveFailures with the endpoint, and both are written back *)
(* as snapshot + 1.  Every await of the job is a step boundary.            *)
(*                                                                         *)
(* Dates are relative: due[e] is the number of time units until the        *)
(* event's nextAttemptAt (0: now or past), circuit[t] the units until      *)
(* circuitOpenUntil (0: null or past).  Tick lets one unit pass.           *)
(***************************************************************************)
EXTENDS Integers, FiniteSets

CONSTANTS
    Events,            \* rows of EventBuffer, one per idempotency key
    Tenants,
    TenantOf,          \* the tenant of each event
    Workers,           \* runs of the cron job that may be under way at once
    NoEvent,           \* a worker that handles no event
    MaxAttempts,       \* 10 in the code
    CircuitThreshold,  \* circuitFailureThreshold()
    OpenFor,           \* circuitOpenMs(), in time units
    Waits,             \* the values of backoffMs(), in time units
    BatchSize,         \* take: 50
    MaxRequeues,       \* bound: requeues of one dead letter
    MaxFaults,         \* bound: failed transactions and stopped runs
    MaxPosts           \* bound: POST requests for one event

ASSUME EventsAssumption  == TenantOf \in [Events -> Tenants] /\ NoEvent \notin Events
ASSUME LimitsAssumption  == /\ MaxAttempts \in Nat \ {0}
                            /\ CircuitThreshold \in Nat \ {0}
                            /\ BatchSize \in Nat \ {0}
ASSUME DelaysAssumption  == OpenFor \in Nat \ {0} /\ Waits \subseteq Nat \ {0}
ASSUME BoundsAssumption  == {MaxRequeues, MaxFaults, MaxPosts} \subseteq Nat

VARIABLES
    status,    \* EventBuffer.deliveryStatus, "ABSENT" before the row exists
    attempts,  \* EventBuffer.deliveryAttempts
    due,       \* EventBuffer.nextAttemptAt
    dead,      \* the event's DeadLetterEvent: "none", "open" (requeuedAt null), "requeued"
    endpoint,  \* WebhookEndpoint: "none", "active", "inactive"
    failures,  \* WebhookEndpoint.consecutiveFailures
    circuit,   \* WebhookEndpoint.circuitOpenUntil
    worker,    \* the locals of each run of the job
    posts,     \* history: POST requests sent for the event
    acked,     \* history: the tenant's server answered one of them with 2xx
    requeues,  \* history: times the dead letter was requeued
    faults     \* history: faults so far

eventVars    == <<status, attempts, due>>
endpointVars == <<endpoint, failures, circuit>>
historyVars  == <<posts, acked, requeues, faults>>
vars == <<eventVars, dead, endpointVars, worker, historyVars>>

Statuses == {"ABSENT", "PENDING", "DELIVERED", "FAILED", "SKIPPED"}
Places   == {"idle", "loop", "skip", "postpone", "post", "ok", "failed", "caught"}

WorkerState == [pc    : Places,
                batch : SUBSET Events,       \* events still to handle
                snap  : [Events -> Nat],     \* deliveryAttempts as read with the batch
                evt   : Events \cup {NoEvent},
                fails : Nat,                 \* consecutiveFailures as read
                hold  : Nat]                 \* circuitOpenUntil as read

IdleWorker == [pc |-> "idle", batch |-> {}, snap |-> [e \in Events |-> 0],
               evt |-> NoEvent, fails |-> 0, hold |-> 0]

TypeOK ==
    /\ status   \in [Events -> Statuses]
    /\ attempts \in [Events -> Nat]
    /\ due      \in [Events -> Nat]
    /\ dead     \in [Events -> {"none", "open", "requeued"}]
    /\ endpoint \in [Tenants -> {"none", "active", "inactive"}]
    /\ failures \in [Tenants -> Nat]
    /\ circuit  \in [Tenants -> Nat]
    /\ worker   \in [Workers -> WorkerState]
    /\ posts    \in [Events -> Nat]
    /\ acked    \in [Events -> BOOLEAN]
    /\ requeues \in [Events -> Nat]
    /\ faults   \in Nat

Init ==
    /\ status   = [e \in Events |-> "ABSENT"]
    /\ attempts = [e \in Events |-> 0]
    /\ due      = [e \in Events |-> 0]
    /\ dead     = [e \in Events |-> "none"]
    /\ endpoint = [t \in Tenants |-> "none"]
    /\ failures = [t \in Tenants |-> 0]
    /\ circuit  = [t \in Tenants |-> 0]
    /\ worker   = [w \in Workers |-> IdleWorker]
    /\ posts    = [e \in Events |-> 0]
    /\ acked    = [e \in Events |-> FALSE]
    /\ requeues = [e \in Events |-> 0]
    /\ faults   = 0

-----------------------------------------------------------------------------
(* Requests from the gateway.                                              *)

\* An upsert on the idempotency key: a key already there changes nothing.
AppendEvent(e) ==
    /\ status' = [status EXCEPT ![e] = IF @ = "ABSENT" THEN "PENDING" ELSE @]
    /\ UNCHANGED <<attempts, due, dead, endpointVars, worker, historyVars>>

\* The circuit's fields survive a change of url, secret or isActive.
UpsertWebhookEndpoint(t, isActive) ==
    /\ endpoint' = [endpoint EXCEPT ![t] = IF isActive THEN "active" ELSE "inactive"]
    /\ UNCHANGED <<eventVars, dead, failures, circuit, worker, historyVars>>

\* Mutant: requeuedAt is not set.
RequeueUnmarked(e) ==
    /\ dead[e] # "none"
    /\ requeues[e] < MaxRequeues
    /\ status'   = [status EXCEPT ![e] = "PENDING"]
    /\ due'      = [due EXCEPT ![e] = 0]
    /\ requeues' = [requeues EXCEPT ![e] = @ + 1]
    /\ UNCHANGED <<attempts, dead, endpointVars, worker, posts, acked, faults>>

\* Whatever the event's status is, and with its attempts as they were.  Rows of
\* DeadLetterEvent are never deleted, so the read before the transaction
\* (does the row exist?) cannot become stale and is part of the step.
RequeueDeadLetter(e) ==
    /\ dead[e] # "none"
    /\ requeues[e] < MaxRequeues
    /\ status'   = [status EXCEPT ![e] = "PENDING"]
    /\ due'      = [due EXCEPT ![e] = 0]
    /\ dead'     = [dead EXCEPT ![e] = "requeued"]
    /\ requeues' = [requeues EXCEPT ![e] = @ + 1]
    /\ UNCHANGED <<attempts, endpointVars, worker, posts, acked, faults>>

-----------------------------------------------------------------------------
(* The cron job.                                                           *)

\* Mutant: the query forgets deliveryStatus.
DueWhateverStatus == {e \in Events : status[e] # "ABSENT" /\ due[e] = 0}

DueEvents == {e \in Events : status[e] = "PENDING" /\ due[e] = 0}

\* The order of the batch decides nothing: the model takes any BatchSize of
\* the due events and handles them in any order.
FullBatch(B) == \/ B = DueEvents /\ Cardinality(B) <= BatchSize
                \/ Cardinality(B) = BatchSize

TakeBatch(w) ==
    /\ worker[w].pc = "idle"
    /\ \E B \in SUBSET DueEvents \ {{}} :
          /\ FullBatch(B)
          /\ worker' = [worker EXCEPT ![w] =
                [IdleWorker EXCEPT !.pc = "loop", !.batch = B,
                    !.snap = [e \in Events |-> IF e \in B THEN attempts[e] ELSE 0]]]
    /\ UNCHANGED <<eventVars, dead, endpointVars, historyVars>>

\* Mutant: circuitOpenUntil is not looked at.
CircuitIgnored(t) == FALSE

CircuitOpen(t) == circuit[t] > 0

\* The next event of the batch: its endpoint is read and decides what follows.
ReadEndpoint(w) ==
    /\ worker[w].pc = "loop"
    /\ \E e \in worker[w].batch :
          LET t == TenantOf[e]
              chosen == [worker[w] EXCEPT !.evt = e, !.batch = @ \ {e}]
          IN  \/ /\ endpoint[t] # "active"
                 /\ worker' = [worker EXCEPT ![w] = [chosen EXCEPT !.pc = "skip"]]
              \/ /\ endpoint[t] = "active" /\ CircuitOpen(t)
                 /\ worker' = [worker EXCEPT ![w] =
                                 [chosen EXCEPT !.pc = "postpone", !.hold = circuit[t]]]
              \/ /\ endpoint[t] = "active" /\ ~CircuitOpen(t)
                 /\ worker' = [worker EXCEPT ![w] =
                                 [chosen EXCEPT !.pc = "post", !.fails = failures[t]]]
    /\ UNCHANGED <<eventVars, dead, endpointVars, historyVars>>

\* The end of one iteration of the loop.
NextIteration(w) ==
    worker' = [worker EXCEPT ![w] =
        IF @.batch = {} THEN IdleWorker
        ELSE [@ EXCEPT !.pc = "loop", !.evt = NoEvent, !.fails = 0, !.hold = 0,
                       !.snap = [e \in Events |-> IF e \in worker[w].batch
                                                  THEN worker[w].snap[e] ELSE 0]]]

\* Mutant: the event is passed over and its status left PENDING.
SkipUnmarked(w) ==
    /\ worker[w].pc = "skip"
    /\ NextIteration(w)
    /\ UNCHANGED <<eventVars, dead, endpointVars, historyVars>>

Skip(w) ==
    /\ worker[w].pc = "skip"
    /\ status' = [status EXCEPT ![worker[w].evt] = "SKIPPED"]
    /\ NextIteration(w)
    /\ UNCHANGED <<attempts, due, dead, endpointVars, historyVars>>

\* Mutant: a postponed event counts as attempted.
PostponeCounts(w) ==
    /\ worker[w].pc = "postpone"
    /\ \E d \in Waits : due' = [due EXCEPT ![worker[w].evt] = worker[w].hold + d]
    /\ attempts' = [attempts EXCEPT ![worker[w].evt] = @ + 1]
    /\ NextIteration(w)
    /\ UNCHANGED <<status, dead, endpointVars, historyVars>>

\* The circuit is open: nextAttemptAt moves behind it, attempts do not count.
Postpone(w) ==
    /\ worker[w].pc = "postpone"
    /\ \E d \in Waits : due' = [due EXCEPT ![worker[w].evt] = worker[w].hold + d]
    /\ NextIteration(w)
    /\ UNCHANGED <<status, attempts, dead, endpointVars, historyVars>>

\* Mutant: every answer counts as success, res.ok is not tested.
PostAnyAnswer(w) ==
    /\ worker[w].pc = "post"
    /\ posts[worker[w].evt] < MaxPosts
    /\ posts' = [posts EXCEPT ![worker[w].evt] = @ + 1]
    /\ \E answer \in {"ok", "failed", "caught"} :
          /\ worker' = [worker EXCEPT ![w].pc = IF answer = "caught" THEN "caught" ELSE "ok"]
          /\ acked'  = [acked EXCEPT ![worker[w].evt] = @ \/ answer = "ok"]
    /\ UNCHANGED <<eventVars, dead, endpointVars, requeues, faults>>

\* fetch: a 2xx answer, another answer, or an exception that reaches the catch.
Post(w) ==
    /\ worker[w].pc = "post"
    /\ posts[worker[w].evt] < MaxPosts
    /\ posts' = [posts EXCEPT ![worker[w].evt] = @ + 1]
    /\ \E answer \in {"ok", "failed", "caught"} :
          /\ worker' = [worker EXCEPT ![w].pc = answer]
          /\ acked'  = [acked EXCEPT ![worker[w].evt] = @ \/ answer = "ok"]
    /\ UNCHANGED <<eventVars, dead, endpointVars, requeues, faults>>

Attempt(w) == worker[w].snap[worker[w].evt] + 1

CommitSuccess(w) ==
    LET e == worker[w].evt
    IN  /\ worker[w].pc = "ok"
        /\ status'   = [status EXCEPT ![e] = "DELIVERED"]
        /\ attempts' = [attempts EXCEPT ![e] = Attempt(w)]
        /\ failures' = [failures EXCEPT ![TenantOf[e]] = 0]
        /\ circuit'  = [circuit EXCEPT ![TenantOf[e]] = 0]
        /\ NextIteration(w)
        /\ UNCHANGED <<due, dead, endpoint, historyVars>>

\* Mutant: the failure just seen is not counted against the threshold.
OpensCircuitLate(w) == worker[w].fails >= CircuitThreshold

OpensCircuit(w) == worker[w].fails + 1 >= CircuitThreshold

\* Mutants: the attempts end one too early, one too late.
ExhaustedEarly(w) == Attempt(w) + 1 >= MaxAttempts
ExhaustedLate(w)  == Attempt(w) > MaxAttempts

Exhausted(w) == Attempt(w) >= MaxAttempts

\* Mutant: the attempt is not recorded.
RecordFailureUncounted(w) ==
    LET t == TenantOf[worker[w].evt]
    IN  /\ worker[w].pc \in {"failed", "caught"}
        /\ \E d \in Waits : due' = [due EXCEPT ![worker[w].evt] = d]
        /\ failures' = [failures EXCEPT ![t] = worker[w].fails + 1]
        /\ circuit'  = [circuit EXCEPT ![t] = IF OpensCircuit(w) THEN OpenFor ELSE @]
        /\ NextIteration(w)
        /\ UNCHANGED <<attempts, endpoint, historyVars>>

\* The writes after an answer that is not 2xx and those of the catch are the
\* same.  circuitOpenUntil is written only when the count of failures read with
\* the endpoint reaches the threshold.
RecordFailure(w) ==
    LET e == worker[w].evt
        t == TenantOf[e]
    IN  /\ worker[w].pc \in {"failed", "caught"}
        /\ attempts' = [attempts EXCEPT ![e] = Attempt(w)]
        /\ \E d \in Waits : due' = [due EXCEPT ![e] = d]
        /\ failures' = [failures EXCEPT ![t] = worker[w].fails + 1]
        /\ circuit'  = [circuit EXCEPT ![t] = IF OpensCircuit(w) THEN OpenFor ELSE @]
        /\ NextIteration(w)
        /\ UNCHANGED <<endpoint, historyVars>>

CommitRetry(w) ==
    /\ RecordFailure(w)
    /\ ~Exhausted(w)
    /\ status' = [status EXCEPT ![worker[w].evt] = "PENDING"]
    /\ UNCHANGED dead

\* The upsert of the dead letter leaves requeuedAt of an existing row alone.
CommitDeadLetter(w) ==
    /\ RecordFailure(w)
    /\ Exhausted(w)
    /\ status' = [status EXCEPT ![worker[w].evt] = "FAILED"]
    /\ dead'   = [dead EXCEPT ![worker[w].evt] = IF @ = "none" THEN "open" ELSE @]

-----------------------------------------------------------------------------
(* Faults and time.                                                        *)

\* A transaction inside the try throws: the catch records a failed attempt,
\* even when the tenant's server had accepted the event.
TransactionThrows(w) ==
    /\ faults < MaxFaults
    /\ worker[w].pc \in {"ok", "failed"}
    /\ worker' = [worker EXCEPT ![w].pc = "caught"]
    /\ faults' = faults + 1
    /\ UNCHANGED <<eventVars, dead, endpointVars, posts, acked, requeues>>

\* A database call outside the try throws, or the process stops: the run of
\* the job is gone with the rest of its batch, and nothing it held is written.
RunStops(w) ==
    /\ faults < MaxFaults
    /\ worker[w].pc # "idle"
    /\ worker' = [worker EXCEPT ![w] = IdleWorker]
    /\ faults' = faults + 1
    /\ UNCHANGED <<eventVars, dead, endpointVars, posts, acked, requeues>>

Sooner(n) == IF n = 0 THEN 0 ELSE n - 1

Tick ==
    /\ due'     = [e \in Events |-> Sooner(due[e])]
    /\ circuit' = [t \in Tenants |-> Sooner(circuit[t])]
    /\ worker'  = [w \in Workers |-> [worker[w] EXCEPT !.hold = Sooner(@)]]
    /\ UNCHANGED <<status, attempts, dead, endpoint, failures, historyVars>>

-----------------------------------------------------------------------------
JobStep(w) ==
    \/ TakeBatch(w) \/ ReadEndpoint(w) \/ Skip(w) \/ Postpone(w) \/ Post(w)
    \/ CommitSuccess(w) \/ CommitRetry(w) \/ CommitDeadLetter(w)

Fault(w) == TransactionThrows(w) \/ RunStops(w)

Request ==
    \/ \E e \in Events : AppendEvent(e) \/ RequeueDeadLetter(e)
    \/ \E t \in Tenants, isActive \in BOOLEAN : UpsertWebhookEndpoint(t, isActive)

Next == Request \/ Tick \/ \E w \in Workers : JobStep(w) \/ Fault(w)

Spec == Init /\ [][Next]_vars

\* The scheduler starts the job again and again, its awaits return (the client
\* library ends a fetch that gets no answer), and time passes.  Nothing is
\* assumed of requests and faults.
Fairness == WF_vars(Tick) /\ \A w \in Workers : WF_vars(JobStep(w))

FairSpec == Spec /\ Fairness

-----------------------------------------------------------------------------
(* Properties that hold however the runs of the job overlap.               *)

\* The status DELIVERED is never written for an event that the tenant's server
\* did not accept, and no run is about to write it for one: the branch res.ok
\* of deliverPendingWebhooks.
DeliveredWasAccepted ==
    /\ \A e \in Events : status[e] = "DELIVERED" => acked[e]
    /\ \A w \in Workers : worker[w].pc = "ok" => acked[worker[w].evt]

\* A run can lose the increments of another run but never invents one: the
\* recorded attempts, and the attempts a run is about to record, are at most
\* the POST requests really sent.
Recorded(w) == IF worker[w].pc \in {"ok", "failed", "caught"} THEN 1 ELSE 0
Claimed(w, e) == worker[w].snap[e] + (IF worker[w].evt = e THEN Recorded(w) ELSE 0)
AttemptsWereSent ==
    \A e \in Events : /\ attempts[e] <= posts[e]
                      /\ \A w \in Workers : Claimed(w, e) <= posts[e]

\* An event is given up only after its full number of requests was sent, and a
\* FAILED event is always in the dead-letter queue, from which it can be requeued.
DeadLettersAreExhausted ==
    \A e \in Events :
        /\ status[e] = "FAILED" => dead[e] # "none"
        /\ dead[e] # "none" => posts[e] >= MaxAttempts

\* A requeue keeps deliveryAttempts, so it buys exactly one more recorded
\* attempt; an event that waits for delivery, or is in a run's hands, has one left.
RetryBudget ==
    \A e \in Events :
        /\ attempts[e] <= MaxAttempts + requeues[e]
        /\ status[e] \in {"ABSENT", "PENDING"} => attempts[e] < MaxAttempts + requeues[e]
        /\ \A w \in Workers : worker[w].snap[e] < MaxAttempts + requeues[e]

-----------------------------------------------------------------------------
(* Properties of a job whose runs do not overlap.                          *)

\* The dead letters that dlqSummary counts as open are events still FAILED.
OpenDeadLettersAreFailed ==
    \A e \in Events : dead[e] = "open" => status[e] = "FAILED"

\* Every request is accounted for: one that no recorded attempt stands for
\* was cut off by a fault or is the one now in the worker's hands.
InHand(e) == Cardinality({w \in Workers : worker[w].evt = e /\ Recorded(w) = 1})
PostsAreAccounted == \A e \in Events : posts[e] <= attempts[e] + faults + InHand(e)

\* An event that was delivered, given up or skipped.
Settled(e) == status[e] \in {"DELIVERED", "FAILED", "SKIPPED"}

\* Every accepted event is settled in the end: retries, open circuits, faults
\* and other events cannot keep it PENDING for ever.
EventuallySettled == \A e \in Events : status[e] = "PENDING" ~> Settled(e)

-----------------------------------------------------------------------------
(* The promise of the service, and what the job does for it.               *)

Promise == INSTANCE Outbox WITH lettered <- [e \in Events |-> dead[e] # "none"],
                                sent <- posts, accepted <- acked

\* As long as runs of the job do not overlap, the outbox with its retries, its
\* circuit breaker, its dead letters, failed transactions and stopped runs does
\* nothing but what Outbox allows.
ImplementsOutbox == Promise!Spec

-----------------------------------------------------------------------------
(* What the dead-letter alert is meant to count: dlqSummary's open is the  *)
(* number of dead letters less those with a requeuedAt.  The query counts  *)
(* the rows created since a look-back window began; the model has no       *)
(* creation dates, so its dead letters are all inside that window.         *)
DlqOpen == Cardinality({e \in Events : dead[e] # "none"})
             - Cardinality({e \in Events : dead[e] = "requeued"})

\* The backlog of the alert ("Analytics DLQ backlog is above threshold") covers
\* every event that is out of attempts and waits in the dead-letter queue.
BacklogCoversFailed ==
    Cardinality({e \in Events : status[e] = "FAILED"}) <= DlqOpen

=============================================================================
