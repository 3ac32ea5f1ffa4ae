----------------------- MODULE WebhookDelivery_proofs -----------------------
(***************************************************************************)
(* Proofs about WebhookDelivery and CircuitBreaker, for any number of      *)
(* events, tenants and overlapping runs of the job, and any limits; and,   *)
(* for a job whose runs do not overlap, about the open dead letters, the   *)
(* account of requests and the refinement of Outbox.                       *)
(***************************************************************************)
EXTENDS CircuitBreaker, FiniteSetTheorems, TLAPS

USE DEF Statuses, Places

-----------------------------------------------------------------------------
(* The worker's record keeps its type under each kind of update.           *)

LEMMA IdleWorkerType == IdleWorker \in WorkerState
BY DEF IdleWorker, WorkerState

LEMMA WorkerPcType ==
  ASSUME NEW w \in Workers, NEW p \in Places, worker \in [Workers -> WorkerState]
  PROVE  [worker EXCEPT ![w].pc = p] \in [Workers -> WorkerState]
BY DEF WorkerState

LEMMA WorkerHoldType ==
  ASSUME NEW r \in WorkerState
  PROVE  [r EXCEPT !.hold = Sooner(@)] \in WorkerState
BY DEF WorkerState, Sooner

LEMMA WorkerBatchType ==
  ASSUME NEW B \in SUBSET Events, attempts \in [Events -> Nat]
  PROVE  [IdleWorker EXCEPT !.pc = "loop", !.batch = B,
             !.snap = [e \in Events |-> IF e \in B THEN attempts[e] ELSE 0]] \in WorkerState
BY DEF WorkerState, IdleWorker

LEMMA WorkerChosenType ==
  ASSUME NEW r \in WorkerState, NEW e \in Events, NEW n \in Nat
  PROVE  LET chosen == [r EXCEPT !.evt = e, !.batch = @ \ {e}]
         IN  /\ [chosen EXCEPT !.pc = "skip"] \in WorkerState
             /\ [chosen EXCEPT !.pc = "postpone", !.hold = n] \in WorkerState
             /\ [chosen EXCEPT !.pc = "post", !.fails = n] \in WorkerState
BY DEF WorkerState

LEMMA WorkerLoopType ==
  ASSUME NEW r \in WorkerState
  PROVE  [r EXCEPT !.pc = "loop", !.evt = NoEvent, !.fails = 0, !.hold = 0,
             !.snap = [e \in Events |-> IF e \in r.batch THEN r.snap[e] ELSE 0]]
         \in WorkerState
BY DEF WorkerState

LEMMA NextIterationType ==
  ASSUME NEW w \in Workers, worker \in [Workers -> WorkerState], NextIteration(w)
  PROVE  worker' \in [Workers -> WorkerState]
BY IdleWorkerType, WorkerLoopType DEF NextIteration

LEMMA AttemptType ==
  ASSUME NEW w \in Workers, worker[w] \in WorkerState, worker[w].evt \in Events
  PROVE  Attempt(w) \in Nat
BY DEF Attempt, WorkerState

-----------------------------------------------------------------------------
(* Type correctness.  A worker past the choice of an event holds one.      *)

HoldsEvent ==
    \A w \in Workers : worker[w].pc \notin {"idle", "loop"} => worker[w].evt \in Events

TInv == TypeOK /\ HoldsEvent

LEMMA HoldsEventStep == TInv /\ [Next]_vars => HoldsEvent'
<1> SUFFICES ASSUME TInv, [Next]_vars PROVE HoldsEvent'
  OBVIOUS
<1> USE DEF TInv
<1>1. ASSUME NEW w \in Workers, TakeBatch(w) PROVE HoldsEvent'
  BY <1>1 DEF TypeOK, TakeBatch, HoldsEvent, IdleWorker
<1>2. ASSUME NEW w \in Workers, ReadEndpoint(w) PROVE HoldsEvent'
  <2>1. PICK e \in worker[w].batch : ReadEndpoint(w)!2!(e)
    BY <1>2 DEF ReadEndpoint
  <2>2. e \in Events /\ worker[w] \in WorkerState
    BY DEF TypeOK, WorkerState
  <2> DEFINE chosen == [worker[w] EXCEPT !.evt = e, !.batch = @ \ {e}]
  <2>3. worker'[w].evt = e
    <3>1. \A r : worker' = [worker EXCEPT ![w] = r] => worker'[w] = r
      BY DEF TypeOK
    <3>2. /\ [chosen EXCEPT !.pc = "skip"].evt = e
          /\ [chosen EXCEPT !.pc = "postpone", !.hold = circuit[TenantOf[e]]].evt = e
          /\ [chosen EXCEPT !.pc = "post", !.fails = failures[TenantOf[e]]].evt = e
      BY <2>2 DEF WorkerState
    <3> HIDE DEF chosen
    <3> QED
      BY <2>1, <3>1, <3>2 DEF chosen
  <2>4. \A v \in Workers \ {w} : worker'[v] = worker[v]
    BY <2>1 DEF TypeOK
  <2> QED
    BY <2>2, <2>3, <2>4 DEF HoldsEvent
<1>3. ASSUME NEW w \in Workers, NextIteration(w) PROVE HoldsEvent'
  BY <1>3 DEF TypeOK, NextIteration, HoldsEvent, WorkerState, IdleWorker
<1>4. ASSUME NEW w \in Workers, Post(w) PROVE HoldsEvent'
  BY <1>4 DEF TypeOK, Post, HoldsEvent, WorkerState
<1>5. ASSUME NEW w \in Workers, TransactionThrows(w) PROVE HoldsEvent'
  BY <1>5 DEF TypeOK, TransactionThrows, HoldsEvent, WorkerState
<1>6. ASSUME NEW w \in Workers, RunStops(w) PROVE HoldsEvent'
  BY <1>6 DEF TypeOK, RunStops, HoldsEvent, IdleWorker
<1>9. CASE Tick
  <2>1. \A w \in Workers : worker'[w].pc = worker[w].pc /\ worker'[w].evt = worker[w].evt
    BY <1>9 DEF TypeOK, Tick, WorkerState
  <2> QED
    BY <2>1 DEF HoldsEvent
<1>7. CASE Request
  BY <1>7 DEF Request, AppendEvent, RequeueDeadLetter, UpsertWebhookEndpoint, HoldsEvent
<1>8. CASE UNCHANGED vars
  BY <1>8 DEF vars, HoldsEvent
<1> QED
  BY <1>1, <1>2, <1>3, <1>4, <1>5, <1>6, <1>7, <1>8, <1>9
     DEF Next, JobStep, Fault, Skip, Postpone, CommitSuccess, CommitRetry, CommitDeadLetter, RecordFailure

LEMMA TypeStep == TInv /\ [Next]_vars => TypeOK'
<1> SUFFICES ASSUME TInv, [Next]_vars PROVE TypeOK'
  OBVIOUS
<1> USE EventsAssumption, LimitsAssumption, DelaysAssumption DEF TInv
<1>1. ASSUME NEW e \in Events, AppendEvent(e) PROVE TypeOK'
  BY <1>1 DEF TypeOK, AppendEvent, endpointVars, historyVars
<1>2. ASSUME NEW e \in Events, RequeueDeadLetter(e) PROVE TypeOK'
  BY <1>2 DEF TypeOK, RequeueDeadLetter, endpointVars
<1>3. ASSUME NEW t \in Tenants, NEW isActive \in BOOLEAN,
             UpsertWebhookEndpoint(t, isActive)
      PROVE  TypeOK'
  BY <1>3 DEF TypeOK, UpsertWebhookEndpoint, eventVars, historyVars
<1>4. CASE Tick
  <2>1. worker' \in [Workers -> WorkerState]
    BY <1>4, WorkerHoldType DEF TypeOK, Tick
  <2> QED
    BY <1>4, <2>1 DEF TypeOK, Tick, Sooner, historyVars
<1>5. ASSUME NEW w \in Workers, TakeBatch(w) PROVE TypeOK'
  <2>1. PICK B \in SUBSET DueEvents \ {{}} : TakeBatch(w)!2!(B)
    BY <1>5 DEF TakeBatch
  <2>2. B \in SUBSET Events
    BY DEF DueEvents
  <2>3. worker' \in [Workers -> WorkerState]
    BY <2>1, <2>2, WorkerBatchType DEF TypeOK
  <2> QED
    BY <1>5, <2>3 DEF TypeOK, TakeBatch, eventVars, endpointVars, historyVars
<1>6. ASSUME NEW w \in Workers, ReadEndpoint(w) PROVE TypeOK'
  <2>1. PICK e \in worker[w].batch : ReadEndpoint(w)!2!(e)
    BY <1>6 DEF ReadEndpoint
  <2>2. e \in Events /\ TenantOf[e] \in Tenants /\ worker[w] \in WorkerState
    BY DEF TypeOK, WorkerState
  <2>3. circuit[TenantOf[e]] \in Nat /\ failures[TenantOf[e]] \in Nat
    BY <2>2 DEF TypeOK
  <2> DEFINE chosen == [worker[w] EXCEPT !.evt = e, !.batch = @ \ {e}]
  <2>4. PICK r \in WorkerState : worker' = [worker EXCEPT ![w] = r]
    <3>1. CASE worker' = [worker EXCEPT ![w] = [chosen EXCEPT !.pc = "skip"]]
      BY <3>1, <2>2, <2>3, WorkerChosenType
    <3>2. CASE worker' = [worker EXCEPT ![w] =
                            [chosen EXCEPT !.pc = "postpone", !.hold = circuit[TenantOf[e]]]]
      BY <3>2, <2>2, <2>3, WorkerChosenType
    <3>3. CASE worker' = [worker EXCEPT ![w] =
                            [chosen EXCEPT !.pc = "post", !.fails = failures[TenantOf[e]]]]
      BY <3>3, <2>2, <2>3, WorkerChosenType
    <3> QED
      BY <2>1, <3>1, <3>2, <3>3
  <2>5. worker' \in [Workers -> WorkerState]
    BY <2>4 DEF TypeOK
  <2> QED
    BY <1>6, <2>5 DEF TypeOK, ReadEndpoint, eventVars, endpointVars, historyVars
<1>7. ASSUME NEW w \in Workers, Skip(w) PROVE TypeOK'
  BY <1>7, NextIterationType DEF TypeOK, Skip, endpointVars, historyVars
<1>8. ASSUME NEW w \in Workers, Postpone(w) PROVE TypeOK'
  <2>1. worker' \in [Workers -> WorkerState]
    BY <1>8, NextIterationType DEF TypeOK, Postpone
  <2>2. worker[w].hold \in Nat
    BY DEF TypeOK, WorkerState
  <2>3. PICK d \in Waits : due' = [due EXCEPT ![worker[w].evt] = worker[w].hold + d]
    BY <1>8 DEF Postpone
  <2>4. worker[w].hold + d \in Nat
    BY <2>2
  <2>5. due' \in [Events -> Nat]
    BY <2>3, <2>4 DEF TypeOK
  <2> QED
    BY <1>8, <2>1, <2>5 DEF TypeOK, Postpone, endpointVars, historyVars
<1>9. ASSUME NEW w \in Workers, Post(w) PROVE TypeOK'
  <2>1. worker' \in [Workers -> WorkerState]
    <3>1. PICK answer \in {"ok", "failed", "caught"} : worker' = [worker EXCEPT ![w].pc = answer]
      BY <1>9 DEF Post
    <3> QED
      BY <3>1, WorkerPcType DEF TypeOK
  <2>2. worker[w].evt \in Events
    BY <1>9 DEF Post, HoldsEvent
  <2>3. acked' \in [Events -> BOOLEAN]
    BY <1>9, <2>2 DEF TypeOK, Post
  <2> QED
    BY <1>9, <2>1, <2>2, <2>3 DEF TypeOK, Post, eventVars, endpointVars
<1>10. ASSUME NEW w \in Workers, CommitSuccess(w) PROVE TypeOK'
  <2>1. worker' \in [Workers -> WorkerState]
    BY <1>10, NextIterationType DEF TypeOK, CommitSuccess
  <2>2. Attempt(w) \in Nat
    BY <1>10, AttemptType DEF TypeOK, CommitSuccess, HoldsEvent
  <2> QED
    BY <1>10, <2>1, <2>2 DEF TypeOK, CommitSuccess, historyVars
<1>11. ASSUME NEW w \in Workers, RecordFailure(w)
       PROVE  /\ attempts' \in [Events -> Nat] /\ due' \in [Events -> Nat]
              /\ failures' \in [Tenants -> Nat] /\ circuit' \in [Tenants -> Nat]
              /\ worker' \in [Workers -> WorkerState]
              /\ UNCHANGED <<endpoint, posts, acked, requeues, faults>>
  <2>1. worker' \in [Workers -> WorkerState]
    BY <1>11, NextIterationType DEF TypeOK, RecordFailure
  <2>2. Attempt(w) \in Nat
    BY <1>11, AttemptType DEF TypeOK, RecordFailure, HoldsEvent
  <2>3. worker[w].fails + 1 \in Nat
    BY DEF TypeOK, WorkerState
  <2>4. PICK d \in Waits : due' = [due EXCEPT ![worker[w].evt] = d]
    BY <1>11 DEF RecordFailure
  <2>5. attempts' \in [Events -> Nat] /\ due' \in [Events -> Nat]
    BY <1>11, <2>2, <2>4 DEF TypeOK, RecordFailure
  <2>6. failures' \in [Tenants -> Nat]
    BY <1>11, <2>3 DEF TypeOK, RecordFailure
  <2>7. circuit' \in [Tenants -> Nat]
    <3>1. CASE OpensCircuit(w)
      BY <1>11, <3>1 DEF TypeOK, RecordFailure
    <3>2. CASE ~OpensCircuit(w)
      BY <1>11, <3>2 DEF TypeOK, RecordFailure
    <3> QED
      BY <3>1, <3>2
  <2> QED
    BY <1>11, <2>1, <2>5, <2>6, <2>7 DEF TypeOK, RecordFailure, historyVars
<1>12. ASSUME NEW w \in Workers, CommitRetry(w) \/ CommitDeadLetter(w) PROVE TypeOK'
  BY <1>12, <1>11 DEF TypeOK, CommitRetry, CommitDeadLetter
<1>13. ASSUME NEW w \in Workers, TransactionThrows(w) PROVE TypeOK'
  <2>1. worker' \in [Workers -> WorkerState]
    BY <1>13, WorkerPcType DEF TypeOK, TransactionThrows
  <2> QED
    BY <1>13, <2>1 DEF TypeOK, TransactionThrows, eventVars, endpointVars
<1>14. ASSUME NEW w \in Workers, RunStops(w) PROVE TypeOK'
  BY <1>14, IdleWorkerType DEF TypeOK, RunStops, eventVars, endpointVars
<1>15. CASE UNCHANGED vars
  BY <1>15 DEF TypeOK, vars, eventVars, endpointVars, historyVars
<1> QED
  BY <1>1, <1>2, <1>3, <1>4, <1>5, <1>6, <1>7, <1>8, <1>9, <1>10, <1>12, <1>13, <1>14, <1>15
     DEF Next, Request, JobStep, Fault

LEMMA TInvInit == Init => TInv
BY IdleWorkerType DEF Init, TInv, TypeOK, HoldsEvent, IdleWorker

\* Every variable keeps its type in every reachable state, whatever the values
\* of the constants: no step of the service or the job leaves the value space.
THEOREM TypeCorrect == Spec => []TypeOK
<1>1. TInv /\ [Next]_vars => TInv'
  BY TypeStep, HoldsEventStep DEF TInv
<1> QED
  BY TInvInit, <1>1, PTL DEF Spec, TInv

-----------------------------------------------------------------------------
(* The safety of overlapping runs.  The four invariants are inductive only *)
(* together: what a run writes is what it read, so each of them speaks of  *)
(* the rows and of what every run holds.                                   *)

IInv == /\ TInv
        /\ DeliveredWasAccepted
        /\ AttemptsWereSent
        /\ DeadLettersAreExhausted
        /\ RetryBudget

\* A step is quiet for the workers when no run comes to claim more attempts
\* than before and none arrives at a 2xx answer.
Quiet ==
    \A v \in Workers :
        /\ \A e \in Events : /\ worker'[v].snap[e] <= worker[v].snap[e]
                             /\ Claimed(v, e)' <= Claimed(v, e)
        /\ worker'[v].pc = "ok" => worker[v].pc = "ok" /\ worker'[v].evt = worker[v].evt

LEMMA WorkerFacts ==
  ASSUME TypeOK, NEW v \in Workers
  PROVE  /\ worker[v] \in WorkerState
         /\ \A e \in Events : worker[v].snap[e] \in Nat
         /\ Recorded(v) \in {0, 1}
         /\ \A e \in Events : Claimed(v, e) \in Nat
BY DEF TypeOK, WorkerState, Recorded, Claimed

LEMMA QuietUnchanged == TypeOK /\ UNCHANGED worker => Quiet
BY WorkerFacts DEF Quiet, Claimed, Recorded

QuietRecord(new, old) ==
    /\ \A e \in Events : new.snap[e] \in Nat /\ new.snap[e] <= old.snap[e]
    /\ \/ new.pc \notin {"ok", "failed", "caught"}
       \/ /\ new.pc \in {"failed", "caught"} /\ new.evt = old.evt
          /\ old.pc \in {"ok", "failed", "caught"}

\* All but one worker keep their record.
LEMMA QuietOne ==
  ASSUME TypeOK, NEW w \in Workers, NEW r, worker' = [worker EXCEPT ![w] = r],
         QuietRecord(r, worker[w])
  PROVE  Quiet
<1> SUFFICES ASSUME NEW v \in Workers
             PROVE  /\ \A e \in Events : /\ worker'[v].snap[e] <= worker[v].snap[e]
                                         /\ Claimed(v, e)' <= Claimed(v, e)
                    /\ worker'[v].pc = "ok" =>
                          worker[v].pc = "ok" /\ worker'[v].evt = worker[v].evt
  BY DEF Quiet
<1>1. CASE v # w
  <2>1. worker'[v] = worker[v]
    BY <1>1 DEF TypeOK
  <2> QED
    BY <2>1, WorkerFacts DEF Claimed, Recorded
<1>2. CASE v = w
  <2>1. worker'[v] = r
    BY <1>2 DEF TypeOK
  <2>2. \A e \in Events : worker[w].snap[e] \in Nat
    BY WorkerFacts
  <2> QED
    BY <1>2, <2>1, <2>2 DEF Claimed, Recorded, QuietRecord
<1> QED
  BY <1>1, <1>2

LEMMA QuietNextIteration ==
  ASSUME TypeOK, NEW w \in Workers, NextIteration(w)
  PROVE  Quiet
<1> DEFINE next == [worker[w] EXCEPT !.pc = "loop", !.evt = NoEvent, !.fails = 0, !.hold = 0,
                       !.snap = [e \in Events |-> IF e \in worker[w].batch
                                                  THEN worker[w].snap[e] ELSE 0]]
<1>1. worker[w] \in WorkerState /\ \A e \in Events : worker[w].snap[e] \in Nat
  BY WorkerFacts
<1>2. CASE worker[w].batch = {}
  <2>1. worker' = [worker EXCEPT ![w] = IdleWorker]
    BY <1>2 DEF NextIteration
  <2> QED
    <3>1. QuietRecord(IdleWorker, worker[w])
      BY <1>1 DEF IdleWorker, QuietRecord
    <3> QED
      BY <2>1, <3>1, QuietOne
<1>3. CASE worker[w].batch # {}
  <2>1. worker' = [worker EXCEPT ![w] = next]
    BY <1>3 DEF NextIteration
  <2>2. /\ next.pc = "loop"
        /\ \A e \in Events : next.snap[e] = IF e \in worker[w].batch
                                            THEN worker[w].snap[e] ELSE 0
    BY <1>1 DEF WorkerState
  <2> HIDE DEF next
  <2>3. QuietRecord(next, worker[w])
    BY <1>1, <2>2 DEF QuietRecord
  <2> QED
    BY <2>1, <2>3, QuietOne
<1> QED
  BY <1>2, <1>3

LEMMA QuietStep ==
  ASSUME TInv, [Next]_vars, ~(\E w \in Workers : TakeBatch(w) \/ Post(w))
  PROVE  Quiet
<1> USE DEF TInv
<1>1. ASSUME NEW w \in Workers, ReadEndpoint(w) PROVE Quiet
  <2>1. PICK e \in worker[w].batch : ReadEndpoint(w)!2!(e)
    BY <1>1 DEF ReadEndpoint
  <2> DEFINE chosen == [worker[w] EXCEPT !.evt = e, !.batch = @ \ {e}]
  <2>2. worker[w] \in WorkerState /\ \A f \in Events : worker[w].snap[f] \in Nat
    BY WorkerFacts
  <2>3. CASE worker' = [worker EXCEPT ![w] = [chosen EXCEPT !.pc = "skip"]]
    <3> DEFINE r == [chosen EXCEPT !.pc = "skip"]
    <3>1. r.pc = "skip" /\ r.snap = worker[w].snap
      BY <2>2 DEF WorkerState
    <3>2. worker' = [worker EXCEPT ![w] = r]
      BY <2>3
    <3> HIDE DEF r
    <3>3. QuietRecord(r, worker[w])
      BY <2>2, <3>1 DEF QuietRecord
    <3> QED
      BY <3>2, <3>3, QuietOne
  <2>4. CASE worker' = [worker EXCEPT ![w] =
                          [chosen EXCEPT !.pc = "postpone", !.hold = circuit[TenantOf[e]]]]
    <3> DEFINE r == [chosen EXCEPT !.pc = "postpone", !.hold = circuit[TenantOf[e]]]
    <3>1. r.pc = "postpone" /\ r.snap = worker[w].snap
      BY <2>2 DEF WorkerState
    <3>2. worker' = [worker EXCEPT ![w] = r]
      BY <2>4
    <3> HIDE DEF r
    <3>3. QuietRecord(r, worker[w])
      BY <2>2, <3>1 DEF QuietRecord
    <3> QED
      BY <3>2, <3>3, QuietOne
  <2>5. CASE worker' = [worker EXCEPT ![w] =
                          [chosen EXCEPT !.pc = "post", !.fails = failures[TenantOf[e]]]]
    <3> DEFINE r == [chosen EXCEPT !.pc = "post", !.fails = failures[TenantOf[e]]]
    <3>1. r.pc = "post" /\ r.snap = worker[w].snap
      BY <2>2 DEF WorkerState
    <3>2. worker' = [worker EXCEPT ![w] = r]
      BY <2>5
    <3> HIDE DEF r
    <3>3. QuietRecord(r, worker[w])
      BY <2>2, <3>1 DEF QuietRecord
    <3> QED
      BY <3>2, <3>3, QuietOne
  <2> QED
    BY <2>1, <2>3, <2>4, <2>5
<1>2. ASSUME NEW w \in Workers, TransactionThrows(w) PROVE Quiet
  <2>1. worker[w] \in WorkerState /\ \A f \in Events : worker[w].snap[f] \in Nat
    BY WorkerFacts
  <2> DEFINE r == [worker[w] EXCEPT !.pc = "caught"]
  <2>2. r.pc = "caught" /\ r.snap = worker[w].snap /\ r.evt = worker[w].evt
    BY <2>1 DEF WorkerState
  <2>3. worker' = [worker EXCEPT ![w] = r] /\ worker[w].pc \in {"ok", "failed"}
    BY <1>2 DEF TransactionThrows
  <2> HIDE DEF r
  <2>4. QuietRecord(r, worker[w])
    BY <2>1, <2>2, <2>3 DEF QuietRecord
  <2> QED
    BY <2>3, <2>4, QuietOne
<1>3. ASSUME NEW w \in Workers, RunStops(w) PROVE Quiet
  <2>1. \A f \in Events : worker[w].snap[f] \in Nat
    BY WorkerFacts
  <2>2. QuietRecord(IdleWorker, worker[w])
    BY <2>1 DEF QuietRecord, IdleWorker
  <2> QED
    BY <1>3, <2>2, QuietOne DEF RunStops
<1>4. CASE Tick
  <2>1. \A v \in Workers : /\ worker'[v].pc = worker[v].pc /\ worker'[v].evt = worker[v].evt
                           /\ worker'[v].snap = worker[v].snap
    BY <1>4 DEF TypeOK, Tick, WorkerState
  <2> QED
    BY <2>1, WorkerFacts DEF Quiet, Claimed, Recorded
<1>5. CASE Request
  BY <1>5, QuietUnchanged
     DEF Request, AppendEvent, RequeueDeadLetter, UpsertWebhookEndpoint
<1>6. CASE UNCHANGED vars
  BY <1>6, QuietUnchanged DEF vars
<1> QED
  BY <1>1, <1>2, <1>3, <1>4, <1>5, <1>6, QuietNextIteration
     DEF Next, JobStep, Fault, Skip, Postpone, CommitSuccess, CommitRetry,
         CommitDeadLetter, RecordFailure

-----------------------------------------------------------------------------
(* Each invariant speaks of the rows and of the workers; a quiet step keeps *)
(* what it says of the workers.                                            *)

WorkersHold ==
    \A v \in Workers :
        /\ worker[v].pc = "ok" => acked[worker[v].evt]
        /\ \A e \in Events : /\ Claimed(v, e) <= posts[e]
                             /\ worker[v].snap[e] < MaxAttempts + requeues[e]

RowHolds(e) ==
    /\ status[e] = "DELIVERED" => acked[e]
    /\ attempts[e] <= posts[e]
    /\ status[e] = "FAILED" => dead[e] # "none"
    /\ dead[e] # "none" => posts[e] >= MaxAttempts
    /\ attempts[e] <= MaxAttempts + requeues[e]
    /\ status[e] \in {"ABSENT", "PENDING"} => attempts[e] < MaxAttempts + requeues[e]

LEMMA IInvSplit == IInv <=> TInv /\ WorkersHold /\ \A e \in Events : RowHolds(e)
BY DEF IInv, WorkersHold, RowHolds, DeliveredWasAccepted, AttemptsWereSent,
       DeadLettersAreExhausted, RetryBudget

LEMMA WorkersHoldQuiet ==
  ASSUME TInv, TInv', WorkersHold, Quiet, UNCHANGED <<posts, acked>>,
         \A e \in Events : requeues'[e] >= requeues[e]
  PROVE  WorkersHold'
<1> USE DEF TInv
<1> SUFFICES ASSUME NEW v \in Workers
             PROVE  /\ worker'[v].pc = "ok" => acked[worker'[v].evt]
                    /\ \A e \in Events : /\ Claimed(v, e)' <= posts[e]
                                         /\ worker'[v].snap[e] < MaxAttempts + requeues'[e]
  BY DEF WorkersHold
<1>1. worker'[v].pc = "ok" => acked[worker'[v].evt]
  BY DEF WorkersHold, Quiet
<1>2. ASSUME NEW e \in Events
      PROVE  Claimed(v, e)' <= posts[e] /\ worker'[v].snap[e] < MaxAttempts + requeues'[e]
  <2>1. Claimed(v, e) \in Nat /\ worker[v].snap[e] \in Nat
    BY WorkerFacts
  <2>2. worker'[v].snap[e] \in Nat
    BY DEF TypeOK, WorkerState
  <2>3. Claimed(v, e)' \in Nat
    BY <2>2 DEF Claimed, Recorded
  <2>4. posts[e] \in Nat /\ requeues[e] \in Nat /\ requeues'[e] \in Nat /\ MaxAttempts \in Nat
    BY LimitsAssumption DEF TypeOK
  <2> QED
    BY <2>1, <2>2, <2>3, <2>4 DEF WorkersHold, Quiet
<1> QED
  BY <1>1, <1>2

LEMMA TakeBatchStep ==
  ASSUME IInv, TInv', NEW w \in Workers, TakeBatch(w)
  PROVE  IInv'
<1> USE DEF TInv
<1>1. WorkersHold /\ \A e \in Events : RowHolds(e)
  BY IInvSplit
<1>2. PICK B \in SUBSET DueEvents \ {{}} : TakeBatch(w)!2!(B)
  BY DEF TakeBatch
<1> DEFINE r == [IdleWorker EXCEPT !.pc = "loop", !.batch = B,
                    !.snap = [e \in Events |-> IF e \in B THEN attempts[e] ELSE 0]]
<1>3. /\ r.pc = "loop"
      /\ \A e \in Events : r.snap[e] = IF e \in B THEN attempts[e] ELSE 0
  BY DEF IdleWorker
<1>4. worker' = [worker EXCEPT ![w] = r]
  BY <1>2
<1> HIDE DEF r
<1>5. worker'[w] = r /\ \A v \in Workers \ {w} : worker'[v] = worker[v]
  BY <1>4 DEF IInv, TypeOK
<1>6. UNCHANGED <<status, attempts, dead, posts, acked, requeues>>
  BY DEF TakeBatch, eventVars, historyVars
<1>7. \A e \in Events : RowHolds(e)'
  BY <1>1, <1>6 DEF RowHolds
<1>8. ASSUME NEW e \in Events
      PROVE  Claimed(w, e)' <= posts[e] /\ r.snap[e] < MaxAttempts + requeues[e]
  <2>1. attempts[e] \in Nat /\ posts[e] \in Nat /\ requeues[e] \in Nat
        /\ MaxAttempts \in Nat \ {0}
    BY LimitsAssumption DEF IInv, TypeOK
  <2>2. e \in B => status[e] = "PENDING"
    BY DEF DueEvents
  <2>3. Claimed(w, e)' = r.snap[e]
    BY <1>3, <1>5, <2>1 DEF Claimed, Recorded
  <2> QED
    BY <1>1, <1>3, <2>1, <2>2, <2>3 DEF RowHolds
<1>9. WorkersHold'
  BY <1>1, <1>3, <1>5, <1>6, <1>8 DEF WorkersHold, Claimed, Recorded
<1> QED
  BY <1>7, <1>9
     DEF IInv, WorkersHold, RowHolds, DeliveredWasAccepted, AttemptsWereSent,
       DeadLettersAreExhausted, RetryBudget

LEMMA PostStep ==
  ASSUME IInv, TInv', NEW w \in Workers, Post(w)
  PROVE  IInv'
<1> USE DEF TInv
<1>1. WorkersHold /\ \A e \in Events : RowHolds(e)
  BY IInvSplit
<1>2. PICK answer \in {"ok", "failed", "caught"} :
         /\ worker' = [worker EXCEPT ![w].pc = answer]
         /\ acked'  = [acked EXCEPT ![worker[w].evt] = @ \/ answer = "ok"]
  BY DEF Post
<1>3. worker[w].evt \in Events /\ worker[w] \in WorkerState
  BY DEF IInv, Post, HoldsEvent, TypeOK
<1>4. /\ worker'[w].pc = answer /\ worker'[w].evt = worker[w].evt
      /\ worker'[w].snap = worker[w].snap
      /\ \A v \in Workers \ {w} : worker'[v] = worker[v]
  BY <1>2, <1>3 DEF IInv, TypeOK, WorkerState
<1>5. \A e \in Events : /\ posts[e] \in Nat
                         /\ posts'[e] = IF e = worker[w].evt THEN posts[e] + 1 ELSE posts[e]
  BY DEF IInv, TypeOK, Post
<1>6. \A e \in Events : acked[e] => acked'[e]
  BY <1>2 DEF IInv, TypeOK
<1>7. answer = "ok" => acked'[worker[w].evt]
  BY <1>2, <1>3 DEF IInv, TypeOK
<1>8. UNCHANGED <<status, attempts, dead, requeues>>
  BY DEF Post, eventVars
<1>9. ASSUME NEW e \in Events PROVE RowHolds(e)'
  <2>1. attempts[e] \in Nat /\ MaxAttempts \in Nat
    BY LimitsAssumption DEF IInv, TypeOK
  <2> QED
    BY <1>1, <1>5, <1>6, <1>8, <2>1 DEF RowHolds
<1>10. ASSUME NEW v \in Workers, NEW e \in Events
       PROVE  /\ Claimed(v, e)' <= posts'[e]
              /\ worker'[v].snap[e] < MaxAttempts + requeues'[e]
  <2>1. Claimed(v, e) \in Nat /\ worker[v].snap[e] \in Nat /\ Claimed(v, e) <= posts[e]
    BY <1>1, WorkerFacts DEF IInv, WorkersHold
  <2>2. worker'[v].snap[e] < MaxAttempts + requeues'[e]
    BY <1>1, <1>4, <1>8 DEF WorkersHold
  <2>3. CASE v = w
    <3>1. worker[w].pc = "post"
      BY DEF Post
    <3>2. Claimed(w, e) = worker[w].snap[e]
      BY <2>1, <2>3, <3>1 DEF Claimed, Recorded
    <3>3. Claimed(w, e)' = worker[w].snap[e] + (IF worker[w].evt = e THEN 1 ELSE 0)
      BY <1>4 DEF Claimed, Recorded
    <3> QED
      BY <1>5, <2>1, <2>2, <2>3, <3>2, <3>3
  <2>4. CASE v # w
    <3>1. Claimed(v, e)' = Claimed(v, e)
      BY <1>4, <2>4 DEF Claimed, Recorded
    <3> QED
      BY <1>5, <2>1, <2>2, <3>1
  <2> QED
    BY <2>3, <2>4
<1>11. ASSUME NEW v \in Workers, worker'[v].pc = "ok" PROVE acked'[worker'[v].evt]
  <2>1. CASE v = w
    BY <1>4, <1>7, <1>11, <2>1
  <2>2. CASE v # w
    <3>1. worker'[v] = worker[v] /\ worker[v].evt \in Events
      BY <1>4, <1>11, <2>2 DEF IInv, HoldsEvent
    <3> QED
      BY <1>1, <1>6, <1>11, <3>1 DEF WorkersHold
  <2> QED
    BY <2>1, <2>2
<1>12. WorkersHold'
  BY <1>10, <1>11 DEF WorkersHold
<1> QED
  BY <1>9, <1>12
     DEF IInv, WorkersHold, RowHolds, DeliveredWasAccepted, AttemptsWereSent,
       DeadLettersAreExhausted, RetryBudget

\* The rows under a step that is quiet for the workers.
LEMMA RowsStep ==
  ASSUME IInv, TInv', [Next]_vars, ~(\E w \in Workers : TakeBatch(w) \/ Post(w))
  PROVE  /\ \A e \in Events : RowHolds(e)' /\ requeues'[e] >= requeues[e]
         /\ UNCHANGED <<posts, acked>>
<1> USE DEF TInv
<1> DEFINE Goal == /\ \A e \in Events : RowHolds(e)' /\ requeues'[e] >= requeues[e]
                   /\ UNCHANGED <<posts, acked>>
<1>1. WorkersHold /\ \A e \in Events : RowHolds(e)
  BY IInvSplit
<1>2. \A e \in Events : /\ attempts[e] \in Nat /\ attempts'[e] \in Nat /\ posts[e] \in Nat
                        /\ requeues[e] \in Nat /\ MaxAttempts \in Nat \ {0}
  BY LimitsAssumption DEF IInv, TypeOK
<1>3. ASSUME UNCHANGED <<status, attempts, dead, posts, acked, requeues>> PROVE Goal
  BY <1>1, <1>2, <1>3 DEF RowHolds
<1>4. ASSUME NEW e \in Events, AppendEvent(e) PROVE Goal
  <2>1. UNCHANGED <<attempts, dead, posts, acked, requeues>>
    BY <1>4 DEF AppendEvent, historyVars
  <2>2. ASSUME NEW f \in Events PROVE RowHolds(f)'
    <3>1. status'[f] = status[f] \/ (f = e /\ status[f] = "ABSENT" /\ status'[f] = "PENDING")
      BY <1>4 DEF AppendEvent, IInv, TypeOK
    <3> QED
      BY <1>1, <1>2, <2>1, <3>1 DEF RowHolds
  <2> QED
    BY <1>2, <2>1, <2>2
<1>5. ASSUME NEW e \in Events, RequeueDeadLetter(e) PROVE Goal
  <2>1. UNCHANGED <<attempts, posts, acked>>
    BY <1>5 DEF RequeueDeadLetter
  <2>2. ASSUME NEW f \in Events PROVE RowHolds(f)' /\ requeues'[f] >= requeues[f]
    <3>1. CASE f = e
      <4>1. status'[f] = "PENDING" /\ dead[f] # "none" /\ requeues'[f] = requeues[f] + 1
        BY <1>5, <3>1 DEF RequeueDeadLetter, IInv, TypeOK
      <4> QED
        BY <1>1, <1>2, <2>1, <4>1 DEF RowHolds
    <3>2. CASE f # e
      <4>1. status'[f] = status[f] /\ dead'[f] = dead[f] /\ requeues'[f] = requeues[f]
        BY <1>5, <3>2 DEF RequeueDeadLetter, IInv, TypeOK
      <4> QED
        BY <1>1, <1>2, <2>1, <4>1 DEF RowHolds
    <3> QED
      BY <3>1, <3>2
  <2> QED
    BY <2>1, <2>2
<1>6. ASSUME NEW w \in Workers, Skip(w) PROVE Goal
  <2>1. UNCHANGED <<attempts, dead, posts, acked, requeues>>
    BY <1>6 DEF Skip, historyVars
  <2>2. ASSUME NEW f \in Events PROVE status'[f] \in {status[f], "SKIPPED"}
    BY <1>6 DEF Skip, IInv, TypeOK
  <2>3. \A f \in Events : RowHolds(f)'
    BY <1>1, <1>2, <2>1, <2>2 DEF RowHolds
  <2> QED
    BY <1>2, <2>1, <2>3
<1>7. ASSUME NEW w \in Workers, CommitSuccess(w) PROVE Goal
  <2>1. UNCHANGED <<dead, posts, acked, requeues>>
    BY <1>7 DEF CommitSuccess, historyVars
  <2>2. worker[w].evt \in Events /\ worker[w] \in WorkerState /\ worker[w].pc = "ok"
    BY <1>7 DEF IInv, CommitSuccess, HoldsEvent, TypeOK
  <2>3. ASSUME NEW f \in Events PROVE RowHolds(f)'
    <3>1. CASE f = worker[w].evt
      <4>1. status'[f] = "DELIVERED" /\ attempts'[f] = worker[w].snap[f] + 1
        BY <1>7, <3>1 DEF CommitSuccess, Attempt, IInv, TypeOK
      <4>2. worker[w].snap[f] + 1 <= posts[f] /\ acked[f]
        BY <1>1, <2>2, <3>1 DEF WorkersHold, Claimed, Recorded
      <4>3. worker[w].snap[f] \in Nat /\ worker[w].snap[f] < MaxAttempts + requeues[f]
        BY <1>1, <2>2 DEF WorkersHold, WorkerState
      <4> QED
        BY <1>1, <1>2, <2>1, <4>1, <4>2, <4>3 DEF RowHolds
    <3>2. CASE f # worker[w].evt
      <4>1. status'[f] = status[f] /\ attempts'[f] = attempts[f]
        BY <1>7, <3>2 DEF CommitSuccess, IInv, TypeOK
      <4> QED
        BY <1>1, <2>1, <4>1 DEF RowHolds
    <3> QED
      BY <3>1, <3>2
  <2> QED
    BY <1>2, <2>1, <2>3
<1>8. ASSUME NEW w \in Workers, CommitRetry(w) \/ CommitDeadLetter(w) PROVE Goal
  <2>1. RecordFailure(w) /\ UNCHANGED <<posts, acked, requeues>>
    BY <1>8 DEF CommitRetry, CommitDeadLetter, RecordFailure, historyVars
  <2>2. /\ worker[w].evt \in Events /\ worker[w] \in WorkerState
        /\ worker[w].pc \in {"failed", "caught"}
    BY <2>1 DEF IInv, RecordFailure, HoldsEvent, TypeOK
  <2>3. ASSUME NEW f \in Events PROVE RowHolds(f)'
    <3>1. CASE f = worker[w].evt
      <4>1. attempts'[f] = worker[w].snap[f] + 1
        BY <2>1, <3>1 DEF RecordFailure, Attempt, IInv, TypeOK
      <4>2. worker[w].snap[f] + 1 <= posts[f]
        BY <1>1, <2>2, <3>1 DEF WorkersHold, Claimed, Recorded
      <4>3. worker[w].snap[f] \in Nat /\ worker[w].snap[f] < MaxAttempts + requeues[f]
        BY <1>1, <2>2 DEF WorkersHold, WorkerState
      <4>4. CASE CommitRetry(w)
        <5>1. status'[f] = "PENDING" /\ dead' = dead /\ ~Exhausted(w)
          BY <3>1, <4>4 DEF CommitRetry, IInv, TypeOK
        <5>2. worker[w].snap[f] + 1 < MaxAttempts
          BY <1>2, <3>1, <4>3, <5>1 DEF Exhausted, Attempt
        <5> QED
          BY <1>1, <1>2, <2>1, <4>1, <4>2, <4>3, <5>1, <5>2 DEF RowHolds
      <4>5. CASE CommitDeadLetter(w)
        <5>1. status'[f] = "FAILED" /\ dead'[f] # "none" /\ Exhausted(w)
          BY <3>1, <4>5 DEF CommitDeadLetter, IInv, TypeOK
        <5>2. worker[w].snap[f] + 1 >= MaxAttempts
          BY <3>1, <5>1 DEF Exhausted, Attempt
        <5> QED
          BY <1>1, <1>2, <2>1, <4>1, <4>2, <4>3, <5>1, <5>2 DEF RowHolds
      <4> QED
        BY <1>8, <4>4, <4>5
    <3>2. CASE f # worker[w].evt
      <4>1. status'[f] = status[f] /\ attempts'[f] = attempts[f] /\ dead'[f] = dead[f]
        BY <1>8, <3>2 DEF CommitRetry, CommitDeadLetter, RecordFailure, IInv, TypeOK
      <4> QED
        BY <1>1, <2>1, <4>1 DEF RowHolds
    <3> QED
      BY <3>1, <3>2
  <2> QED
    BY <1>2, <2>1, <2>3
<1>9. ASSUME NEW w \in Workers, ReadEndpoint(w) \/ Postpone(w) \/ Fault(w) PROVE Goal
  BY <1>3, <1>9
     DEF ReadEndpoint, Postpone, Fault, TransactionThrows, RunStops, eventVars, historyVars
<1>10. CASE Tick
  BY <1>3, <1>10 DEF Tick, historyVars
<1>11. ASSUME NEW t \in Tenants, NEW isActive \in BOOLEAN, UpsertWebhookEndpoint(t, isActive)
       PROVE  Goal
  BY <1>3, <1>11 DEF UpsertWebhookEndpoint, eventVars, historyVars
<1>12. CASE UNCHANGED vars
  BY <1>3, <1>12 DEF vars, eventVars, historyVars
<1>13. Goal
  <2>1. CASE Request
    BY <2>1, <1>4, <1>5, <1>11 DEF Request
  <2>2. ASSUME NEW w \in Workers, JobStep(w) PROVE Goal
    BY <2>2, <1>6, <1>7, <1>8, <1>9 DEF JobStep
  <2>3. ASSUME NEW w \in Workers, Fault(w) PROVE Goal
    BY <2>3, <1>9
  <2> QED
    BY <2>1, <2>2, <2>3, <1>10, <1>12 DEF Next
<1> QED
  BY <1>13

LEMMA IInvStep == IInv /\ TInv' /\ [Next]_vars => IInv'
<1> SUFFICES ASSUME IInv, TInv', [Next]_vars PROVE IInv'
  OBVIOUS
<1>1. CASE \E w \in Workers : TakeBatch(w) \/ Post(w)
  BY <1>1, TakeBatchStep, PostStep
<1>2. CASE ~(\E w \in Workers : TakeBatch(w) \/ Post(w))
  <2>1. /\ \A e \in Events : RowHolds(e)' /\ requeues'[e] >= requeues[e]
        /\ UNCHANGED <<posts, acked>>
    BY <1>2, RowsStep
  <2>2. TInv /\ WorkersHold
    BY IInvSplit
  <2>3. Quiet
    BY <1>2, <2>2, QuietStep
  <2>4. WorkersHold'
    BY <2>1, <2>2, <2>3, WorkersHoldQuiet
  <2> QED
    BY <2>1, <2>4
     DEF IInv, WorkersHold, RowHolds, DeliveredWasAccepted, AttemptsWereSent,
         DeadLettersAreExhausted, RetryBudget
<1> QED
  BY <1>1, <1>2

LEMMA IInvInit == Init => IInv
<1> SUFFICES ASSUME Init PROVE IInv
  OBVIOUS
<1>1. TInv
  BY TInvInit
<1>2. ASSUME NEW w \in Workers
      PROVE  worker[w].pc = "idle" /\ \A e \in Events : worker[w].snap[e] = 0
  BY DEF Init, IdleWorker
<1>3. MaxAttempts \in Nat \ {0}
  BY LimitsAssumption
<1>4. WorkersHold
  BY <1>2, <1>3 DEF Init, WorkersHold, Claimed, Recorded
<1>5. \A e \in Events : RowHolds(e)
  BY <1>3 DEF Init, RowHolds
<1> QED
  BY <1>1, <1>4, <1>5, IInvSplit

LEMMA Invariance == Spec => []IInv
<1>1. TInv /\ [Next]_vars => TInv'
  BY TypeStep, HoldsEventStep DEF TInv
<1>2. IInv => TInv
  BY DEF IInv
<1> QED
  BY IInvInit, IInvStep, <1>1, <1>2, PTL DEF Spec

\* However many runs of the job overlap, and wherever they stop: a row says
\* DELIVERED only when the tenant's server accepted the event.
THEOREM DeliveredSafe == Spec => []DeliveredWasAccepted
BY Invariance, PTL DEF IInv

\* The recorded attempts never exceed the requests sent: overlapping runs lose
\* increments, they do not invent them.
THEOREM AttemptsSafe == Spec => []AttemptsWereSent
BY Invariance, PTL DEF IInv

\* No event is given up before MaxAttempts requests were sent for it, and every
\* FAILED event has a dead letter.
THEOREM DeadLettersSafe == Spec => []DeadLettersAreExhausted
BY Invariance, PTL DEF IInv

\* An event waiting for delivery has an attempt left, and each requeue adds one.
THEOREM BudgetSafe == Spec => []RetryBudget
BY Invariance, PTL DEF IInv

-----------------------------------------------------------------------------
(* A job whose runs do not overlap.                                        *)

OneRun == \A v, w \in Workers : v = w

\* The events a run has read and not written yet.
Held(w) == worker[w].batch \cup (IF worker[w].pc \in {"idle", "loop"} THEN {}
                                 ELSE {worker[w].evt})

\* What the run has read of them is still what the rows say.
HeldRows ==
    \A w \in Workers :
        /\ \A e \in Held(w) : status[e] = "PENDING" /\ worker[w].snap[e] = attempts[e]
        /\ worker[w].pc \notin {"idle", "loop"} => worker[w].evt \notin worker[w].batch

SInv == /\ HeldRows
        /\ OpenDeadLettersAreFailed
        /\ PostsAreAccounted

LEMMA OneRunCount ==
  ASSUME OneRun, NEW w \in Workers, NEW S, S \subseteq Workers
  PROVE  Cardinality(S) = IF w \in S THEN 1 ELSE 0
<1>1. CASE w \in S
  <2>1. S = {w}
    BY <1>1 DEF OneRun
  <2> QED
    BY <1>1, <2>1, FS_Singleton
<1>2. CASE w \notin S
  <2>1. S = {}
    BY <1>2 DEF OneRun
  <2> QED
    BY <1>2, <2>1, FS_EmptySet
<1> QED
  BY <1>1, <1>2

\* With one run, how many runs have sent an event's request and not recorded it.
Pending(w, e) == worker[w].evt = e /\ Recorded(w) = 1

LEMMA InHandOne ==
  ASSUME OneRun, NEW w \in Workers, NEW e \in Events
  PROVE  /\ InHand(e) = IF Pending(w, e) THEN 1 ELSE 0
         /\ InHand(e)' = IF Pending(w, e)' THEN 1 ELSE 0
<1>1. \A S \in SUBSET Workers : Cardinality(S) = IF w \in S THEN 1 ELSE 0
  BY OneRunCount
<1>2. /\ {v \in Workers : worker[v].evt = e /\ Recorded(v) = 1} \in SUBSET Workers
      /\ {v \in Workers : worker'[v].evt = e /\ Recorded(v)' = 1} \in SUBSET Workers
  OBVIOUS
<1>3. InHand(e) = IF Pending(w, e) THEN 1 ELSE 0
  BY <1>1, <1>2 DEF InHand, Pending
<1>4. InHand(e)' = Cardinality({v \in Workers : worker'[v].evt = e /\ Recorded(v)' = 1})
  BY DEF InHand
<1>5. InHand(e)' = IF Pending(w, e)' THEN 1 ELSE 0
  BY <1>1, <1>2, <1>4 DEF Pending
<1> QED
  BY <1>3, <1>5

\* The run after an iteration: it goes on with the rest of its batch or ends.
LEMMA AfterIteration ==
  ASSUME TInv, NEW w \in Workers, NextIteration(w)
  PROVE  /\ worker'[w].pc \in {"idle", "loop"}
         /\ worker'[w].batch = worker[w].batch
         /\ \A e \in worker[w].batch : worker'[w].snap[e] = worker[w].snap[e]
<1>1. worker[w] \in WorkerState
  BY DEF TInv, TypeOK
<1>2. CASE worker[w].batch = {}
  <2>1. worker'[w] = IdleWorker
    BY <1>2 DEF NextIteration, TInv, TypeOK
  <2> QED
    BY <1>2, <2>1 DEF IdleWorker
<1>3. CASE worker[w].batch # {}
  <2> DEFINE next == [worker[w] EXCEPT !.pc = "loop", !.evt = NoEvent, !.fails = 0, !.hold = 0,
                        !.snap = [e \in Events |-> IF e \in worker[w].batch
                                                   THEN worker[w].snap[e] ELSE 0]]
  <2>1. worker'[w] = next
    BY <1>3 DEF NextIteration, TInv, TypeOK
  <2>2. /\ next.pc = "loop" /\ next.batch = worker[w].batch
        /\ \A e \in Events : next.snap[e] = IF e \in worker[w].batch THEN worker[w].snap[e] ELSE 0
        /\ worker[w].batch \subseteq Events
    BY <1>1 DEF WorkerState
  <2> HIDE DEF next
  <2> QED
    BY <2>1, <2>2
<1> QED
  BY <1>2, <1>3

-----------------------------------------------------------------------------
(* What a run holds.                                                       *)

\* A step that ends the handling of the run's event: it alone is written.
LEMMA HeldAfterWrite ==
  ASSUME OneRun, TInv, HeldRows, NEW w \in Workers, NextIteration(w),
         worker[w].pc \notin {"idle", "loop"},
         \A e \in Events \ {worker[w].evt} : status'[e] = status[e] /\ attempts'[e] = attempts[e]
  PROVE  HeldRows'
<1>1. /\ worker'[w].pc \in {"idle", "loop"}
      /\ worker'[w].batch = worker[w].batch
      /\ \A e \in worker[w].batch : worker'[w].snap[e] = worker[w].snap[e]
  BY AfterIteration
<1>2. worker[w].batch \subseteq Events
  BY DEF TInv, TypeOK, WorkerState
<1>3. \A e \in worker[w].batch : /\ e # worker[w].evt /\ status[e] = "PENDING"
                                 /\ worker[w].snap[e] = attempts[e]
  BY DEF HeldRows, Held
<1>4. Held(w)' = worker[w].batch
  BY <1>1 DEF Held
<1>5. \A v \in Workers : v = w
  BY DEF OneRun
<1> QED
  BY <1>1, <1>2, <1>3, <1>4, <1>5 DEF HeldRows

\* A step that leaves what the run holds, or takes from it, and writes no row but
\* those it does not hold or takes up again.
LEMMA HeldKept ==
  ASSUME HeldRows,
         \A v \in Workers : /\ worker'[v].pc \in {"idle", "loop"} <=> worker[v].pc \in {"idle", "loop"}
                            /\ worker'[v].evt = worker[v].evt
                            /\ worker'[v].batch = worker[v].batch
                            /\ worker'[v].snap = worker[v].snap,
         \A v \in Workers : \A e \in Held(v) : status'[e] \in {status[e], "PENDING"} /\ attempts'[e] = attempts[e]
  PROVE  HeldRows'
<1>1. \A v \in Workers : Held(v)' = Held(v)
  BY DEF Held
<1> QED
  BY <1>1 DEF HeldRows

LEMMA HeldStep ==
  ASSUME OneRun, TInv, HeldRows, [Next]_vars
  PROVE  HeldRows'
<1>0. \A v \in Workers : worker[v] \in WorkerState /\ Held(v) \subseteq Events
  BY DEF TInv, TypeOK, WorkerState, HoldsEvent, Held
<1>1. ASSUME NEW e \in Events, AppendEvent(e) \/ RequeueDeadLetter(e) PROVE HeldRows'
  <2>1. \A v \in Workers : \A f \in Held(v) : status'[f] \in {status[f], "PENDING"} /\ attempts' = attempts
    BY <1>0, <1>1 DEF AppendEvent, RequeueDeadLetter, TInv, TypeOK
  <2>2. worker' = worker
    BY <1>1 DEF AppendEvent, RequeueDeadLetter
  <2> QED
    BY <2>1, <2>2, HeldKept
<1>2. ASSUME UNCHANGED <<status, attempts, worker>> PROVE HeldRows'
  BY <1>2, HeldKept
<1>3. CASE Tick
  <2>1. \A v \in Workers : /\ worker'[v].pc = worker[v].pc /\ worker'[v].evt = worker[v].evt
                           /\ worker'[v].batch = worker[v].batch /\ worker'[v].snap = worker[v].snap
    BY <1>0, <1>3 DEF Tick, WorkerState
  <2> QED
    BY <1>3, <2>1, HeldKept DEF Tick
<1>4. ASSUME NEW w \in Workers, TakeBatch(w) PROVE HeldRows'
  <2>1. PICK B \in SUBSET DueEvents \ {{}} : TakeBatch(w)!2!(B)
    BY <1>4 DEF TakeBatch
  <2>2. /\ worker'[w].pc = "loop" /\ worker'[w].batch = B
        /\ worker'[w].snap = [e \in Events |-> IF e \in B THEN attempts[e] ELSE 0]
    BY <2>1 DEF IdleWorker, TInv, TypeOK
  <2>3. /\ Held(w)' = B /\ B \subseteq Events
        /\ \A e \in B : status[e] = "PENDING" /\ worker'[w].snap[e] = attempts[e]
    BY <2>2 DEF Held, DueEvents
  <2>4. \A v \in Workers : v = w
    BY DEF OneRun
  <2>5. UNCHANGED <<status, attempts>>
    BY <1>4 DEF TakeBatch, eventVars
  <2> QED
    BY <2>2, <2>3, <2>4, <2>5 DEF HeldRows
<1>5. ASSUME NEW w \in Workers, ReadEndpoint(w) PROVE HeldRows'
  <2>1. PICK e \in worker[w].batch : ReadEndpoint(w)!2!(e)
    BY <1>5 DEF ReadEndpoint
  <2> DEFINE chosen == [worker[w] EXCEPT !.evt = e, !.batch = @ \ {e}]
  <2>2. PICK r : /\ worker' = [worker EXCEPT ![w] = r]
                 /\ r.pc \notin {"idle", "loop"} /\ r.evt = e
                 /\ r.batch = worker[w].batch \ {e} /\ r.snap = worker[w].snap
    <3>1. CASE worker' = [worker EXCEPT ![w] = [chosen EXCEPT !.pc = "skip"]]
      <4>1. LET r == [chosen EXCEPT !.pc = "skip"]
            IN  /\ r.pc \notin {"idle", "loop"} /\ r.evt = e
                /\ r.batch = worker[w].batch \ {e} /\ r.snap = worker[w].snap
        BY <1>0 DEF WorkerState
      <4> QED BY <3>1, <4>1
    <3>2. CASE worker' = [worker EXCEPT ![w] =
                            [chosen EXCEPT !.pc = "postpone", !.hold = circuit[TenantOf[e]]]]
      <4>1. LET r == [chosen EXCEPT !.pc = "postpone", !.hold = circuit[TenantOf[e]]]
            IN  /\ r.pc \notin {"idle", "loop"} /\ r.evt = e
                /\ r.batch = worker[w].batch \ {e} /\ r.snap = worker[w].snap
        BY <1>0 DEF WorkerState
      <4> QED BY <3>2, <4>1
    <3>3. CASE worker' = [worker EXCEPT ![w] =
                            [chosen EXCEPT !.pc = "post", !.fails = failures[TenantOf[e]]]]
      <4>1. LET r == [chosen EXCEPT !.pc = "post", !.fails = failures[TenantOf[e]]]
            IN  /\ r.pc \notin {"idle", "loop"} /\ r.evt = e
                /\ r.batch = worker[w].batch \ {e} /\ r.snap = worker[w].snap
        BY <1>0 DEF WorkerState
      <4> QED BY <3>3, <4>1
    <3> QED
      BY <2>1, <3>1, <3>2, <3>3
  <2>3. worker'[w] = r
    BY <2>2 DEF TInv, TypeOK
  <2>4. Held(w)' \subseteq Held(w)
    BY <2>2, <2>3 DEF Held
  <2>5. \A v \in Workers : v = w
    BY DEF OneRun
  <2>6. UNCHANGED <<status, attempts>>
    BY <1>5 DEF ReadEndpoint, eventVars
  <2> QED
    BY <2>2, <2>3, <2>4, <2>5, <2>6 DEF HeldRows
<1>6. ASSUME NEW w \in Workers, Skip(w) \/ Postpone(w) PROVE HeldRows'
  <2>1. /\ NextIteration(w) /\ worker[w].pc \notin {"idle", "loop"}
        /\ \A e \in Events \ {worker[w].evt} : status'[e] = status[e]
        /\ attempts' = attempts
    BY <1>6 DEF Skip, Postpone, TInv, TypeOK
  <2> QED
    BY <2>1, HeldAfterWrite
<1>7. ASSUME NEW w \in Workers, CommitSuccess(w) \/ CommitRetry(w) \/ CommitDeadLetter(w)
      PROVE  HeldRows'
  <2>1. /\ NextIteration(w) /\ worker[w].pc \notin {"idle", "loop"}
        /\ \A e \in Events \ {worker[w].evt} : status'[e] = status[e] /\ attempts'[e] = attempts[e]
    BY <1>7 DEF CommitSuccess, CommitRetry, CommitDeadLetter, RecordFailure, TInv, TypeOK
  <2> QED
    BY <2>1, HeldAfterWrite
<1>8. ASSUME NEW w \in Workers, Post(w) \/ TransactionThrows(w) PROVE HeldRows'
  <2>1. PICK p \in {"ok", "failed", "caught"} : worker' = [worker EXCEPT ![w].pc = p]
    BY <1>8 DEF Post, TransactionThrows
  <2>2. worker[w].pc \notin {"idle", "loop"}
    BY <1>8 DEF Post, TransactionThrows
  <2>3. /\ worker'[w].pc = p /\ worker'[w].evt = worker[w].evt
        /\ worker'[w].batch = worker[w].batch /\ worker'[w].snap = worker[w].snap
    BY <1>0, <2>1 DEF WorkerState, TInv, TypeOK
  <2>4. \A v \in Workers : v = w
    BY DEF OneRun
  <2>5. UNCHANGED <<status, attempts>>
    BY <1>8 DEF Post, TransactionThrows, eventVars
  <2> QED
    BY <2>2, <2>3, <2>4, <2>5, HeldKept
<1>9. ASSUME NEW w \in Workers, RunStops(w) PROVE HeldRows'
  <2>1. worker'[w].pc = "idle" /\ worker'[w].batch = {}
    BY <1>9 DEF RunStops, IdleWorker, TInv, TypeOK
  <2>2. Held(w)' = {}
    BY <2>1 DEF Held
  <2>3. \A v \in Workers : v = w
    BY DEF OneRun
  <2> QED
    BY <2>1, <2>2, <2>3 DEF HeldRows
<1>10. ASSUME NEW t \in Tenants, NEW isActive \in BOOLEAN, UpsertWebhookEndpoint(t, isActive)
       PROVE  HeldRows'
  BY <1>2, <1>10 DEF UpsertWebhookEndpoint, eventVars
<1>11. UNCHANGED vars => HeldRows'
  BY <1>2 DEF vars, eventVars
<1> QED
  BY <1>1, <1>3, <1>4, <1>5, <1>6, <1>7, <1>8, <1>9, <1>10, <1>11 DEF Next, Request, JobStep, Fault

-----------------------------------------------------------------------------
(* Dead letters.                                                           *)

LEMMA OpenStep ==
  ASSUME TInv, HeldRows, OpenDeadLettersAreFailed, [Next]_vars
  PROVE  OpenDeadLettersAreFailed'
<1> SUFFICES ASSUME NEW e \in Events, dead'[e] = "open" PROVE status'[e] = "FAILED"
  BY DEF OpenDeadLettersAreFailed
<1>0. dead[e] = "open" => status[e] = "FAILED"
  BY DEF OpenDeadLettersAreFailed
<1>1. ASSUME NEW f \in Events, AppendEvent(f) PROVE status'[e] = "FAILED"
  BY <1>0, <1>1 DEF AppendEvent, TInv, TypeOK
<1>2. ASSUME NEW f \in Events, RequeueDeadLetter(f) PROVE status'[e] = "FAILED"
  BY <1>0, <1>2 DEF RequeueDeadLetter, TInv, TypeOK
<1>3. ASSUME UNCHANGED <<status, dead>> PROVE status'[e] = "FAILED"
  BY <1>0, <1>3
<1>4. ASSUME NEW w \in Workers, Skip(w) \/ CommitSuccess(w) \/ CommitRetry(w)
      PROVE  status'[e] = "FAILED"
  <2>1. worker[w].pc \notin {"idle", "loop"} /\ dead' = dead
    BY <1>4 DEF Skip, CommitSuccess, CommitRetry, RecordFailure
  <2>2. status[worker[w].evt] = "PENDING"
    BY <2>1 DEF HeldRows, Held
  <2>3. e # worker[w].evt => status'[e] = status[e]
    BY <1>4 DEF Skip, CommitSuccess, CommitRetry, TInv, TypeOK
  <2> QED
    BY <1>0, <2>1, <2>2, <2>3
<1>5. ASSUME NEW w \in Workers, CommitDeadLetter(w) PROVE status'[e] = "FAILED"
  BY <1>0, <1>5 DEF CommitDeadLetter, TInv, TypeOK
<1>6. ASSUME NEW w \in Workers,
             TakeBatch(w) \/ ReadEndpoint(w) \/ Postpone(w) \/ Post(w) \/ Fault(w)
      PROVE  status'[e] = "FAILED"
  BY <1>3, <1>6 DEF TakeBatch, ReadEndpoint, Postpone, Post, Fault, TransactionThrows, RunStops,
                    eventVars
<1>7. CASE Tick
  BY <1>3, <1>7 DEF Tick
<1>8. ASSUME NEW t \in Tenants, NEW isActive \in BOOLEAN, UpsertWebhookEndpoint(t, isActive)
      PROVE  status'[e] = "FAILED"
  BY <1>3, <1>8 DEF UpsertWebhookEndpoint, eventVars
<1>9. UNCHANGED vars => status'[e] = "FAILED"
  BY <1>3 DEF vars, eventVars
<1> QED
  BY <1>1, <1>2, <1>4, <1>5, <1>6, <1>7, <1>8, <1>9 DEF Next, Request, JobStep

-----------------------------------------------------------------------------
(* The account of requests.                                                *)

\* A step that sends and records nothing.
LEMMA AccountKept ==
  ASSUME TInv, TInv', PostsAreAccounted,
         UNCHANGED <<posts, attempts, faults>>,
         \A v \in Workers : worker'[v].pc = worker[v].pc /\ worker'[v].evt = worker[v].evt
  PROVE  PostsAreAccounted'
<1>1. \A e \in Events : InHand(e)' = InHand(e)
  BY DEF InHand, Recorded
<1> QED
  BY <1>1 DEF PostsAreAccounted

\* A step of the only run: what it has in hand before and after, against what is
\* sent, recorded or cut off.
LEMMA AccountOne ==
  ASSUME OneRun, TInv, TInv', PostsAreAccounted, NEW w \in Workers,
         \A e \in Events :
            posts'[e] - posts[e] + (IF Pending(w, e) THEN 1 ELSE 0)
              <= attempts'[e] - attempts[e] + faults' - faults + (IF Pending(w, e)' THEN 1 ELSE 0)
  PROVE  PostsAreAccounted'
<1> SUFFICES ASSUME NEW e \in Events PROVE posts'[e] <= attempts'[e] + faults' + InHand(e)'
  BY DEF PostsAreAccounted
<1>1. posts[e] <= attempts[e] + faults + InHand(e)
  BY DEF PostsAreAccounted
<1>2. /\ posts[e] \in Nat /\ attempts[e] \in Nat /\ faults \in Nat
      /\ posts'[e] \in Nat /\ attempts'[e] \in Nat /\ faults' \in Nat
  BY DEF TInv, TypeOK
<1> QED
  BY <1>1, <1>2, InHandOne

LEMMA AccountStep ==
  ASSUME OneRun, TInv, TInv', HeldRows, PostsAreAccounted, [Next]_vars
  PROVE  PostsAreAccounted'
<1>0. /\ \A v \in Workers : worker[v] \in WorkerState
      /\ \A e \in Events : /\ posts[e] \in Nat /\ attempts[e] \in Nat
                           /\ posts'[e] \in Nat /\ attempts'[e] \in Nat
      /\ faults \in Nat /\ faults' \in Nat
  BY DEF TInv, TypeOK
<1>1. CASE Request \/ Tick
  <2>1. \A v \in Workers : worker'[v].pc = worker[v].pc /\ worker'[v].evt = worker[v].evt
    BY <1>0, <1>1 DEF Request, AppendEvent, RequeueDeadLetter, UpsertWebhookEndpoint, Tick, WorkerState
  <2>2. UNCHANGED <<posts, attempts, faults>>
    BY <1>1 DEF Request, AppendEvent, RequeueDeadLetter, UpsertWebhookEndpoint, Tick,
                historyVars, eventVars
  <2> QED
    BY <2>1, <2>2, AccountKept
<1>2. ASSUME NEW w \in Workers, TakeBatch(w) \/ ReadEndpoint(w) \/ Skip(w) \/ Postpone(w)
      PROVE  PostsAreAccounted'
  <2>1. Recorded(w) = 0
    BY <1>2 DEF TakeBatch, ReadEndpoint, Skip, Postpone, Recorded
  <2>2. UNCHANGED <<posts, attempts, faults>>
    BY <1>2 DEF TakeBatch, ReadEndpoint, Skip, Postpone, historyVars, eventVars
  <2>3. \A e \in Events : posts'[e] - posts[e] + (IF Pending(w, e) THEN 1 ELSE 0)
              <= attempts'[e] - attempts[e] + faults' - faults + (IF Pending(w, e)' THEN 1 ELSE 0)
    BY <1>0, <2>1, <2>2 DEF Pending
  <2> QED
    BY <2>3, AccountOne
<1>3. ASSUME NEW w \in Workers, Post(w) PROVE PostsAreAccounted'
  <2>1. PICK p \in {"ok", "failed", "caught"} : worker' = [worker EXCEPT ![w].pc = p]
    BY <1>3 DEF Post
  <2>2. worker'[w].pc = p /\ worker'[w].evt = worker[w].evt /\ worker[w].pc = "post"
    BY <1>0, <1>3, <2>1 DEF WorkerState, TInv, TypeOK, Post
  <2>3. Recorded(w) = 0 /\ Recorded(w)' = 1
    BY <2>2 DEF Recorded
  <2>4. /\ posts' = [posts EXCEPT ![worker[w].evt] = @ + 1]
        /\ UNCHANGED <<attempts, faults>>
    BY <1>3 DEF Post, eventVars
  <2>5. \A e \in Events : posts'[e] = IF e = worker[w].evt THEN posts[e] + 1 ELSE posts[e]
    BY <2>4 DEF TInv, TypeOK
  <2>6. \A e \in Events : posts'[e] - posts[e] + (IF Pending(w, e) THEN 1 ELSE 0)
              <= attempts'[e] - attempts[e] + faults' - faults + (IF Pending(w, e)' THEN 1 ELSE 0)
    BY <1>0, <2>2, <2>3, <2>4, <2>5 DEF Pending
  <2> QED
    BY <2>6, AccountOne
<1>4. ASSUME NEW w \in Workers, CommitSuccess(w) \/ CommitRetry(w) \/ CommitDeadLetter(w)
      PROVE  PostsAreAccounted'
  <2>1. /\ attempts' = [attempts EXCEPT ![worker[w].evt] = Attempt(w)]
        /\ UNCHANGED <<posts, faults>>
        /\ worker[w].pc \notin {"idle", "loop"}
    BY <1>4 DEF CommitSuccess, CommitRetry, CommitDeadLetter, RecordFailure, historyVars
  <2>2. Attempt(w) = attempts[worker[w].evt] + 1
    BY <2>1 DEF HeldRows, Held, Attempt
  <2>3. \A e \in Events : attempts'[e] = IF e = worker[w].evt THEN attempts[e] + 1 ELSE attempts[e]
    BY <2>1, <2>2 DEF TInv, TypeOK
  <2>4. \A e \in Events : posts'[e] - posts[e] + (IF Pending(w, e) THEN 1 ELSE 0)
              <= attempts'[e] - attempts[e] + faults' - faults + (IF Pending(w, e)' THEN 1 ELSE 0)
    BY <1>0, <2>1, <2>3 DEF Pending
  <2> QED
    BY <2>4, AccountOne
<1>5. ASSUME NEW w \in Workers, Fault(w) PROVE PostsAreAccounted'
  <2>1. faults' = faults + 1 /\ UNCHANGED <<posts, attempts>>
    BY <1>5 DEF Fault, TransactionThrows, RunStops, eventVars
  <2>2. \A e \in Events : posts'[e] - posts[e] + (IF Pending(w, e) THEN 1 ELSE 0)
              <= attempts'[e] - attempts[e] + faults' - faults + (IF Pending(w, e)' THEN 1 ELSE 0)
    BY <1>0, <2>1
  <2> QED
    BY <2>2, AccountOne
<1>6. UNCHANGED vars => PostsAreAccounted'
  BY AccountKept DEF vars, eventVars, historyVars
<1> QED
  BY <1>1, <1>2, <1>3, <1>4, <1>5, <1>6 DEF Next, JobStep

-----------------------------------------------------------------------------
LEMMA SInvInit == Init => SInv
<1> SUFFICES ASSUME Init PROVE SInv
  OBVIOUS
<1>1. \A w \in Workers : worker[w].pc = "idle" /\ worker[w].batch = {} /\ Held(w) = {}
  BY DEF Init, IdleWorker, Held
<1>2. HeldRows
  BY <1>1 DEF HeldRows
<1>3. OpenDeadLettersAreFailed
  BY DEF Init, OpenDeadLettersAreFailed
<1>4. \A e \in Events : InHand(e) = 0
  <2>1. ASSUME NEW e \in Events PROVE InHand(e) = 0
    <3>1. {w \in Workers : worker[w].evt = e /\ Recorded(w) = 1} = {}
      BY <1>1 DEF Recorded
    <3> QED
      BY <3>1, FS_EmptySet DEF InHand
  <2> QED
    BY <2>1
<1>5. PostsAreAccounted
  BY <1>4 DEF Init, PostsAreAccounted
<1> QED
  BY <1>2, <1>3, <1>5 DEF SInv

LEMMA SingleInvariance ==
  ASSUME OneRun
  PROVE  Spec => [](IInv /\ SInv)
<1>1. TInv /\ [Next]_vars => TInv'
  BY TypeStep, HoldsEventStep DEF TInv
<1>2. IInv => TInv
  BY DEF IInv
<1>3. TInv /\ TInv' /\ SInv /\ [Next]_vars => SInv'
  BY HeldStep, OpenStep, AccountStep DEF SInv
<1> QED
  BY IInvInit, SInvInit, IInvStep, <1>1, <1>2, <1>3, PTL DEF Spec

\* With runs that do not overlap, the dead letters counted as open are events that
\* are still FAILED, however often they were requeued, and whatever stopped.
THEOREM OpenSafe ==
  ASSUME OneRun
  PROVE  Spec => []OpenDeadLettersAreFailed
<1>1. SInv => OpenDeadLettersAreFailed
  BY DEF SInv
<1> QED
  BY <1>1, SingleInvariance, PTL

\* With runs that do not overlap, a request that no recorded attempt stands for was
\* cut off by a fault or is the one now in the run's hands.
THEOREM AccountedSafe ==
  ASSUME OneRun
  PROVE  Spec => []PostsAreAccounted
<1>1. SInv => PostsAreAccounted
  BY DEF SInv
<1> QED
  BY <1>1, SingleInvariance, PTL

-----------------------------------------------------------------------------
(* The circuit breaker, however the runs of the job overlap.               *)

StraysType == strays \in [Tenants -> Nat]

\* A step under which the runs that ask a tenant's server only become fewer.
Fewer(t) == /\ Asking(t)' \subseteq Asking(t)
            /\ Sends(t) => \E w \in Asking(t) : w \notin Asking(t)'

\* All but one run keep their place and their event.
LEMMA AskingOne ==
  ASSUME NEW t \in Tenants, NEW w \in Workers, worker \in [Workers -> WorkerState],
         NEW r, worker' = [worker EXCEPT ![w] = r], r.pc # "post"
  PROVE  Asking(t)' = Asking(t) \ {w}
BY DEF Asking, Tenant

LEMMA AskingNext ==
  ASSUME TInv, NEW t \in Tenants, NEW w \in Workers, NextIteration(w)
  PROVE  Asking(t)' = Asking(t) \ {w}
<1>1. PICK r : worker' = [worker EXCEPT ![w] = r]
  BY DEF NextIteration
<1>2. r.pc # "post"
  BY <1>1, AfterIteration DEF TInv, TypeOK
<1> QED
  BY <1>1, <1>2, AskingOne DEF TInv, TypeOK

\* A circuit that is open admits no further run.
LEMMA FewerWhileOpen ==
  ASSUME TInv, [Next]_vars, NEW t \in Tenants, circuit[t] > 0
  PROVE  Fewer(t)
<1> USE DEF TInv
<1>0. worker \in [Workers -> WorkerState] /\ posts \in [Events -> Nat]
  BY DEF TypeOK
<1>1. ASSUME UNCHANGED <<worker, posts>> PROVE Fewer(t)
  BY <1>1 DEF Fewer, Asking, Tenant, Sends
<1>2. ASSUME UNCHANGED posts, NEW w \in Workers, Asking(t)' = Asking(t) \ {w}
      PROVE  Fewer(t)
  BY <1>2 DEF Fewer, Sends
<1>3. ASSUME NEW w \in Workers, TakeBatch(w) \/ RunStops(w) PROVE Fewer(t)
  <2>1. UNCHANGED posts
    BY <1>3 DEF TakeBatch, RunStops, historyVars
  <2>2. \E r : worker' = [worker EXCEPT ![w] = r] /\ r.pc # "post"
    <3>1. CASE RunStops(w)
      <4>1. IdleWorker.pc # "post"
        BY DEF IdleWorker
      <4> QED
        BY <3>1, <4>1 DEF RunStops
    <3>2. CASE TakeBatch(w)
      <4>1. PICK B \in SUBSET DueEvents \ {{}} : TakeBatch(w)!2!(B)
        BY <3>2 DEF TakeBatch
      <4>2. [IdleWorker EXCEPT !.pc = "loop", !.batch = B,
               !.snap = [e \in Events |-> IF e \in B THEN attempts[e] ELSE 0]].pc = "loop"
        BY DEF IdleWorker
      <4> QED
        BY <4>1, <4>2
    <3> QED
      BY <1>3, <3>1, <3>2
  <2> QED
    BY <1>0, <1>2, <2>1, <2>2, AskingOne
<1>4. ASSUME NEW w \in Workers,
             \/ Skip(w) \/ Postpone(w) \/ CommitSuccess(w) \/ CommitRetry(w) \/ CommitDeadLetter(w)
      PROVE  Fewer(t)
  <2>1. NextIteration(w) /\ UNCHANGED posts
    BY <1>4 DEF Skip, Postpone, CommitSuccess, CommitRetry, CommitDeadLetter, RecordFailure,
                historyVars
  <2> QED
    BY <1>2, <2>1, AskingNext
<1>5. ASSUME NEW w \in Workers, ReadEndpoint(w) PROVE Fewer(t)
  <2>1. PICK e \in worker[w].batch : ReadEndpoint(w)!2!(e)
    BY <1>5 DEF ReadEndpoint
  <2> DEFINE chosen == [worker[w] EXCEPT !.evt = e, !.batch = @ \ {e}]
             asks   == [chosen EXCEPT !.pc = "post", !.fails = failures[TenantOf[e]]]
  <2>2. UNCHANGED posts /\ worker[w] \in WorkerState
    BY <1>0, <1>5 DEF ReadEndpoint, historyVars
  <2>3. CASE worker' = [worker EXCEPT ![w] = [chosen EXCEPT !.pc = "skip"]]
    <3>1. [chosen EXCEPT !.pc = "skip"].pc # "post"
      BY <2>2 DEF WorkerState
    <3> QED
      BY <1>0, <1>2, <2>2, <2>3, <3>1, AskingOne
  <2>4. CASE worker' = [worker EXCEPT ![w] =
                          [chosen EXCEPT !.pc = "postpone", !.hold = circuit[TenantOf[e]]]]
    <3>1. [chosen EXCEPT !.pc = "postpone", !.hold = circuit[TenantOf[e]]].pc # "post"
      BY <2>2 DEF WorkerState
    <3> QED
      BY <1>0, <1>2, <2>2, <2>4, <3>1, AskingOne
  <2>5. CASE ~CircuitOpen(TenantOf[e]) /\ worker' = [worker EXCEPT ![w] = asks]
    <3>1. asks.evt = e
      BY <2>2 DEF WorkerState
    <3>2. TenantOf[e] # t
      BY <2>5 DEF CircuitOpen
    <3> HIDE DEF asks
    <3>3. worker'[w].evt = e /\ \A v \in Workers \ {w} : worker'[v] = worker[v]
      BY <1>0, <2>5, <3>1
    <3>4. Asking(t)' \subseteq Asking(t)
      BY <3>2, <3>3 DEF Asking, Tenant
    <3> QED
      BY <2>2, <3>4 DEF Fewer, Sends
  <2> QED
    BY <2>1, <2>3, <2>4, <2>5
<1>6. ASSUME NEW w \in Workers, Post(w) \/ TransactionThrows(w) PROVE Fewer(t)
  <2>1. PICK p \in {"ok", "failed", "caught"} : worker' = [worker EXCEPT ![w].pc = p]
    BY <1>6 DEF Post, TransactionThrows
  <2>2. Asking(t)' = Asking(t) \ {w}
    <3>1. worker' = [worker EXCEPT ![w] = [worker[w] EXCEPT !.pc = p]]
      BY <1>0, <2>1
    <3>2. [worker[w] EXCEPT !.pc = p].pc # "post"
      BY <1>0, <2>1 DEF WorkerState
    <3> QED
      BY <1>0, <3>1, <3>2, AskingOne
  <2>3. Sends(t) => w \in Asking(t)
    <3>1. CASE Post(w)
      BY <1>0, <3>1 DEF Post, Sends, Asking, Tenant
    <3>2. CASE TransactionThrows(w)
      BY <3>2 DEF TransactionThrows, Sends
    <3> QED
      BY <1>6, <3>1, <3>2
  <2> QED
    BY <2>2, <2>3 DEF Fewer
<1>7. CASE Tick
  <2>1. \A v \in Workers : worker'[v].pc = worker[v].pc /\ worker'[v].evt = worker[v].evt
    BY <1>0, <1>7 DEF Tick, WorkerState
  <2> QED
    BY <1>7, <2>1 DEF Tick, historyVars, Fewer, Asking, Tenant, Sends
<1>8. CASE Request
  BY <1>1, <1>8 DEF Request, AppendEvent, RequeueDeadLetter, UpsertWebhookEndpoint, historyVars
<1>9. UNCHANGED vars => Fewer(t)
  BY <1>1 DEF vars, historyVars
<1> QED
  BY <1>3, <1>4, <1>5, <1>6, <1>7, <1>8, <1>9 DEF Next, JobStep, Fault

\* The run that opens a circuit has its answer and asks no more.
LEMMA OpenerIsDone ==
  ASSUME TInv, [Next]_vars, NEW t \in Tenants, circuit[t] = 0, circuit'[t] > 0
  PROVE  \E w \in Workers : w \notin Asking(t)'
<1>1. circuit \in [Tenants -> Nat]
  BY DEF TInv, TypeOK
<1>2. ~Tick /\ circuit' # circuit
  BY <1>1 DEF Tick, Sooner
<1>3. PICK w \in Workers : CommitSuccess(w) \/ RecordFailure(w)
  BY <1>2 DEF Next, Request, AppendEvent, RequeueDeadLetter, UpsertWebhookEndpoint, JobStep,
              TakeBatch, ReadEndpoint, Skip, Postpone, Post, CommitRetry, CommitDeadLetter,
              Fault, TransactionThrows, RunStops, vars, endpointVars
<1>4. NextIteration(w)
  BY <1>3 DEF CommitSuccess, RecordFailure
<1> QED
  BY <1>4, AskingNext

BreakerInv == TInv /\ StraysType /\ OpenCircuitHolds

LEMMA BreakerStep == BreakerInv /\ TInv' /\ [BreakerNext]_breakerVars => BreakerInv'
<1> SUFFICES ASSUME BreakerInv, TInv', [BreakerNext]_breakerVars PROVE BreakerInv'
  OBVIOUS
<1>1. CASE BreakerNext
  <2>1. [Next]_vars /\ CountStrays
    BY <1>1 DEF BreakerNext
  <2>2. StraysType'
    BY <2>1 DEF BreakerInv, StraysType, CountStrays
  <2>3. ASSUME NEW t \in Tenants, circuit'[t] > 0
        PROVE  strays'[t] + Cardinality(Asking(t)') < Cardinality(Workers)
    <3>0. /\ IsFiniteSet(Workers) /\ Cardinality(Workers) \in Nat
          /\ Asking(t) \subseteq Workers /\ Asking(t)' \subseteq Workers
          /\ circuit[t] \in Nat /\ circuit'[t] \in Nat /\ strays[t] \in Nat
      BY WorkersAssumption, FS_CardinalityType
         DEF Asking, BreakerInv, TInv, TypeOK, StraysType
    <3>1. /\ Cardinality(Asking(t)) \in Nat /\ IsFiniteSet(Asking(t))
          /\ Cardinality(Asking(t)') \in Nat
      BY <3>0, FS_Subset, FS_CardinalityType
    <3>2. CASE circuit[t] = 0
      <4>1. PICK w \in Workers : w \notin Asking(t)'
        BY <2>1, <2>3, <3>2, OpenerIsDone DEF BreakerInv
      <4>2. Cardinality(Workers \ {w}) = Cardinality(Workers) - 1 /\ IsFiniteSet(Workers \ {w})
        BY <3>0, FS_RemoveElement
      <4>3. Cardinality(Asking(t)') <= Cardinality(Workers) - 1
        BY <3>0, <4>1, <4>2, FS_Subset
      <4>4. strays'[t] = 0
        BY <2>1, <3>2 DEF CountStrays
      <4> QED
        BY <3>0, <3>1, <4>3, <4>4
    <3>3. CASE circuit[t] > 0
      <4>1. strays[t] + Cardinality(Asking(t)) < Cardinality(Workers)
        BY <3>3 DEF BreakerInv, OpenCircuitHolds
      <4>2. Fewer(t)
        BY <2>1, <3>3, FewerWhileOpen DEF BreakerInv
      <4>3. strays'[t] = IF Sends(t) THEN strays[t] + 1 ELSE strays[t]
        BY <2>1, <2>3, <3>0, <3>3 DEF CountStrays
      <4>4. CASE Sends(t)
        <5>1. PICK w \in Asking(t) : w \notin Asking(t)'
          BY <4>2, <4>4 DEF Fewer
        <5>2. /\ Cardinality(Asking(t) \ {w}) = Cardinality(Asking(t)) - 1
              /\ IsFiniteSet(Asking(t) \ {w})
          BY <3>1, FS_RemoveElement
        <5>3. Cardinality(Asking(t)') <= Cardinality(Asking(t)) - 1
          BY <4>2, <5>1, <5>2, FS_Subset DEF Fewer
        <5> QED
          BY <3>0, <3>1, <4>1, <4>3, <4>4, <5>3
      <4>5. CASE ~Sends(t)
        <5>1. Cardinality(Asking(t)') <= Cardinality(Asking(t))
          BY <3>1, <4>2, FS_Subset DEF Fewer
        <5> QED
          BY <3>0, <3>1, <4>1, <4>3, <4>5, <5>1
      <4> QED
        BY <4>4, <4>5
    <3> QED
      BY <3>0, <3>2, <3>3
  <2>4. \A t \in Tenants : Asking(t)' = {w \in Workers : worker'[w].pc = "post"
                                                         /\ TenantOf[worker'[w].evt] = t}
    BY DEF Asking, Tenant
  <2> QED
    BY <2>2, <2>3 DEF BreakerInv, OpenCircuitHolds
<1>2. CASE UNCHANGED breakerVars
  <2>1. UNCHANGED <<circuit, worker, strays>>
    BY <1>2 DEF breakerVars, vars, endpointVars
  <2> QED
    BY <2>1 DEF BreakerInv, StraysType, OpenCircuitHolds, Asking, Tenant
<1> QED
  BY <1>1, <1>2

\* Whichever run opens a tenant's circuit, and however many runs had found it
\* closed before: until it closes, no run sends a second request.
THEOREM OpenCircuitSafe == BreakerSpec => []OpenCircuitHolds
<1>1. BreakerInit => Init /\ BreakerInv
  <2> SUFFICES ASSUME BreakerInit PROVE Init /\ BreakerInv
    OBVIOUS
  <2>1. TInv
    BY TInvInit DEF BreakerInit
  <2> QED
    BY <2>1 DEF BreakerInit, Init, BreakerInv, StraysType, OpenCircuitHolds
<1>2. [BreakerNext]_breakerVars => [Next]_vars
  BY DEF BreakerNext, breakerVars
<1>3. TInv /\ [Next]_vars => TInv'
  BY TypeStep, HoldsEventStep DEF TInv
<1>4. BreakerInv => TInv /\ OpenCircuitHolds
  BY DEF BreakerInv
<1> QED
  BY <1>1, <1>2, <1>3, <1>4, BreakerStep, PTL DEF BreakerSpec

-----------------------------------------------------------------------------
(* The refinement of Outbox: what each step of the job is for its event.   *)

Letters == [e \in Events |-> dead[e] # "none"]

LEMMA LettersKept ==
  ASSUME \A e \in Events : dead'[e] # "none" <=> dead[e] # "none"
  PROVE  Letters' = Letters
BY DEF Letters

LEMMA PromiseInit == Init => Promise!Init
BY DEF Init, Promise!Init

LEMMA PromiseStep ==
  ASSUME IInv, SInv, [Next]_vars
  PROVE  [Promise!Next]_(Promise!vars)
<1> DEFINE Goal == [Promise!Next]_(Promise!vars)
<1>0. /\ \A e \in Events : posts[e] \in Nat /\ attempts[e] \in Nat
      /\ status \in [Events -> Statuses] /\ dead \in [Events -> {"none", "open", "requeued"}]
      /\ posts \in [Events -> Nat] /\ acked \in [Events -> BOOLEAN]
      /\ \A w \in Workers : worker[w].pc \notin {"idle", "loop"} =>
                               worker[w].evt \in Events /\ status[worker[w].evt] = "PENDING"
  BY DEF IInv, TInv, TypeOK, HoldsEvent, SInv, HeldRows, Held
<1>1. ASSUME UNCHANGED <<status, dead, posts, acked>> PROVE Goal
  BY <1>1 DEF Promise!vars
<1>2. ASSUME NEW e \in Events, AppendEvent(e) PROVE Goal
  <2>1. CASE status[e] = "ABSENT"
    <3>1. Promise!Accept(e)
      BY <1>2, <2>1 DEF AppendEvent, Promise!Accept, historyVars
    <3> QED
      BY <3>1 DEF Promise!Next
  <2>2. CASE status[e] # "ABSENT"
    <3>1. status' = status
      BY <1>0, <1>2, <2>2 DEF AppendEvent
    <3> QED
      BY <1>1, <1>2, <3>1 DEF AppendEvent, historyVars
  <2> QED
    BY <2>1, <2>2
<1>3. ASSUME NEW e \in Events, RequeueDeadLetter(e) PROVE Goal
  <2>1. dead[e] # "none" /\ \A f \in Events : dead'[f] # "none" <=> dead[f] # "none"
    BY <1>0, <1>3 DEF RequeueDeadLetter
  <2>2. Letters' = Letters
    BY <2>1, LettersKept
  <2>3. Promise!Requeue(e)
    BY <1>3, <2>1, <2>2 DEF RequeueDeadLetter, Promise!Requeue, Letters
  <2> QED
    BY <2>3 DEF Promise!Next
<1>4. ASSUME NEW w \in Workers, Skip(w) PROVE Goal
  <2>1. Promise!Skip(worker[w].evt) /\ worker[w].evt \in Events
    BY <1>0, <1>4 DEF Skip, Promise!Skip, historyVars
  <2> QED
    BY <2>1 DEF Promise!Next
<1>5. ASSUME NEW w \in Workers, Post(w) PROVE Goal
  <2> DEFINE e == worker[w].evt
  <2>1. e \in Events /\ status[e] = "PENDING"
    BY <1>0, <1>5 DEF Post
  <2>2. acked' = [acked EXCEPT ![e] = TRUE] \/ acked' = acked
    <3>1. PICK answer \in {"ok", "failed", "caught"} :
             acked' = [acked EXCEPT ![e] = @ \/ answer = "ok"]
      BY <1>5 DEF Post
    <3>2. CASE answer = "ok"
      BY <3>1, <3>2
    <3>3. CASE answer # "ok"
      <4>1. (acked[e] \/ answer = "ok") = acked[e]
        BY <1>0, <2>1, <3>3
      <4> QED
        BY <1>0, <2>1, <3>1, <4>1
    <3> QED
      BY <3>2, <3>3
  <2>3. Promise!Send(e)
    BY <1>5, <2>1, <2>2 DEF Post, Promise!Send, eventVars
  <2> QED
    BY <2>1, <2>3 DEF Promise!Next
<1>6. ASSUME NEW w \in Workers, CommitSuccess(w) PROVE Goal
  <2>1. /\ worker[w].evt \in Events /\ status[worker[w].evt] = "PENDING"
        /\ acked[worker[w].evt]
    BY <1>0, <1>6 DEF CommitSuccess, IInv, DeliveredWasAccepted
  <2>2. Promise!Deliver(worker[w].evt)
    BY <1>6, <2>1 DEF CommitSuccess, Promise!Deliver, historyVars
  <2> QED
    BY <2>1, <2>2 DEF Promise!Next
<1>7. ASSUME NEW w \in Workers, CommitRetry(w) PROVE Goal
  <2>1. status[worker[w].evt] = "PENDING" /\ worker[w].evt \in Events
    BY <1>0, <1>7 DEF CommitRetry, RecordFailure
  <2>2. status' = status
    BY <1>0, <1>7, <2>1 DEF CommitRetry
  <2> QED
    BY <1>1, <1>7, <2>2 DEF CommitRetry, RecordFailure, historyVars
<1>8. ASSUME NEW w \in Workers, CommitDeadLetter(w) PROVE Goal
  <2>1. PICK e \in Events : e = worker[w].evt /\ status[e] = "PENDING"
    BY <1>0, <1>8 DEF CommitDeadLetter, RecordFailure
  <2>2. posts[e] >= MaxAttempts
    <3>1. Attempt(w) = Claimed(w, e) /\ Exhausted(w)
      BY <1>8, <2>1 DEF CommitDeadLetter, RecordFailure, Recorded, Attempt, Claimed
    <3>2. Claimed(w, e) <= posts[e]
      BY DEF IInv, AttemptsWereSent
    <3>3. Claimed(w, e) \in Nat /\ posts[e] \in Nat /\ MaxAttempts \in Nat
      BY <1>0, WorkerFacts, LimitsAssumption DEF IInv, TInv
    <3> QED
      BY <3>1, <3>2, <3>3 DEF Exhausted
  <2>3. Letters' = [Letters EXCEPT ![e] = TRUE]
    <3>1. /\ dead'[e] # "none"
          /\ \A f \in Events \ {e} : dead'[f] = dead[f]
      BY <1>0, <1>8, <2>1 DEF CommitDeadLetter
    <3> QED
      BY <3>1 DEF Letters
  <2>4. UNCHANGED <<posts, acked>> /\ status' = [status EXCEPT ![e] = "FAILED"]
    BY <1>8, <2>1 DEF CommitDeadLetter, RecordFailure, historyVars
  <2>5. Promise!GiveUp(e)
    BY <2>1, <2>2, <2>3, <2>4 DEF Promise!GiveUp, Letters
  <2> QED
    BY <2>5 DEF Promise!Next
<1>9. ASSUME NEW w \in Workers, TakeBatch(w) \/ ReadEndpoint(w) \/ Postpone(w) \/ Fault(w)
      PROVE  Goal
  BY <1>1, <1>9 DEF TakeBatch, ReadEndpoint, Postpone, Fault, TransactionThrows, RunStops,
                    eventVars, historyVars
<1>10. CASE Tick
  BY <1>1, <1>10 DEF Tick, historyVars
<1>11. ASSUME NEW t \in Tenants, NEW isActive \in BOOLEAN, UpsertWebhookEndpoint(t, isActive)
       PROVE  Goal
  BY <1>1, <1>11 DEF UpsertWebhookEndpoint, eventVars, historyVars
<1>12. UNCHANGED vars => Goal
  BY <1>1 DEF vars, eventVars, historyVars
<1> QED
  BY <1>2, <1>3, <1>4, <1>5, <1>6, <1>7, <1>8, <1>9, <1>10, <1>11, <1>12 DEF Next, Request, JobStep

\* The job, with its batches, retries, circuit breaker and faults, does what Outbox
\* promises, as long as its runs do not overlap.
THEOREM OutboxKept ==
  ASSUME OneRun
  PROVE  Spec => ImplementsOutbox
<1>1. IInv /\ SInv /\ [Next]_vars => [Promise!Next]_(Promise!vars)
  BY PromiseStep
<1> QED
  BY <1>1, PromiseInit, SingleInvariance, PTL DEF Spec, ImplementsOutbox, Promise!Spec

=============================================================================
