# A verification project for the LMS backend

TLA+ models of the backend in this repository (a NestJS monorepo: an API gateway
and three services over PostgreSQL), TLC runs on small instances, and TLAPS
proofs. `PROJECT.json` ties every definition to the lines it models, every
property to a run and to a fault it detects, and lists the hazards the
properties are for.

Contents: 1 the system, 2 what is modelled, 3 the runs, 4 fairness, 5 the proofs,
6 findings, 7 what is left out, 8 the plan.

## 1. The system

| component | state | operations that change it |
| --- | --- | --- |
| `apps/analytics-webhook-service` delivery | `EventBuffer` (an outbox row per idempotency key: status, attempts, next attempt), `WebhookEndpoint` (active, consecutive failures, circuit), `DeadLetterEvent` | `track*`, `upsertWebhookEndpoint`, `requeueDeadLetter`, the cron job `deliverPendingWebhooks` |
| `apps/auth-org-service` sessions | `RefreshToken` rows | login, refresh, logout, logout of all sessions, the daily clean-up |
| `apps/auth-org-service` onboarding and seats | `Tenant`, `User`, `Membership`, `Invite` | register, create and accept an invite, login (seat activity), the hourly clean-up |
| `apps/auth-org-service` billing | the tenant's tier, seats, customer and subscription; `StripeWebhookEvent` | the Stripe webhook, the checkout session |
| `apps/course-service` | `Course`, `Lesson`, `Enrollment` | create, update and delete of each |
| `apps/api-gateway` | none but request metrics; it sequences calls to the services | enrollment (seat check, then create), progress update (read, update, emit learning events), health, alerts |
| `libs/common` | none | seat policy, entitlements of a subscription, tenant routes, roles, tier limits |
| `scripts/`, `test/integration` | processes and a state file | start, migrate, reset and stop the integration stack |

**Interaction.** The gateway calls the services by TCP request and reply, and the
services do not call each other. Each service has its own database. Stripe calls
the billing webhook of auth-org-service over HTTP; analytics-webhook-service calls
the tenants' webhook servers. Within auth-org-service billing and seats share the
tenant row: the webhook writes `includedLearnerSeats` and `stripeSubscriptionId`,
the seat check reads them and, for the grace window, `updatedAt`. The gateway
derives the learning events of analytics from the enrollments of course-service.

**What is hard.** With few exceptions a handler is a sequence of single
statements with an `await` between them: it reads rows, decides, and writes by id
what it decided, while another request, another run of a cron job, or the next
delivery of a webhook does the same. So:

- *interleaving and stale reads*: overlapping runs of the delivery job write back
  old counters; two refreshes hold one token; two deliveries of one Stripe event
  pass the same look-up; two accepts count the same free seat; two course
  creations count the same courses;
- *partial failure and crashes*: a process that stops between two of the writes of
  a handler; a transaction that throws after the tenant's server said 200;
- *ordering and repetition*: Stripe repeats and reorders events; requests time out
  and are sent again;
- *time*: retry times, the circuit's opening, expiry of tokens and invites, the
  rolling window of the seats, the grace window;
- *liveness*: events must not stay PENDING, Stripe events not unanswered.

**What makes each part correct.**

| component | correct when |
| --- | --- |
| delivery | an event is DELIVERED only if a server accepted it, FAILED only after all its attempts, never forgotten, and settled in the end; a server that fails opens the circuit, and a circuit that is open keeps all but the requests already under way |
| sessions | a rotated or ended token is never usable again; nobody is signed out by accident |
| onboarding, seats | no learner beyond the limit; no invite used up without its member; no half-made user or tenant goes unexplained |
| billing | an event answered with 2xx was handled; a tier is held only by a subscription that pays for it; the tenant ends in the state Stripe has |
| courses, enrollments | no more courses than the tier allows; progress and its events agree; nothing survives the delete of its course |
| gateway | an alert fires if and only if its condition holds; a dependency that hangs does not hang the probe |
| libs/common | the functions agree with their documentation for every input |

## 2. What is modelled

One module per component; `MC*` modules instantiate them for TLC, `*_proofs`
modules hold the proofs. In every module a step is the code between two awaits, a
request or a run of a job is a record with a `pc` and the locals that survive an
await, and dates are relative (the time that is left), so that `Tick` can let time
pass without a clock that grows. Definitions whose comment starts with "Mutant:"
are not part of a specification: each is a plausible mistake in the definition of
the same purpose, and `PROJECT.json` pairs it with the property that finds it.

### WebhookDelivery, CircuitBreaker and Outbox

`WebhookDelivery` is `analytics-webhook-service.service.ts` without its reports.
`status`, `attempts`, `due` are the columns of `EventBuffer`; `endpoint`,
`failures`, `circuit` those of `WebhookEndpoint`; `dead` is the dead letter of an
event. A member of `Workers` is a run of `deliverPendingWebhooks`: `TakeBatch` is
the query, `ReadEndpoint` the start of an iteration, `Skip`, `Postpone` and `Post`
its branches, `CommitSuccess`, `CommitRetry`, `CommitDeadLetter` the transactions
after the POST. The job starts every ten seconds and nothing keeps its runs apart,
so several can be under way; `snap` and `fails` are what a run has read and will
write back plus one. `TransactionThrows` is an exception that lands in the catch,
`RunStops` one that ends the run, or a crash.

`CircuitBreaker` adds to the steps of `WebhookDelivery` two history variables: `strays`,
the requests a tenant has been sent since its circuit opened, and `streak`, the failures
recorded in a row while it stays closed. The failures and the circuit are read with the
endpoint, before the POST, and used after it, so that with overlapping runs neither is
what the threshold says. `OpenCircuitHolds` bounds the first by the runs that asked
before the circuit opened: with *n* runs, at most *n* - 1 requests. `FailuresOpenCircuit`
bounds the second. A run that fails replaces the count *s* it has read by *s* + 1, which
may set back what others have written. But sort the counts that the *n* runs hold (a run
that has read none holds what the row says): *s* leaves the list, and what changes is
above *s* afterwards, so the first entry that changes grows. Hence no list comes twice,
and there are (T + *n* - 1 over *n*) lists of counts below the threshold T. The bound is reached in the instance; for runs that do not
overlap it is T - 1.

`Outbox` is the promise without the machinery: an event is sent only while it
waits, delivered only after it was accepted, given up only after `MaxAttempts`
requests, and taken up again only through its dead letter. `ImplementsOutbox`
states that the job keeps it where its runs do not overlap. `lettered` is mapped to `dead # "none"`; requeue
dates, retry times, circuits and snapshots have no counterpart.

### StripeBilling

`stripe-billing.service.ts` and its controller. `Deliver` starts a webhook request;
`Lookup`, `Create`, `Mark`, `Answer` are `processWebhookEventOnce`; `HandleSync`,
`HandleClear`, `StoreCustomer`, `Retrieve`, `WriteRetrieved` are the handlers;
`Synced` is the row `syncSubscriptionRecord` writes. `Fails` is every call that
throws, and the death of the process; `ErrorSwallowed` is the catch of
`syncSubscriptionById`, which logs and goes on. `Handling` are the deliveries in the
handler of an event: `ReplaysWereUnderWay` says that a processed event is handled on only
by those that were in it already, and that nothing else writes a tenant row. Stripe is external: its events are
numbered, an event may be delivered at any time and any number of times until the
bound is reached, and again as long as no delivery was answered with 2xx. With
`Ordered` the first delivery of an event waits for the events before it.

`Inbox` is the promise without handlers, requests and overlap: a message is recorded
before it has any effect, touches no row but its own tenant's, is settled only after it
was handled (if it must be: the lifecycle events), and acknowledged only when it is
settled. `ImplementsInbox` states that the webhook keeps it in any order, repetition and
overlap. A step of a handler is `Handle`; look-ups, retrievals, calls that throw and
requests that die are stutters; the second of two overlapping creates is one too.

### Sessions

The life of `RefreshToken`. A refresh is `FindForRefresh`, `RevokeForRefresh`,
`Mint`; a logout `FindForLogout`, `RevokeForLogout`; `LogoutAll` and `Cleanup` are
single statements. `parent` remembers for which token a token was given, `ended`
the tokens a logout ended, `contested` those two requests held at once, `lost`
those whose refresh died after it had revoked them.

`SessionChain` is the promise without rows, requests and clock: tokens are issued, are
usable until they lapse and never again, and come from a login or from one token that
has lapsed before. Unless two requests presented that token at once, it is exchanged only
once, and never after it was ended. `ImplementsChain` maps `issued` to the rows that
exist and `usable` to those a refresh would find. `Mint` is `Rotate`, `RevokeForRefresh`,
`Cleanup` and `Tick` are `Lapse`, logout is `End`, and the look-up of a token another
request holds is `Contest`.

### Onboarding

`registerTenant` (`FindName`, `CreateTenant`, `CreateAdmin`,
`CreateAdminMembership`), `createInvite` (`FindInvitee`, `CreateInvite`,
`SendMail`), `acceptInvite` (`FindInvite`, for a learner `ReadLimit` and
`CountSeats`, then `CreateUser`, `CreateMembership`, `UseInvite`), the write of
`lastSeatQualifyingActivityAt` in `Login`, `cleanupExpiredInvites`, and the writes
of the Stripe webhook that the seat check reads (`SyncTenant`). The module is about
one tenant. `fresh` holds the requests whose view of the limit and of the seats no
other step has outdated; `cut` and `orgCut` remember what a dead request left.
Once the seats are counted, the request's copy of the limit is not used any more, and
`Admit` drops it; it keeps `graced`, whether only the grace window let it in.

`Admission` is the promise without handlers, requests and clock: whoever is admitted was
invited and gets the role of that invite; an admission ends with a membership or is
given up; an invite is spent only for a member; a learner who joins takes a seat within
the limit, unless excused. `ImplementsAdmission` maps `admitting` to the users whose
request is at `CreateMembership`, `abandoned` to those left there by a request that died,
`seats` to the learners active within the window, and `excused` to the learners whose
accept reads in the grace window or whose view of limit and seats is outdated (`Unsure`).
`CreateUser` is `Enrol`, `CreateMembership` is `Join`, `UseInvite` is `Spend`, a login
that takes a seat again is `Return`, the webhook is `Offer`, time is `TimePasses`. The
rest is `Withdraw`, which lets only those who leave the door drop out of `excused`.

### Courses

`course-service.service.ts`. A handler that awaits between a look-up and a write is
two actions: `CountCourses` and `CreateCourse`, `FindCourseForLesson` and
`CreateLesson`, `FindLesson` and `WriteLesson`, `FindCourseForEnrollment` and
`CreateEnrollment`, `FindEnrollment` and `WriteEnrollment`. What is one statement in
the code, or a look-up and a delete whose `where` repeats the look-up, is one action
(`UpdateCourse`, `DeleteCourse` with its cascades, `DeleteLesson`,
`DeleteEnrollment`). The foreign keys and the unique key of the schema are guards of
the inserts. `had` holds the tiers a token in circulation may carry, since the limit is
taken from the token and not from the database. Of the contents of a row only the
writer is kept (`by`, `actor`). `granted` remembers the highest limit that a creation
was checked against.

### LearningEvents

The composition of gateway, course-service and analytics around one enrollment: `Get`
is the gateway's read, `Check` and `Update` are the look-up and the write of
`updateEnrollment` in course-service, `Emit` derives the events from the two answers
(`EventsOf`) and hands them to `Promise.allSettled`, `Append` is the upsert by
idempotency key, `Fails` a call that is logged and forgotten, `Dies` a gateway that
stops after the update was committed. An event *is* its idempotency key, so that the
buffer is a set. `held`, `first`, `turns` and `outdated` remember what states and
completions the row has had, and which were written by updates whose read was
outdated.

### GatewayHealth

The metrics, readiness and alerts of the gateway. A request is a record with its
handler's calls and probes; `Respond` is the end of a handler (with the count of
`AllExceptionsFilter`), `TimesOut` the request's own timer, `EndsLate` the handler that
answers after it, `Finish` the count on the finish of the response, `Abort` the client
that goes away. `ProbeReturns` and `ProbeTimesOut` are the two sides of the race in
`probeWithTimeout`. A service is up, down, or hangs, and may change at any time. `up`
remembers which services were up at some time of the call.

### Access, Entitlements, Paging

Modules without variables. `Access` is the pipeline a request passes before its handler
(`TenantPresent`, `Authenticated`, `RoleAllowed`, `InScope`) and the decorators of all
the routes. A `tenantId` in the query or the body may be blank, a tenant's, or no string
(`NotText`: a query parameter given twice), which `TenantScopeGuard` lets pass; no handler
behind a token reads it. `Entitlements` is `resolveSubscriptionEntitlements` as a fold over the
subscription's items, the price that checkout sells for a tier, and the two definitions
of an active seat. `Paging` is what a client sees that follows `nextCursor`: how many
times each row, for rows no two of which share a `createdAt`.
`MCGateway` checks them for every input within bounds: its variable `input` picks one
in an initial state of its own that has no successor, beside the states of
`GatewayHealth`.

## 3. The runs

Every passing run finishes with the whole state space explored; the largest has
about two million distinct states.

| run | bounds | what it shows |
| --- | --- | --- |
| `webhook_overlap` | 1 event, 2 overlapping runs, 2 attempts, threshold 2, 1 requeue, 1 fault | `DeliveredWasAccepted`, `AttemptsWereSent`, `DeadLettersAreExhausted`, `RetryBudget`: what holds although runs overwrite one another; `OpenCircuitHolds`, `FailuresOpenCircuit`: what the circuit breaker is still worth; `EventuallySettled` under that overlap |
| `webhook_single` | 2 events of a tenant, batches of one, 1 run at a time, 1 requeue, 1 fault | `OpenDeadLettersAreFailed`, `PostsAreAccounted`, and `ImplementsOutbox`; `EventuallySettled`: the event that is not in the batch does not starve |
| `webhook_backlog` | as `webhook_single` | violated: `BacklogCoversFailed` (section 6) |
| `billing_overlap` | 1 subscription, 2 events, 2 deliveries at once, 2 faults, any order | `PaidTierWasReported`, `ReplaysWereUnderWay`, `ImplementsInbox` (it implies `NothingIsLost`), `EventuallyAnswered` |
| `billing_ordered` | 1 subscription, 4 events, first deliveries in order, replays, 2 faults | `InSync`: at rest the tenant has what Stripe says |
| `billing_concurrent_replay` | 2 deliveries at once | violated: `ReplayHasNoEffect` |
| `billing_out_of_order` | 1 delivery at a time, any order | violated: `InSync` |
| `sessions_overlap` | 3 tokens, 2 requests, lifetime 2, 1 fault | `RotatesOnce`, `LogoutEndsSession`, `SignedInUntilEnded`, and `ImplementsChain` (it implies `RotationRetires`) |
| `onboarding_overlap` | 2 emails, 3 invites (two for one email, one as instructor), 2 requests, limits 1 and 2, times of 1, 1 fault | `OpenInviteIsUsable`, `TenantHasAdmin`, `SeatsWithinLimit`, and `ImplementsAdmission` (it implies `AcceptsAreWhole`) |
| `courses_overlap` | 2 tenants, 2 users, 2 requests, 3 courses, 1 lesson, 2 enrollments, a limit of one and none | `RowsConsistent`, `WrittenByTheirOwn` (tenant and learner), `OverrunIsBounded` |
| `learning_events` | 3 updates of an enrollment, 4 payloads, a clock of 2, unenrolment, lost events | `EventsHappened`, `HighestReported`, `CompletionsReported`, `ReportCountsCompletions` |
| `gateway` | 2 requests, 2 services, one of them a summarizer, threshold 50 %; 2 tenants, every route and token; every header, query and body; 2 prices, 3 items, quantities up to 2 or no number; times up to 8, windows up to 4; 8 rows, limits up to 4 | `TypeOK`, `ErrorsAccounted`, `OutageIsNoticed`, `ReadinessEnds`; `RequestsActForOwnTenant`, `RoutesOpenAsMeant`, `CatalogHonoured`, `SeatsAgree`, `ListingsSkipOnlyCursors` |

`TypeOK` of every state machine is proved (section 5; the counters of `CircuitBreaker`
are history); TLC checks it in `gateway` only.

**Why the bounds are enough.** The races of this code are between two actors: a
read and the write it justifies, with one foreign step in between. Two runs,
deliveries or requests show each of them, and a third row (token, invite, course) lets
the outcome of the race be used again. An enrollment takes three updates, since a
completion that is taken back and made again needs two and the race a third. Counters
are compared with thresholds of one or two, so that "below", "at" and "one past" the
threshold differ, and a requeue doubles the number of attempts a row can see. One
fault is enough to cut any handler at any await; two, in billing, let the redelivery
of a failed event fail as well. Times of one or two units tell "now", "soon" and
"over" apart. `MaxPosts` is above the most requests that attempts, requeues and faults
of the instance allow in the passing runs, so that it cuts off no behaviour there.
Eight rows and pages of one to three give walks of up to five pages, with and without
a short last page. What the bounds cannot show for larger instances, the proofs do
(section 5).

**Symmetry** is used in `sessions_overlap`, `onboarding_overlap`, `courses_overlap` and
`learning_events`, which check no liveness property.

**Deadlock** is checked, but in `learning_events` and `gateway`: there every request of
the bound may have ended (and an `input` has no successor). In the other runs time can
always pass, another request can always start, or Stripe can always deliver an event
again.

## 4. Fairness

- `WebhookDelivery`: weak fairness of `Tick`, and of the steps of each run. The
  scheduler starts the job every ten seconds for as long as the process lives, a
  database call returns or throws, and the HTTP client ends a fetch that gets no
  answer (a time limit of its own; the code sets none, so runs overlap, but they do
  end). The server's answers, requests of users and faults have no fairness.
- `StripeBilling`: weak fairness of the steps of each request, strong fairness of
  the next delivery of each event that was not answered. Strong, since a delivery
  is not enabled while the place for it is taken by another: Stripe keeps trying.
- `GatewayHealth`: weak fairness of the end of a handler that has its result, and of
  the timers of probes. No service need ever answer, and no client need wait.
  Readiness ends all the same; alerts need not, since its summaries have no timer.
- `Sessions`, `Onboarding`, `Courses` and `LearningEvents` promise nothing that must
  eventually happen, and assume no fairness.

## 5. The proofs

The proofs hold for every value of the constants that satisfies the assumptions
(named `ASSUME`s, evaluated by TLC in each run): any number of events, tenants,
overlapping runs, deliveries and requests, and any limits. Every invariant and every
action property of the passing runs but `FailuresOpenCircuit` is the statement of one of
them, four refinements included. CircuitBreaker, Onboarding, Courses and GatewayHealth
assume finite sets of what they count.

| module | theorems |
| --- | --- |
| `WebhookDelivery_proofs` | `TypeCorrect`, `DeliveredSafe`, `AttemptsSafe`, `DeadLettersSafe`, `BudgetSafe`, `OpenCircuitSafe`; for runs that do not overlap `OpenSafe`, `AccountedSafe`, `OutboxKept` |
| `StripeBilling_proofs` | `TypeCorrect`, `AnsweredSafe`, `HandledSafe`, `NothingIsLostSafe`, `PaidSafe`, `ReplaySafe`, `InboxKept`; for ordered deliveries `SyncSafe` |
| `Sessions_proofs` | `TypeCorrect`, `RotationSafe`, `RotatesOnceSafe`, `LogoutSafe`, `SignedInSafe`, `ChainKept` |
| `Onboarding_proofs` | `TypeCorrect`, `UsedSafe`, `AdmittedSafe`, `AcceptsWholeSafe`, `OpenSafe`, `AdminSafe`, `SeatsSafe`, `AdmissionKept` |
| `Courses_proofs` | `TypeCorrect`, `RowsSafe`, `WritersSafe`, `OverrunSafe` |
| `LearningEvents_proofs` | `TypeCorrect`, `HappenedSafe`, `HighestSafe`, `CompletionsSafe`, `ReportSafe` |
| `GatewayHealth_proofs` | `TypeCorrect`, `ErrorsSafe`, `OutageSafe` |
| `Gateway_proofs` | `TenantSafe`, `RoutesSafe`, `CatalogSafe`, `SeatsAgreeSafe`, `ListingsSafe`, over `OwnTenantSafe`, `PublicSafe`, `LearnerSafe`, `HighestSafe`, `SeatsOfTierSafe`, `BoughtSafe`, `WalkSafe` |

Each module of a state machine first proves the type invariant, mostly together with
"a request under way holds something" (`HoldsEvent`, `InHand`, `Holding`, `Locals`),
then one lemma per strengthening and step, and combines them with PTL.

**WebhookDelivery.** None of the properties of overlapping runs is inductive about the
rows alone, since a run writes `snap + 1` over whatever the row says. They are
therefore stated about the rows *and* the locals of every run (what a run is about to
record was sent; a snapshot has an attempt left), and `IInv` is `TInv` with the four of
them, inductive only together: `DeadLettersAreExhausted` needs `AttemptsWereSent` for
the run that writes the last attempt, and `RetryBudget` needs both the batch's status
and the requeues.

`OpenCircuitSafe` is inductive with the type of `strays`: once the circuit is open no run
comes to ask (`FewerWhileOpen`: `ReadEndpoint` postpones), each request that is sent is one
run less that asks, and the run that opened the circuit has its answer and asks no more
(`OpenerIsDone`).

The three theorems after these assume `OneRun`, at most one run at a time. Then
what a run has read still holds when it writes: `HeldRows` (the events it has read and
not written yet are PENDING, with the attempts of the snapshot, and the one in its hands
is not in the rest of the batch). `SInv` adds to it the open dead letters and the account
of requests. `OutboxKept` shows that every step of the job is a step of `Outbox` or a
stutter: `Post` is `Send`, `CommitSuccess` is `Deliver` and `CommitDeadLetter` is
`GiveUp`, all because of `HeldRows`; `CommitRetry` leaves what `Outbox` sees.

**StripeBilling.** `AnsweredIsProcessed` needs that a delivery that is about to
answer has a processed record (`AnswerMarked`), and that no step takes `processed`
back; a second `create` does not, since the id is unique. `ProcessedWasApplied`
needs that a lifecycle event at `mark` was applied (`MarkApplied`) and that a record
exists only of an emitted event (`Known`). `PaidTierWasReported` needs that what a
request has retrieved was reported by an event of that subscription
(`AnswersReported`): the plan a request carries is one Stripe had at some time, even
if it is not the plan of now.

`InboxKept` needs no order and no condition. Most steps are stutters or map one to one;
what has to be carried from one step of a request to the next is that a delivery past
its look-up has a record (`Recorded`: else a handler could write before the event is
known) and that what a request writes goes to the tenant of its own subscription
(`RowsOwned`, which the deletion of a subscription needs, since it finds its row by the
id and not by the tenant). `Settle` and `Acknowledge` are `MarkApplied` and `AnswerMarked`
once more.

`ReplaySafe` has no condition either: a request comes to a handler only from a look-up
that found no processed record, or from a `create` that found none at all
(`HandlerEntered`), and no other step writes a tenant row (`ReplayEffect`).

`SyncSafe` assumes `Ordered`, one delivery at a time (`OneBusy`), so that what was not
processed at the look-up is not processed later (`Unprocessed`), and besides that no two subscriptions are of one tenant (`OneSubEach`); `InSync` is false
without either. It follows the *last lifecycle event* of a subscription: what Stripe
says now is what that event carries (`Told`); it is delivered after all before it were
answered, and so processed (`InOrder`), hence no older event is handled after it
(`HandledIsLast`); what a refresh retrieved after it is still so (`Retrieved`); and from
the step that applies it the row is as Stripe says (`Reflected`). At rest the event is
answered, hence processed, hence applied.

**Sessions.** `RotationRetires` and `LogoutEndsSession` rest on the lineage of the
tokens (a token that was exchanged is gone, its successor exists and is the same
user's; what a request holds exists; what was ended is gone: `Lineage`, `HeldRows`,
`EndedGone`), `RotatesOnce` on the fact that a token that is not
contested is held by one request only (`Alone`), `SignedInUntilEnded` on an account
of every token that is gone (`Accounted`).

`ChainKept` has one lemma per action of `SessionChain`. `LapseStep` and `IssueStep` say
how the set of usable tokens moves when rows do; `RotateStep`, the only one with content,
takes from `HeldRows` that the exchanged token is gone, and from `Alone` that it has no
successor and was not ended before, if it is not contested.

**Onboarding.** `IInv` adds to the properties: whom a request is about to make a
member is a user with the invite's role (`Known`); who is not a user is no member
(`NoStranger`); the invite a request is about to create is its own and does not exist
yet, any other it holds exists (`Made`); whoever is a user came by an invite
(`Sourced`); and the limit and the count a fresh request has read still hold
(`FreshView`). The last one carries `SeatsSafe`: the seats taken after a fresh
request's `CreateMembership` are those before it and at most one more.

`AdmissionKept` needs two facts more, proved inductive beside `IInv`: a request at
`CreateMembership` is the only one there for its email, and that user is neither a member
nor was left behind by another request (`Sole`, from the unique key that `CreateUser`
runs into); and who was left behind is a user (`LeftAreUsers`, so that nobody is enrolled
twice). What happens to `excused` is one lemma for all steps (`UnsureFrom`): an accept
becomes unsure only when its view is outdated or when it reads the limit in the grace
window, so that steps which do neither can only shrink it (`ExcusedShrinks`). `JoinStep`
takes the bound on the seats from `SeatTaken`, the lemma behind `SeatsSafe`.

**Courses.** `RowInv` says of the locals what the properties say of the rows: the course
a request found is of its tenant or gone, the row it is about to write is of its tenant
and of its learner, or gone; ids are never used again, so "gone" is for ever.
`OverrunSafe` counts instead: the courses of a tenant and the creations that have been
admitted for it are together at most the limit granted and one less than the number of
requests, because a request that is counting has admitted nothing itself (`CountInv`).

**LearningEvents.** The buffer, the events on their way and the lost ones only grow
together, and only in the step that writes the row is there something new to account
for (`EventsStep`). `Described` says that each event is of a state the row has had;
`Seen` that an update's read and its answer are such states; `CompletedInv` that the
first completion and every turn from null to a completion is in the account unless the
update's read was outdated, and that the two events of a completion go together.
`HighestSafe` works although reads are outdated: the update that reached the largest
number of lessons had read some smaller one, whichever it was.

**GatewayHealth.** `Counted` splits the errors beyond those of finished 5xx responses
into what the filter counted: between the open and finished 5xx, and all the requests
that ended with 5xx or late. That the alert is not missed is then arithmetic: the rate
grows with the number of errors (`RateGrows`, from `QuotientGrows`). `Probed` says that
every service that is up now, or has answered a probe, is in the history of the call.

**Access, Entitlements, Paging.** Their theorems are about every input of `MCGateway`,
which its behaviours keep (`InputStays`): any tenants, prices, items, quantities, times, rows
and limits, since what bounds the inputs for TLC are constants.
`Access` follows from the definitions, route by route. The loop of the catalog and
the walk through the pages are inductions over data, for which the library's theorems
cannot be used: a set that contains 0, and with a number the next, contains all
(`InductUpTo`), since otherwise it would lack a least one (`Least`, from the
well-foundedness of `<` on the naturals). With it a recursive function is first shown to
exist, so that the one that `CHOOSE` picks satisfies its equations (`FoldExists`, with
which `ResolveLoop` unfolds the loop over the items; `WalkExists`). Then each property is
a loop invariant: the tier found so far is the highest that an earlier item pays for
(`HighestSafe`), and the seats so far are those of the earlier items of that tier
(`SeatsOfTierSafe`). For the walk the induction is over the rows still to come: of those
after a cursor, it shows all but the cursors among them, once, and no other (`WalkSkips`).

**Only model-checked**: liveness (`EventuallySettled`, `EventuallyAnswered`,
`ReadinessEnds`), which this prover does not do, and with it ENABLED; and
`FailuresOpenCircuit`, whose argument (section 2) counts multisets, an induction over data
that the library's theorems cannot be used for. Conditional are the theorems about runs
that do not overlap (`OneRun`), and `SyncSafe` (`Ordered`, `OneSubEach`): without the condition the code does not keep what
they state (section 6).

## 6. Findings

Each is a run that TLC shows to violate what the repository says of itself.

1. `billing_out_of_order`: an older Stripe event delivered after a newer one
   overwrites it for good; no time stamp is compared.
2. `billing_concurrent_replay`: a second delivery that is under way when the first
   one marks the event processed still runs its handler.
3. `webhook_backlog`: an event that fails again after a requeue is FAILED, but its
   dead letter keeps `requeuedAt` and the backlog alert does not count it.

The passing runs state what does hold in the same places: seats can be overrun, for
example, but only by an accept whose view was outdated, by the grace window, or by a
login that renews the activity of a learner who was away.

**Observations** made on the way. Of all but the last no document promises otherwise, so
no run expects a violation; the properties are stated so as to show how far each one goes.

- A run of the delivery job with an old view writes its outcome over DELIVERED
  (`analytics-webhook-service.service.ts:350`). This is why `ImplementsOutbox` needs
  runs that do not overlap.
- An event of a subscription that does not pay takes away the tier that another
  subscription of the tenant pays for (`stripe-billing.service.ts:107`).
- Overlapping creations, and a token of a better tier that is still good, give a tenant
  more courses than its limit (`OverrunIsBounded` says how many).
- A completion is not reported if the events of its update are lost, or if the update
  compares with an outdated read (`CompletionsReported` says when). The engagement
  report shows a completion rate of 0 for a course completed without `lesson.started`.
- The rows that a client of a paged listing never sees are exactly the cursors: the
  cursor is the first row that is not on the page, and the next page skips it
  (`analytics-webhook-service.service.ts:129`).
- A 5xx made by an exception counts twice, in the filter and at the finish, so that the
  error rate is up to twice as high; a late answer after a 408 counts as a 5xx. No alert
  is missed for it (`ErrorsAccounted`), but one may come early.
- The alerts route itself fails while one of the services it asks for a summary is down,
  and waits for one that hangs.
- The comment at `seat-policy.ts:17` says that lesson completion updates
  `lastSeatQualifyingActivityAt`; only login does. It is about services that the model of
  the seats does not join (a completion reaches course-service and analytics, the seat is
  in auth-org-service), so that a run could only show that an action is missing.
- `TenantScopeGuard` refuses a foreign `tenantId` only if it is a string. It guards
  nothing that a handler reads: the tenant comes from the header (`RequestsActForOwnTenant`).

## 7. What is left out

- Reports that only count rows (`engagementReport`, `eventVolumeReport`,
  `billingOpsSummary`, `assertSeatAvailable`). What `dlqSummary` counts as open is
  `DlqOpen`; its two counts are two statements, and may disagree, and it counts only dead
  letters created within the window it is asked for, which is longer here than any trace.
- The steps of `createCheckoutSession` (create a customer at Stripe, store it, open a
  session). The customers live at Stripe; which price it sells is `CheckoutPrice`. Its
  sessions are of mode `subscription` and name the subscription by its id, so that the
  webhook's branches for other modes and for an expanded subscription are left out.
- A statement that is committed but whose answer is lost. A step that throws is
  taken not to have written; the crash after a write is covered, since every request
  can die at its next step.
- Contents: passwords, names, payloads, signatures. The order in which a batch is
  taken is any order. Numbers of seats follow the tier in `StripeBilling` and are the
  limit in `Onboarding`. The domain and role checks of an invite (`canAssignRole`) do
  not change while it is handled and are abstracted.
- Access tokens: they are stateless and live until they expire, whatever happens to
  the refresh token. What a stale one does to the course limit is in `Courses`.
- The seat check that the gateway makes before an enrollment: it takes no seat, so it
  keeps nothing that the creation could rely on, and may be outdated by then.
- The choice of a status in `normalizeRpcError` (only whether it is a 5xx), the
  throttler, and validation by DTOs, which are the libraries'.
- A route stands for its method and its path as written: HEAD, a slash at the end and
  capitals, which Express and `isTenantOptionalRoute` each treat in their own way, are not
  told apart. In `GatewayHealth` an ordinary request asks one service; the few routes that
  ask several (`downstream-health`, enrollment) fail or hang like one that does.
- `Tick` may not fall between the clock a statement uses and the statement: one unit
  is a day or the job's interval, a statement takes milliseconds. Two rows of a listing
  do not have the same `createdAt`: the code orders by it alone and nothing forbids that
  they do, and then the database chooses what a page holds. The paging property and its
  theorems say nothing of that case.
- The integration scripts, the persistence wrappers, docker, CI and load tests: process
  control and I/O.

## 8. The plan

Done, in the order of their weight: `WebhookDelivery` with `Outbox`, `StripeBilling`,
`Sessions`, `Onboarding`, `Courses`, `LearningEvents`, `GatewayHealth`, `Access`,
`Entitlements`, `Paging`, the abstract `Inbox`, `SessionChain` and `Admission`, and the
proofs of section 5. Next:

1. **Checkout**, composed with `StripeBilling`: two checkouts of a tenant without a
   customer. The customer of the row would then be a state of its own, and `InSync`
   would have to say which of a tenant's customers the row names.
2. `InSync` for tenants with several subscriptions, should the code come to compare the
   subscription of an event with that of the row.
