--------------------------- MODULE StripeBilling ---------------------------
(***************************************************************************)
(* Stripe's webhook in auth-org-service (stripe-billing.service.ts): each  *)
(* delivery of an event is a request of its own that looks the event up in *)
(* StripeWebhookEvent, runs the handler of its type, and marks it          *)
(* processed.  The handlers copy the state of a subscription to the tenant *)
(* row.                                                                    *)
(*                                                                         *)
(* Stripe is external.  It numbers its events (their position in events),  *)
(* keeps delivering an event until a delivery is answered with 2xx, may    *)
(* deliver it more than once and at the same time, and keeps no order.     *)
(***************************************************************************)
EXTENDS Integers, Sequences, FiniteSets

CONSTANTS
    Tenants,
    Subs,         \* Stripe subscriptions
    TenantOf,     \* metadata.tenantId of the subscription or of its customer
    NoSub,        \* stripeSubscriptionId is null
    NoCustomer,   \* stripeCustomerId is null
    CustomerOf,   \* the subscription's customer
    Deliveries,   \* webhook requests that may be under way at once
    Ordered,      \* TRUE: one delivery at a time, each event's first in the order of the events
    MaxEvents,    \* bound: events Stripe emits
    MaxFaults     \* bound: calls that throw, requests that die

\* TenantOf[s] may be no tenant of the database: the update then finds no row.
ASSUME SubsAssumption  == /\ NoSub \notin Subs
                          /\ DOMAIN TenantOf = Subs /\ DOMAIN CustomerOf = Subs
ASSUME ModeAssumption  == Ordered \in BOOLEAN
ASSUME BoundAssumption == MaxEvents \in Nat /\ MaxFaults \in Nat

VARIABLES
    stripe,    \* the subscription at Stripe
    events,    \* the events Stripe has emitted
    answered,  \* events a delivery of which was answered with 2xx
    record,    \* StripeWebhookEvent of each event: "absent", "seen", "processed"
    tenant,    \* subscriptionTier, stripeSubscriptionId, stripeCustomerId
    delivery,  \* the locals of each webhook request
    applied,   \* history: events whose handler wrote the tenant row
    faults

vars == <<stripe, events, answered, record, tenant, delivery, applied, faults>>

Tiers  == {"PRO", "ENTERPRISE"}
\* A paying subscription has the plan of its price, "OTHER" for a price that
\* is not in the catalogue; "unpaid" stands for every status but active and trialing.
Paying == Tiers \cup {"OTHER"}
Plans  == Paying \cup {"none", "unpaid", "paused", "canceled"}

Event == [kind : {"sync", "clear", "fetch", "checkout"}, sub : Subs, plan : Plans]
Ids   == 1..MaxEvents

Places  == {"idle", "lookup", "create", "handle", "retrieve", "write", "mark", "answer"}
Records == {"absent", "seen", "processed"}

TenantRow     == [tier     : Tiers \cup {"FREE"},
                  sub      : Subs \cup {NoSub},
                  customer : {CustomerOf[s] : s \in Subs} \cup {NoCustomer}]
DeliveryState == [pc : Places, ev : 0..MaxEvents, plan : Plans]

IdleDelivery == [pc |-> "idle", ev |-> 0, plan |-> "none"]
FreeTenant   == [tier |-> "FREE", sub |-> NoSub, customer |-> NoCustomer]

TypeOK ==
    /\ stripe   \in [Subs -> Plans]
    /\ events   \in Seq(Event) /\ Len(events) <= MaxEvents
    /\ answered \subseteq Ids
    /\ record   \in [Ids -> Records]
    /\ tenant   \in [Tenants -> TenantRow]
    /\ delivery \in [Deliveries -> DeliveryState]
    /\ applied  \subseteq Ids
    /\ faults   \in 0..MaxFaults

Init ==
    /\ stripe   = [s \in Subs |-> "none"]
    /\ events   = <<>>
    /\ answered = {}
    /\ record   = [i \in Ids |-> "absent"]
    /\ tenant   = [t \in Tenants |-> FreeTenant]
    /\ delivery = [d \in Deliveries |-> IdleDelivery]
    /\ applied  = {}
    /\ faults   = 0

-----------------------------------------------------------------------------
(* Stripe.                                                                 *)

Emit(kind, s, plan) ==
    /\ Len(events) < MaxEvents
    /\ events' = Append(events, [kind |-> kind, sub |-> s, plan |-> plan])
    /\ UNCHANGED <<answered, record, tenant, delivery, applied, faults>>

\* created, updated, resumed, ...: the event carries the subscription.
SubscriptionChanges(s, plan) ==
    /\ stripe[s] \notin {plan, "canceled"}
    /\ plan \in Paying \cup {"unpaid"}
    /\ stripe' = [stripe EXCEPT ![s] = plan]
    /\ Emit("sync", s, plan)

\* deleted and paused.
SubscriptionStops(s, plan) ==
    /\ stripe[s] \notin {"none", plan, "canceled"}
    /\ plan \in {"paused", "canceled"}
    /\ stripe' = [stripe EXCEPT ![s] = plan]
    /\ Emit("clear", s, plan)

\* invoice.* and checkout.session.completed name the subscription only.
SubscriptionNamed(s, kind) ==
    /\ stripe[s] # "none"
    /\ kind \in {"fetch", "checkout"}
    /\ UNCHANGED stripe
    /\ Emit(kind, s, stripe[s])

\* The next delivery of event i, first or repeated.
Deliver(d, i) ==
    /\ delivery[d].pc = "idle"
    /\ i \in 1..Len(events)
    /\ Ordered => /\ (1..(i - 1)) \subseteq answered
                  /\ \A x \in Deliveries : delivery[x].pc = "idle"
    /\ delivery' = [delivery EXCEPT ![d] = [IdleDelivery EXCEPT !.pc = "lookup", !.ev = i]]
    /\ UNCHANGED <<stripe, events, answered, record, tenant, applied, faults>>

-----------------------------------------------------------------------------
(* processWebhookEventOnce.                                                *)

Id(d)  == delivery[d].ev
Ev(d)  == events[Id(d)]
Sub(d) == Ev(d).sub
GoTo(d, pc) == delivery' = [delivery EXCEPT ![d].pc = pc]
Return(d)   == delivery' = [delivery EXCEPT ![d] = IdleDelivery]

\* Mutant: the record of an event that is not processed yet is not found.
LookupProcessed(d) ==
    /\ delivery[d].pc = "lookup"
    /\ GoTo(d, IF record[Id(d)] = "processed" THEN "answer" ELSE "create")
    /\ UNCHANGED <<stripe, events, answered, record, tenant, applied, faults>>

Lookup(d) ==
    /\ delivery[d].pc = "lookup"
    /\ GoTo(d, CASE record[Id(d)] = "processed" -> "answer"
                 [] record[Id(d)] = "seen"      -> "handle"
                 [] record[Id(d)] = "absent"    -> "create")
    /\ UNCHANGED <<stripe, events, answered, record, tenant, applied, faults>>

\* Mutant: the record is created as processed.
CreateProcessed(d) ==
    /\ delivery[d].pc = "create"
    /\ record' = [record EXCEPT ![Id(d)] = "processed"]
    /\ IF record[Id(d)] = "absent" THEN GoTo(d, "handle") ELSE Return(d)
    /\ UNCHANGED <<stripe, events, answered, tenant, applied, faults>>

\* Mutant: the record is upserted, so that a second create does not fail.
CreateUpserts(d) ==
    /\ delivery[d].pc = "create"
    /\ record' = [record EXCEPT ![Id(d)] = IF @ = "absent" THEN "seen" ELSE @]
    /\ GoTo(d, "handle")
    /\ UNCHANGED <<stripe, events, answered, tenant, applied, faults>>

\* The id is unique: a second create fails, outside the try, with no 2xx.
Create(d) ==
    /\ delivery[d].pc = "create"
    /\ record' = [record EXCEPT ![Id(d)] = IF @ = "absent" THEN "seen" ELSE @]
    /\ IF record[Id(d)] = "absent" THEN GoTo(d, "handle") ELSE Return(d)
    /\ UNCHANGED <<stripe, events, answered, tenant, applied, faults>>

Mark(d) ==
    /\ delivery[d].pc = "mark"
    /\ record' = [record EXCEPT ![Id(d)] = "processed"]
    /\ GoTo(d, "answer")
    /\ UNCHANGED <<stripe, events, answered, tenant, applied, faults>>

Answer(d) ==
    /\ delivery[d].pc = "answer"
    /\ answered' = answered \cup {Id(d)}
    /\ Return(d)
    /\ UNCHANGED <<stripe, events, record, tenant, applied, faults>>

\* A call throws (its message is kept in the record and it is thrown again) or
\* the request dies: no 2xx, Stripe will deliver the event again.
Fails(d) ==
    /\ delivery[d].pc # "idle"
    /\ faults < MaxFaults
    /\ faults' = faults + 1
    /\ Return(d)
    /\ UNCHANGED <<stripe, events, answered, record, tenant, applied>>

-----------------------------------------------------------------------------
(* The handlers.                                                           *)

\* Mutant: a status that does not pay leaves the tier.
SyncedKeepsTier(row, s, plan) ==
    IF plan \in Paying
    THEN [tier |-> IF plan \in Tiers THEN plan ELSE "FREE",
          sub |-> s, customer |-> CustomerOf[s]]
    ELSE [row EXCEPT !.sub = NoSub, !.customer = CustomerOf[s]]

\* syncSubscriptionRecord: the row after a subscription was copied to it.
Synced(row, s, plan) ==
    IF plan \in Paying
    THEN [tier |-> IF plan \in Tiers THEN plan ELSE "FREE",
          sub |-> s, customer |-> CustomerOf[s]]
    ELSE [tier |-> "FREE", sub |-> NoSub, customer |-> CustomerOf[s]]

SyncSubscription(s, plan) ==
    tenant' = [t \in Tenants |-> IF t = TenantOf[s] THEN Synced(tenant[t], s, plan)
                                                    ELSE tenant[t]]

\* Mutant: the tier stays.
ClearKeepsTier(s) ==
    tenant' = [t \in Tenants |-> IF tenant[t].sub = s THEN [tenant[t] EXCEPT !.sub = NoSub]
                                                      ELSE tenant[t]]

\* clearSubscriptionByStripeId: the row that holds this subscription, if any.
ClearSubscription(s) ==
    tenant' = [t \in Tenants |-> IF tenant[t].sub = s
                                 THEN [tenant[t] EXCEPT !.tier = "FREE", !.sub = NoSub]
                                 ELSE tenant[t]]

HandleSync(d) ==
    /\ delivery[d].pc = "handle" /\ Ev(d).kind = "sync"
    /\ SyncSubscription(Sub(d), Ev(d).plan)
    /\ applied' = applied \cup {Id(d)}
    /\ GoTo(d, "mark")
    /\ UNCHANGED <<stripe, events, answered, record, faults>>

HandleClear(d) ==
    /\ delivery[d].pc = "handle" /\ Ev(d).kind = "clear"
    /\ ClearSubscription(Sub(d))
    /\ applied' = applied \cup {Id(d)}
    /\ GoTo(d, "mark")
    /\ UNCHANGED <<stripe, events, answered, record, faults>>

\* onCheckoutSessionCompleted stores the customer before it syncs.  The sessions
\* createCheckoutSession opens are all of mode "subscription", and an event names
\* its subscription by id: the branches for another mode and for a subscription
\* expanded into an object are left out.
StoreCustomer(d) ==
    /\ delivery[d].pc = "handle" /\ Ev(d).kind = "checkout"
    /\ tenant' = [t \in Tenants |-> IF t = TenantOf[Sub(d)]
                                    THEN [tenant[t] EXCEPT !.customer = CustomerOf[Sub(d)]]
                                    ELSE tenant[t]]
    /\ GoTo(d, "retrieve")
    /\ UNCHANGED <<stripe, events, answered, record, applied, faults>>

Retrieve(d) ==
    /\ \/ delivery[d].pc = "retrieve"
       \/ delivery[d].pc = "handle" /\ Ev(d).kind = "fetch"
    /\ delivery' = [delivery EXCEPT ![d].pc = "write", ![d].plan = stripe[Sub(d)]]
    /\ UNCHANGED <<stripe, events, answered, record, tenant, applied, faults>>

WriteRetrieved(d) ==
    /\ delivery[d].pc = "write"
    /\ SyncSubscription(Sub(d), delivery[d].plan)
    /\ applied' = applied \cup {Id(d)}
    /\ GoTo(d, "mark")
    /\ UNCHANGED <<stripe, events, answered, record, faults>>

\* syncSubscriptionById logs what retrieve or the update throws and returns.
ErrorSwallowed(d) ==
    /\ \/ delivery[d].pc \in {"retrieve", "write"}
       \/ delivery[d].pc = "handle" /\ Ev(d).kind = "fetch"
    /\ faults < MaxFaults
    /\ faults' = faults + 1
    /\ GoTo(d, "mark")
    /\ UNCHANGED <<stripe, events, answered, record, tenant, applied>>

-----------------------------------------------------------------------------
Handle(d) ==
    \/ HandleSync(d) \/ HandleClear(d)
    \/ StoreCustomer(d) \/ Retrieve(d) \/ WriteRetrieved(d)

RequestStep(d) == Lookup(d) \/ Create(d) \/ Handle(d) \/ Mark(d) \/ Answer(d)

Stripe == \E s \in Subs :
             \/ \E plan \in Plans : SubscriptionChanges(s, plan) \/ SubscriptionStops(s, plan)
             \/ \E kind \in {"fetch", "checkout"} : SubscriptionNamed(s, kind)

Next == \/ Stripe
        \/ \E d \in Deliveries : \/ RequestStep(d) \/ Fails(d) \/ ErrorSwallowed(d)
                                 \/ \E i \in Ids : Deliver(d, i)

Spec == Init /\ [][Next]_vars

\* Requests run on, and an event that was not answered is delivered again: with
\* other events delivered in between, the delivery is not enabled all the time.
Fairness == /\ \A d \in Deliveries : WF_vars(RequestStep(d))
            /\ \A i \in Ids : SF_vars(i \notin answered /\ \E d \in Deliveries : Deliver(d, i))

FairSpec == Spec /\ Fairness

-----------------------------------------------------------------------------
(* Properties for any order, repetition and overlap of deliveries.         *)

\* An event Stripe was told not to deliver again is processed: nothing is lost
\* between a 2xx answer and the record.
AnsweredIsProcessed == \A i \in answered : record[i] = "processed"

\* A lifecycle event is marked processed only after its handler wrote the row;
\* an event whose handler threw is handled again.
ProcessedWasApplied ==
    \A i \in 1..Len(events) : record[i] = "processed" /\ events[i].kind \in {"sync", "clear"}
                                  => i \in applied

\* An event that Stripe will not deliver again was recorded, and its handler ran:
\* nothing is lost between a delivery, its answer, a retry and a crash.
NothingIsLost == AnsweredIsProcessed /\ ProcessedWasApplied

\* A tenant has a paid tier only together with a subscription of its own that
\* Stripe reported as paying for just that tier.
PaidTierWasReported ==
    \A t \in Tenants : tenant[t].tier # "FREE" =>
        /\ tenant[t].sub # NoSub
        /\ TenantOf[tenant[t].sub] = t
        /\ \E i \in 1..Len(events) : /\ events[i].sub = tenant[t].sub
                                     /\ events[i].plan = tenant[t].tier

\* Whatever fails on the way, every event is answered in the end.
EventuallyAnswered == \A i \in Ids : i <= Len(events) ~> i \in answered

\* The deliveries of event i that are past the look-up and can still write.
Handling(i) == {d \in Deliveries : /\ delivery[d].ev = i
                                   /\ delivery[d].pc \in {"handle", "retrieve", "write", "mark"}}

\* What replay protection is worth when deliveries overlap: a processed event stays
\* processed, and no further delivery comes to handle it, one that had found it
\* absent before included.  A row of a tenant is written only by a delivery that
\* handles an event, so an event that is processed can have an effect only through
\* deliveries that were handling it already.
ReplaysWereUnderWay ==
    [][/\ \A i \in Ids : record[i] = "processed" => /\ record'[i] = "processed"
                                                    /\ Handling(i)' \subseteq Handling(i)
       /\ tenant' # tenant => \E i \in Ids : \E d \in Handling(i) : delivery'[d] # delivery[d]]_vars

\* Replay protection (README.md:37, "webhook processing with
\* replay/idempotency protection"): a processed event has no effect any more.
ReplayHasNoEffect ==
    [][\A d \in Deliveries :
            /\ delivery[d].pc # "idle" /\ record[Id(d)] = "processed"
            /\ delivery'[d] # delivery[d]
            => UNCHANGED tenant]_vars

-----------------------------------------------------------------------------
(* Agreement with Stripe.                                                  *)

Quiet == /\ answered = 1..Len(events)
         /\ \A d \in Deliveries : delivery[d].pc = "idle"

\* Once every event is answered, a tenant with one paying subscription has just
\* what it pays for, and a tenant with none has no paid tier ("tenant tier/seat
\* entitlement sync from Stripe events", README.md:38).
PayingSubs(t) == {s \in Subs : TenantOf[s] = t /\ stripe[s] \in Paying}
InSync ==
    Quiet => \A t \in Tenants :
        /\ \A s \in Subs : PayingSubs(t) = {s} => tenant[t] = Synced(tenant[t], s, stripe[s])
        /\ PayingSubs(t) = {} => tenant[t].tier = "FREE" /\ tenant[t].sub = NoSub

-----------------------------------------------------------------------------
(* The promise of the service, and what its webhook does for it.           *)

Lifecycle(i) == events[i].kind \in {"sync", "clear"}
SubjectOf    == [i \in Ids |-> IF i <= Len(events) THEN events[i].sub ELSE NoSub]
Binding      == {i \in 1..Len(events) : Lifecycle(i)}

Promise == INSTANCE Inbox WITH
               Messages <- Ids, Subjects <- Subs, NoSubject <- NoSub,
               Owner    <- TenantOf, Rows <- TenantRow,
               subject  <- SubjectOf, binding <- Binding,
               handled  <- applied, acked <- answered

\* In any order, repetition and overlap of deliveries, and whatever throws or dies,
\* the webhook does nothing but what Inbox allows.
ImplementsInbox == Promise!Spec

=============================================================================
