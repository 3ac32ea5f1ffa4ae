------------------------ MODULE StripeBilling_proofs ------------------------
(***************************************************************************)
(* Proofs about StripeBilling, for any tenants, subscriptions and          *)
(* overlapping deliveries, ordered or not, and any bounds; SyncSafe, for   *)
(* deliveries that keep the order of the events.                           *)
(***************************************************************************)
EXTENDS StripeBilling, TLAPS

-----------------------------------------------------------------------------
(* What a step does to the locals of a delivery.                           *)

LEMMA GoToDelivery ==
  ASSUME TypeOK, NEW d \in Deliveries, NEW p \in Places, GoTo(d, p)
  PROVE  /\ delivery' \in [Deliveries -> DeliveryState]
         /\ delivery'[d].pc = p
         /\ delivery'[d].ev = delivery[d].ev
         /\ delivery'[d].plan = delivery[d].plan
         /\ \A x \in Deliveries \ {d} : delivery'[x] = delivery[x]
BY DEF TypeOK, GoTo, DeliveryState

LEMMA ReturnDelivery ==
  ASSUME TypeOK, NEW d \in Deliveries, Return(d)
  PROVE  /\ delivery' \in [Deliveries -> DeliveryState]
         /\ delivery'[d].pc = "idle"
         /\ \A x \in Deliveries \ {d} : delivery'[x] = delivery[x]
<1>1. IdleDelivery \in DeliveryState /\ IdleDelivery.pc = "idle"
  BY BoundAssumption DEF IdleDelivery, DeliveryState, Places, Plans
<1> QED
  BY <1>1 DEF TypeOK, Return

LEMMA DeliverDelivery ==
  ASSUME TypeOK, NEW d \in Deliveries, NEW i \in Ids, Deliver(d, i)
  PROVE  /\ delivery' \in [Deliveries -> DeliveryState]
         /\ delivery'[d].pc = "lookup" /\ delivery'[d].ev = i
         /\ \A x \in Deliveries \ {d} : delivery'[x] = delivery[x]
<1> DEFINE r == [IdleDelivery EXCEPT !.pc = "lookup", !.ev = i]
<1>1. r \in DeliveryState /\ r.pc = "lookup" /\ r.ev = i
  <2>1. i \in 0..MaxEvents
    BY BoundAssumption DEF Ids
  <2>2. IdleDelivery \in DeliveryState
    BY BoundAssumption DEF IdleDelivery, DeliveryState, Places, Plans
  <2> QED
    BY <2>1, <2>2 DEF DeliveryState, Places
<1>2. delivery' = [delivery EXCEPT ![d] = r]
  BY DEF Deliver
<1> HIDE DEF r
<1> QED
  BY <1>1, <1>2 DEF TypeOK

LEMMA RetrieveDelivery ==
  ASSUME TypeOK, NEW d \in Deliveries, Retrieve(d), Sub(d) \in Subs
  PROVE  /\ delivery' \in [Deliveries -> DeliveryState]
         /\ delivery'[d].pc = "write"
         /\ delivery'[d].ev = delivery[d].ev
         /\ delivery'[d].plan = stripe[Sub(d)]
         /\ \A x \in Deliveries \ {d} : delivery'[x] = delivery[x]
<1>1. stripe[Sub(d)] \in Plans
  BY DEF TypeOK
<1>2. delivery' = [delivery EXCEPT ![d].pc = "write", ![d].plan = stripe[Sub(d)]]
  BY DEF Retrieve
<1> QED
  BY <1>1, <1>2 DEF TypeOK, DeliveryState, Places

\* The row that a handler writes is a row.
LEMMA SyncedType ==
  ASSUME NEW row \in TenantRow, NEW s \in Subs, NEW plan \in Plans
  PROVE  Synced(row, s, plan) \in TenantRow
BY DEF Synced, TenantRow, Plans, Paying, Tiers

\* An emitted event is appended; the events before it stay.
LEMMA EmitEvents ==
  ASSUME TypeOK, NEW kind \in {"sync", "clear", "fetch", "checkout"},
         NEW s \in Subs, NEW plan \in Plans, Emit(kind, s, plan)
  PROVE  /\ events' \in Seq(Event) /\ Len(events') = Len(events) + 1
         /\ Len(events) \in Nat /\ Len(events') <= MaxEvents
         /\ \A i \in 1..Len(events) : events'[i] = events[i]
         /\ events'[Len(events')].sub = s /\ events'[Len(events')].plan = plan
<1> DEFINE e == [kind |-> kind, sub |-> s, plan |-> plan]
<1>1. e \in Event /\ e.sub = s /\ e.plan = plan
  BY DEF Event
<1>2. events' = Append(events, e) /\ events \in Seq(Event)
  BY DEF Emit, TypeOK
<1> HIDE DEF e
<1>3. /\ events' \in Seq(Event) /\ Len(events') = Len(events) + 1
      /\ \A i \in 1..Len(events) : events'[i] = events[i]
      /\ events'[Len(events')] = e
  BY <1>1, <1>2
<1>4. Len(events) \in Nat /\ Len(events) < MaxEvents
  BY <1>2 DEF Emit
<1> QED
  BY <1>1, <1>3, <1>4, BoundAssumption

-----------------------------------------------------------------------------
(* Type correctness.  A delivery under way holds an event of Stripe.       *)

InHand == \A d \in Deliveries : delivery[d].pc # "idle" => Id(d) \in 1..Len(events)

TInv == TypeOK /\ InHand

LEMMA EvType ==
  ASSUME TInv, NEW d \in Deliveries, delivery[d].pc # "idle"
  PROVE  /\ Id(d) \in 1..Len(events) /\ Id(d) \in Ids
         /\ Ev(d) \in Event /\ Sub(d) \in Subs /\ Ev(d).plan \in Plans
<1>1. Id(d) \in 1..Len(events) /\ events \in Seq(Event) /\ Len(events) <= MaxEvents
  BY DEF TInv, TypeOK, InHand
<1>2. Ev(d) \in Event
  BY <1>1 DEF Ev
<1>3. Id(d) \in Ids
  BY <1>1, BoundAssumption DEF Ids
<1> QED
  BY <1>1, <1>2, <1>3 DEF Event, Sub

LEMMA LookupCases ==
  ASSUME TInv, NEW d \in Deliveries, Lookup(d)
  PROVE  \/ record[Id(d)] = "processed" /\ GoTo(d, "answer")
         \/ record[Id(d)] = "seen" /\ GoTo(d, "handle")
         \/ record[Id(d)] = "absent" /\ GoTo(d, "create")
<1>1. record[Id(d)] \in Records
  BY EvType DEF Lookup, TInv, TypeOK
<1>2. CASE record[Id(d)] = "processed"
  BY <1>2 DEF Lookup
<1>3. CASE record[Id(d)] = "seen"
  BY <1>3 DEF Lookup
<1>4. CASE record[Id(d)] = "absent"
  BY <1>4 DEF Lookup
<1> QED
  BY <1>1, <1>2, <1>3, <1>4 DEF Records

LEMMA InHandStep == TInv /\ [Next]_vars => InHand'
<1> SUFFICES ASSUME TInv, [Next]_vars PROVE InHand'
  OBVIOUS
<1> USE DEF TInv
<1>1. ASSUME NEW d \in Deliveries, UNCHANGED events,
             \/ delivery[d].pc # "idle" /\ delivery'[d].ev = delivery[d].ev
             \/ delivery'[d].pc = "idle",
             \A x \in Deliveries \ {d} : delivery'[x] = delivery[x]
      PROVE  InHand'
  BY <1>1 DEF InHand, Id
<1>2. CASE Stripe
  <2>1. PICK kind \in {"sync", "clear", "fetch", "checkout"}, s \in Subs, plan \in Plans :
            Emit(kind, s, plan)
    BY <1>2 DEF Stripe, SubscriptionChanges, SubscriptionStops, SubscriptionNamed, TypeOK
  <2>2. Len(events) \in Nat /\ Len(events') = Len(events) + 1 /\ UNCHANGED delivery
    BY <2>1, EmitEvents DEF Emit
  <2> QED
    BY <2>2 DEF InHand, Id
<1>3. ASSUME NEW d \in Deliveries, NEW i \in Ids, Deliver(d, i) PROVE InHand'
  <2>1. i \in 1..Len(events) /\ UNCHANGED events
    BY <1>3 DEF Deliver
  <2> QED
    BY <1>3, <2>1, DeliverDelivery DEF InHand, Id
<1>4. ASSUME NEW d \in Deliveries, RequestStep(d) \/ Fails(d) \/ ErrorSwallowed(d)
      PROVE  InHand'
  <2>1. delivery[d].pc # "idle" /\ UNCHANGED events
    BY <1>4 DEF RequestStep, Handle, Fails, ErrorSwallowed, Lookup, Create, Mark, Answer,
                HandleSync, HandleClear, StoreCustomer, Retrieve, WriteRetrieved
  <2>2. Sub(d) \in Subs
    BY <2>1, EvType
  <2>3. CASE Retrieve(d)
    BY <1>1, <2>1, <2>2, <2>3, RetrieveDelivery
  <2>4. CASE Return(d)
    BY <1>1, <2>1, <2>4, ReturnDelivery
  <2>5. ASSUME NEW p \in Places, GoTo(d, p) PROVE InHand'
    BY <1>1, <2>1, <2>5, GoToDelivery
  <2>6. Retrieve(d) \/ Return(d) \/ \E p \in Places : GoTo(d, p)
    <3>1. CASE Lookup(d)
      BY <3>1, LookupCases DEF Places
    <3>2. CASE Create(d)
      BY <3>2 DEF Create, Places
    <3> QED
      BY <1>4, <3>1, <3>2 DEF RequestStep, Handle, Fails, ErrorSwallowed, Mark, Answer,
                  HandleSync, HandleClear, StoreCustomer, WriteRetrieved, Places
  <2> QED
    BY <2>3, <2>4, <2>5, <2>6
<1>5. CASE UNCHANGED vars
  BY <1>5 DEF vars, InHand, Id
<1> QED
  BY <1>2, <1>3, <1>4, <1>5 DEF Next

LEMMA TypeStep == TInv /\ [Next]_vars => TypeOK'
<1> SUFFICES ASSUME TInv, [Next]_vars PROVE TypeOK'
  OBVIOUS
<1> USE DEF TInv
<1>1. CASE Stripe
  <2>1. PICK kind \in {"sync", "clear", "fetch", "checkout"}, s \in Subs, plan \in Plans :
            Emit(kind, s, plan)
    BY <1>1 DEF Stripe, SubscriptionChanges, SubscriptionStops, SubscriptionNamed, TypeOK
  <2>2. events' \in Seq(Event) /\ Len(events') <= MaxEvents
    BY <2>1, EmitEvents
  <2>3. stripe' \in [Subs -> Plans]
    BY <1>1 DEF Stripe, SubscriptionChanges, SubscriptionStops, SubscriptionNamed, TypeOK
  <2> QED
    BY <2>1, <2>2, <2>3 DEF TypeOK, Emit
<1>2. ASSUME NEW d \in Deliveries, NEW i \in Ids, Deliver(d, i) PROVE TypeOK'
  <2>1. delivery' \in [Deliveries -> DeliveryState]
    BY <1>2, DeliverDelivery
  <2> QED
    BY <1>2, <2>1 DEF TypeOK, Deliver
<1>3. ASSUME NEW d \in Deliveries, Lookup(d) PROVE TypeOK'
  <2>1. PICK p \in Places : GoTo(d, p)
    BY <1>3, LookupCases DEF Places
  <2>2. delivery' \in [Deliveries -> DeliveryState]
    BY <2>1, GoToDelivery
  <2> QED
    BY <1>3, <2>2 DEF TypeOK, Lookup
<1>4. ASSUME NEW d \in Deliveries, Create(d) PROVE TypeOK'
  <2>1. delivery' \in [Deliveries -> DeliveryState]
    BY <1>4, GoToDelivery, ReturnDelivery DEF Create, Places
  <2>2. record' \in [Ids -> Records]
    BY <1>4 DEF Create, TypeOK, Records
  <2> QED
    BY <1>4, <2>1, <2>2 DEF TypeOK, Create
<1>5. ASSUME NEW d \in Deliveries, Mark(d) PROVE TypeOK'
  <2>1. delivery' \in [Deliveries -> DeliveryState]
    BY <1>5, GoToDelivery DEF Mark, Places
  <2>2. record' \in [Ids -> Records]
    BY <1>5 DEF Mark, TypeOK, Records
  <2> QED
    BY <1>5, <2>1, <2>2 DEF TypeOK, Mark
<1>6. ASSUME NEW d \in Deliveries, Answer(d) PROVE TypeOK'
  <2>1. delivery' \in [Deliveries -> DeliveryState] /\ Id(d) \in Ids
    BY <1>6, ReturnDelivery, EvType DEF Answer
  <2> QED
    BY <1>6, <2>1 DEF TypeOK, Answer
<1>7. ASSUME NEW d \in Deliveries, Fails(d) PROVE TypeOK'
  <2>1. delivery' \in [Deliveries -> DeliveryState]
    BY <1>7, ReturnDelivery DEF Fails
  <2>2. faults' \in 0..MaxFaults
    BY <1>7, BoundAssumption DEF TypeOK, Fails
  <2> QED
    BY <1>7, <2>1, <2>2 DEF TypeOK, Fails
<1>8. ASSUME NEW d \in Deliveries, ErrorSwallowed(d) PROVE TypeOK'
  <2>1. delivery' \in [Deliveries -> DeliveryState]
    BY <1>8, GoToDelivery DEF ErrorSwallowed, Places
  <2>2. faults' \in 0..MaxFaults
    BY <1>8, BoundAssumption DEF TypeOK, ErrorSwallowed
  <2> QED
    BY <1>8, <2>1, <2>2 DEF TypeOK, ErrorSwallowed
<1>9. ASSUME NEW s \in Subs, NEW plan \in Plans, SyncSubscription(s, plan)
      PROVE  tenant' \in [Tenants -> TenantRow]
  BY <1>9, SyncedType DEF SyncSubscription, TypeOK
<1>10. ASSUME NEW d \in Deliveries, HandleSync(d) PROVE TypeOK'
  <2>1. delivery' \in [Deliveries -> DeliveryState]
    BY <1>10, GoToDelivery DEF HandleSync, Places
  <2>2. Id(d) \in Ids /\ Sub(d) \in Subs /\ Ev(d).plan \in Plans
    BY <1>10, EvType DEF HandleSync
  <2>3. tenant' \in [Tenants -> TenantRow]
    BY <1>9, <1>10, <2>2 DEF HandleSync
  <2> QED
    BY <1>10, <2>1, <2>2, <2>3 DEF TypeOK, HandleSync
<1>11. ASSUME NEW d \in Deliveries, HandleClear(d) PROVE TypeOK'
  <2>1. delivery' \in [Deliveries -> DeliveryState]
    BY <1>11, GoToDelivery DEF HandleClear, Places
  <2>2. Id(d) \in Ids
    BY <1>11, EvType DEF HandleClear
  <2>3. \A row \in TenantRow : [row EXCEPT !.tier = "FREE", !.sub = NoSub] \in TenantRow
    BY DEF TenantRow
  <2>4. tenant' \in [Tenants -> TenantRow]
    BY <1>11, <2>3 DEF HandleClear, ClearSubscription, TypeOK
  <2> QED
    BY <1>11, <2>1, <2>2, <2>4 DEF TypeOK, HandleClear
<1>12. ASSUME NEW d \in Deliveries, StoreCustomer(d) PROVE TypeOK'
  <2>1. delivery' \in [Deliveries -> DeliveryState]
    BY <1>12, GoToDelivery DEF StoreCustomer, Places
  <2>2. Sub(d) \in Subs
    BY <1>12, EvType DEF StoreCustomer
  <2>3. \A row \in TenantRow, s \in Subs : [row EXCEPT !.customer = CustomerOf[s]] \in TenantRow
    BY DEF TenantRow
  <2>4. tenant' \in [Tenants -> TenantRow]
    BY <1>12, <2>2, <2>3 DEF StoreCustomer, TypeOK
  <2> QED
    BY <1>12, <2>1, <2>4 DEF TypeOK, StoreCustomer
<1>13. ASSUME NEW d \in Deliveries, Retrieve(d) PROVE TypeOK'
  <2>1. Sub(d) \in Subs
    BY <1>13, EvType DEF Retrieve
  <2>2. delivery' \in [Deliveries -> DeliveryState]
    BY <1>13, <2>1, RetrieveDelivery
  <2> QED
    BY <1>13, <2>2 DEF TypeOK, Retrieve
<1>14. ASSUME NEW d \in Deliveries, WriteRetrieved(d) PROVE TypeOK'
  <2>1. delivery' \in [Deliveries -> DeliveryState]
    BY <1>14, GoToDelivery DEF WriteRetrieved, Places
  <2>2. Id(d) \in Ids /\ Sub(d) \in Subs
    BY <1>14, EvType DEF WriteRetrieved
  <2>3. delivery[d].plan \in Plans
    BY DEF TypeOK, DeliveryState
  <2>4. tenant' \in [Tenants -> TenantRow]
    BY <1>9, <1>14, <2>2, <2>3 DEF WriteRetrieved
  <2> QED
    BY <1>14, <2>1, <2>2, <2>4 DEF TypeOK, WriteRetrieved
<1>15. CASE UNCHANGED vars
  BY <1>15 DEF vars, TypeOK
<1> QED
  BY <1>1, <1>2, <1>3, <1>4, <1>5, <1>6, <1>7, <1>8, <1>10, <1>11, <1>12, <1>13, <1>14, <1>15
     DEF Next, RequestStep, Handle

LEMMA TInit == Init => TInv
<1> SUFFICES ASSUME Init PROVE TInv
  OBVIOUS
<1>1. IdleDelivery \in DeliveryState /\ IdleDelivery.pc = "idle"
  BY BoundAssumption DEF IdleDelivery, DeliveryState, Places, Plans
<1>2. FreeTenant \in TenantRow
  BY DEF FreeTenant, TenantRow
<1>3. events \in Seq(Event) /\ Len(events) <= MaxEvents /\ faults \in 0..MaxFaults
  BY BoundAssumption DEF Init
<1>4. TypeOK
  BY <1>1, <1>2, <1>3 DEF Init, TypeOK, Plans, Records
<1> QED
  BY <1>1, <1>4 DEF Init, TInv, InHand

\* Whatever Stripe sends and however often, whatever fails, the service's rows
\* and the requests' locals keep their types.
THEOREM TypeCorrect == Spec => []TypeOK
<1>1. TInv /\ [Next]_vars => TInv'
  BY InHandStep, TypeStep DEF TInv
<1> QED
  BY TInit, <1>1, PTL DEF Spec, TInv

-----------------------------------------------------------------------------
(* A 2xx answer comes after the mark, and the mark stays.                  *)

AnswerMarked == \A d \in Deliveries : delivery[d].pc = "answer" => record[Id(d)] = "processed"

AnsweredInv == TInv /\ AnsweredIsProcessed /\ AnswerMarked

LEMMA AnsweredStep == AnsweredInv /\ [Next]_vars => AnsweredIsProcessed' /\ AnswerMarked'
<1> SUFFICES ASSUME AnsweredInv, [Next]_vars PROVE AnsweredIsProcessed' /\ AnswerMarked'
  OBVIOUS
<1> USE DEF AnsweredInv, AnsweredIsProcessed, AnswerMarked
<1>0. TInv /\ TypeOK
  BY DEF TInv
<1>1. ASSUME NEW d \in Deliveries, UNCHANGED <<answered, record>>,
             \A x \in Deliveries \ {d} : delivery'[x] = delivery[x],
             delivery'[d].pc # "answer"
      PROVE  AnsweredIsProcessed' /\ AnswerMarked'
  BY <1>1 DEF Id
<1>2. CASE Stripe
  BY <1>2 DEF Stripe, SubscriptionChanges, SubscriptionStops, SubscriptionNamed, Emit, Id
<1>3. ASSUME NEW d \in Deliveries, NEW i \in Ids, Deliver(d, i)
      PROVE  AnsweredIsProcessed' /\ AnswerMarked'
  BY <1>0, <1>1, <1>3, DeliverDelivery DEF Deliver
<1>4. ASSUME NEW d \in Deliveries, Lookup(d) PROVE AnsweredIsProcessed' /\ AnswerMarked'
  <2>1. UNCHANGED <<answered, record>>
    BY <1>4 DEF Lookup
  <2>2. CASE record[Id(d)] = "processed" /\ GoTo(d, "answer")
    BY <1>0, <2>1, <2>2, GoToDelivery DEF Places, Id
  <2>3. ASSUME NEW p \in Places \ {"answer"}, GoTo(d, p)
        PROVE  AnsweredIsProcessed' /\ AnswerMarked'
    BY <1>0, <1>1, <2>1, <2>3, GoToDelivery
  <2> QED
    BY <1>0, <1>4, <2>2, <2>3, LookupCases DEF Places
<1>5. ASSUME NEW d \in Deliveries, Create(d) PROVE AnsweredIsProcessed' /\ AnswerMarked'
  <2>1. \A i \in Ids : record[i] = "processed" => record'[i] = "processed"
    BY <1>0, <1>5 DEF Create, TypeOK
  <2>2. /\ delivery'[d].pc \in {"handle", "idle"}
        /\ \A x \in Deliveries \ {d} : delivery'[x] = delivery[x]
    BY <1>0, <1>5, GoToDelivery, ReturnDelivery DEF Create, Places
  <2>3. UNCHANGED answered
    BY <1>5 DEF Create
  <2>4. AnswerMarked'
    <3> SUFFICES ASSUME NEW x \in Deliveries, delivery'[x].pc = "answer"
                 PROVE  record'[delivery'[x].ev] = "processed"
      BY DEF Id
    <3>1. delivery'[x] = delivery[x] /\ delivery[x].pc = "answer"
      BY <2>2
    <3>2. Id(x) \in Ids
      BY <1>0, <3>1, EvType
    <3> QED
      BY <2>1, <3>1, <3>2 DEF Id
  <2> QED
    BY <1>0, <2>1, <2>3, <2>4 DEF TypeOK
<1>6. ASSUME NEW d \in Deliveries, Mark(d) PROVE AnsweredIsProcessed' /\ AnswerMarked'
  <2>1. Id(d) \in Ids
    BY <1>0, <1>6, EvType DEF Mark
  <2>2. /\ record'[Id(d)] = "processed"
        /\ \A i \in Ids : record[i] = "processed" => record'[i] = "processed"
    BY <1>0, <1>6, <2>1 DEF Mark, TypeOK
  <2>3. /\ delivery'[d].ev = delivery[d].ev
        /\ \A x \in Deliveries \ {d} : delivery'[x] = delivery[x]
    BY <1>0, <1>6, GoToDelivery DEF Mark, Places
  <2>4. UNCHANGED answered
    BY <1>6 DEF Mark
  <2>5. AnswerMarked'
    <3> SUFFICES ASSUME NEW x \in Deliveries, delivery'[x].pc = "answer"
                 PROVE  record'[delivery'[x].ev] = "processed"
      BY DEF Id
    <3>1. CASE x = d
      BY <2>2, <2>3, <3>1 DEF Id
    <3>2. CASE x # d
      <4>1. delivery'[x] = delivery[x] /\ delivery[x].pc = "answer"
        BY <2>3, <3>2
      <4>2. Id(x) \in Ids
        BY <1>0, <4>1, EvType
      <4> QED
        BY <2>2, <4>1, <4>2 DEF Id
    <3> QED
      BY <3>1, <3>2
  <2> QED
    BY <1>0, <2>2, <2>4, <2>5 DEF TypeOK
<1>7. ASSUME NEW d \in Deliveries, Answer(d) PROVE AnsweredIsProcessed' /\ AnswerMarked'
  <2>1. /\ delivery'[d].pc = "idle"
        /\ \A x \in Deliveries \ {d} : delivery'[x] = delivery[x]
    BY <1>0, <1>7, ReturnDelivery DEF Answer
  <2> QED
    BY <1>7, <2>1 DEF Answer, Id
<1>8. ASSUME NEW d \in Deliveries, Fails(d) PROVE AnsweredIsProcessed' /\ AnswerMarked'
  BY <1>0, <1>1, <1>8, ReturnDelivery DEF Fails
<1>9. ASSUME NEW d \in Deliveries, Retrieve(d) PROVE AnsweredIsProcessed' /\ AnswerMarked'
  <2>1. Sub(d) \in Subs
    BY <1>0, <1>9, EvType DEF Retrieve
  <2> QED
    BY <1>0, <1>1, <1>9, <2>1, RetrieveDelivery DEF Retrieve
<1>10. ASSUME NEW d \in Deliveries,
              \/ ErrorSwallowed(d) \/ HandleSync(d) \/ HandleClear(d)
              \/ StoreCustomer(d) \/ WriteRetrieved(d)
       PROVE  AnsweredIsProcessed' /\ AnswerMarked'
  <2>1. UNCHANGED <<answered, record>> /\ \E p \in {"mark", "retrieve"} : GoTo(d, p)
    BY <1>10 DEF ErrorSwallowed, HandleSync, HandleClear, StoreCustomer, WriteRetrieved
  <2> QED
    BY <1>0, <1>1, <2>1, GoToDelivery DEF Places
<1>11. CASE UNCHANGED vars
  BY <1>11 DEF vars, Id
<1> QED
  BY <1>2, <1>3, <1>4, <1>5, <1>6, <1>7, <1>8, <1>9, <1>10, <1>11
     DEF Next, RequestStep, Handle

\* No answer of 2xx is given for an event that is not recorded as processed,
\* whatever overlaps, fails or dies: Stripe never stops delivering too early.
THEOREM AnsweredSafe == Spec => []AnsweredIsProcessed
<1>1. Init => AnsweredInv
  BY TInit DEF Init, AnsweredInv, AnsweredIsProcessed, AnswerMarked, IdleDelivery
<1>2. AnsweredInv /\ [Next]_vars => AnsweredInv'
  BY InHandStep, TypeStep, AnsweredStep DEF AnsweredInv, TInv
<1>3. AnsweredInv => AnsweredIsProcessed
  BY DEF AnsweredInv
<1> QED
  BY <1>1, <1>2, <1>3, PTL DEF Spec

-----------------------------------------------------------------------------
(* A lifecycle event is processed only after its handler wrote the row.    *)

Known == \A i \in Ids : record[i] # "absent" => i \in 1..Len(events)

\* The two ways to "mark": past the handler's write, or past a retrieve, which
\* only an event that carries no subscription gets to.
MarkApplied ==
    \A d \in Deliveries :
        /\ delivery[d].pc = "mark" /\ Lifecycle(Id(d)) => Id(d) \in applied
        /\ delivery[d].pc \in {"retrieve", "write"} => ~Lifecycle(Id(d))

HandledInv == TInv /\ Known /\ MarkApplied /\ ProcessedWasApplied

\* Every step of a delivery but Create, Mark and the start of one.
LEMMA HandledQuietStep ==
  ASSUME HandledInv, NEW d \in Deliveries, UNCHANGED <<events, record>>,
         applied \subseteq applied',
         \A x \in Deliveries \ {d} : delivery'[x] = delivery[x],
         delivery'[d].pc = "mark" /\ Lifecycle(delivery'[d].ev) => delivery'[d].ev \in applied',
         delivery'[d].pc \in {"retrieve", "write"} => ~Lifecycle(delivery'[d].ev)
  PROVE  Known' /\ MarkApplied' /\ ProcessedWasApplied'
<1>1. Known' /\ ProcessedWasApplied'
  BY DEF HandledInv, Known, ProcessedWasApplied
<1>2. MarkApplied'
  BY DEF HandledInv, MarkApplied, Lifecycle, Id
<1> QED
  BY <1>1, <1>2

LEMMA HandledStep == HandledInv /\ [Next]_vars => Known' /\ MarkApplied' /\ ProcessedWasApplied'
<1> SUFFICES ASSUME HandledInv, [Next]_vars
             PROVE  Known' /\ MarkApplied' /\ ProcessedWasApplied'
  OBVIOUS
<1>0. TInv /\ TypeOK /\ Known /\ MarkApplied /\ ProcessedWasApplied
  BY DEF HandledInv, TInv
<1>1. CASE Stripe
  <2>1. PICK kind \in {"sync", "clear", "fetch", "checkout"}, s \in Subs, plan \in Plans :
            Emit(kind, s, plan)
    BY <1>0, <1>1 DEF Stripe, SubscriptionChanges, SubscriptionStops, SubscriptionNamed, TypeOK
  <2>2. UNCHANGED <<record, delivery, applied>>
    BY <2>1 DEF Emit
  <2>3. /\ Len(events) \in Nat /\ Len(events') = Len(events) + 1 /\ Len(events') <= MaxEvents
        /\ \A i \in 1..Len(events) : events'[i] = events[i]
    BY <1>0, <2>1, EmitEvents
  <2>4. Known'
    BY <1>0, <2>2, <2>3 DEF Known
  <2>5. \A d \in Deliveries : delivery[d].pc # "idle" => events'[Id(d)] = events[Id(d)]
    BY <1>0, <2>3, EvType
  <2>6. MarkApplied'
    BY <1>0, <2>2, <2>5 DEF MarkApplied, Lifecycle, Id
  <2>7. ProcessedWasApplied'
    <3> SUFFICES ASSUME NEW i \in 1..Len(events'), record[i] = "processed",
                        events'[i].kind \in {"sync", "clear"}
                 PROVE  i \in applied
      BY <2>2 DEF ProcessedWasApplied
    <3>1. i \in Ids
      BY <2>3, BoundAssumption DEF Ids
    <3>2. i \in 1..Len(events)
      BY <1>0, <3>1 DEF Known
    <3> QED
      BY <1>0, <2>3, <3>2 DEF ProcessedWasApplied
  <2> QED
    BY <2>4, <2>6, <2>7
<1>2. ASSUME NEW d \in Deliveries, NEW i \in Ids, Deliver(d, i)
      PROVE  Known' /\ MarkApplied' /\ ProcessedWasApplied'
  <2>1. UNCHANGED <<events, record, applied>>
    BY <1>2 DEF Deliver
  <2> QED
    BY <1>0, <1>2, <2>1, DeliverDelivery, HandledQuietStep
<1>3. ASSUME NEW d \in Deliveries, Lookup(d)
      PROVE  Known' /\ MarkApplied' /\ ProcessedWasApplied'
  <2>1. UNCHANGED <<events, record, applied>>
    BY <1>3 DEF Lookup
  <2>2. PICK p \in {"answer", "handle", "create"} : GoTo(d, p)
    BY <1>0, <1>3, LookupCases
  <2> QED
    BY <1>0, <2>1, <2>2, GoToDelivery, HandledQuietStep DEF Places
<1>4. ASSUME NEW d \in Deliveries, Create(d)
      PROVE  Known' /\ MarkApplied' /\ ProcessedWasApplied'
  <2>1. UNCHANGED <<events, applied>>
    BY <1>4 DEF Create
  <2>2. Id(d) \in 1..Len(events)
    BY <1>0, <1>4, EvType DEF Create
  <2>3. \A i \in Ids : /\ record'[i] = "processed" => record[i] = "processed"
                       /\ record'[i] # "absent" => record[i] # "absent" \/ i = Id(d)
    BY <1>0, <1>4 DEF Create, TypeOK
  <2>4. /\ delivery'[d].pc \in {"handle", "idle"}
        /\ \A x \in Deliveries \ {d} : delivery'[x] = delivery[x]
    BY <1>0, <1>4, GoToDelivery, ReturnDelivery DEF Create, Places
  <2>5. Known'
    BY <1>0, <2>1, <2>2, <2>3 DEF Known
  <2>6. MarkApplied'
    BY <1>0, <2>1, <2>4 DEF MarkApplied, Lifecycle, Id
  <2>7. 1..Len(events) \subseteq Ids
    BY <1>0, BoundAssumption DEF TypeOK, Ids
  <2>8. ProcessedWasApplied'
    BY <1>0, <2>1, <2>3, <2>7 DEF ProcessedWasApplied
  <2> QED
    BY <2>5, <2>6, <2>8
<1>5. ASSUME NEW d \in Deliveries, Mark(d)
      PROVE  Known' /\ MarkApplied' /\ ProcessedWasApplied'
  <2>1. UNCHANGED <<events, applied>> /\ delivery[d].pc = "mark"
    BY <1>5 DEF Mark
  <2>2. Id(d) \in 1..Len(events) /\ (Lifecycle(Id(d)) => Id(d) \in applied)
    BY <1>0, <2>1, EvType DEF MarkApplied
  <2>3. \A i \in Ids \ {Id(d)} : record'[i] = record[i]
    BY <1>0, <1>5 DEF Mark, TypeOK
  <2>4. /\ delivery'[d].pc = "answer"
        /\ \A x \in Deliveries \ {d} : delivery'[x] = delivery[x]
    BY <1>0, <1>5, GoToDelivery DEF Mark, Places
  <2>5. Known'
    BY <1>0, <2>1, <2>2, <2>3 DEF Known
  <2>6. MarkApplied'
    BY <1>0, <2>1, <2>4 DEF MarkApplied, Lifecycle, Id
  <2>7. 1..Len(events) \subseteq Ids
    BY <1>0, BoundAssumption DEF TypeOK, Ids
  <2>8. ProcessedWasApplied'
    BY <1>0, <2>1, <2>2, <2>3, <2>7 DEF ProcessedWasApplied, Lifecycle
  <2> QED
    BY <2>5, <2>6, <2>8
<1>6. ASSUME NEW d \in Deliveries, Answer(d) \/ Fails(d)
      PROVE  Known' /\ MarkApplied' /\ ProcessedWasApplied'
  <2>1. UNCHANGED <<events, record, applied>> /\ Return(d)
    BY <1>6 DEF Answer, Fails
  <2> QED
    BY <1>0, <2>1, ReturnDelivery, HandledQuietStep
<1>7. ASSUME NEW d \in Deliveries, HandleSync(d) \/ HandleClear(d) \/ WriteRetrieved(d)
      PROVE  Known' /\ MarkApplied' /\ ProcessedWasApplied'
  <2>1. UNCHANGED <<events, record>> /\ GoTo(d, "mark") /\ applied' = applied \cup {Id(d)}
    BY <1>7 DEF HandleSync, HandleClear, WriteRetrieved
  <2>2. /\ delivery'[d].pc = "mark" /\ delivery'[d].ev = Id(d)
        /\ \A x \in Deliveries \ {d} : delivery'[x] = delivery[x]
    BY <1>0, <2>1, GoToDelivery DEF Places, Id
  <2> QED
    BY <2>1, <2>2, HandledQuietStep
<1>8. ASSUME NEW d \in Deliveries, StoreCustomer(d)
      PROVE  Known' /\ MarkApplied' /\ ProcessedWasApplied'
  <2>1. UNCHANGED <<events, record, applied>> /\ GoTo(d, "retrieve") /\ ~Lifecycle(Id(d))
    BY <1>8 DEF StoreCustomer, Lifecycle, Ev
  <2>2. /\ delivery'[d].pc = "retrieve" /\ delivery'[d].ev = Id(d)
        /\ \A x \in Deliveries \ {d} : delivery'[x] = delivery[x]
    BY <1>0, <2>1, GoToDelivery DEF Places, Id
  <2> QED
    BY <2>1, <2>2, HandledQuietStep
<1>9. ASSUME NEW d \in Deliveries, Retrieve(d)
      PROVE  Known' /\ MarkApplied' /\ ProcessedWasApplied'
  <2>1. Sub(d) \in Subs /\ UNCHANGED <<events, record, applied>>
    BY <1>0, <1>9, EvType DEF Retrieve
  <2>2. ~Lifecycle(Id(d))
    BY <1>0, <1>9 DEF Retrieve, MarkApplied, Lifecycle, Ev
  <2>3. /\ delivery'[d].pc = "write" /\ delivery'[d].ev = Id(d)
        /\ \A x \in Deliveries \ {d} : delivery'[x] = delivery[x]
    BY <1>0, <1>9, <2>1, RetrieveDelivery DEF Id
  <2> QED
    BY <2>1, <2>2, <2>3, HandledQuietStep
<1>10. ASSUME NEW d \in Deliveries, ErrorSwallowed(d)
       PROVE  Known' /\ MarkApplied' /\ ProcessedWasApplied'
  <2>1. UNCHANGED <<events, record, applied>> /\ GoTo(d, "mark")
    BY <1>10 DEF ErrorSwallowed
  <2>2. ~Lifecycle(Id(d))
    BY <1>0, <1>10 DEF ErrorSwallowed, MarkApplied, Lifecycle, Ev
  <2>3. /\ delivery'[d].pc = "mark" /\ delivery'[d].ev = Id(d)
        /\ \A x \in Deliveries \ {d} : delivery'[x] = delivery[x]
    BY <1>0, <2>1, GoToDelivery DEF Places, Id
  <2> QED
    BY <2>1, <2>2, <2>3, HandledQuietStep
<1>11. CASE UNCHANGED vars
  BY <1>0, <1>11 DEF vars, Known, MarkApplied, ProcessedWasApplied, Lifecycle, Id
<1> QED
  BY <1>1, <1>2, <1>3, <1>4, <1>5, <1>6, <1>7, <1>8, <1>9, <1>10, <1>11
     DEF Next, RequestStep, Handle

\* A created, updated, deleted or paused event is never marked processed, and so
\* never dropped from redelivery, before its handler wrote the tenant row.
THEOREM HandledSafe == Spec => []ProcessedWasApplied
<1>1. Init => HandledInv
  <2> SUFFICES ASSUME Init PROVE HandledInv
    OBVIOUS
  <2>1. Known /\ ProcessedWasApplied
    BY DEF Init, Known, ProcessedWasApplied
  <2>2. MarkApplied
    BY DEF Init, MarkApplied, IdleDelivery
  <2> QED
    BY <2>1, <2>2, TInit DEF HandledInv
<1>2. HandledInv /\ [Next]_vars => HandledInv'
  BY InHandStep, TypeStep, HandledStep DEF HandledInv, TInv
<1>3. HandledInv => ProcessedWasApplied
  BY DEF HandledInv
<1> QED
  BY <1>1, <1>2, <1>3, PTL DEF Spec

-----------------------------------------------------------------------------
(* A paid tier is one that Stripe reported as paid for the subscription    *)
(* the row holds.                                                          *)

Reported(s, plan) == \E i \in 1..Len(events) : events[i].sub = s /\ events[i].plan = plan

\* What Stripe would answer a retrieve, and what a request holds of an answer.
AnswersReported ==
    /\ \A s \in Subs : stripe[s] \in Tiers => Reported(s, stripe[s])
    /\ \A d \in Deliveries :
          delivery[d].pc = "write" /\ delivery[d].plan \in Tiers
              => Reported(Sub(d), delivery[d].plan)

PaidInv == TInv /\ AnswersReported /\ PaidTierWasReported

PaidRow(t, row) ==
    row.tier # "FREE" => /\ row.sub # NoSub
                         /\ TenantOf[row.sub] = t
                         /\ Reported(row.sub, row.tier)

LEMMA PaidRows == PaidTierWasReported <=> \A t \in Tenants : PaidRow(t, tenant[t])
BY DEF PaidTierWasReported, PaidRow, Reported

\* A row that takes over a reported plan is covered by the report.
LEMMA SyncedPaid ==
  ASSUME NEW t \in Tenants, NEW s \in Subs, t = TenantOf[s], NEW row, NEW plan,
         plan \in Tiers => Reported(s, plan)
  PROVE  PaidRow(t, Synced(row, s, plan))
BY SubsAssumption DEF PaidRow, Synced, Tiers

\* A step that emits nothing keeps the reports, and what is left to show is the
\* answer that the delivery's step has just read, and the rows it writes.
LEMMA PaidStepNoEvent ==
  ASSUME PaidInv, NEW d \in Deliveries, UNCHANGED <<events, stripe>>,
         \A x \in Deliveries \ {d} : delivery'[x] = delivery[x],
         delivery'[d].pc = "write" /\ delivery'[d].plan \in Tiers
             => Reported(events[delivery'[d].ev].sub, delivery'[d].plan),
         \A t \in Tenants : PaidRow(t, tenant'[t])
  PROVE  AnswersReported' /\ PaidTierWasReported'
<1>1. PaidTierWasReported'
  BY DEF PaidTierWasReported, PaidRow, Reported
<1>2. \A s, plan : Reported(s, plan)' <=> Reported(s, plan)
  BY DEF Reported
<1>3. AnswersReported'
  BY <1>2 DEF PaidInv, AnswersReported, Sub, Ev, Id
<1> QED
  BY <1>1, <1>3

LEMMA PaidStep == PaidInv /\ [Next]_vars => AnswersReported' /\ PaidTierWasReported'
<1> SUFFICES ASSUME PaidInv, [Next]_vars PROVE AnswersReported' /\ PaidTierWasReported'
  OBVIOUS
<1>0. TInv /\ TypeOK /\ AnswersReported /\ \A t \in Tenants : PaidRow(t, tenant[t])
  BY PaidRows DEF PaidInv, TInv
<1>1. CASE Stripe
  <2>1. PICK kind \in {"sync", "clear", "fetch", "checkout"}, s \in Subs, plan \in Plans :
            Emit(kind, s, plan) /\ stripe' = [stripe EXCEPT ![s] = plan]
    BY <1>0, <1>1 DEF Stripe, SubscriptionChanges, SubscriptionStops, SubscriptionNamed, TypeOK
  <2>2. UNCHANGED <<tenant, delivery>>
    BY <2>1 DEF Emit
  <2>3. /\ Len(events) \in Nat /\ Len(events') = Len(events) + 1
        /\ \A i \in 1..Len(events) : events'[i] = events[i]
        /\ events'[Len(events')].sub = s /\ events'[Len(events')].plan = plan
    BY <1>0, <2>1, EmitEvents
  <2> DEFINE Later(x, p) == \E i \in 1..Len(events') : events'[i].sub = x /\ events'[i].plan = p
  <2>4. \A x, p : Reported(x, p) => Later(x, p)
    BY <2>3 DEF Reported
  <2>5. Later(s, plan)
    BY <2>3
  <2>6. \A d \in Deliveries : delivery[d].pc # "idle" => events'[Id(d)] = events[Id(d)]
    BY <1>0, <2>3, EvType
  <2>7. \A x \in Subs : stripe'[x] \in Tiers => Later(x, stripe'[x])
    <3> HIDE DEF Later
    <3> QED
      BY <1>0, <2>1, <2>4, <2>5 DEF AnswersReported, TypeOK
  <2>8. \A d \in Deliveries :
           delivery'[d].pc = "write" /\ delivery'[d].plan \in Tiers
               => Later(events'[delivery'[d].ev].sub, delivery'[d].plan)
    <3> HIDE DEF Later
    <3> QED
      BY <1>0, <2>2, <2>4, <2>6 DEF AnswersReported, Sub, Ev, Id
  <2>9. \A t \in Tenants : tenant'[t].tier # "FREE" =>
           /\ tenant'[t].sub # NoSub
           /\ TenantOf[tenant'[t].sub] = t
           /\ Later(tenant'[t].sub, tenant'[t].tier)
    <3> HIDE DEF Later
    <3> QED
      BY <1>0, <2>2, <2>4 DEF PaidRow
  <2> QED
    BY <2>7, <2>8, <2>9 DEF AnswersReported, PaidTierWasReported, Reported, Sub, Ev, Id
<1>2. ASSUME NEW d \in Deliveries, NEW i \in Ids, Deliver(d, i)
      PROVE  AnswersReported' /\ PaidTierWasReported'
  <2>1. UNCHANGED <<events, stripe, tenant>>
    BY <1>2 DEF Deliver
  <2> QED
    BY <1>0, <1>2, <2>1, DeliverDelivery, PaidStepNoEvent
<1>3. ASSUME NEW d \in Deliveries, NEW p \in Places \ {"write"},
             UNCHANGED <<events, stripe>>, GoTo(d, p) \/ Return(d),
             \A t \in Tenants : PaidRow(t, tenant'[t])
      PROVE  AnswersReported' /\ PaidTierWasReported'
  <2>1. /\ delivery'[d].pc # "write"
        /\ \A x \in Deliveries \ {d} : delivery'[x] = delivery[x]
    BY <1>0, <1>3, GoToDelivery, ReturnDelivery
  <2> QED
    BY <1>3, <2>1, PaidStepNoEvent
<1>4. ASSUME NEW d \in Deliveries,
             \/ Lookup(d) \/ Create(d) \/ Mark(d) \/ Answer(d) \/ Fails(d) \/ ErrorSwallowed(d)
      PROVE  AnswersReported' /\ PaidTierWasReported'
  <2>1. UNCHANGED <<events, stripe, tenant>>
    BY <1>4 DEF Lookup, Create, Mark, Answer, Fails, ErrorSwallowed
  <2>2. PICK p \in {"create", "handle", "mark", "answer"} : GoTo(d, p) \/ Return(d)
    <3>1. CASE Lookup(d)
      BY <1>0, <3>1, LookupCases
    <3> QED
      BY <1>4, <3>1 DEF Create, Mark, Answer, Fails, ErrorSwallowed
  <2> QED
    BY <1>0, <1>3, <2>1, <2>2 DEF Places
<1>5. ASSUME NEW d \in Deliveries, HandleSync(d)
      PROVE  AnswersReported' /\ PaidTierWasReported'
  <2>1. Sub(d) \in Subs /\ Reported(Sub(d), Ev(d).plan)
    BY <1>0, <1>5, EvType DEF HandleSync, Reported, Sub, Ev
  <2>2. \A t \in Tenants : PaidRow(t, tenant'[t])
    BY <1>0, <1>5, <2>1, SyncedPaid DEF HandleSync, SyncSubscription
  <2> QED
    BY <1>3, <1>5, <2>2 DEF HandleSync, Places
<1>6. ASSUME NEW d \in Deliveries, WriteRetrieved(d)
      PROVE  AnswersReported' /\ PaidTierWasReported'
  <2>1. /\ Sub(d) \in Subs
        /\ delivery[d].plan \in Tiers => Reported(Sub(d), delivery[d].plan)
    BY <1>0, <1>6, EvType DEF WriteRetrieved, AnswersReported
  <2>2. \A t \in Tenants : PaidRow(t, tenant'[t])
    BY <1>0, <1>6, <2>1, SyncedPaid DEF WriteRetrieved, SyncSubscription
  <2> QED
    BY <1>3, <1>6, <2>2 DEF WriteRetrieved, Places
<1>7. ASSUME NEW d \in Deliveries, HandleClear(d)
      PROVE  AnswersReported' /\ PaidTierWasReported'
  <2>1. \A t \in Tenants : PaidRow(t, tenant'[t])
    <3> SUFFICES ASSUME NEW t \in Tenants PROVE PaidRow(t, tenant'[t])
      OBVIOUS
    <3>1. CASE tenant[t].sub = Sub(d)
      <4>1. tenant'[t] = [tenant[t] EXCEPT !.tier = "FREE", !.sub = NoSub]
        BY <1>7, <3>1 DEF HandleClear, ClearSubscription
      <4>2. tenant[t] \in TenantRow
        BY <1>0 DEF TypeOK
      <4> QED
        BY <4>1, <4>2 DEF PaidRow, TenantRow
    <3>2. CASE tenant[t].sub # Sub(d)
      BY <1>0, <1>7, <3>2 DEF HandleClear, ClearSubscription
    <3> QED
      BY <3>1, <3>2
  <2> QED
    BY <1>3, <1>7, <2>1 DEF HandleClear, Places
<1>8. ASSUME NEW d \in Deliveries, StoreCustomer(d)
      PROVE  AnswersReported' /\ PaidTierWasReported'
  <2>1. \A t \in Tenants : tenant'[t].tier = tenant[t].tier /\ tenant'[t].sub = tenant[t].sub
    BY <1>0, <1>8 DEF StoreCustomer, TypeOK, TenantRow
  <2>2. \A t \in Tenants : PaidRow(t, tenant'[t])
    BY <1>0, <2>1 DEF PaidRow
  <2> QED
    BY <1>3, <1>8, <2>2 DEF StoreCustomer, Places
<1>9. ASSUME NEW d \in Deliveries, Retrieve(d)
      PROVE  AnswersReported' /\ PaidTierWasReported'
  <2>1. Sub(d) \in Subs /\ UNCHANGED <<events, stripe, tenant>>
    BY <1>0, <1>9, EvType DEF Retrieve
  <2>2. /\ delivery'[d].plan = stripe[Sub(d)] /\ events[delivery'[d].ev].sub = Sub(d)
        /\ \A x \in Deliveries \ {d} : delivery'[x] = delivery[x]
    BY <1>0, <1>9, <2>1, RetrieveDelivery DEF Sub, Ev, Id
  <2> QED
    BY <1>0, <2>1, <2>2, PaidStepNoEvent DEF AnswersReported
<1>10. CASE UNCHANGED vars
  BY <1>10 DEF vars, PaidInv, AnswersReported, PaidTierWasReported, Reported, Sub, Ev, Id
<1> QED
  BY <1>1, <1>2, <1>4, <1>5, <1>6, <1>7, <1>8, <1>9, <1>10
     DEF Next, RequestStep, Handle

\* However events are ordered, repeated and overlap, a tenant has a paid tier only
\* with a subscription of its own that Stripe reported as paying for that tier.
THEOREM PaidSafe == Spec => []PaidTierWasReported
<1>1. Init => PaidInv
  <2> SUFFICES ASSUME Init PROVE PaidInv
    OBVIOUS
  <2>1. AnswersReported
    BY DEF Init, AnswersReported, IdleDelivery, Tiers
  <2>2. PaidTierWasReported
    BY DEF Init, PaidTierWasReported, FreeTenant
  <2> QED
    BY <2>1, <2>2, TInit DEF PaidInv
<1>2. PaidInv /\ [Next]_vars => PaidInv'
  BY InHandStep, TypeStep, PaidStep DEF PaidInv, TInv
<1>3. PaidInv => PaidTierWasReported
  BY DEF PaidInv
<1> QED
  BY <1>1, <1>2, <1>3, PTL DEF Spec

\* No event is lost: what Stripe was answered is in the database, and what the
\* database says is processed has left its effect.
THEOREM NothingIsLostSafe == Spec => []NothingIsLost
<1> QED
  BY AnsweredSafe, HandledSafe, PTL DEF NothingIsLost

-----------------------------------------------------------------------------
(* Replays, in any order and overlap.                                      *)

LEMMA StepOfDelivery ==
  ASSUME TInv, NEW d \in Deliveries, RequestStep(d) \/ Fails(d) \/ ErrorSwallowed(d)
  PROVE  /\ delivery[d].pc # "idle"
         /\ UNCHANGED <<stripe, events>>
         /\ \A x \in Deliveries \ {d} : delivery'[x] = delivery[x]
         /\ delivery'[d].pc # "idle" => delivery'[d].ev = delivery[d].ev
<1>0. TypeOK
  BY DEF TInv
<1>1. delivery[d].pc # "idle" /\ UNCHANGED <<stripe, events>>
  BY DEF RequestStep, Handle, Fails, ErrorSwallowed, Lookup, Create, Mark, Answer,
         HandleSync, HandleClear, StoreCustomer, Retrieve, WriteRetrieved
<1>2. Sub(d) \in Subs
  BY <1>1, EvType
<1>3. Retrieve(d) \/ Return(d) \/ \E p \in Places : GoTo(d, p)
  <2>1. CASE Lookup(d)
    BY <2>1, LookupCases DEF Places
  <2>2. CASE Create(d)
    BY <2>2 DEF Create, Places
  <2> QED
    BY <2>1, <2>2 DEF RequestStep, Handle, Fails, ErrorSwallowed, Mark, Answer,
                HandleSync, HandleClear, StoreCustomer, WriteRetrieved, Places
<1> QED
  BY <1>0, <1>1, <1>2, <1>3, RetrieveDelivery, ReturnDelivery, GoToDelivery

\* A delivery that arrives in a handler of a processed event was in it before.
LEMMA HandlerEntered ==
  ASSUME TInv, NEW d \in Deliveries, RequestStep(d) \/ Fails(d) \/ ErrorSwallowed(d),
         NEW i \in Ids, record[i] = "processed", d \in Handling(i)'
  PROVE  d \in Handling(i)
<1>0. TypeOK
  BY DEF TInv
<1>1. /\ delivery'[d].ev = i /\ delivery'[d].pc \in {"handle", "retrieve", "write", "mark"}
      /\ delivery[d].ev = i /\ Id(d) = i
  BY StepOfDelivery DEF Handling, Id
<1>2. ASSUME Return(d) PROVE FALSE
  BY <1>0, <1>1, <1>2, ReturnDelivery
<1>3. CASE Lookup(d)
  <2>1. GoTo(d, "answer")
    BY <1>1, <1>3, LookupCases
  <2> QED
    BY <1>0, <1>1, <2>1, GoToDelivery DEF Places
<1>4. CASE Create(d)
  BY <1>1, <1>2, <1>4 DEF Create
<1>5. CASE Answer(d) \/ Fails(d)
  BY <1>2, <1>5 DEF Answer, Fails
<1>6. CASE Handle(d) \/ Mark(d) \/ ErrorSwallowed(d)
  BY <1>1, <1>6 DEF Handle, Mark, ErrorSwallowed, HandleSync, HandleClear, StoreCustomer,
                    Retrieve, WriteRetrieved, Handling
<1> QED
  BY <1>3, <1>4, <1>5, <1>6 DEF RequestStep

LEMMA ReplayEffect ==
  ASSUME TInv, [Next]_vars
  PROVE  /\ \A i \in Ids : record[i] = "processed" => /\ record'[i] = "processed"
                                                      /\ Handling(i)' \subseteq Handling(i)
         /\ tenant' # tenant => \E i \in Ids : \E d \in Handling(i) : delivery'[d] # delivery[d]
<1> DEFINE Goal == /\ \A i \in Ids : record[i] = "processed" => /\ record'[i] = "processed"
                                                                /\ Handling(i)' \subseteq Handling(i)
                   /\ tenant' # tenant => \E i \in Ids : \E d \in Handling(i) : delivery'[d] # delivery[d]
<1>0. TypeOK
  BY DEF TInv
<1>1. ASSUME UNCHANGED <<record, tenant, delivery>> PROVE Goal
  BY <1>1 DEF Handling
<1>2. ASSUME NEW d \in Deliveries, NEW k \in Ids, Deliver(d, k) PROVE Goal
  <2>1. /\ delivery'[d].pc = "lookup" /\ UNCHANGED <<record, tenant>>
        /\ \A x \in Deliveries \ {d} : delivery'[x] = delivery[x]
    BY <1>0, <1>2, DeliverDelivery DEF Deliver
  <2> QED
    BY <2>1 DEF Handling
<1>3. ASSUME NEW d \in Deliveries, RequestStep(d) \/ Fails(d) \/ ErrorSwallowed(d) PROVE Goal
  <2>1. ASSUME NEW i \in Ids, record[i] = "processed"
        PROVE  record'[i] = "processed" /\ Handling(i)' \subseteq Handling(i)
    <3>1. record'[i] = "processed"
      BY <1>0, <1>3, <2>1
         DEF TypeOK, RequestStep, Handle, Fails, ErrorSwallowed, Lookup, Create, Mark, Answer,
             HandleSync, HandleClear, StoreCustomer, Retrieve, WriteRetrieved
    <3>2. \A x \in Deliveries \ {d} : delivery'[x] = delivery[x]
      BY <1>3, StepOfDelivery
    <3>3. d \in Handling(i)' => d \in Handling(i)
      BY <1>3, <2>1, HandlerEntered
    <3>4. \A x \in Deliveries \ {d} : x \in Handling(i)' => x \in Handling(i)
      BY <3>2 DEF Handling
    <3>5. Handling(i)' \subseteq Deliveries
      BY DEF Handling
    <3> QED
      BY <3>1, <3>3, <3>4, <3>5
  <2>2. ASSUME tenant' # tenant
        PROVE  \E i \in Ids : \E x \in Handling(i) : delivery'[x] # delivery[x]
    <3>1. HandleSync(d) \/ HandleClear(d) \/ StoreCustomer(d) \/ WriteRetrieved(d)
      BY <1>3, <2>2 DEF RequestStep, Handle, Fails, ErrorSwallowed, Lookup, Create, Mark, Answer,
                        Retrieve
    <3>2. delivery[d].pc \in {"handle", "write"} /\ (GoTo(d, "mark") \/ GoTo(d, "retrieve"))
      BY <3>1 DEF HandleSync, HandleClear, StoreCustomer, WriteRetrieved
    <3>3. delivery'[d].pc \in {"mark", "retrieve"}
      BY <1>0, <3>2, GoToDelivery DEF Places
    <3>4. Id(d) \in Ids /\ d \in Handling(Id(d))
      BY <3>2, EvType DEF Handling, Id
    <3> QED
      BY <3>2, <3>3, <3>4
  <2> QED
    BY <2>1, <2>2
<1>4. CASE Stripe
  BY <1>1, <1>4 DEF Stripe, SubscriptionChanges, SubscriptionStops, SubscriptionNamed, Emit
<1>5. UNCHANGED vars => Goal
  BY <1>1 DEF vars
<1> QED
  BY <1>2, <1>3, <1>4, <1>5 DEF Next

\* However deliveries repeat, overtake and overlap one another: a processed event
\* is handled on only by deliveries that were in its handler already.
THEOREM ReplaySafe == Spec => ReplaysWereUnderWay
<1>1. TInv /\ [Next]_vars =>
        [/\ \A i \in Ids : record[i] = "processed" => /\ record'[i] = "processed"
                                                      /\ Handling(i)' \subseteq Handling(i)
         /\ tenant' # tenant => \E i \in Ids : \E d \in Handling(i) : delivery'[d] # delivery[d]]_vars
  BY ReplayEffect
<1>2. TInv /\ [Next]_vars => TInv'
  BY InHandStep, TypeStep DEF TInv
<1> QED
  BY TInit, <1>1, <1>2, PTL DEF Spec, ReplaysWereUnderWay

-----------------------------------------------------------------------------
(* Deliveries that keep the order of the events (Ordered): what is behind  *)
(* the look-up is not processed.                                           *)

OneBusy == \A d, x \in Deliveries :
              delivery[d].pc # "idle" /\ delivery[x].pc # "idle" => d = x

\* Behind the look-up there is only what was not processed.
Unprocessed ==
    \A d \in Deliveries : delivery[d].pc \in {"create", "handle", "retrieve", "write", "mark"}
                              => record[Id(d)] # "processed"

ReplayInv == TInv /\ OneBusy /\ Unprocessed

LEMMA ReplayStep ==
  ASSUME Ordered, ReplayInv, [Next]_vars
  PROVE  OneBusy' /\ Unprocessed'
<1>0. TInv /\ TypeOK /\ OneBusy /\ Unprocessed
  BY DEF ReplayInv, TInv
<1>1. CASE Stripe
  <2>1. UNCHANGED <<delivery, record>>
    BY <1>1 DEF Stripe, SubscriptionChanges, SubscriptionStops, SubscriptionNamed, Emit
  <2> QED
    BY <1>0, <2>1 DEF OneBusy, Unprocessed, Id
<1>2. ASSUME NEW d \in Deliveries, NEW i \in Ids, Deliver(d, i) PROVE OneBusy' /\ Unprocessed'
  <2>1. UNCHANGED record /\ \A x \in Deliveries : delivery[x].pc = "idle"
    BY <1>2 DEF Deliver
  <2> QED
    BY <1>0, <1>2, <2>1, DeliverDelivery DEF OneBusy, Unprocessed, Id
<1>3. ASSUME NEW d \in Deliveries, RequestStep(d) \/ Fails(d) \/ ErrorSwallowed(d)
      PROVE  OneBusy' /\ Unprocessed'
  <2>1. /\ delivery[d].pc # "idle" /\ Id(d) \in Ids
        /\ \A x \in Deliveries \ {d} : delivery'[x] = delivery[x] /\ delivery[x].pc = "idle"
        /\ delivery'[d].pc # "idle" => delivery'[d].ev = delivery[d].ev
    BY <1>0, <1>3, StepOfDelivery, EvType DEF OneBusy
  <2>2. OneBusy'
    BY <2>1 DEF OneBusy
  <2>3. delivery'[d].pc \in {"create", "handle", "retrieve", "write", "mark"}
            => record'[Id(d)] # "processed"
    <3>1. CASE Lookup(d)
      <4>1. UNCHANGED record
        BY <3>1 DEF Lookup
      <4>2. CASE record[Id(d)] = "processed" /\ GoTo(d, "answer")
        BY <1>0, <4>2, GoToDelivery DEF Places
      <4> QED
        BY <1>0, <3>1, <4>1, <4>2, LookupCases
    <3>2. CASE Create(d)
      BY <1>0, <2>1, <3>2 DEF Create, Unprocessed, TypeOK
    <3>3. CASE Mark(d)
      BY <1>0, <3>3, GoToDelivery DEF Mark, Places
    <3>4. CASE Answer(d)
      BY <1>0, <3>4, ReturnDelivery DEF Answer
    <3>5. CASE Fails(d)
      BY <1>0, <3>5, ReturnDelivery DEF Fails
    <3>6. CASE Handle(d) \/ ErrorSwallowed(d)
      BY <1>0, <3>6 DEF Handle, ErrorSwallowed, HandleSync, HandleClear, StoreCustomer,
                        Retrieve, WriteRetrieved, Unprocessed
    <3> QED
      BY <1>3, <3>1, <3>2, <3>3, <3>4, <3>5, <3>6 DEF RequestStep
  <2>4. Unprocessed'
    BY <2>1, <2>3 DEF Unprocessed, Id
  <2> QED
    BY <2>2, <2>4
<1>4. CASE UNCHANGED vars
  BY <1>0, <1>4 DEF vars, OneBusy, Unprocessed, Id
<1> QED
  BY <1>1, <1>2, <1>3, <1>4 DEF Next

LEMMA ReplayInit == Init => ReplayInv
BY TInit DEF Init, ReplayInv, OneBusy, Unprocessed, IdleDelivery

LEMMA ReplayInvariant == ASSUME Ordered PROVE Spec => []ReplayInv
<1>1. ReplayInv /\ [Next]_vars => ReplayInv'
  BY InHandStep, TypeStep, ReplayStep DEF ReplayInv, TInv
<1> QED
  BY ReplayInit, <1>1, PTL DEF Spec

-----------------------------------------------------------------------------
(* Agreement with Stripe, for ordered deliveries and tenants that have one *)
(* subscription each.                                                      *)

OneSubEach == \A s, x \in Subs : TenantOf[s] = TenantOf[x] => s = x

EventsOf(s)  == {i \in 1..Len(events) : events[i].sub = s}
Changes(s)   == {i \in EventsOf(s) : Lifecycle(i)}
IsLast(s, i) == i \in Changes(s) /\ \A j \in Changes(s) : j <= i

\* What Stripe says of a subscription is what its last lifecycle event says.
Told ==
    \A s \in Subs :
        /\ stripe[s] = "none" => EventsOf(s) = {}
        /\ stripe[s] # "none" => \E i \in 1..Len(events) : IsLast(s, i)
        /\ \A i \in 1..Len(events) : IsLast(s, i) => stripe[s] = events[i].plan

ClearStops == \A i \in 1..Len(events) : events[i].kind = "clear" => events[i].plan \notin Paying

\* An event is delivered, and applied, after all before it were answered.
InOrder ==
    /\ \A d \in Deliveries : delivery[d].pc # "idle" => 1..(Id(d) - 1) \subseteq answered
    /\ \A i \in applied : i \in 1..Len(events) /\ 1..(i - 1) \subseteq answered

OwnRows ==
    \A t \in Tenants : tenant[t].sub # NoSub =>
        TenantOf[tenant[t].sub] = t /\ stripe[tenant[t].sub] # "none"

\* What was retrieved after the last lifecycle event is still so.
Retrieved ==
    \A d \in Deliveries : delivery[d].pc = "write" =>
        \A i \in 1..Len(events) : IsLast(Sub(d), i) /\ Id(d) > i
                                     => delivery[d].plan = stripe[Sub(d)]

Reflects(s, row) ==
    IF stripe[s] \in Paying THEN row = Synced(row, s, stripe[s])
                            ELSE row.tier = "FREE" /\ row.sub = NoSub

\* Once the last lifecycle event is applied, the row is as Stripe says.
Reflected ==
    \A s \in Subs, t \in Tenants : TenantOf[s] = t =>
        \A i \in applied : IsLast(s, i) => Reflects(s, tenant[t])

SyncParts == Told /\ ClearStops /\ InOrder /\ OwnRows /\ Retrieved /\ Reflected
SyncInv   == AnsweredInv /\ HandledInv /\ PaidInv /\ ReplayInv /\ SyncParts

\* A lifecycle event of the delivery that is being handled is the last one, if
\* the last one was applied: those before it are processed.
LEMMA HandledIsLast ==
  ASSUME SyncInv, NEW d \in Deliveries, NEW i \in applied,
         delivery[d].pc \in {"create", "handle", "retrieve", "write", "mark"}
  PROVE  i <= Id(d)
<1>1. Id(d) \in 1..Len(events) /\ Len(events) \in Nat
  BY EvType DEF SyncInv, ReplayInv, TInv, TypeOK
<1>2. i \in 1..Len(events) /\ 1..(i - 1) \subseteq answered
  BY DEF SyncInv, SyncParts, InOrder
<1>3. Id(d) \notin answered
  BY DEF SyncInv, ReplayInv, Unprocessed, AnsweredInv, AnsweredIsProcessed
<1> QED
  BY <1>1, <1>2, <1>3

LEMMA SyncStripe ==
  ASSUME SyncInv, Stripe
  PROVE  SyncParts'
<1>0. TInv /\ TypeOK /\ Told /\ ClearStops /\ InOrder /\ OwnRows /\ Retrieved /\ Reflected
  BY DEF SyncInv, SyncParts, ReplayInv, TInv
<1>1. PICK kind \in {"sync", "clear", "fetch", "checkout"}, s \in Subs, plan \in Plans :
          /\ Emit(kind, s, plan) /\ stripe' = [stripe EXCEPT ![s] = plan]
          /\ plan # "none"
          /\ kind \in {"fetch", "checkout"} => plan = stripe[s]
          /\ kind = "clear" => plan \notin Paying
  BY <1>0 DEF Stripe, SubscriptionChanges, SubscriptionStops, SubscriptionNamed, TypeOK,
              Paying, Tiers
<1> DEFINE n == Len(events) + 1
<1>2. UNCHANGED <<answered, record, tenant, delivery, applied, faults>>
  BY <1>1 DEF Emit
<1>3. /\ Len(events) \in Nat /\ Len(events') = n
      /\ \A i \in 1..Len(events) : events'[i] = events[i]
      /\ events'[n].sub = s /\ events'[n].plan = plan
  BY <1>0, <1>1, EmitEvents
<1>4. events'[n].kind = kind
  BY <1>0, <1>1, <1>3 DEF Emit, TypeOK
<1>5. \A x \in Subs : stripe'[x] = IF x = s THEN plan ELSE stripe[x]
  BY <1>0, <1>1 DEF TypeOK
<1>6. \A d \in Deliveries : delivery[d].pc # "idle" =>
          Id(d)' = Id(d) /\ Sub(d)' = Sub(d) /\ Sub(d) \in Subs /\ Id(d) \in 1..Len(events)
  BY <1>0, <1>2, <1>3, EvType DEF Sub, Ev, Id
<1>7. \A x \in Subs : x # s => Changes(x)' = Changes(x) /\ EventsOf(x)' = EventsOf(x)
  BY <1>3 DEF Changes, EventsOf, Lifecycle
<1>8. ASSUME kind \in {"sync", "clear"} PROVE Told' /\ Retrieved' /\ Reflected'
  <2>1. \A i \in 1..n : IsLast(s, i)' <=> i = n
    BY <1>3, <1>4, <1>8 DEF IsLast, Changes, EventsOf, Lifecycle
  <2>2. \A x \in Subs, i \in 1..n : x # s => (IsLast(x, i)' <=> IsLast(x, i))
    BY <1>7 DEF IsLast
  <2>3. Told'
    BY <1>0, <1>1, <1>3, <1>5, <1>7, <2>1, <2>2 DEF Told, Changes, EventsOf, IsLast
  <2>4. Retrieved'
    BY <1>0, <1>2, <1>3, <1>5, <1>6, <2>1, <2>2 DEF Retrieved, IsLast, Changes, EventsOf
  <2>5. n \notin applied
    BY <1>0, <1>3 DEF InOrder
  <2>6. Reflected'
    BY <1>0, <1>2, <1>3, <1>5, <2>1, <2>2, <2>5 DEF Reflected, Reflects, InOrder
  <2> QED
    BY <2>3, <2>4, <2>6
<1>9. ASSUME kind \in {"fetch", "checkout"} PROVE Told' /\ Retrieved' /\ Reflected'
  <2>1. \A x \in Subs : Changes(x)' = Changes(x) /\ stripe'[x] = stripe[x]
    BY <1>1, <1>3, <1>4, <1>5, <1>9 DEF Changes, EventsOf, Lifecycle
  <2>2. \A x \in Subs : \A i : IsLast(x, i)' <=> IsLast(x, i)
    BY <2>1 DEF IsLast
  <2>3. Told'
    <3> SUFFICES ASSUME NEW x \in Subs
                 PROVE  /\ stripe'[x] = "none" => EventsOf(x)' = {}
                        /\ stripe'[x] # "none" => \E i \in 1..n : IsLast(x, i)'
                        /\ \A i \in 1..n : IsLast(x, i)' => stripe'[x] = events'[i].plan
      BY <1>3 DEF Told
    <3>1. stripe[x] = "none" => x # s
      BY <1>1, <1>5, <2>1
    <3>2. \A i : IsLast(x, i) => i \in 1..Len(events)
      BY DEF IsLast, Changes, EventsOf
    <3>3. stripe'[x] # "none" => \E i \in 1..n : IsLast(x, i)'
      BY <1>0, <1>3, <2>1, <2>2 DEF Told
    <3>4. \A i \in 1..n : IsLast(x, i)' => stripe'[x] = events'[i].plan
      BY <1>0, <1>3, <2>1, <2>2, <3>2 DEF Told
    <3> QED
      BY <1>0, <1>7, <2>1, <3>1, <3>3, <3>4 DEF Told
  <2>4. Retrieved'
    BY <1>0, <1>2, <1>3, <1>6, <2>1, <2>2 DEF Retrieved, IsLast, Changes, EventsOf
  <2>5. Reflected'
    BY <1>0, <1>2, <2>1, <2>2 DEF Reflected, Reflects
  <2> QED
    BY <2>3, <2>4, <2>5
<1>10. ClearStops'
  BY <1>0, <1>1, <1>3, <1>4 DEF ClearStops
<1>11. InOrder'
  BY <1>0, <1>2, <1>3, <1>6 DEF InOrder, Id
<1>12. OwnRows'
  BY <1>0, <1>1, <1>2, <1>5 DEF OwnRows, TypeOK, TenantRow
<1> QED
  BY <1>1, <1>8, <1>9, <1>10, <1>11, <1>12 DEF SyncParts

\* A step that changes neither what was emitted nor what was applied, nor a row
\* but for its customer.
LEMMA SyncQuiet ==
  ASSUME SyncInv, UNCHANGED <<stripe, events, applied, tenant>>, answered \subseteq answered',
         NEW d \in Deliveries, \A x \in Deliveries \ {d} : delivery'[x] = delivery[x],
         delivery'[d].pc # "idle" => 1..(delivery'[d].ev - 1) \subseteq answered,
         delivery'[d].pc # "write"
  PROVE  SyncParts'
<1>0. TInv /\ TypeOK /\ Told /\ ClearStops /\ InOrder /\ OwnRows /\ Retrieved /\ Reflected
  BY DEF SyncInv, SyncParts, ReplayInv, TInv
<1>1. \A x \in Subs : \A i : IsLast(x, i)' <=> IsLast(x, i)
  BY DEF IsLast, Changes, EventsOf, Lifecycle
<1>2. Told' /\ ClearStops' /\ OwnRows'
  BY <1>0 DEF Told, ClearStops, OwnRows, IsLast, Changes, EventsOf, Lifecycle
<1>3. InOrder'
  BY <1>0 DEF InOrder, Id
<1>4. Retrieved'
  BY <1>0 DEF Retrieved, Sub, Ev, Id, IsLast, Changes, EventsOf, Lifecycle
<1>5. Reflected'
  BY <1>0, <1>1 DEF Reflected, Reflects
<1> QED
  BY <1>2, <1>3, <1>4, <1>5 DEF SyncParts

\* A handler writes the row of one subscription.  The others of the tenant's rows
\* stay, and the row reflects the plan once it is the last one told.
LEMMA SyncWrites ==
  ASSUME OneSubEach, SyncInv, NEW d \in Deliveries, NEW plan \in Plans,
         UNCHANGED <<stripe, events, answered>>, GoTo(d, "mark"),
         delivery[d].pc \in {"handle", "write"},
         \/ SyncSubscription(Sub(d), plan)
         \/ ClearSubscription(Sub(d)) /\ plan \notin Paying,
         applied' = applied \cup {Id(d)},
         \A i \in applied' : IsLast(Sub(d), i) => plan = stripe[Sub(d)]
  PROVE  SyncParts'
<1>0. TInv /\ TypeOK /\ Told /\ ClearStops /\ InOrder /\ OwnRows /\ Retrieved /\ Reflected
  BY DEF SyncInv, SyncParts, ReplayInv, TInv
<1>1. /\ Sub(d) \in Subs /\ Id(d) \in 1..Len(events) /\ Id(d) \in EventsOf(Sub(d))
      /\ stripe[Sub(d)] # "none"
  BY <1>0, EvType DEF EventsOf, Sub, Ev, Told
<1>2. /\ delivery'[d].pc = "mark" /\ delivery'[d].ev = Id(d)
      /\ \A x \in Deliveries \ {d} : delivery'[x] = delivery[x]
  BY <1>0, GoToDelivery DEF Places, Id
<1>3. \A x \in Subs : \A i : IsLast(x, i)' <=> IsLast(x, i)
  BY DEF IsLast, Changes, EventsOf, Lifecycle
<1>4. Told' /\ ClearStops'
  BY <1>0 DEF Told, ClearStops, IsLast, Changes, EventsOf, Lifecycle
<1>5. InOrder'
  BY <1>0, <1>1, <1>2 DEF InOrder, Id
<1>6. Retrieved'
  BY <1>0, <1>2 DEF Retrieved, Sub, Ev, Id, IsLast, Changes, EventsOf, Lifecycle
<1>7. ASSUME NEW t \in Tenants, t # TenantOf[Sub(d)] PROVE tenant'[t] = tenant[t]
  BY <1>0, <1>1, <1>7, SubsAssumption DEF SyncSubscription, ClearSubscription, OwnRows
<1>8. ASSUME NEW t \in Tenants, t = TenantOf[Sub(d)]
      PROVE  /\ tenant'[t].sub \in {Sub(d), NoSub}
             /\ plan = stripe[Sub(d)] => Reflects(Sub(d), tenant'[t])
  <2>1. tenant[t] \in TenantRow
    BY <1>0 DEF TypeOK
  <2>2. CASE SyncSubscription(Sub(d), plan)
    <3>1. tenant'[t] = Synced(tenant[t], Sub(d), plan)
      BY <1>8, <2>2 DEF SyncSubscription
    <3> QED
      BY <3>1 DEF Synced, Reflects
  <2>3. CASE ClearSubscription(Sub(d)) /\ plan \notin Paying
    <3>1. tenant[t].sub \in {Sub(d), NoSub}
      BY <1>0, <1>1, <1>8, <2>1 DEF OwnRows, OneSubEach, TenantRow
    <3>2. CASE tenant[t].sub = Sub(d)
      <4>1. tenant'[t] = [tenant[t] EXCEPT !.tier = "FREE", !.sub = NoSub]
        BY <2>3, <3>2 DEF ClearSubscription
      <4> QED
        BY <2>1, <2>3, <4>1 DEF Reflects, TenantRow
    <3>3. CASE tenant[t].sub # Sub(d)
      <4>1. tenant'[t] = tenant[t] /\ tenant[t].sub = NoSub
        BY <2>3, <3>1, <3>3 DEF ClearSubscription
      <4>2. tenant[t].tier = "FREE"
        BY <4>1 DEF SyncInv, PaidInv, PaidTierWasReported
      <4> QED
        BY <2>3, <4>1, <4>2 DEF Reflects
    <3> QED
      BY <3>2, <3>3
  <2> QED
    BY <2>2, <2>3
<1>9. OwnRows'
  BY <1>0, <1>1, <1>7, <1>8 DEF OwnRows
<1>10. Reflected'
  <2> SUFFICES ASSUME NEW s \in Subs, NEW t \in Tenants, TenantOf[s] = t,
                      NEW i \in applied', IsLast(s, i)
               PROVE  Reflects(s, tenant'[t])
    BY <1>3 DEF Reflected, Reflects
  <2>1. CASE s = Sub(d)
    BY <1>8, <2>1
  <2>2. CASE s # Sub(d)
    <3>1. t # TenantOf[Sub(d)]
      BY <1>1, <2>2 DEF OneSubEach
    <3>2. i \in applied
      BY <1>1, <2>2 DEF IsLast, Changes, EventsOf
    <3> QED
      BY <1>0, <1>7, <3>1, <3>2 DEF Reflected
  <2> QED
    BY <2>1, <2>2
<1> QED
  BY <1>4, <1>5, <1>6, <1>9, <1>10 DEF SyncParts

LEMMA SyncRetrieve ==
  ASSUME SyncInv, NEW d \in Deliveries, Retrieve(d)
  PROVE  SyncParts'
<1>0. TInv /\ TypeOK /\ Told /\ ClearStops /\ InOrder /\ OwnRows /\ Retrieved /\ Reflected
  BY DEF SyncInv, SyncParts, ReplayInv, TInv
<1>1. Sub(d) \in Subs /\ UNCHANGED <<stripe, events, answered, applied, tenant>>
  BY <1>0, EvType DEF Retrieve
<1>2. /\ delivery'[d].pc = "write" /\ delivery'[d].ev = Id(d)
      /\ delivery'[d].plan = stripe[Sub(d)]
      /\ \A x \in Deliveries \ {d} : delivery'[x] = delivery[x]
  BY <1>0, <1>1, RetrieveDelivery DEF Id
<1>3. \A x \in Subs : \A i : IsLast(x, i)' <=> IsLast(x, i)
  BY <1>1 DEF IsLast, Changes, EventsOf, Lifecycle
<1>4. Told' /\ ClearStops' /\ OwnRows'
  BY <1>0, <1>1 DEF Told, ClearStops, OwnRows, IsLast, Changes, EventsOf, Lifecycle
<1>5. InOrder'
  BY <1>0, <1>1, <1>2 DEF InOrder, Id, Retrieve
<1>6. Retrieved'
  BY <1>0, <1>1, <1>2 DEF Retrieved, Sub, Ev, Id, IsLast, Changes, EventsOf, Lifecycle
<1>7. Reflected'
  BY <1>0, <1>1, <1>3 DEF Reflected, Reflects
<1> QED
  BY <1>4, <1>5, <1>6, <1>7 DEF SyncParts

\* The customer that checkout stores is the one every row of the subscription has.
LEMMA SyncCustomer ==
  ASSUME OneSubEach, SyncInv, NEW d \in Deliveries, StoreCustomer(d)
  PROVE  SyncParts'
<1>0. TInv /\ TypeOK /\ Told /\ ClearStops /\ InOrder /\ OwnRows /\ Retrieved /\ Reflected
  BY DEF SyncInv, SyncParts, ReplayInv, TInv
<1>1. Sub(d) \in Subs /\ UNCHANGED <<stripe, events, answered, applied>>
  BY <1>0, EvType DEF StoreCustomer
<1>2. /\ delivery'[d].pc = "retrieve" /\ delivery'[d].ev = Id(d)
      /\ \A x \in Deliveries \ {d} : delivery'[x] = delivery[x]
  BY <1>0, GoToDelivery DEF StoreCustomer, Places, Id
<1>3. \A x \in Subs : \A i : IsLast(x, i)' <=> IsLast(x, i)
  BY <1>1 DEF IsLast, Changes, EventsOf, Lifecycle
<1>4. Told' /\ ClearStops'
  BY <1>0, <1>1 DEF Told, ClearStops, IsLast, Changes, EventsOf, Lifecycle
<1>5. InOrder'
  BY <1>0, <1>1, <1>2 DEF InOrder, Id, StoreCustomer
<1>6. Retrieved'
  BY <1>0, <1>1, <1>2 DEF Retrieved, Sub, Ev, Id, IsLast, Changes, EventsOf, Lifecycle
<1>7. ASSUME NEW t \in Tenants
      PROVE  /\ tenant'[t].sub = tenant[t].sub /\ tenant'[t].tier = tenant[t].tier
             /\ t # TenantOf[Sub(d)] => tenant'[t] = tenant[t]
             /\ t = TenantOf[Sub(d)] => tenant'[t].customer = CustomerOf[Sub(d)]
             /\ tenant[t] \in TenantRow /\ tenant'[t] \in TenantRow
  BY <1>0, <1>1 DEF StoreCustomer, TypeOK, TenantRow
<1>8. OwnRows'
  BY <1>0, <1>1, <1>7 DEF OwnRows
<1>9. Reflected'
  <2> SUFFICES ASSUME NEW s \in Subs, NEW t \in Tenants, TenantOf[s] = t,
                      Reflects(s, tenant[t])
               PROVE  Reflects(s, tenant'[t])
    BY <1>0, <1>1, <1>3 DEF Reflected, Reflects
  <2>1. CASE s = Sub(d) /\ stripe[s] \in Paying
    <3>1. tenant[t].customer = CustomerOf[s]
      BY <2>1 DEF Reflects, Synced
    <3>2. tenant'[t] = tenant[t]
      BY <1>7, <2>1, <3>1 DEF TenantRow
    <3> QED
      BY <3>2
  <2>2. CASE s # Sub(d)
    BY <1>1, <1>7, <2>2 DEF OneSubEach
  <2>3. CASE stripe[s] \notin Paying
    BY <1>7, <2>3 DEF Reflects
  <2> QED
    BY <2>1, <2>2, <2>3
<1> QED
  BY <1>4, <1>5, <1>6, <1>8, <1>9 DEF SyncParts

LEMMA SyncStep ==
  ASSUME Ordered, OneSubEach, SyncInv, [Next]_vars
  PROVE  SyncParts'
<1>0. TInv /\ TypeOK /\ Told /\ ClearStops /\ InOrder /\ OwnRows /\ Retrieved /\ Reflected
  BY DEF SyncInv, SyncParts, ReplayInv, TInv
<1>1. ASSUME NEW d \in Deliveries, NEW i \in Ids, Deliver(d, i) PROVE SyncParts'
  <2>1. /\ UNCHANGED <<stripe, events, answered, applied, tenant>>
        /\ 1..(i - 1) \subseteq answered
    BY <1>1 DEF Deliver
  <2> QED
    BY <1>0, <1>1, <2>1, DeliverDelivery, SyncQuiet
<1>2. ASSUME NEW d \in Deliveries,
             \/ Lookup(d) \/ Create(d) \/ Mark(d) \/ Answer(d) \/ Fails(d) \/ ErrorSwallowed(d)
      PROVE  SyncParts'
  <2>1. /\ UNCHANGED <<stripe, events, applied, tenant>> /\ answered \subseteq answered'
        /\ delivery[d].pc # "idle"
    BY <1>2 DEF Lookup, Create, Mark, Answer, Fails, ErrorSwallowed
  <2>2. PICK p \in {"create", "handle", "mark", "answer"} : GoTo(d, p) \/ Return(d)
    <3>1. CASE Lookup(d)
      BY <1>0, <3>1, LookupCases
    <3> QED
      BY <1>2, <3>1 DEF Create, Mark, Answer, Fails, ErrorSwallowed
  <2>3. /\ delivery'[d].pc # "write"
        /\ delivery'[d].pc # "idle" => delivery'[d].ev = Id(d)
        /\ \A x \in Deliveries \ {d} : delivery'[x] = delivery[x]
    BY <1>0, <2>2, GoToDelivery, ReturnDelivery DEF Places, Id
  <2> QED
    BY <1>0, <2>1, <2>3, SyncQuiet DEF InOrder
<1>3. ASSUME NEW d \in Deliveries, HandleSync(d) PROVE SyncParts'
  <2>1. /\ Id(d) \in 1..Len(events) /\ Sub(d) \in Subs /\ Ev(d).plan \in Plans
        /\ applied' = applied \cup {Id(d)}
    BY <1>0, <1>3, EvType DEF HandleSync
  <2>2. Id(d) \in Changes(Sub(d))
    BY <1>3, <2>1 DEF HandleSync, Changes, EventsOf, Lifecycle, Sub, Ev
  <2>3. \A i \in applied' : IsLast(Sub(d), i) => Ev(d).plan = stripe[Sub(d)]
    <3> SUFFICES ASSUME NEW i \in applied', IsLast(Sub(d), i)
                 PROVE  Ev(d).plan = stripe[Sub(d)]
      OBVIOUS
    <3>1. i <= Id(d)
      BY <1>3, <2>1, HandledIsLast DEF HandleSync
    <3>2. i = Id(d)
      BY <2>1, <2>2, <3>1 DEF IsLast, Changes, EventsOf
    <3> QED
      BY <1>0, <2>1, <3>2 DEF Told, Ev
  <2> QED
    BY <1>3, <2>1, <2>3, SyncWrites DEF HandleSync
<1>4. ASSUME NEW d \in Deliveries, HandleClear(d) PROVE SyncParts'
  <2>1. /\ Id(d) \in 1..Len(events) /\ Sub(d) \in Subs /\ Ev(d).plan \in Plans
        /\ applied' = applied \cup {Id(d)} /\ Ev(d).plan \notin Paying
    BY <1>0, <1>4, EvType DEF HandleClear, ClearStops, Ev
  <2>2. Id(d) \in Changes(Sub(d))
    BY <1>4, <2>1 DEF HandleClear, Changes, EventsOf, Lifecycle, Sub, Ev
  <2>3. \A i \in applied' : IsLast(Sub(d), i) => Ev(d).plan = stripe[Sub(d)]
    <3> SUFFICES ASSUME NEW i \in applied', IsLast(Sub(d), i)
                 PROVE  Ev(d).plan = stripe[Sub(d)]
      OBVIOUS
    <3>1. i <= Id(d)
      BY <1>4, <2>1, HandledIsLast DEF HandleClear
    <3>2. i = Id(d)
      BY <2>1, <2>2, <3>1 DEF IsLast, Changes, EventsOf
    <3> QED
      BY <1>0, <2>1, <3>2 DEF Told, Ev
  <2> QED
    BY <1>4, <2>1, <2>3, SyncWrites DEF HandleClear
<1>5. ASSUME NEW d \in Deliveries, WriteRetrieved(d) PROVE SyncParts'
  <2>1. /\ Id(d) \in 1..Len(events) /\ Sub(d) \in Subs
        /\ applied' = applied \cup {Id(d)} /\ delivery[d].pc = "write"
        /\ delivery[d].plan \in Plans
    BY <1>0, <1>5, EvType DEF WriteRetrieved, TypeOK, DeliveryState
  <2>2. ~Lifecycle(Id(d))
    BY <2>1 DEF SyncInv, HandledInv, MarkApplied
  <2>3. \A i \in applied' : IsLast(Sub(d), i) => delivery[d].plan = stripe[Sub(d)]
    <3> SUFFICES ASSUME NEW i \in applied', IsLast(Sub(d), i)
                 PROVE  delivery[d].plan = stripe[Sub(d)]
      OBVIOUS
    <3>1. i # Id(d) /\ i \in applied /\ i \in 1..Len(events)
      BY <2>1, <2>2 DEF IsLast, Changes, EventsOf
    <3>2. i <= Id(d)
      BY <2>1, <3>1, HandledIsLast
    <3> QED
      BY <1>0, <2>1, <3>1, <3>2 DEF Retrieved
  <2> QED
    BY <1>5, <2>1, <2>3, SyncWrites DEF WriteRetrieved
<1>6. CASE UNCHANGED vars
  BY <1>0, <1>6 DEF vars, SyncParts, Told, ClearStops, InOrder, OwnRows, Retrieved, Reflected,
        Reflects, IsLast, Changes, EventsOf, Lifecycle, Sub, Ev, Id
<1> QED
  BY <1>1, <1>2, <1>3, <1>4, <1>5, <1>6, SyncStripe, SyncRetrieve, SyncCustomer
     DEF Next, RequestStep, Handle

LEMMA SyncInit ==
  ASSUME Init
  PROVE  SyncInv
<1>1. AnsweredInv /\ HandledInv /\ PaidInv
  <2>1. TInv
    BY TInit
  <2>2. AnsweredIsProcessed /\ AnswerMarked /\ Known /\ MarkApplied /\ ProcessedWasApplied
    BY DEF Init, AnsweredIsProcessed, AnswerMarked, Known, MarkApplied, ProcessedWasApplied,
           IdleDelivery
  <2>3. AnswersReported /\ PaidTierWasReported
    BY DEF Init, AnswersReported, PaidTierWasReported, IdleDelivery, FreeTenant, Tiers
  <2> QED
    BY <2>1, <2>2, <2>3 DEF AnsweredInv, HandledInv, PaidInv
<1>2. Told /\ ClearStops
  BY DEF Init, Told, ClearStops, EventsOf, IsLast
<1>3. InOrder /\ OwnRows /\ Retrieved /\ Reflected
  BY DEF Init, InOrder, OwnRows, Retrieved, Reflected, IdleDelivery, FreeTenant
<1> QED
  BY <1>1, <1>2, <1>3, ReplayInit DEF SyncInv, SyncParts

\* With every event answered, the last lifecycle event of each subscription was
\* processed, and so applied.
LEMMA SyncedAtRest ==
  ASSUME SyncInv
  PROVE  InSync
<1> SUFFICES ASSUME Quiet, NEW t \in Tenants
             PROVE  /\ \A s \in Subs : PayingSubs(t) = {s} =>
                           tenant[t] = Synced(tenant[t], s, stripe[s])
                    /\ PayingSubs(t) = {} => tenant[t].tier = "FREE" /\ tenant[t].sub = NoSub
  BY DEF InSync
<1>0. TypeOK /\ Told /\ OwnRows /\ Reflected /\ PaidTierWasReported
  BY DEF SyncInv, SyncParts, ReplayInv, PaidInv, TInv
<1>1. ASSUME NEW s \in Subs, TenantOf[s] = t, stripe[s] # "none" PROVE Reflects(s, tenant[t])
  <2>1. PICK i \in 1..Len(events) : IsLast(s, i)
    BY <1>0, <1>1 DEF Told
  <2>2. record[i] = "processed" /\ Lifecycle(i)
    BY <2>1 DEF Quiet, SyncInv, AnsweredInv, AnsweredIsProcessed, IsLast, Changes
  <2>3. i \in applied
    BY <2>2 DEF SyncInv, HandledInv, ProcessedWasApplied, Lifecycle
  <2> QED
    BY <1>0, <1>1, <2>1, <2>3 DEF Reflected
<1>2. ASSUME NEW s \in Subs, PayingSubs(t) = {s}
      PROVE  tenant[t] = Synced(tenant[t], s, stripe[s])
  <2>1. TenantOf[s] = t /\ stripe[s] \in Paying
    BY <1>2 DEF PayingSubs
  <2> QED
    BY <1>1, <2>1 DEF Reflects, Paying, Tiers
<1>3. ASSUME PayingSubs(t) = {}
      PROVE  tenant[t].tier = "FREE" /\ tenant[t].sub = NoSub
  <2>1. tenant[t].sub = NoSub
    <3> SUFFICES ASSUME tenant[t].sub # NoSub PROVE FALSE
      OBVIOUS
    <3> DEFINE s == tenant[t].sub
    <3>1. s \in Subs /\ TenantOf[s] = t /\ stripe[s] # "none"
      BY <1>0 DEF OwnRows, TypeOK, TenantRow
    <3>2. stripe[s] \notin Paying
      BY <1>3, <3>1 DEF PayingSubs
    <3> QED
      BY <1>1, <3>1, <3>2 DEF Reflects
  <2> QED
    BY <1>0, <2>1 DEF PaidTierWasReported
<1> QED
  BY <1>2, <1>3

\* Events first delivered in their order, however often repeated, refreshed,
\* failed and swallowed, leave every tenant with what Stripe says of its
\* subscription once all are answered.
THEOREM SyncSafe == ASSUME Ordered, OneSubEach PROVE Spec => []InSync
<1>1. SyncInv /\ [Next]_vars => SyncInv'
  <2> SUFFICES ASSUME SyncInv, [Next]_vars PROVE SyncInv'
    OBVIOUS
  <2>1. TInv' /\ AnsweredIsProcessed' /\ AnswerMarked'
    BY InHandStep, TypeStep, AnsweredStep DEF SyncInv, AnsweredInv, TInv
  <2>2. Known' /\ MarkApplied' /\ ProcessedWasApplied'
    BY HandledStep DEF SyncInv
  <2>3. AnswersReported' /\ PaidTierWasReported'
    BY PaidStep DEF SyncInv
  <2>4. OneBusy' /\ Unprocessed'
    BY ReplayStep DEF SyncInv
  <2>5. SyncParts'
    BY SyncStep
  <2> QED
    BY <2>1, <2>2, <2>3, <2>4, <2>5 DEF SyncInv, AnsweredInv, HandledInv, PaidInv, ReplayInv
<1>2. Init => SyncInv
  BY SyncInit
<1>3. SyncInv => InSync
  BY SyncedAtRest
<1> QED
  BY <1>1, <1>2, <1>3, PTL DEF Spec

-----------------------------------------------------------------------------
(* Every step is one of Inbox, or invisible to it, in whatever order and   *)
(* overlap events are delivered.                                           *)

\* An event that is handled, or past that, is recorded.
Recorded ==
    \A d \in Deliveries :
        delivery[d].pc \in {"handle", "retrieve", "write", "mark", "answer"}
            => record[Id(d)] # "absent"

\* A row holds a subscription of its own tenant only.
RowsOwned == \A t \in Tenants : tenant[t].sub # NoSub => TenantOf[tenant[t].sub] = t

InboxInv == AnsweredInv /\ HandledInv /\ Recorded /\ RowsOwned

LEMMA RecordedStep == TInv /\ Recorded /\ [Next]_vars => Recorded'
<1> SUFFICES ASSUME TInv, Recorded, [Next]_vars PROVE Recorded'
  OBVIOUS
<1>0. TypeOK
  BY DEF TInv
<1>1. \A i \in Ids : record[i] # "absent" => record'[i] # "absent"
  <2>1. ASSUME NEW d \in Deliveries, Create(d) \/ Mark(d)
        PROVE  \A i \in Ids : record[i] # "absent" => record'[i] # "absent"
    BY <1>0, <2>1 DEF Create, Mark, TypeOK
  <2>2. UNCHANGED record \/ \E d \in Deliveries : Create(d) \/ Mark(d)
    BY DEF Next, Stripe, SubscriptionChanges, SubscriptionStops, SubscriptionNamed, Emit,
           RequestStep, Handle, Deliver, Lookup, Answer, Fails, ErrorSwallowed, HandleSync,
           HandleClear, StoreCustomer, Retrieve, WriteRetrieved, vars
  <2> QED
    BY <2>1, <2>2
<1>2. ASSUME NEW d \in Deliveries, \A x \in Deliveries \ {d} : delivery'[x] = delivery[x],
             delivery'[d].pc \in {"handle", "retrieve", "write", "mark", "answer"}
               => delivery'[d].ev \in Ids /\ record'[delivery'[d].ev] # "absent"
      PROVE  Recorded'
  <2> SUFFICES ASSUME NEW x \in Deliveries,
                      delivery'[x].pc \in {"handle", "retrieve", "write", "mark", "answer"}
               PROVE  record'[delivery'[x].ev] # "absent"
    BY DEF Recorded, Id
  <2>1. CASE x = d
    BY <1>2, <2>1
  <2>2. CASE x # d
    <3>1. delivery'[x] = delivery[x]
      BY <1>2, <2>2
    <3>2. Id(x) \in Ids /\ record[Id(x)] # "absent"
      BY <3>1, EvType DEF Recorded
    <3> QED
      BY <1>1, <3>1, <3>2 DEF Id
  <2> QED
    BY <2>1, <2>2
<1>3. ASSUME UNCHANGED delivery PROVE Recorded'
  BY <1>1, <1>3, EvType DEF Recorded, Id
<1>4. ASSUME NEW d \in Deliveries, NEW i \in Ids, Deliver(d, i) PROVE Recorded'
  BY <1>0, <1>2, <1>4, DeliverDelivery
<1>5. ASSUME NEW d \in Deliveries, RequestStep(d) \/ Fails(d) \/ ErrorSwallowed(d)
      PROVE  Recorded'
  <2>1. /\ delivery[d].pc # "idle"
        /\ \A x \in Deliveries \ {d} : delivery'[x] = delivery[x]
        /\ delivery'[d].pc # "idle" => delivery'[d].ev = Id(d)
    BY <1>5, StepOfDelivery DEF Id
  <2>2. Id(d) \in Ids
    BY <2>1, EvType
  <2>3. ASSUME record'[Id(d)] # "absent" \/ delivery'[d].pc \in {"idle", "create"}
        PROVE  Recorded'
    BY <1>2, <2>1, <2>2, <2>3
  <2>4. CASE Lookup(d)
    <3>1. UNCHANGED record
      BY <2>4 DEF Lookup
    <3>2. record[Id(d)] # "absent" \/ GoTo(d, "create")
      BY <2>4, LookupCases
    <3> QED
      BY <1>0, <2>3, <3>1, <3>2, GoToDelivery DEF Places
  <2>5. CASE Create(d)
    BY <1>0, <2>2, <2>3, <2>5 DEF Create, TypeOK
  <2>6. CASE Fails(d)
    BY <1>0, <2>3, <2>6, ReturnDelivery DEF Fails
  <2>7. CASE Handle(d) \/ Mark(d) \/ Answer(d) \/ ErrorSwallowed(d)
    <3>1. delivery[d].pc \in {"handle", "retrieve", "write", "mark", "answer"}
      BY <2>7 DEF Handle, Mark, Answer, ErrorSwallowed, HandleSync, HandleClear, StoreCustomer,
                  Retrieve, WriteRetrieved
    <3>2. record'[Id(d)] # "absent"
      BY <1>1, <2>2, <3>1 DEF Recorded
    <3> QED
      BY <2>3, <3>2
  <2> QED
    BY <1>5, <2>4, <2>5, <2>6, <2>7 DEF RequestStep
<1>6. ASSUME Stripe \/ UNCHANGED vars PROVE Recorded'
  BY <1>3, <1>6 DEF Stripe, SubscriptionChanges, SubscriptionStops, SubscriptionNamed, Emit, vars
<1> QED
  BY <1>4, <1>5, <1>6 DEF Next

\* What a handler writes: a new row for the tenant of the subscription, which holds
\* that subscription, what it held before, or none.
Wrote(s) ==
    \E row \in TenantRow :
        /\ tenant' = [tenant EXCEPT ![TenantOf[s]] = row]
        /\ TenantOf[s] \in Tenants => row.sub \in {s, tenant[TenantOf[s]].sub, NoSub}

LEMMA SyncWrote ==
  ASSUME TypeOK, NEW s \in Subs, NEW plan \in Plans, SyncSubscription(s, plan)
  PROVE  Wrote(s)
<1>1. CASE TenantOf[s] \in Tenants
  <2> DEFINE row == Synced(tenant[TenantOf[s]], s, plan)
  <2>1. row \in TenantRow /\ row.sub \in {s, NoSub}
    BY <1>1, SyncedType DEF TypeOK, Synced
  <2>2. tenant' = [tenant EXCEPT ![TenantOf[s]] = row]
    BY DEF SyncSubscription, TypeOK
  <2> HIDE DEF row
  <2> QED
    BY <2>1, <2>2 DEF Wrote
<1>2. CASE TenantOf[s] \notin Tenants
  <2>1. FreeTenant \in TenantRow
    BY DEF FreeTenant, TenantRow
  <2>2. tenant' = [tenant EXCEPT ![TenantOf[s]] = FreeTenant]
    BY <1>2 DEF SyncSubscription, TypeOK
  <2> QED
    BY <1>2, <2>1, <2>2 DEF Wrote
<1> QED
  BY <1>1, <1>2

\* Only a row that holds the subscription is cleared, and that is its tenant's.
LEMMA ClearWrote ==
  ASSUME TypeOK, RowsOwned, NEW s \in Subs, ClearSubscription(s)
  PROVE  Wrote(s)
<1>0. \A t \in Tenants : tenant[t].sub = s => t = TenantOf[s]
  BY SubsAssumption DEF RowsOwned
<1>1. CASE TenantOf[s] \in Tenants /\ tenant[TenantOf[s]].sub = s
  <2> DEFINE row == [tenant[TenantOf[s]] EXCEPT !.tier = "FREE", !.sub = NoSub]
  <2>1. row \in TenantRow /\ row.sub = NoSub
    BY <1>1 DEF TypeOK, TenantRow
  <2>2. tenant' = [tenant EXCEPT ![TenantOf[s]] = row]
    BY <1>0, <1>1 DEF ClearSubscription, TypeOK
  <2> HIDE DEF row
  <2> QED
    BY <2>1, <2>2 DEF Wrote
<1>2. CASE ~ (TenantOf[s] \in Tenants /\ tenant[TenantOf[s]].sub = s)
  <2>1. tenant' = tenant
    BY <1>0, <1>2 DEF ClearSubscription, TypeOK
  <2>2. CASE TenantOf[s] \in Tenants
    <3>1. /\ tenant[TenantOf[s]] \in TenantRow
          /\ tenant' = [tenant EXCEPT ![TenantOf[s]] = tenant[TenantOf[s]]]
      BY <2>1, <2>2 DEF TypeOK
    <3> QED
      BY <3>1 DEF Wrote
  <2>3. CASE TenantOf[s] \notin Tenants
    <3>1. FreeTenant \in TenantRow
      BY DEF FreeTenant, TenantRow
    <3>2. tenant' = [tenant EXCEPT ![TenantOf[s]] = FreeTenant]
      BY <2>1, <2>3 DEF TypeOK
    <3> QED
      BY <2>3, <3>1, <3>2 DEF Wrote
  <2> QED
    BY <2>2, <2>3
<1> QED
  BY <1>1, <1>2

LEMMA StoreWrote ==
  ASSUME TInv, NEW d \in Deliveries, StoreCustomer(d)
  PROVE  Wrote(Sub(d))
<1>0. TypeOK /\ Sub(d) \in Subs
  BY EvType DEF TInv, StoreCustomer
<1> DEFINE s == Sub(d)
<1>1. tenant' = [t \in Tenants |-> IF t = TenantOf[s]
                                   THEN [tenant[t] EXCEPT !.customer = CustomerOf[s]]
                                   ELSE tenant[t]]
  BY DEF StoreCustomer
<1> HIDE DEF s
<1>2. CASE TenantOf[s] \in Tenants
  <2> DEFINE row == [tenant[TenantOf[s]] EXCEPT !.customer = CustomerOf[s]]
  <2>1. row \in TenantRow /\ row.sub = tenant[TenantOf[s]].sub
    BY <1>0, <1>2 DEF TypeOK, TenantRow, s
  <2>2. tenant' = [tenant EXCEPT ![TenantOf[s]] = row]
    BY <1>0, <1>1 DEF TypeOK
  <2> HIDE DEF row
  <2> QED
    BY <2>1, <2>2 DEF Wrote, s
<1>3. CASE TenantOf[s] \notin Tenants
  <2>1. FreeTenant \in TenantRow
    BY DEF FreeTenant, TenantRow
  <2>2. tenant' = [tenant EXCEPT ![TenantOf[s]] = FreeTenant]
    BY <1>0, <1>1, <1>3 DEF TypeOK
  <2> QED
    BY <1>3, <2>1, <2>2 DEF Wrote, s
<1> QED
  BY <1>2, <1>3

\* The steps that write a row, and what they do to the rest.
Writes(d) == HandleSync(d) \/ HandleClear(d) \/ WriteRetrieved(d) \/ StoreCustomer(d)

LEMMA WriteStep ==
  ASSUME TInv, RowsOwned, NEW d \in Deliveries, Writes(d)
  PROVE  /\ Wrote(Sub(d)) /\ Sub(d) \in Subs
         /\ delivery[d].pc \in {"handle", "write"}
         /\ applied' \in {applied, applied \cup {Id(d)}}
         /\ UNCHANGED <<events, answered, record>>
<1>1. delivery[d].pc \in {"handle", "write"}
  BY DEF Writes, HandleSync, HandleClear, WriteRetrieved, StoreCustomer
<1>2. TypeOK /\ Sub(d) \in Subs /\ Ev(d).plan \in Plans /\ delivery[d].plan \in Plans
  BY <1>1, EvType DEF TInv, TypeOK, DeliveryState
<1>3. Wrote(Sub(d))
  BY <1>2, SyncWrote, ClearWrote, StoreWrote
     DEF Writes, HandleSync, HandleClear, WriteRetrieved
<1> QED
  BY <1>1, <1>2, <1>3 DEF Writes, HandleSync, HandleClear, WriteRetrieved, StoreCustomer

LEMMA OtherStep ==
  ASSUME [Next]_vars
  PROVE  UNCHANGED tenant \/ \E d \in Deliveries : Writes(d)
BY DEF Next, Stripe, SubscriptionChanges, SubscriptionStops, SubscriptionNamed, Emit,
       RequestStep, Handle, Deliver, Lookup, Create, Mark, Answer, Fails, ErrorSwallowed,
       Retrieve, Writes, vars

LEMMA OwnedStep == TInv /\ RowsOwned /\ [Next]_vars => RowsOwned'
<1> SUFFICES ASSUME TInv, RowsOwned, [Next]_vars PROVE RowsOwned'
  OBVIOUS
<1>0. TypeOK
  BY DEF TInv
<1>1. ASSUME NEW d \in Deliveries, Writes(d) PROVE RowsOwned'
  <2>1. Wrote(Sub(d))
    BY <1>1, WriteStep
  <2>2. PICK row \in TenantRow :
           /\ tenant' = [tenant EXCEPT ![TenantOf[Sub(d)]] = row]
           /\ TenantOf[Sub(d)] \in Tenants
                => row.sub \in {Sub(d), tenant[TenantOf[Sub(d)]].sub, NoSub}
    BY <2>1 DEF Wrote
  <2> QED
    BY <1>0, <2>2 DEF RowsOwned, TypeOK
<1>2. ASSUME UNCHANGED tenant PROVE RowsOwned'
  BY <1>2 DEF RowsOwned
<1> QED
  BY <1>1, <1>2, OtherStep

LEMMA PromiseInit == Init => Promise!Init
<1> SUFFICES ASSUME Init PROVE Promise!Init
  OBVIOUS
<1>1. SubjectOf = [i \in Ids |-> NoSub]
  BY BoundAssumption DEF Init, SubjectOf, Ids
<1>2. Binding = {}
  BY DEF Init, Binding
<1>3. tenant \in [Tenants -> TenantRow]
  BY DEF Init, FreeTenant, TenantRow
<1> QED
  BY <1>1, <1>2, <1>3 DEF Init, Promise!Init

\* An event that Stripe emits is a message sent, about its subscription.
LEMMA SendStep ==
  ASSUME TInv, NEW kind \in {"sync", "clear", "fetch", "checkout"}, NEW s \in Subs,
         NEW plan \in Plans, Emit(kind, s, plan)
  PROVE  Promise!Next
<1>0. TypeOK
  BY DEF TInv
<1> DEFINE m == Len(events')
<1>1. /\ Len(events) \in Nat /\ m = Len(events) + 1 /\ m <= MaxEvents
      /\ \A i \in 1..Len(events) : events'[i] = events[i]
      /\ events'[m].sub = s
  BY <1>0, EmitEvents
<1>2. UNCHANGED <<record, applied, answered, tenant>>
  BY DEF Emit
<1> HIDE DEF m
<1>3. m \in Ids
  BY <1>1, BoundAssumption DEF Ids
<1>4. \A i \in Ids : /\ i <= m <=> i <= Len(events) \/ i = m
                     /\ i <= Len(events) => i \in 1..Len(events) /\ i # m
  BY <1>1, BoundAssumption DEF Ids
<1>5. SubjectOf' = [SubjectOf EXCEPT ![m] = s] /\ SubjectOf[m] = NoSub
  <2>1. SubjectOf' = [i \in Ids |-> IF i <= m THEN events'[i].sub ELSE NoSub]
    BY DEF SubjectOf, m
  <2>2. \A i \in Ids : SubjectOf'[i] = IF i = m THEN s ELSE SubjectOf[i]
    BY <1>1, <1>4, <2>1 DEF SubjectOf
  <2>3. SubjectOf[m] = NoSub
    BY <1>1, <1>3 DEF SubjectOf
  <2> QED
    BY <2>1, <2>2, <2>3 DEF SubjectOf
<1>6. Binding' \in {Binding, Binding \cup {m}}
  <2> DEFINE Binds(i) == events'[i].kind \in {"sync", "clear"}
  <2>1. 1..m = 1..Len(events) \cup {m}
    BY <1>1
  <2>2. Binding' = {i \in 1..m : Binds(i)}
    BY DEF Binding, Lifecycle, m
  <2>3. Binding = {i \in 1..Len(events) : Binds(i)}
    BY <1>1 DEF Binding, Lifecycle
  <2> HIDE DEF Binds
  <2>4. Binding' = IF Binds(m) THEN Binding \cup {m} ELSE Binding
    BY <2>1, <2>2, <2>3
  <2> QED
    BY <2>4
<1>7. Promise!Send(m, s)
  BY <1>2, <1>5, <1>6 DEF Promise!Send
<1> QED
  BY <1>3, <1>7 DEF Promise!Next

\* Steps that leave the events alone do not change what they are about.
LEMMA SameMessages ==
  ASSUME UNCHANGED events
  PROVE  UNCHANGED <<SubjectOf, Binding>>
BY DEF SubjectOf, Binding, Lifecycle

LEMMA PromiseStep ==
  ASSUME InboxInv, [Next]_vars
  PROVE  [Promise!Next]_(Promise!vars)
<1> DEFINE Goal == [Promise!Next]_(Promise!vars)
<1>0. /\ TInv /\ TypeOK /\ AnswerMarked /\ Known /\ MarkApplied /\ Recorded /\ RowsOwned
  BY DEF InboxInv, AnsweredInv, HandledInv, TInv
<1>1. ASSUME Stripe PROVE Goal
  <2>1. PICK kind \in {"sync", "clear", "fetch", "checkout"}, s \in Subs, plan \in Plans :
            Emit(kind, s, plan)
    BY <1>0, <1>1 DEF Stripe, SubscriptionChanges, SubscriptionStops, SubscriptionNamed, TypeOK
  <2> QED
    BY <1>0, <2>1, SendStep
<1>2. ASSUME UNCHANGED <<events, record, applied, answered, tenant>> PROVE Goal
  BY <1>2, SameMessages DEF Promise!vars
<1>3. ASSUME NEW d \in Deliveries, NEW i \in Ids, Deliver(d, i) PROVE Goal
  BY <1>2, <1>3 DEF Deliver
<1>4. ASSUME NEW d \in Deliveries, Lookup(d) \/ Retrieve(d) \/ Fails(d) \/ ErrorSwallowed(d)
      PROVE  Goal
  BY <1>2, <1>4 DEF Lookup, Retrieve, Fails, ErrorSwallowed
<1>5. ASSUME NEW d \in Deliveries, Create(d) PROVE Goal
  <2>1. UNCHANGED <<events, applied, answered, tenant>>
    BY <1>5 DEF Create
  <2>2. Id(d) \in Ids /\ Id(d) \in 1..Len(events) /\ Sub(d) \in Subs
    BY <1>0, <1>5, EvType DEF Create
  <2>3. CASE record[Id(d)] = "absent"
    <3>1. SubjectOf[Id(d)] # NoSub
      BY <2>2, SubsAssumption DEF SubjectOf, Sub, Ev
    <3>2. record' = [record EXCEPT ![Id(d)] = "seen"]
      BY <1>0, <1>5, <2>2, <2>3 DEF Create, TypeOK
    <3>3. Promise!Record(Id(d))
      BY <2>1, <2>3, <3>1, <3>2, SameMessages DEF Promise!Record
    <3> QED
      BY <2>2, <3>3 DEF Promise!Next
  <2>4. CASE record[Id(d)] # "absent"
    <3>1. record' = record
      BY <1>0, <1>5, <2>2, <2>4 DEF Create, TypeOK
    <3> QED
      BY <1>2, <2>1, <3>1
  <2> QED
    BY <2>3, <2>4
<1>6. ASSUME NEW d \in Deliveries, Mark(d) PROVE Goal
  <2>1. /\ UNCHANGED <<events, applied, answered, tenant>> /\ delivery[d].pc = "mark"
        /\ record' = [record EXCEPT ![Id(d)] = "processed"]
    BY <1>6 DEF Mark
  <2>2. Id(d) \in Ids /\ record[Id(d)] # "absent"
    BY <1>0, <2>1, EvType DEF Recorded
  <2>3. Id(d) \in Binding => Id(d) \in applied
    BY <1>0, <2>1 DEF MarkApplied, Binding
  <2>4. Promise!Settle(Id(d))
    BY <2>1, <2>2, <2>3, SameMessages DEF Promise!Settle
  <2> QED
    BY <2>2, <2>4 DEF Promise!Next
<1>7. ASSUME NEW d \in Deliveries, Answer(d) PROVE Goal
  <2>1. /\ UNCHANGED <<events, applied, record, tenant>> /\ delivery[d].pc = "answer"
        /\ answered' = answered \cup {Id(d)}
    BY <1>7 DEF Answer
  <2>2. Id(d) \in Ids /\ record[Id(d)] = "processed"
    BY <1>0, <2>1, EvType DEF AnswerMarked
  <2>3. Promise!Acknowledge(Id(d))
    BY <2>1, <2>2, SameMessages DEF Promise!Acknowledge
  <2> QED
    BY <2>2, <2>3 DEF Promise!Next
<1>8. ASSUME NEW d \in Deliveries, Writes(d) PROVE Goal
  <2>1. /\ Wrote(Sub(d)) /\ delivery[d].pc \in {"handle", "write"}
        /\ applied' \in {applied, applied \cup {Id(d)}}
        /\ UNCHANGED <<events, answered, record>>
    BY <1>0, <1>8, WriteStep
  <2>2. Id(d) \in Ids /\ Id(d) \in 1..Len(events) /\ record[Id(d)] # "absent"
    BY <1>0, <2>1, EvType DEF Recorded
  <2>3. SubjectOf[Id(d)] = Sub(d)
    BY <2>2 DEF SubjectOf, Sub, Ev
  <2>4. \E row \in TenantRow : tenant' = [tenant EXCEPT ![TenantOf[SubjectOf[Id(d)]]] = row]
    BY <2>1, <2>3 DEF Wrote
  <2>5. Promise!Handle(Id(d))
    BY <2>1, <2>2, <2>4, SameMessages DEF Promise!Handle
  <2> QED
    BY <2>2, <2>5 DEF Promise!Next
<1>9. ASSUME UNCHANGED vars PROVE Goal
  BY <1>2, <1>9 DEF vars
<1> HIDE DEF Goal
<1>10. Goal
  BY <1>1, <1>3, <1>4, <1>5, <1>6, <1>7, <1>8, <1>9 DEF Next, RequestStep, Handle, Writes
<1> QED
  BY <1>10 DEF Goal

LEMMA InboxInvariance == Spec => []InboxInv
<1>1. Init => InboxInv
  <2> SUFFICES ASSUME Init PROVE InboxInv
    OBVIOUS
  <2>1. AnsweredInv /\ HandledInv
    BY SyncInit DEF SyncInv
  <2>2. Recorded /\ RowsOwned
    BY DEF Init, Recorded, RowsOwned, IdleDelivery, FreeTenant
  <2> QED
    BY <2>1, <2>2 DEF InboxInv
<1>2. InboxInv /\ [Next]_vars => InboxInv'
  BY InHandStep, TypeStep, AnsweredStep, HandledStep, RecordedStep, OwnedStep
     DEF InboxInv, AnsweredInv, HandledInv, TInv
<1> QED
  BY <1>1, <1>2, PTL DEF Spec

\* Whatever is repeated, reordered, overlaps, throws or dies, the webhook keeps the
\* promise of an inbox: nothing takes effect before it is recorded or outside its
\* tenant, and nothing is settled or acknowledged before it took effect.
THEOREM InboxKept == Spec => ImplementsInbox
<1>1. InboxInv /\ [Next]_vars => [Promise!Next]_(Promise!vars)
  BY PromiseStep
<1> QED
  BY <1>1, PromiseInit, InboxInvariance, PTL DEF Spec, ImplementsInbox, Promise!Spec

=============================================================================
