----------------------- MODULE LearningEvents_proofs -----------------------
(***************************************************************************)
(* The safety properties of LearningEvents for every number of requests,   *)
(* every set of payloads and every bound of the clock.                     *)
(*                                                                         *)
(* The argument: the events that exist anywhere only ever grow, and they   *)
(* grow in the one step that writes the row (EventsStep).  What an update  *)
(* adds is a function of the state it read and the state it left, and both *)
(* are states the row has had (Seen).                                      *)
(***************************************************************************)
EXTENDS LearningEvents, TLAPS

-----------------------------------------------------------------------------
(* Types.                                                                  *)

LEMMA NoPayloadType == NoPayload \in Payload
  BY PayloadsAssumption DEF Payload, NoPayload

LEMMA NewType == New \in Request /\ NewRow \in Row
<1>1. NewRow \in Row
  BY TimeAssumption DEF NewRow, Row
<1> QED
  BY <1>1, NoPayloadType, TimeAssumption DEF New, Request

\* An update leaves a row.
LEMMA UpdatedType ==
  ASSUME NEW old \in Row, NEW p \in Payload, NEW now \in 0..MaxTime
  PROVE  Updated(old, p, now) \in Row
<1>1. Given(p.progress, old.progress) \in Nat /\ Given(p.lessons, old.lessons) \in Nat
  BY PayloadsAssumption DEF Given, Payload, Row
<1>2. /\ p.completed \in {"true", "false", "unset"}
      /\ old.completedAt \in 0..MaxTime /\ 0 \in 0..MaxTime
  BY TimeAssumption DEF Payload, Row
<1>3. (CASE p.completed = "true"  -> now
         [] p.completed = "false" -> 0
         [] OTHER                 -> old.completedAt) \in 0..MaxTime
  BY <1>2
<1> QED
  BY <1>1, <1>3 DEF Updated, Row

LEMMA EventsType ==
  ASSUME NEW before \in Row, NEW after \in Row, NEW touch \in BOOLEAN
  PROVE  EventsOf(before, after, touch) \subseteq Event
<1>1. /\ None \in Event /\ after.progress \in Nat /\ after.lessons \in Nat
      /\ after.completedAt \in 0..MaxTime
  BY TimeAssumption DEF None, Event, Kinds, Row
<1>2. Started(after, touch) \in Event
  BY <1>1 DEF Started, Event, None, Kinds
<1>3. LessonCompleted(after.lessons) \in Event
  BY <1>1 DEF LessonCompleted, Event, None, Kinds
<1>4. /\ CourseCompleted(after.completedAt) \in Event
      /\ CertificationEarned(after.completedAt) \in Event
  BY <1>1 DEF CourseCompleted, CertificationEarned, Event, None, Kinds
<1> QED
  BY <1>2, <1>3, <1>4 DEF EventsOf

LEMMA EventsOfRequest ==
  ASSUME TypeOK, NEW r \in Requests
  PROVE  Events(r) \subseteq Event
<1>1. /\ request[r].before \in Row /\ request[r].after \in Row
      /\ request[r].payload.touch \in BOOLEAN
  BY DEF TypeOK, Request, Payload
<1> QED
  BY <1>1, EventsType DEF Events

\* What an update makes of the request that asked for it.
AfterUpdate(r) ==
    [New EXCEPT !.pc = "updated", !.payload.touch = request[r].payload.touch,
                !.before = request[r].before, !.after = Answer(request[r])]

LEMMA UpdateEffect ==
  ASSUME TypeOK, NEW r \in Requests, Update(r)
  PROVE  /\ request[r].pc = "checked"
         /\ row' \in Row /\ row' = Updated(row, request[r].payload, request[r].now)
         /\ request'[r] \in Request
         /\ request'[r].pc = "updated" /\ request'[r].after = row'
         /\ request'[r].before = request[r].before /\ request[r].before \in Row
         /\ request' = [request' EXCEPT ![r] = request'[r]]
         /\ \A s \in Requests \ {r} : request'[s] = [request[s] EXCEPT !.fresh = FALSE]
         /\ held' = held \cup {row'}
         /\ first' = IF first = 0 THEN row'.completedAt ELSE first
         /\ turns' = IF row.completedAt = 0 THEN turns \cup ({row'.completedAt} \ {0}) ELSE turns
         /\ outdated' = IF request[r].fresh THEN outdated
                        ELSE outdated \cup ({row'.completedAt} \ {0})
         /\ UNCHANGED <<clock, enrolled, sending, buffer, lost>>
<1>1. /\ request[r] \in Request /\ row \in Row
      /\ request[r].payload \in Payload /\ request[r].now \in 0..MaxTime
      /\ request[r].before \in Row
  BY DEF TypeOK, Request
<1>2. Answer(request[r]) = Updated(row, request[r].payload, request[r].now)
  BY DEF Answer
<1>3. Updated(row, request[r].payload, request[r].now) \in Row
  BY <1>1, UpdatedType
<1>4. /\ row' = Updated(row, request[r].payload, request[r].now)
      /\ request' = [s \in Requests |-> IF s # r THEN [request[s] EXCEPT !.fresh = FALSE]
                                        ELSE AfterUpdate(r)]
  BY DEF Update, AfterUpdate
<1>5. /\ AfterUpdate(r) \in Request
      /\ AfterUpdate(r).pc = "updated" /\ AfterUpdate(r).before = request[r].before
      /\ AfterUpdate(r).after = Answer(request[r])
  <2>1. request[r].payload.touch \in BOOLEAN
    BY <1>1 DEF Payload
  <2>2. [NoPayload EXCEPT !.touch = request[r].payload.touch] \in Payload
    BY <2>1, NoPayloadType DEF Payload
  <2> QED
    BY <1>1, <1>2, <1>3, <2>2, NewType DEF AfterUpdate, New, Request
<1> QED
  BY <1>1, <1>2, <1>3, <1>4, <1>5 DEF Update

LEMMA TypeInit == Init => TypeOK
  BY NewType, TimeAssumption DEF Init, TypeOK

\* A step that moves a request to a new state of its own.
LEMMA RequestType ==
  ASSUME TypeOK, NEW r \in Requests, NEW q \in Request, request' = [request EXCEPT ![r] = q]
  PROVE  request' \in [Requests -> Request]
  BY DEF TypeOK

LEMMA TypeStep == TypeOK /\ [Next]_vars => TypeOK'
<1> SUFFICES ASSUME TypeOK, [Next]_vars PROVE TypeOK'
  OBVIOUS
<1>1. CASE Tick
  <2>1. clock' \in 1..MaxTime
    BY <1>1, TimeAssumption DEF Tick, TypeOK
  <2> QED
    BY <1>1, <2>1 DEF Tick, TypeOK, history
<1>2. ASSUME NEW r \in Requests, NEW p \in Payloads, Get(r, p) PROVE TypeOK'
  <2>1. [New EXCEPT !.pc = "read", !.payload = p, !.before = row, !.fresh = TRUE] \in Request
    BY NewType, PayloadsAssumption DEF TypeOK, Request
  <2> QED
    BY <1>2, <2>1, RequestType DEF Get, TypeOK, history
<1>3. ASSUME NEW r \in Requests, Check(r) PROVE TypeOK'
  <2>1. [request[r] EXCEPT !.pc = "checked", !.now = clock] \in Request
    <3>1. clock \in 0..MaxTime /\ request[r] \in Request
      BY TimeAssumption DEF TypeOK
    <3> QED
      BY <3>1 DEF Request
  <2>2. request' = [request EXCEPT ![r] = [request[r] EXCEPT !.pc = "checked", !.now = clock]]
    BY <1>3 DEF Check, TypeOK, Request
  <2> QED
    BY <1>3, <2>1, <2>2, RequestType DEF Check, TypeOK, history
<1>4. ASSUME NEW r \in Requests, Update(r) PROVE TypeOK'
  <2>1. \A s \in Requests : request'[s] \in Request
    <3>1. \A s \in Requests : [request[s] EXCEPT !.fresh = FALSE] \in Request
      BY DEF TypeOK, Request
    <3> QED
      BY <1>4, <3>1, UpdateEffect
  <2>2. request' \in [Requests -> Request]
    <3>1. request' = [s \in Requests |-> request'[s]]
      BY <1>4 DEF Update
    <3> QED
      BY <2>1, <3>1
  <2>3. row'.completedAt \in 0..MaxTime /\ row'.completedAt \in {0} \cup 1..MaxTime
    BY <1>4, UpdateEffect, TimeAssumption DEF Row
  <2> QED
    BY <1>4, <2>2, <2>3, UpdateEffect DEF TypeOK
<1>5. ASSUME NEW r \in Requests, Emit(r) PROVE TypeOK'
  <2>1. [New EXCEPT !.pc = "done"] \in Request
    BY NewType DEF Request
  <2> QED
    BY <1>5, <2>1, RequestType, EventsOfRequest DEF Emit, Done, TypeOK, history
<1>6. ASSUME NEW r \in Requests, NotFound(r) \/ Dies(r) PROVE TypeOK'
  <2>1. [New EXCEPT !.pc = "done"] \in Request
    BY NewType DEF Request
  <2> QED
    BY <1>6, <2>1, RequestType, EventsOfRequest DEF NotFound, Dies, Done, TypeOK, history
<1>7. ASSUME NEW e \in sending, Append(e) \/ Fails(e) PROVE TypeOK'
  BY <1>7 DEF Append, Fails, TypeOK, history
<1>8. CASE Unenroll
  BY <1>8 DEF Unenroll, TypeOK, history
<1>9. CASE UNCHANGED vars
  BY <1>9 DEF vars, TypeOK, history
<1> QED
  BY <1>1, <1>2, <1>3, <1>4, <1>5, <1>6, <1>7, <1>8, <1>9 DEF Next, Step

\* The types of LearningEvents hold for every value of its constants.
THEOREM TypeCorrect == Spec => []TypeOK
<1> QED
  BY TypeInit, TypeStep, PTL DEF Spec

-----------------------------------------------------------------------------
(* The events that exist, wherever they are, and the step that adds some.  *)

All == buffer \cup sending \cup lost \cup InHand

Unchanging == UNCHANGED <<row, held, first, turns, outdated>>

LEMMA AccountedIsInAll == \A e : Accounted(e) <=> e \in All
  BY DEF Accounted, All

\* Events in hand change only with the requests that have updated the row.
LEMMA InHandMembers ==
  /\ \A e : e \in InHand <=> \E r \in Requests : request[r].pc = "updated" /\ e \in Events(r)
  /\ \A e : e \in InHand' <=> \E r \in Requests : request'[r].pc = "updated" /\ e \in Events(r)'
  BY DEF InHand

LEMMA InHandSame ==
  ASSUME request' = request
  PROVE  InHand' = InHand
  BY InHandMembers DEF Events

\* A request that has not updated the row moves on without events.
LEMMA InHandEarly ==
  ASSUME TypeOK, NEW r \in Requests, NEW q, request' = [request EXCEPT ![r] = q],
         request[r].pc # "updated", q.pc # "updated"
  PROVE  InHand' = InHand
<1>1. \A s \in Requests : s # r => request'[s] = request[s] /\ Events(s)' = Events(s)
  BY DEF TypeOK, Events
<1>2. request'[r].pc # "updated"
  BY DEF TypeOK
<1>3. \A e : e \in InHand' <=> e \in InHand
  BY <1>1, <1>2, InHandMembers
<1> QED
  BY <1>3

\* A request that has, hands them over.
LEMMA InHandLate ==
  ASSUME TypeOK, NEW r \in Requests, NEW q, request' = [request EXCEPT ![r] = q],
         request[r].pc = "updated", q.pc # "updated"
  PROVE  InHand = InHand' \cup Events(r)
<1>1. \A s \in Requests : s # r => request'[s] = request[s] /\ Events(s)' = Events(s)
  BY DEF TypeOK, Events
<1>2. request'[r].pc # "updated"
  BY DEF TypeOK
<1> QED
  BY <1>1, <1>2, InHandMembers

LEMMA PcEffect ==
  /\ \A p, row0 : [New EXCEPT !.pc = "read", !.payload = p, !.before = row0, !.fresh = TRUE].pc
                    = "read"
  /\ [New EXCEPT !.pc = "done"].pc = "done"
  BY DEF New

\* No step but an update adds an event or changes the row, and no step drops one.
LEMMA EventsStep ==
  ASSUME TypeOK, [Next]_vars
  PROVE  \/ All' = All /\ Unchanging
         \/ \E r \in Requests : Update(r) /\ All' = All \cup Events(r)'
<1>1. ASSUME Tick \/ Unenroll \/ UNCHANGED vars PROVE All' = All /\ Unchanging
  BY <1>1, InHandSame DEF Tick, Unenroll, vars, history, All, Unchanging
<1>2. ASSUME NEW r \in Requests, NEW p \in Payloads, Get(r, p) PROVE All' = All /\ Unchanging
  <2>1. InHand' = InHand
    BY <1>2, InHandEarly, PcEffect DEF Get
  <2> QED
    BY <1>2, <2>1 DEF Get, history, All, Unchanging
<1>3. ASSUME NEW r \in Requests, Check(r) PROVE All' = All /\ Unchanging
  <2> DEFINE q == [request[r] EXCEPT !.pc = "checked", !.now = clock]
  <2>1. request' = [request EXCEPT ![r] = q] /\ q.pc = "checked" /\ request[r].pc = "read"
    BY <1>3 DEF Check, TypeOK, Request
  <2>2. InHand' = InHand
    <3> HIDE DEF q
    <3> QED
      BY <2>1, InHandEarly
  <2> QED
    BY <1>3, <2>2 DEF Check, history, All, Unchanging
<1>4. ASSUME NEW r \in Requests, Update(r) PROVE All' = All \cup Events(r)'
  <2>1. /\ request[r].pc = "checked" /\ request'[r].pc = "updated"
        /\ UNCHANGED <<sending, buffer, lost>>
    BY <1>4, UpdateEffect
  <2>2. \A s \in Requests \ {r} : request'[s].pc = request[s].pc /\ Events(s)' = Events(s)
    <3> SUFFICES ASSUME NEW s \in Requests \ {r}
                 PROVE  request'[s].pc = request[s].pc /\ Events(s)' = Events(s)
      OBVIOUS
    <3>1. request'[s] = [request[s] EXCEPT !.fresh = FALSE] /\ request[s] \in Request
      BY <1>4, UpdateEffect DEF TypeOK
    <3>2. /\ request'[s].pc = request[s].pc /\ request'[s].before = request[s].before
          /\ request'[s].after = request[s].after /\ request'[s].payload = request[s].payload
      BY <3>1 DEF Request
    <3> QED
      BY <3>2 DEF Events
  <2>3. InHand' = InHand \cup Events(r)'
    BY <2>1, <2>2, InHandMembers
  <2> QED
    BY <2>1, <2>3 DEF All
<1>5. ASSUME NEW r \in Requests, Emit(r) PROVE All' = All /\ Unchanging
  <2>1. InHand = InHand' \cup Events(r)
    BY <1>5, InHandLate, PcEffect DEF Emit, Done
  <2> QED
    BY <1>5, <2>1 DEF Emit, history, All, Unchanging
<1>6. ASSUME NEW r \in Requests, NotFound(r) PROVE All' = All /\ Unchanging
  <2>1. request[r].pc # "updated"
    BY <1>6 DEF NotFound
  <2>2. InHand' = InHand
    BY <1>6, <2>1, InHandEarly, PcEffect DEF NotFound, Done
  <2> QED
    BY <1>6, <2>2 DEF NotFound, history, All, Unchanging
<1>7. ASSUME NEW r \in Requests, Dies(r) PROVE All' = All /\ Unchanging
  <2>1. CASE request[r].pc = "updated"
    <3>1. InHand = InHand' \cup Events(r)
      BY <1>7, <2>1, InHandLate, PcEffect DEF Dies, Done
    <3> QED
      BY <1>7, <2>1, <3>1 DEF Dies, history, All, Unchanging
  <2>2. CASE request[r].pc # "updated"
    <3>1. InHand' = InHand
      BY <1>7, <2>2, InHandEarly, PcEffect DEF Dies, Done
    <3> QED
      BY <1>7, <2>2, <3>1 DEF Dies, history, All, Unchanging
  <2> QED
    BY <2>1, <2>2
<1>8. ASSUME NEW e \in sending, Append(e) \/ Fails(e) PROVE All' = All /\ Unchanging
  BY <1>8, InHandSame DEF Append, Fails, history, All, Unchanging
<1> QED
  BY <1>1, <1>2, <1>3, <1>4, <1>5, <1>6, <1>7, <1>8 DEF Next, Step

-----------------------------------------------------------------------------
(* What a request has read and left are states the row has had, and a read *)
(* that is not outdated is the row.                                        *)

SeenBy(q) == /\ q.pc \in {"read", "checked", "updated"} => q.before \in held
             /\ q.pc = "updated" => q.after \in held
             /\ q.pc \in {"read", "checked"} /\ q.fresh => q.before = row

Seen == row \in held /\ \A r \in Requests : SeenBy(request[r])

LEMMA SeenStep == TypeOK /\ Seen /\ [Next]_vars => Seen'
<1> SUFFICES ASSUME TypeOK, Seen, [Next]_vars PROVE Seen'
  OBVIOUS
<1>0. ASSUME NEW r \in Requests, NEW q, request' = [request EXCEPT ![r] = q], SeenBy(q),
             UNCHANGED <<row, held>>
      PROVE  Seen'
  BY <1>0 DEF Seen, SeenBy, TypeOK
<1>1. ASSUME UNCHANGED <<row, held, request>> PROVE Seen'
  BY <1>1 DEF Seen, SeenBy
<1>2. ASSUME NEW r \in Requests, NEW p \in Payloads, Get(r, p) PROVE Seen'
  <2> DEFINE q == [New EXCEPT !.pc = "read", !.payload = p, !.before = row, !.fresh = TRUE]
  <2>1. q.pc = "read" /\ q.before = row
    BY DEF New
  <2>2. request' = [request EXCEPT ![r] = q] /\ UNCHANGED <<row, held>>
    BY <1>2 DEF Get, history
  <2> HIDE DEF q
  <2> QED
    BY <2>1, <2>2, <1>0 DEF SeenBy, Seen
<1>3. ASSUME NEW r \in Requests, Check(r) PROVE Seen'
  <2> DEFINE q == [request[r] EXCEPT !.pc = "checked", !.now = clock]
  <2>1. /\ request' = [request EXCEPT ![r] = q] /\ UNCHANGED <<row, held>>
        /\ q.pc = "checked" /\ q.before = request[r].before /\ q.fresh = request[r].fresh
        /\ request[r].pc = "read"
    BY <1>3 DEF Check, TypeOK, Request, history
  <2> HIDE DEF q
  <2> QED
    BY <2>1, <1>0 DEF SeenBy, Seen
<1>4. ASSUME NEW r \in Requests, Update(r) PROVE Seen'
  <2>1. SeenBy(request[r])'
    BY <1>4, UpdateEffect DEF SeenBy, Seen
  <2>2. ASSUME NEW s \in Requests \ {r} PROVE SeenBy(request[s])'
    <3>1. request'[s] = [request[s] EXCEPT !.fresh = FALSE] /\ request[s] \in Request
      BY <1>4, UpdateEffect DEF TypeOK
    <3>2. /\ request'[s].pc = request[s].pc /\ request'[s].before = request[s].before
          /\ request'[s].after = request[s].after /\ request'[s].fresh = FALSE
      BY <3>1 DEF Request
    <3> QED
      BY <1>4, <3>2, UpdateEffect DEF SeenBy, Seen
  <2> QED
    BY <1>4, <2>1, <2>2, UpdateEffect DEF Seen
<1>5. ASSUME NEW r \in Requests, Emit(r) \/ NotFound(r) \/ Dies(r) PROVE Seen'
  <2>1. /\ request' = [request EXCEPT ![r] = [New EXCEPT !.pc = "done"]]
        /\ UNCHANGED <<row, held>>
    BY <1>5 DEF Emit, NotFound, Dies, Done, history
  <2>2. SeenBy([New EXCEPT !.pc = "done"])
    BY PcEffect DEF SeenBy
  <2> QED
    BY <2>1, <2>2, <1>0
<1>6. ASSUME NEW e \in sending, Append(e) \/ Fails(e) PROVE Seen'
  BY <1>6, <1>1 DEF Append, Fails, history
<1>7. CASE Tick \/ Unenroll \/ UNCHANGED vars
  BY <1>7, <1>1 DEF Tick, Unenroll, vars, history
<1> QED
  BY <1>2, <1>3, <1>4, <1>5, <1>6, <1>7 DEF Next, Step

LEMMA InitFacts ==
  ASSUME Init
  PROVE  Seen /\ All = {} /\ row = NewRow /\ held = {NewRow} /\ first = 0 /\ turns = {}
<1>1. \A r \in Requests : request[r].pc = "new"
  BY DEF Init, New
<1>2. InHand = {}
  BY <1>1, InHandMembers
<1> QED
  BY <1>1, <1>2 DEF Init, Seen, SeenBy, All

-----------------------------------------------------------------------------
(* The events.                                                             *)

\* The members of EventsOf, kind by kind.
LEMMA EventsMembers ==
  ASSUME NEW before, NEW after, NEW touch
  PROVE  /\ \A e \in EventsOf(before, after, touch) :
              \/ e = Started(after, touch)
              \/ e = LessonCompleted(after.lessons)
              \/ /\ CompletedNow(before, after)
                 /\ e \in {CourseCompleted(after.completedAt),
                           CertificationEarned(after.completedAt)}
         /\ LessonsIncreased(before, after) =>
              LessonCompleted(after.lessons) \in EventsOf(before, after, touch)
         /\ CompletedNow(before, after) =>
              /\ CourseCompleted(after.completedAt) \in EventsOf(before, after, touch)
              /\ CertificationEarned(after.completedAt) \in EventsOf(before, after, touch)
  BY DEF EventsOf

LEMMA EventFields ==
  /\ \A a, t : /\ Started(a, t).kind = "lesson.started"
               /\ Started(a, t).progress = a.progress /\ Started(a, t).lessons = a.lessons
  /\ \A n : /\ LessonCompleted(n).kind = "lesson.completed" /\ LessonCompleted(n).lessons = n
  /\ \A t : /\ CourseCompleted(t).kind = "course.completed" /\ CourseCompleted(t).at = t
            /\ CertificationEarned(t).kind = "certification.earned"
            /\ CertificationEarned(t).at = t
            /\ [CourseCompleted(t) EXCEPT !.kind = "certification.earned"]
                  = CertificationEarned(t)
  BY DEF Started, LessonCompleted, CourseCompleted, CertificationEarned, None

\* An update: the state it read, the state it left, and the events in between.
LEMMA UpdateEvents ==
  ASSUME TypeOK, Seen, NEW r \in Requests, Update(r)
  PROVE  /\ request[r].before \in held
         /\ request[r].fresh => request[r].before = row
         /\ Events(r)' = EventsOf(request[r].before, row', request'[r].payload.touch)
<1>1. /\ request[r].pc = "checked" /\ request'[r].before = request[r].before
      /\ request'[r].after = row'
  BY UpdateEffect
<1> QED
  BY <1>1 DEF Seen, SeenBy, Events

-----------------------------------------------------------------------------
(* The events describe states of the row.                                  *)

Describes(e, h) ==
    CASE e.kind = "lesson.started"   -> e.lessons = h.lessons /\ e.progress = h.progress
      [] e.kind = "lesson.completed" -> e.lessons = h.lessons
      [] OTHER                       -> e.at = h.completedAt

Described == \A e \in All : \E h \in held : Describes(e, h)

LEMMA DescribedStep == TypeOK /\ Seen /\ Described /\ [Next]_vars => Described'
<1> SUFFICES ASSUME TypeOK, Seen, Described, [Next]_vars PROVE Described'
  OBVIOUS
<1>1. CASE All' = All /\ Unchanging
  BY <1>1 DEF Described, Describes, Unchanging
<1>2. ASSUME NEW r \in Requests, Update(r), All' = All \cup Events(r)' PROVE Described'
  <2>1. held' = held \cup {row'}
    BY <1>2, UpdateEffect
  <2>2. ASSUME NEW e \in Events(r)' PROVE Describes(e, row')
    <3>1. \/ e = Started(row', request'[r].payload.touch)
          \/ e = LessonCompleted(row'.lessons)
          \/ e \in {CourseCompleted(row'.completedAt), CertificationEarned(row'.completedAt)}
      BY <1>2, <2>2, UpdateEvents, EventsMembers
    <3> QED
      BY <3>1, EventFields DEF Describes
  <2> QED
    BY <1>2, <2>1, <2>2 DEF Described, Describes
<1> QED
  BY <1>1, <1>2, EventsStep

\* An event describes one state that the enrollment has had, however updates
\* overlap.
THEOREM HappenedSafe == Spec => []EventsHappened
<1> DEFINE IInv == TypeOK /\ Seen /\ Described
<1>1. Init => IInv
  BY InitFacts, TypeInit DEF Described
<1>2. IInv /\ [Next]_vars => IInv'
  BY TypeStep, SeenStep, DescribedStep
<1>3. IInv => EventsHappened
  BY DEF Described, Describes, EventsHappened, All
<1> QED
  BY <1>1, <1>2, <1>3, PTL DEF Spec

-----------------------------------------------------------------------------
(* The largest number of lessons.                                          *)

LEMMA HighestStep == TypeOK /\ Seen /\ HighestReported /\ [Next]_vars => HighestReported'
<1> SUFFICES ASSUME TypeOK, Seen, HighestReported, [Next]_vars,
                    NEW h \in held', h.lessons > 0, \A g \in held' : g.lessons <= h.lessons
             PROVE  LessonCompleted(h.lessons) \in All'
  BY AccountedIsInAll DEF HighestReported, Accounted, All
<1>0. ASSUME NEW g \in held, h.lessons = g.lessons, All \subseteq All', held \subseteq held'
      PROVE  LessonCompleted(h.lessons) \in All'
  BY <1>0, AccountedIsInAll DEF HighestReported
<1>1. CASE All' = All /\ Unchanging
  BY <1>1, <1>0 DEF Unchanging
<1>2. ASSUME NEW r \in Requests, Update(r), All' = All \cup Events(r)'
      PROVE  LessonCompleted(h.lessons) \in All'
  <2>1. held' = held \cup {row'} /\ request[r].before \in held
    BY <1>2, UpdateEffect, UpdateEvents
  <2>2. CASE \E g \in held : g.lessons = h.lessons
    BY <1>2, <2>1, <2>2, <1>0
  <2>3. CASE ~\E g \in held : g.lessons = h.lessons
    <3>1. h = row' /\ request[r].before.lessons # row'.lessons
      BY <2>1, <2>3
    <3>2. request[r].before.lessons \in Nat /\ row'.lessons \in Nat
      BY <1>2, UpdateEffect DEF Row
    <3>3. LessonsIncreased(request[r].before, row')
      BY <2>1, <3>1, <3>2 DEF LessonsIncreased
    <3> QED
      BY <1>2, <3>1, <3>3, UpdateEvents, EventsMembers
  <2> QED
    BY <2>2, <2>3
<1> QED
  BY <1>1, <1>2, EventsStep

\* The largest number of completed lessons is reported, however many updates
\* overlap and however outdated their reads are.
THEOREM HighestSafe == Spec => []HighestReported
<1> DEFINE IInv == TypeOK /\ Seen /\ HighestReported
<1>1. Init => IInv
  BY InitFacts, TypeInit DEF HighestReported, NewRow
<1>2. IInv /\ [Next]_vars => IInv'
  BY TypeStep, SeenStep, HighestStep
<1>3. IInv => HighestReported
  OBVIOUS
<1> QED
  BY <1>1, <1>2, <1>3, PTL DEF Spec

-----------------------------------------------------------------------------
(* Completions.                                                            *)

\* Before the first completion nobody has seen one.
NoneBefore == first = 0 => \A h \in held : h.completedAt = 0

FirstInAll  == first # 0 => CourseCompleted(first) \in All
TurnsInAll  == \A t \in turns : t \in outdated \/ CourseCompleted(t) \in All
InPairs     == \A t \in 1..MaxTime : CertificationEarned(t) \in All <=> CourseCompleted(t) \in All
AllCounted  == \A e \in All : e.kind = "course.completed" => e.at \in turns \cup outdated

CompletedInv == TypeOK /\ Seen /\ NoneBefore /\ FirstInAll /\ TurnsInAll /\ InPairs /\ AllCounted

LEMMA CompletedNowEvents ==
  ASSUME TypeOK, Seen, NEW r \in Requests, Update(r), All' = All \cup Events(r)',
         request[r].before.completedAt = 0, row'.completedAt # 0
  PROVE  CourseCompleted(row'.completedAt) \in All'
<1>1. CompletedNow(request[r].before, row')
  BY DEF CompletedNow
<1> QED
  BY <1>1, UpdateEvents, EventsMembers

LEMMA FirstStep ==
  ASSUME CompletedInv, NEW r \in Requests, Update(r), All' = All \cup Events(r)'
  PROVE  NoneBefore' /\ FirstInAll'
<1>1. /\ held' = held \cup {row'} /\ first' = IF first = 0 THEN row'.completedAt ELSE first
      /\ request[r].before \in held
  BY UpdateEffect, UpdateEvents DEF CompletedInv
<1>2. NoneBefore'
  BY <1>1 DEF CompletedInv, NoneBefore
<1>3. CASE first # 0
  BY <1>1, <1>2, <1>3 DEF CompletedInv, FirstInAll
<1>4. CASE first = 0
  <2>1. request[r].before.completedAt = 0
    BY <1>1, <1>4 DEF CompletedInv, NoneBefore
  <2>2. row'.completedAt # 0 => CourseCompleted(row'.completedAt) \in All'
    BY <2>1, CompletedNowEvents DEF CompletedInv
  <2> QED
    BY <1>1, <1>2, <1>4, <2>2 DEF FirstInAll
<1> QED
  BY <1>3, <1>4

LEMMA TurnsStep ==
  ASSUME CompletedInv, NEW r \in Requests, Update(r), All' = All \cup Events(r)'
  PROVE  TurnsInAll'
<1>1. /\ turns' = IF row.completedAt = 0 THEN turns \cup ({row'.completedAt} \ {0}) ELSE turns
      /\ outdated' = IF request[r].fresh THEN outdated
                     ELSE outdated \cup ({row'.completedAt} \ {0})
      /\ request[r].fresh => request[r].before = row
  BY UpdateEffect, UpdateEvents DEF CompletedInv
<1>2. ASSUME row.completedAt = 0, row'.completedAt # 0
      PROVE  row'.completedAt \in outdated' \/ CourseCompleted(row'.completedAt) \in All'
  <2>1. CASE request[r].fresh
    BY <1>1, <1>2, <2>1, CompletedNowEvents DEF CompletedInv
  <2>2. CASE ~request[r].fresh
    BY <1>1, <1>2, <2>2
  <2> QED
    BY <2>1, <2>2
<1> QED
  BY <1>1, <1>2 DEF CompletedInv, TurnsInAll

\* The events of an update are about one completion, and it counts.
LEMMA PairsStep ==
  ASSUME CompletedInv, NEW r \in Requests, Update(r), All' = All \cup Events(r)'
  PROVE  InPairs' /\ AllCounted'
<1> DEFINE before == request[r].before
<1>1. /\ Events(r)' = EventsOf(before, row', request'[r].payload.touch)
      /\ request[r].fresh => before = row
      /\ turns' = IF row.completedAt = 0 THEN turns \cup ({row'.completedAt} \ {0}) ELSE turns
      /\ outdated' = IF request[r].fresh THEN outdated
                     ELSE outdated \cup ({row'.completedAt} \ {0})
  BY UpdateEffect, UpdateEvents DEF CompletedInv
<1>2. ASSUME NEW e \in Events(r)', e.kind \in {"course.completed", "certification.earned"}
      PROVE  /\ CompletedNow(before, row') /\ e.at = row'.completedAt
             /\ e \in {CourseCompleted(e.at), CertificationEarned(e.at)}
  BY <1>1, <1>2, EventsMembers, EventFields
<1>3. CompletedNow(before, row') =>
        /\ CourseCompleted(row'.completedAt) \in Events(r)'
        /\ CertificationEarned(row'.completedAt) \in Events(r)'
        /\ row'.completedAt \in turns' \cup outdated'
  BY <1>1, EventsMembers DEF CompletedNow
<1>4. InPairs'
  <2> SUFFICES ASSUME NEW t \in 1..MaxTime
               PROVE  CertificationEarned(t) \in All' <=> CourseCompleted(t) \in All'
    BY DEF InPairs
  <2>1. CertificationEarned(t) \in Events(r)' <=> CourseCompleted(t) \in Events(r)'
    BY <1>2, <1>3, EventFields
  <2> QED
    BY <2>1 DEF CompletedInv, InPairs
<1>5. AllCounted'
  <2> SUFFICES ASSUME NEW e \in All', e.kind = "course.completed"
               PROVE  e.at \in turns' \cup outdated'
    BY DEF AllCounted
  <2>1. CASE e \in All
    BY <1>1, <2>1 DEF CompletedInv, AllCounted
  <2>2. CASE e \in Events(r)'
    BY <1>2, <1>3, <2>2
  <2> QED
    BY <2>1, <2>2
<1> QED
  BY <1>4, <1>5

LEMMA CompletedStep == CompletedInv /\ [Next]_vars => CompletedInv'
<1> SUFFICES ASSUME CompletedInv, [Next]_vars PROVE CompletedInv'
  OBVIOUS
<1>1. TypeOK' /\ Seen'
  BY TypeStep, SeenStep DEF CompletedInv
<1>2. CASE All' = All /\ Unchanging
  BY <1>1, <1>2 DEF CompletedInv, NoneBefore, FirstInAll, TurnsInAll, InPairs, AllCounted, Unchanging
<1>3. ASSUME NEW r \in Requests, Update(r), All' = All \cup Events(r)' PROVE CompletedInv'
  BY <1>1, <1>3, FirstStep, TurnsStep, PairsStep DEF CompletedInv
<1> QED
  BY <1>2, <1>3, EventsStep DEF CompletedInv

LEMMA CompletedInit == Init => CompletedInv
  BY InitFacts, TypeInit
     DEF CompletedInv, NoneBefore, FirstInAll, TurnsInAll, InPairs, AllCounted, NewRow

\* Of a completion no event is missing that no failed call took.
THEOREM CompletionsSafe == Spec => []CompletionsReported
<1>1. CompletedInv => CompletionsReported
  BY AccountedIsInAll, EventFields
     DEF CompletedInv, FirstInAll, TurnsInAll, InPairs, CompletionsReported, FirstCompletionReported,
         LaterCompletionsReported, CertifiedIsCompleted, All
<1> QED
  BY <1>1, CompletedInit, CompletedStep, PTL DEF Spec

\* The reports count no completion twice: what they count turned an enrollment
\* that was not completed into one that is, or came from an outdated read.
THEOREM ReportSafe == Spec => []ReportCountsCompletions
<1>1. CompletedInv => ReportCountsCompletions
  BY DEF CompletedInv, AllCounted, ReportCountsCompletions, CompletionReport, All
<1> QED
  BY <1>1, CompletedInit, CompletedStep, PTL DEF Spec

=============================================================================
