--------------------------- MODULE LearningEvents ---------------------------
(***************************************************************************)
(* The learning events of one enrollment: updateEnrollment of the gateway  *)
(* (course-gateway.service.ts) reads the enrollment, has course-service    *)
(* update it, and derives events from the two answers                      *)
(* (analytics-gateway.service.ts), which analytics-webhook-service buffers *)
(* once per idempotency key.  The three calls are separate, other updates  *)
(* of the enrollment run between them, and a failure to send an event is   *)
(* logged and forgotten.                                                   *)
(*                                                                         *)
(* An event is the record of what its idempotency key is made of.          *)
(***************************************************************************)
EXTENDS Integers, FiniteSets

CONSTANTS
    Requests,    \* bound: updates of the enrollment that are ever asked for
    Payloads,    \* what a client may send
    Unset,       \* a field that is not in the payload
    MaxTime      \* bound: the clock

Row     == [progress : Nat, lessons : Nat, completedAt : 0..MaxTime]   \* 0 is null
Payload == [progress : Nat \cup {Unset}, lessons : Nat \cup {Unset},
            completed : {"true", "false", "unset"}, touch : BOOLEAN]

\* "No fields to update"
NoPayload == [progress |-> Unset, lessons |-> Unset, completed |-> "unset", touch |-> FALSE]

ASSUME PayloadsAssumption == Payloads \subseteq Payload \ {NoPayload} /\ Unset \notin Nat
ASSUME TimeAssumption     == MaxTime \in Nat \ {0}

VARIABLES
    clock,
    row,         \* the enrollment
    enrolled,    \* the row exists
    request,     \* the locals of each request
    sending,     \* events on their way to analytics-webhook-service
    buffer,      \* EventBuffer
    lost,        \* history: events that nobody will send again
    held,        \* history: the states the row has been in
    first,       \* history: the first completedAt, or 0
    turns,       \* history: the completedAt that followed a null
    outdated     \* history: completedAt left by updates whose read was outdated by then

history == <<held, first, turns, outdated>>
vars == <<clock, row, enrolled, request, sending, buffer, lost, history>>

NewRow  == [progress |-> 0, lessons |-> 0, completedAt |-> 0]
Request == [pc : {"new", "read", "checked", "updated", "done"}, payload : Payload,
            before : Row, after : Row, now : 0..MaxTime, fresh : BOOLEAN]

Kinds == {"lesson.started", "lesson.completed", "course.completed", "certification.earned"}
Event == [kind : Kinds, progress : Nat, lessons : Nat, touch : BOOLEAN, at : 0..MaxTime]

TypeOK ==
    /\ clock    \in 1..MaxTime
    /\ row      \in Row
    /\ enrolled \in BOOLEAN
    /\ request  \in [Requests -> Request]
    /\ sending  \subseteq Event
    /\ buffer   \subseteq Event
    /\ lost     \subseteq Event
    /\ held     \subseteq Row
    /\ first    \in 0..MaxTime
    /\ turns    \subseteq 1..MaxTime
    /\ outdated \subseteq 1..MaxTime

New == [pc |-> "new", payload |-> NoPayload, before |-> NewRow, after |-> NewRow,
        now |-> 0, fresh |-> FALSE]

Init ==
    /\ clock    = 1
    /\ row      = NewRow
    /\ enrolled = TRUE
    /\ request  = [r \in Requests |-> New]
    /\ sending  = {}
    /\ buffer   = {}
    /\ lost     = {}
    /\ held     = {NewRow}
    /\ first    = 0
    /\ turns    = {}
    /\ outdated = {}

-----------------------------------------------------------------------------
(* emitLearningEventsFromEnrollmentUpdate.                                 *)

None == [kind |-> "lesson.started", progress |-> 0, lessons |-> 0, touch |-> FALSE, at |-> 0]

Started(after, touch) == [None EXCEPT !.progress = after.progress, !.lessons = after.lessons,
                                      !.touch = touch]
LessonCompleted(n)    == [None EXCEPT !.kind = "lesson.completed", !.lessons = n]
CourseCompleted(t)    == [None EXCEPT !.kind = "course.completed", !.at = t]
CertificationEarned(t) == [None EXCEPT !.kind = "certification.earned", !.at = t]

\* Mutant: only one more lesson at a time is noticed.
LessonsIncreasedByOne(before, after) == after.lessons = before.lessons + 1
LessonsIncreased(before, after) == after.lessons > before.lessons

\* Mutant: a row that is completed was completed now.
CompletedAnyTime(before, after) == after.completedAt # 0
\* Mutant: a completion is reported when the progress says so.
CompletedByProgress(before, after) ==
    before.completedAt = 0 /\ after.completedAt # 0 /\ after.progress > before.progress
CompletedNow(before, after) == before.completedAt = 0 /\ after.completedAt # 0

EventsOf(before, after, touch) ==
       {e \in {Started(after, touch)} : \/ touch \/ after.progress > before.progress
                                        \/ LessonsIncreased(before, after)}
  \cup {e \in {LessonCompleted(after.lessons)} : LessonsIncreased(before, after)}
  \cup {e \in {CourseCompleted(after.completedAt), CertificationEarned(after.completedAt)} :
          CompletedNow(before, after)}

Events(r) == EventsOf(request[r].before, request[r].after, request[r].payload.touch)

-----------------------------------------------------------------------------
Tick ==
    /\ clock < MaxTime
    /\ clock' = clock + 1
    /\ UNCHANGED <<row, enrolled, request, sending, buffer, lost, history>>

\* getEnrollment, for the state before
Get(r, p) ==
    /\ request[r].pc = "new"
    /\ enrolled
    /\ request' = [request EXCEPT ![r] = [New EXCEPT !.pc = "read", !.payload = p,
                                                     !.before = row, !.fresh = TRUE]]
    /\ UNCHANGED <<clock, row, enrolled, sending, buffer, lost, history>>

\* updateEnrollment of course-service, down to its now
Check(r) ==
    /\ request[r].pc = "read"
    /\ enrolled
    /\ request' = [request EXCEPT ![r].pc = "checked", ![r].now = clock]
    /\ UNCHANGED <<clock, row, enrolled, sending, buffer, lost, history>>

Given(field, old) == IF field = Unset THEN old ELSE field

Updated(old, p, now) ==
    [progress    |-> Given(p.progress, old.progress),
     lessons     |-> Given(p.lessons, old.lessons),
     completedAt |-> CASE p.completed = "true"  -> now
                       [] p.completed = "false" -> 0
                       [] OTHER                 -> old.completedAt]

\* Mutant: the earlier read with the payload applied.
AnswerFromRead(q) == Updated(q.before, q.payload, q.now)
Answer(q)         == Updated(row, q.payload, q.now)

Update(r) ==
    LET q == request[r]
        next == Updated(row, q.payload, q.now)
    IN
    /\ q.pc = "checked"
    /\ enrolled
    /\ row'      = next
    /\ request'  = [s \in Requests |->
                      IF s # r THEN [request[s] EXCEPT !.fresh = FALSE]
                      ELSE [New EXCEPT !.pc = "updated", !.payload.touch = q.payload.touch,
                                       !.before = q.before, !.after = Answer(q)]]
    /\ held'     = held \cup {next}
    /\ first'    = IF first = 0 THEN next.completedAt ELSE first
    /\ turns'    = IF row.completedAt = 0 THEN turns \cup ({next.completedAt} \ {0}) ELSE turns
    /\ outdated' = IF q.fresh THEN outdated ELSE outdated \cup ({next.completedAt} \ {0})
    /\ UNCHANGED <<clock, enrolled, sending, buffer, lost>>

Done(r) == request' = [request EXCEPT ![r] = [New EXCEPT !.pc = "done"]]

Emit(r) ==
    /\ request[r].pc = "updated"
    /\ sending' = sending \cup Events(r)
    /\ Done(r)
    /\ UNCHANGED <<clock, row, enrolled, buffer, lost, history>>

\* The row is gone: 404.
NotFound(r) ==
    /\ request[r].pc \in {"new", "read", "checked"}
    /\ ~enrolled
    /\ Done(r)
    /\ UNCHANGED <<clock, row, enrolled, sending, buffer, lost, history>>

\* A call fails, or the gateway stops, possibly after the update was committed.
Dies(r) ==
    /\ request[r].pc \in {"read", "checked", "updated"}
    /\ lost' = IF request[r].pc = "updated" THEN lost \cup Events(r) ELSE lost
    /\ Done(r)
    /\ UNCHANGED <<clock, row, enrolled, sending, buffer, history>>

\* appendEvent: upsert by idempotencyKey, with nothing to update
Append(e) ==
    /\ e \in sending
    /\ sending' = sending \ {e}
    /\ buffer'  = buffer \cup {e}
    /\ UNCHANGED <<clock, row, enrolled, request, lost, history>>

\* Promise.allSettled
Fails(e) ==
    /\ e \in sending
    /\ sending' = sending \ {e}
    /\ lost'    = lost \cup {e}
    /\ UNCHANGED <<clock, row, enrolled, request, buffer, history>>

Unenroll ==
    /\ enrolled
    /\ enrolled' = FALSE
    /\ UNCHANGED <<clock, row, request, sending, buffer, lost, history>>

Step(r) == Check(r) \/ Update(r) \/ Emit(r) \/ NotFound(r)

Next == \/ \E r \in Requests : Step(r) \/ Dies(r) \/ \E p \in Payloads : Get(r, p)
        \/ \E e \in sending : Append(e) \/ Fails(e)
        \/ Tick
        \/ Unenroll

Spec == Init /\ [][Next]_vars

-----------------------------------------------------------------------------
(* Properties.                                                             *)

\* completionReport and engagementReport count the rows of one event type.
CompletionReport == {e \in buffer : e.kind = "course.completed"}

InHand == UNION {IF request[r].pc = "updated" THEN Events(r) ELSE {} : r \in Requests}

\* An event was buffered, is on its way, was lost, or is about to be sent.
Accounted(e) == e \in buffer \cup sending \cup lost \cup InHand

\* An event describes one state that the enrollment has had, never a mix of what
\* two overlapping updates saw and wrote.
EventsHappened ==
    \A e \in buffer : \E h \in held :
        CASE e.kind = "lesson.started"   -> e.lessons = h.lessons /\ e.progress = h.progress
          [] e.kind = "lesson.completed" -> e.lessons = h.lessons
          [] OTHER                       -> e.at = h.completedAt

\* However updates overlap, whatever order their events arrive in, and although
\* each compares with a state that may be outdated: the largest number of
\* completed lessons is reported, unless the events of its update were lost.
HighestReported ==
    \A h \in held : (h.lessons > 0 /\ \A g \in held : g.lessons <= h.lessons)
                       => Accounted(LessonCompleted(h.lessons))

\* The first completion of the course is reported, unless its events were lost.
FirstCompletionReported == first # 0 => Accounted(CourseCompleted(first))

\* A later one, after the enrollment was reopened, is reported as well unless its
\* update had read the enrollment before another update changed it.
LaterCompletionsReported ==
    \A t \in turns : t \in outdated \/ Accounted(CourseCompleted(t))

\* A certification is reported if and only if the completion is, but for what was
\* lost: the two events arrive in any order.
CertifiedIsCompleted ==
    \A t \in 1..MaxTime :
        LET certification == [CourseCompleted(t) EXCEPT !.kind = "certification.earned"] IN
        /\ certification \in buffer => Accounted(CourseCompleted(t))
        /\ CourseCompleted(t) \in buffer => Accounted(certification)

\* Of a completion no event is missing that no failed call took.
CompletionsReported ==
    FirstCompletionReported /\ LaterCompletionsReported /\ CertifiedIsCompleted

\* The completions that the reports count are completions of an enrollment that
\* was not completed, unless the update that reported one had an outdated read:
\* setting completed again reports nothing.
ReportCountsCompletions ==
    \A e \in CompletionReport : e.at \in turns \cup outdated

=============================================================================
