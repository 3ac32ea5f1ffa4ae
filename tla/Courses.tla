------------------------------ MODULE Courses ------------------------------
(***************************************************************************)
(* course-service (course-service.service.ts): the rows of Course, Lesson  *)
(* and Enrollment.  A handler that looks a row up and then writes it, or   *)
(* counts rows and then creates one, awaits in between, and other requests *)
(* run there.                                                              *)
(*                                                                         *)
(* Of the contents of a row (title, body, progress) the module keeps who   *)
(* wrote them last.  Ids are never used again.                             *)
(***************************************************************************)
EXTENDS Integers, FiniteSets

CONSTANTS
    Tenants, Users, Requests,
    Courses, Lessons, Enrollments,  \* ids
    Tiers, FREE,
    Limit,                          \* maxCoursesForSubscriptionTier
    NoLimit,                        \* its null
    Unused, Deleted,                \* an id not given yet, an id whose row is gone
    None,                           \* no value
    Staff                           \* an acting role other than LEARNER

ASSUME RequestsAssumption == IsFiniteSet(Requests) /\ Requests # {}
ASSUME CoursesAssumption  == IsFiniteSet(Courses)
ASSUME LimitAssumption    == /\ FREE \in Tiers
                             /\ Limit \in [Tiers -> Nat \cup {NoLimit}] /\ NoLimit \notin Nat
ASSUME NamesAssumption    == /\ None \notin Tenants \cup Courses \cup Users \cup Lessons \cup Enrollments
                             /\ Staff \notin Users /\ Staff # None

VARIABLES
    had,         \* the tiers a tenant has had: an access token that is still good may carry any
    course, lesson, enrollment,
    request,     \* the locals of each request
    granted      \* history: the highest limit a creation of the tenant was checked against

vars == <<had, course, lesson, enrollment, request, granted>>

Gone == {Unused, Deleted}

CourseRow     == [tenant : Tenants, by : Tenants]
LessonRow     == [tenant : Tenants, course : Courses, by : Tenants]
EnrollmentRow == [tenant : Tenants, course : Courses, user : Users,
                  by : Tenants, actor : Users \cup {Staff}]

ASSUME GoneAssumption ==
    /\ Unused # Deleted
    /\ Gone \cap (CourseRow \cup LessonRow \cup EnrollmentRow) = {}

Places  == {"idle", "createCourse", "createLesson", "writeLesson", "enroll", "writeEnrollment"}
Request == [pc : Places, tenant : Tenants \cup {None}, course : Courses \cup {None},
            row : Lessons \cup Enrollments \cup {None},
            actor : Users \cup {Staff, None}]

Idle == [pc |-> "idle", tenant |-> None, course |-> None, row |-> None, actor |-> None]

TypeOK ==
    /\ had        \in [Tenants -> SUBSET Tiers]
    /\ course     \in [Courses -> CourseRow \cup Gone]
    /\ lesson     \in [Lessons -> LessonRow \cup Gone]
    /\ enrollment \in [Enrollments -> EnrollmentRow \cup Gone]
    /\ request    \in [Requests -> Request]
    /\ granted    \in [Tenants -> Nat \cup {NoLimit}]

Init ==
    /\ had        = [t \in Tenants |-> {FREE}]
    /\ course     = [c \in Courses |-> Unused]
    /\ lesson     = [l \in Lessons |-> Unused]
    /\ enrollment = [n \in Enrollments |-> Unused]
    /\ request    = [r \in Requests |-> Idle]
    /\ granted    = [t \in Tenants |-> 0]

Goes(r, state) == request' = [request EXCEPT ![r] = state]
Done(r)        == Goes(r, Idle)

\* The billing webhook of auth-org-service gives the tenant another tier.
SyncTier(t, tier) ==
    /\ had' = [had EXCEPT ![t] = @ \cup {tier}]
    /\ UNCHANGED <<course, lesson, enrollment, request, granted>>

-----------------------------------------------------------------------------
(* Courses.                                                                *)

\* Mutant: where: {id: c}
FoundById(t, c) == course[c] \notin Gone

\* where: {id: c, tenantId: t}
Found(t, c)   == course[c] \notin Gone /\ course[c].tenant = t
CoursesOf(t) == {c \in Courses : Found(t, c)}

Higher(a, b) == IF a = NoLimit \/ b = NoLimit THEN NoLimit ELSE IF a > b THEN a ELSE b

\* Mutant: the last free place is given twice.
MayCreateOneMore(t, tier) ==
    Limit[tier] # NoLimit => Cardinality(CoursesOf(t)) <= Limit[tier]

MayCreate(t, tier) == Limit[tier] # NoLimit => Cardinality(CoursesOf(t)) < Limit[tier]

CountCourses(r, t, tier) ==
    /\ request[r].pc = "idle"
    /\ tier \in had[t]
    /\ MayCreate(t, tier)
    /\ Goes(r, [Idle EXCEPT !.pc = "createCourse", !.tenant = t])
    /\ granted' = [granted EXCEPT ![t] = Higher(@, Limit[tier])]
    /\ UNCHANGED <<had, course, lesson, enrollment>>

CreateCourse(r, c) ==
    /\ request[r].pc = "createCourse"
    /\ course[c] = Unused
    /\ course' = [course EXCEPT ![c] = [tenant |-> request[r].tenant, by |-> request[r].tenant]]
    /\ Done(r)
    /\ UNCHANGED <<had, lesson, enrollment, granted>>

UpdateCourse(t, c) ==
    /\ Found(t, c)
    /\ course' = [course EXCEPT ![c].by = t]
    /\ UNCHANGED <<had, lesson, enrollment, request, granted>>

\* Mutant: the lessons of a deleted course stay.
DeleteCourseOnly(t, c) ==
    /\ Found(t, c)
    /\ course' = [course EXCEPT ![c] = Deleted]
    /\ UNCHANGED <<had, lesson, enrollment, request, granted>>

\* onDelete: Cascade
DeleteCourse(t, c) ==
    /\ Found(t, c)
    /\ course' = [course EXCEPT ![c] = Deleted]
    /\ lesson' = [l \in Lessons |-> IF lesson[l] \notin Gone /\ lesson[l].course = c
                                    THEN Deleted ELSE lesson[l]]
    /\ enrollment' = [n \in Enrollments |->
                        IF enrollment[n] \notin Gone /\ enrollment[n].course = c
                        THEN Deleted ELSE enrollment[n]]
    /\ UNCHANGED <<had, request, granted>>

-----------------------------------------------------------------------------
(* Lessons.  An insert whose course is gone by then fails on the foreign   *)
(* key, an update whose row is gone throws.                                *)

FindCourseForLesson(r, t, c) ==
    /\ request[r].pc = "idle"
    /\ Found(t, c)
    /\ Goes(r, [Idle EXCEPT !.pc = "createLesson", !.tenant = t, !.course = c])
    /\ UNCHANGED <<had, course, lesson, enrollment, granted>>

CreateLesson(r, l) ==
    /\ request[r].pc = "createLesson"
    /\ lesson[l] = Unused
    /\ lesson' = IF course[request[r].course] \in Gone THEN lesson
                 ELSE [lesson EXCEPT ![l] = [tenant |-> request[r].tenant,
                                             course |-> request[r].course,
                                             by     |-> request[r].tenant]]
    /\ Done(r)
    /\ UNCHANGED <<had, course, enrollment, granted>>

\* where: {id: l, courseId: c, tenantId: t}
LessonFound(t, c, l) == /\ lesson[l] \notin Gone
                        /\ lesson[l].tenant = t /\ lesson[l].course = c

FindLesson(r, t, c, l) ==
    /\ request[r].pc = "idle"
    /\ LessonFound(t, c, l)
    /\ Goes(r, [Idle EXCEPT !.pc = "writeLesson", !.tenant = t, !.row = l])
    /\ UNCHANGED <<had, course, lesson, enrollment, granted>>

WriteLesson(r) ==
    /\ request[r].pc = "writeLesson"
    /\ lesson' = IF lesson[request[r].row] \in Gone THEN lesson
                 ELSE [lesson EXCEPT ![request[r].row].by = request[r].tenant]
    /\ Done(r)
    /\ UNCHANGED <<had, course, enrollment, granted>>

DeleteLesson(t, c, l) ==
    /\ LessonFound(t, c, l)
    /\ lesson' = [lesson EXCEPT ![l] = Deleted]
    /\ UNCHANGED <<had, course, enrollment, request, granted>>

-----------------------------------------------------------------------------
(* Enrollments.  The gateway asks auth-org-service for a free seat before  *)
(* it calls createEnrollment; what that check keeps is in Onboarding.      *)

FindCourseForEnrollment(r, t, c, u) ==
    /\ request[r].pc = "idle"
    /\ Found(t, c)
    /\ Goes(r, [Idle EXCEPT !.pc = "enroll", !.tenant = t, !.course = c, !.actor = u])
    /\ UNCHANGED <<had, course, lesson, enrollment, granted>>

Enrolled(t, c, u) == \E n \in Enrollments : /\ enrollment[n] \notin Gone
                                            /\ enrollment[n].tenant = t
                                            /\ enrollment[n].course = c
                                            /\ enrollment[n].user = u
\* @@unique([tenantId, courseId, userId]): a second row is a conflict.
CreateEnrollment(r, n) ==
    LET q == request[r] IN
    /\ q.pc = "enroll"
    /\ enrollment[n] = Unused
    /\ enrollment' = IF course[q.course] \in Gone \/ Enrolled(q.tenant, q.course, q.actor)
                     THEN enrollment
                     ELSE [enrollment EXCEPT ![n] =
                             [tenant |-> q.tenant, course |-> q.course, user |-> q.actor,
                              by |-> q.tenant, actor |-> Staff]]
    /\ Done(r)
    /\ UNCHANGED <<had, course, lesson, granted>>

EnrollmentFound(t, n) == enrollment[n] \notin Gone /\ enrollment[n].tenant = t

\* assertLearnerOwnsEnrollment
Owns(actor, n) == actor = Staff \/ enrollment[n].user = actor
FindEnrollment(r, t, n, actor) ==
    /\ request[r].pc = "idle"
    /\ EnrollmentFound(t, n)
    /\ Owns(actor, n)
    /\ Goes(r, [Idle EXCEPT !.pc = "writeEnrollment", !.tenant = t, !.row = n, !.actor = actor])
    /\ UNCHANGED <<had, course, lesson, enrollment, granted>>

WriteEnrollment(r) ==
    LET q == request[r] IN
    /\ q.pc = "writeEnrollment"
    /\ enrollment' = IF enrollment[q.row] \in Gone THEN enrollment
                     ELSE [enrollment EXCEPT ![q.row].by = q.tenant, ![q.row].actor = q.actor]
    /\ Done(r)
    /\ UNCHANGED <<had, course, lesson, granted>>

DeleteEnrollment(t, n) ==
    /\ EnrollmentFound(t, n)
    /\ enrollment' = [enrollment EXCEPT ![n] = Deleted]
    /\ UNCHANGED <<had, course, lesson, request, granted>>

-----------------------------------------------------------------------------
\* A statement throws or the process stops: the request ends where it is.
Dies(r) ==
    /\ request[r].pc # "idle"
    /\ Done(r)
    /\ UNCHANGED <<had, course, lesson, enrollment, granted>>

CourseStep(r) ==
    \/ \E t \in Tenants, tier \in Tiers : CountCourses(r, t, tier)
    \/ \E c \in Courses : CreateCourse(r, c)

LessonStep(r) ==
    \/ \E t \in Tenants, c \in Courses : \/ FindCourseForLesson(r, t, c)
                                         \/ \E l \in Lessons : FindLesson(r, t, c, l)
    \/ \E l \in Lessons : CreateLesson(r, l)
    \/ WriteLesson(r)

EnrollmentStep(r) ==
    \/ \E t \in Tenants : \/ \E c \in Courses, u \in Users : FindCourseForEnrollment(r, t, c, u)
                          \/ \E n \in Enrollments, a \in Users \cup {Staff} :
                                FindEnrollment(r, t, n, a)
    \/ \E n \in Enrollments : CreateEnrollment(r, n)
    \/ WriteEnrollment(r)

SingleStatement(t) ==
    \/ \E tier \in Tiers : SyncTier(t, tier)
    \/ \E c \in Courses : \/ UpdateCourse(t, c) \/ DeleteCourse(t, c)
                          \/ \E l \in Lessons : DeleteLesson(t, c, l)
    \/ \E n \in Enrollments : DeleteEnrollment(t, n)

Next == \/ \E r \in Requests : CourseStep(r) \/ LessonStep(r) \/ EnrollmentStep(r) \/ Dies(r)
        \/ \E t \in Tenants : SingleStatement(t)

Spec == Init /\ [][Next]_vars

-----------------------------------------------------------------------------
(* Properties.                                                             *)

\* A lesson or an enrollment belongs to a course that exists and is of the same
\* tenant, although the course was looked up in an earlier statement than the
\* insert, and may have been deleted in between.
ChildrenBelong ==
    /\ \A l \in Lessons : lesson[l] \notin Gone => Found(lesson[l].tenant, lesson[l].course)
    /\ \A n \in Enrollments :
         enrollment[n] \notin Gone => Found(enrollment[n].tenant, enrollment[n].course)

\* A row is only ever written by requests of its own tenant ("Course CRUD with
\* tenant isolation", README.md:28).
WrittenByOwnTenant ==
    /\ \A c \in Courses : course[c] \notin Gone => course[c].by = course[c].tenant
    /\ \A l \in Lessons : lesson[l] \notin Gone => lesson[l].by = lesson[l].tenant
    /\ \A n \in Enrollments : enrollment[n] \notin Gone => enrollment[n].by = enrollment[n].tenant

\* Nobody but its learner and the staff writes the progress of an enrollment.
ProgressOfOwnLearner ==
    \A n \in Enrollments : enrollment[n] \notin Gone =>
        enrollment[n].actor \in {Staff, enrollment[n].user}

\* What is checked in one statement, tenant and owner, still holds in the next,
\* in which updateLesson and updateEnrollment write by id alone.
WrittenByTheirOwn == WrittenByOwnTenant /\ ProgressOfOwnLearner

\* Overlapping enrollments of a user in a course leave one row.
EnrolledOnce ==
    \A m, n \in Enrollments :
        /\ enrollment[m] \notin Gone /\ enrollment[n] \notin Gone
        /\ enrollment[m].course = enrollment[n].course
        /\ enrollment[m].user = enrollment[n].user
        => m = n

\* What deletes that cascade, look-ups that are outdated by the insert and
\* overlapping enrollments leave behind.
RowsConsistent == ChildrenBelong /\ EnrolledOnce

\* createCourse counts in one statement and creates in another: the courses of a
\* tenant exceed the limit they were checked against, but by fewer than there
\* are requests at a time, and not at all if requests do not overlap.
OverrunIsBounded ==
    \A t \in Tenants : granted[t] # NoLimit =>
        Cardinality(CoursesOf(t)) <= granted[t] + Cardinality(Requests) - 1

=============================================================================
