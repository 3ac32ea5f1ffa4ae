--------------------------- MODULE Courses_proofs ---------------------------
(***************************************************************************)
(* Theorems about Courses, for any tenants, users and ids, any finite set  *)
(* of requests, and any course limits.                                     *)
(***************************************************************************)
EXTENDS Courses, FiniteSetTheorems, TLAPS

-----------------------------------------------------------------------------
(* Types.  What a request holds depends on where it is.                    *)

Locals(q) ==
    /\ q.pc # "idle" => q.tenant \in Tenants
    /\ q.pc \in {"createLesson", "enroll"} => q.course \in Courses
    /\ q.pc = "writeLesson" => q.row \in Lessons
    /\ q.pc = "writeEnrollment" => q.row \in Enrollments /\ q.actor \in Users \cup {Staff}
    /\ q.pc = "enroll" => q.actor \in Users

TInv == TypeOK /\ \A r \in Requests : Locals(request[r])

LEMMA IdleTyped == Idle \in Request /\ Locals(Idle)
  BY DEF Idle, Request, Places, Locals

LEMMA TypeInit == Init => TInv
  BY IdleTyped, LimitAssumption DEF Init, TInv, TypeOK, Gone

\* A request that goes on with well-typed locals leaves all requests well typed.
LEMMA GoesTyped ==
  ASSUME TInv, NEW r \in Requests, NEW state \in Request, Locals(state), Goes(r, state)
  PROVE  request' \in [Requests -> Request] /\ \A s \in Requests : Locals(request'[s])
  BY DEF TInv, TypeOK, Goes

LEMMA DoneTyped ==
  ASSUME TInv, NEW r \in Requests, Done(r)
  PROVE  request' \in [Requests -> Request] /\ \A s \in Requests : Locals(request'[s])
  BY GoesTyped, IdleTyped DEF Done

LEMMA CourseStepTyped ==
  ASSUME TInv, NEW r \in Requests, CourseStep(r)
  PROVE  TInv'
<1>1. ASSUME NEW t \in Tenants, NEW tier \in Tiers, CountCourses(r, t, tier)
      PROVE  TInv'
  <2> DEFINE state == [Idle EXCEPT !.pc = "createCourse", !.tenant = t]
  <2>1. state \in Request /\ Locals(state)
    BY DEF Idle, Request, Places, Locals
  <2>2. request' \in [Requests -> Request] /\ \A s \in Requests : Locals(request'[s])
    BY <1>1, <2>1, GoesTyped DEF CountCourses
  <2>3. Higher(granted[t], Limit[tier]) \in Nat \cup {NoLimit}
    BY LimitAssumption DEF Higher, TInv, TypeOK
  <2>4. granted' \in [Tenants -> Nat \cup {NoLimit}]
    BY <1>1, <2>3 DEF CountCourses, TInv, TypeOK
  <2> QED
    BY <1>1, <2>2, <2>4 DEF CountCourses, TInv, TypeOK
<1>2. ASSUME NEW c \in Courses, CreateCourse(r, c)
      PROVE  TInv'
  <2>1. request' \in [Requests -> Request] /\ \A s \in Requests : Locals(request'[s])
    BY <1>2, DoneTyped DEF CreateCourse
  <2>2. [tenant |-> request[r].tenant, by |-> request[r].tenant] \in CourseRow
    BY <1>2 DEF CreateCourse, TInv, Locals, CourseRow
  <2> QED
    BY <1>2, <2>1, <2>2 DEF CreateCourse, TInv, TypeOK
<1> QED
  BY <1>1, <1>2 DEF CourseStep

LEMMA LessonStepTyped ==
  ASSUME TInv, NEW r \in Requests, LessonStep(r)
  PROVE  TInv'
<1>1. ASSUME NEW t \in Tenants, NEW c \in Courses, FindCourseForLesson(r, t, c)
      PROVE  TInv'
  <2> DEFINE state == [Idle EXCEPT !.pc = "createLesson", !.tenant = t, !.course = c]
  <2>1. state \in Request /\ Locals(state)
    BY DEF Idle, Request, Places, Locals
  <2> QED
    BY <1>1, <2>1, GoesTyped DEF FindCourseForLesson, TInv, TypeOK
<1>2. ASSUME NEW t \in Tenants, NEW c \in Courses, NEW l \in Lessons, FindLesson(r, t, c, l)
      PROVE  TInv'
  <2> DEFINE state == [Idle EXCEPT !.pc = "writeLesson", !.tenant = t, !.row = l]
  <2>1. state \in Request /\ Locals(state)
    BY DEF Idle, Request, Places, Locals
  <2> QED
    BY <1>2, <2>1, GoesTyped DEF FindLesson, TInv, TypeOK
<1>3. ASSUME NEW l \in Lessons, CreateLesson(r, l)
      PROVE  TInv'
  <2>1. [tenant |-> request[r].tenant, course |-> request[r].course, by |-> request[r].tenant]
          \in LessonRow
    BY <1>3 DEF CreateLesson, TInv, Locals, LessonRow
  <2> QED
    BY <1>3, <2>1, DoneTyped DEF CreateLesson, TInv, TypeOK
<1>4. ASSUME WriteLesson(r)
      PROVE  TInv'
  <2>1. request[r].row \in Lessons /\ request[r].tenant \in Tenants
    BY <1>4 DEF WriteLesson, TInv, Locals
  <2>2. lesson[request[r].row] \notin Gone
          => [lesson[request[r].row] EXCEPT !.by = request[r].tenant] \in LessonRow
    BY <2>1 DEF TInv, TypeOK, LessonRow
  <2>3. lesson' \in [Lessons -> LessonRow \cup Gone]
    BY <1>4, <2>1, <2>2 DEF WriteLesson, TInv, TypeOK
  <2> QED
    BY <1>4, <2>3, DoneTyped DEF WriteLesson, TInv, TypeOK
<1> QED
  BY <1>1, <1>2, <1>3, <1>4 DEF LessonStep

LEMMA EnrollmentStepTyped ==
  ASSUME TInv, NEW r \in Requests, EnrollmentStep(r)
  PROVE  TInv'
<1>1. ASSUME NEW t \in Tenants, NEW c \in Courses, NEW u \in Users,
             FindCourseForEnrollment(r, t, c, u)
      PROVE  TInv'
  <2> DEFINE state == [Idle EXCEPT !.pc = "enroll", !.tenant = t, !.course = c, !.actor = u]
  <2>1. state \in Request /\ Locals(state)
    BY DEF Idle, Request, Places, Locals
  <2> QED
    BY <1>1, <2>1, GoesTyped DEF FindCourseForEnrollment, TInv, TypeOK
<1>2. ASSUME NEW t \in Tenants, NEW n \in Enrollments, NEW a \in Users \cup {Staff},
             FindEnrollment(r, t, n, a)
      PROVE  TInv'
  <2> DEFINE state == [Idle EXCEPT !.pc = "writeEnrollment", !.tenant = t, !.row = n,
                                   !.actor = a]
  <2>1. state \in Request /\ Locals(state)
    BY DEF Idle, Request, Places, Locals
  <2> QED
    BY <1>2, <2>1, GoesTyped DEF FindEnrollment, TInv, TypeOK
<1>3. ASSUME NEW n \in Enrollments, CreateEnrollment(r, n)
      PROVE  TInv'
  <2>1. [tenant |-> request[r].tenant, course |-> request[r].course, user |-> request[r].actor,
         by |-> request[r].tenant, actor |-> Staff] \in EnrollmentRow
    BY <1>3 DEF CreateEnrollment, TInv, Locals, EnrollmentRow
  <2> QED
    BY <1>3, <2>1, DoneTyped DEF CreateEnrollment, TInv, TypeOK
<1>4. ASSUME WriteEnrollment(r)
      PROVE  TInv'
  <2> DEFINE q == request[r]
  <2>1. /\ q.row \in Enrollments /\ q.tenant \in Tenants
        /\ q.actor \in Users \cup {Staff}
    BY <1>4 DEF WriteEnrollment, TInv, Locals
  <2>2. enrollment[q.row] \notin Gone
          => [[enrollment[q.row] EXCEPT !.by = q.tenant] EXCEPT !.actor = q.actor] \in EnrollmentRow
    BY <2>1 DEF TInv, TypeOK, EnrollmentRow
  <2>3. enrollment' \in [Enrollments -> EnrollmentRow \cup Gone]
    BY <1>4, <2>1, <2>2 DEF WriteEnrollment, TInv, TypeOK
  <2> QED
    BY <1>4, <2>3, DoneTyped DEF WriteEnrollment, TInv, TypeOK
<1> QED
  BY <1>1, <1>2, <1>3, <1>4 DEF EnrollmentStep

LEMMA StatementTyped ==
  ASSUME TInv, NEW t \in Tenants, SingleStatement(t)
  PROVE  TInv'
<1>1. ASSUME NEW tier \in Tiers, SyncTier(t, tier)
      PROVE  TInv'
  BY <1>1 DEF SyncTier, TInv, TypeOK
<1>2. ASSUME NEW c \in Courses, UpdateCourse(t, c)
      PROVE  TInv'
  <2>1. [course[c] EXCEPT !.by = t] \in CourseRow
    BY <1>2 DEF UpdateCourse, Found, TInv, TypeOK, CourseRow
  <2> QED
    BY <1>2, <2>1 DEF UpdateCourse, TInv, TypeOK
<1>3. ASSUME NEW c \in Courses, DeleteCourse(t, c)
      PROVE  TInv'
  BY <1>3 DEF DeleteCourse, TInv, TypeOK, Gone
<1>4. ASSUME NEW c \in Courses, NEW l \in Lessons, DeleteLesson(t, c, l)
      PROVE  TInv'
  BY <1>4 DEF DeleteLesson, TInv, TypeOK, Gone
<1>5. ASSUME NEW n \in Enrollments, DeleteEnrollment(t, n)
      PROVE  TInv'
  BY <1>5 DEF DeleteEnrollment, TInv, TypeOK, Gone
<1> QED
  BY <1>1, <1>2, <1>3, <1>4, <1>5 DEF SingleStatement

LEMMA TypeStep == TInv /\ [Next]_vars => TInv'
<1> SUFFICES ASSUME TInv, [Next]_vars PROVE TInv'
  OBVIOUS
<1>1. ASSUME NEW r \in Requests, Dies(r) PROVE TInv'
  BY <1>1, DoneTyped DEF Dies, TInv, TypeOK
<1>2. CASE UNCHANGED vars
  BY <1>2 DEF vars, TInv, TypeOK
<1> QED
  BY <1>1, <1>2, CourseStepTyped, LessonStepTyped, EnrollmentStepTyped, StatementTyped DEF Next

\* Every reachable state is well typed.
THEOREM TypeCorrect == Spec => []TypeOK
<1>1. TInv => TypeOK
  BY DEF TInv
<1> QED
  BY <1>1, TypeInit, TypeStep, PTL DEF Spec

-----------------------------------------------------------------------------
(* Rows.  Once it exists a row keeps its ids until it is deleted, so that  *)
(* what a look-up found still holds at the write or the row is gone.       *)

\* Only nine statements write a row.
LEMMA RowSteps ==
  ASSUME [Next]_vars
  PROVE  \/ UNCHANGED <<course, lesson, enrollment>>
         \/ \E r \in Requests : \/ \E c \in Courses : CreateCourse(r, c)
                                \/ \E l \in Lessons : CreateLesson(r, l)
                                \/ WriteLesson(r)
                                \/ \E n \in Enrollments : CreateEnrollment(r, n)
                                \/ WriteEnrollment(r)
         \/ \E t \in Tenants : \/ \E c \in Courses : UpdateCourse(t, c) \/ DeleteCourse(t, c)
                               \/ \E c \in Courses, l \in Lessons : DeleteLesson(t, c, l)
                               \/ \E n \in Enrollments : DeleteEnrollment(t, n)
<1>1. ASSUME NEW r \in Requests, NEW t \in Tenants, NEW tier \in Tiers, CountCourses(r, t, tier)
      PROVE  UNCHANGED <<course, lesson, enrollment>>
  BY <1>1 DEF CountCourses
<1>2. ASSUME NEW r \in Requests, NEW t \in Tenants, NEW c \in Courses, FindCourseForLesson(r, t, c)
      PROVE  UNCHANGED <<course, lesson, enrollment>>
  BY <1>2 DEF FindCourseForLesson
<1>3. ASSUME NEW r \in Requests, NEW t \in Tenants, NEW c \in Courses, NEW l \in Lessons,
             FindLesson(r, t, c, l)
      PROVE  UNCHANGED <<course, lesson, enrollment>>
  BY <1>3 DEF FindLesson
<1>4. ASSUME NEW r \in Requests, NEW t \in Tenants, NEW c \in Courses, NEW u \in Users,
             FindCourseForEnrollment(r, t, c, u)
      PROVE  UNCHANGED <<course, lesson, enrollment>>
  BY <1>4 DEF FindCourseForEnrollment
<1>5. ASSUME NEW r \in Requests, NEW t \in Tenants, NEW n \in Enrollments,
             NEW a \in Users \cup {Staff}, FindEnrollment(r, t, n, a)
      PROVE  UNCHANGED <<course, lesson, enrollment>>
  BY <1>5 DEF FindEnrollment
<1>6. ASSUME NEW r \in Requests, Dies(r)
      PROVE  UNCHANGED <<course, lesson, enrollment>>
  BY <1>6 DEF Dies
<1>7. ASSUME NEW t \in Tenants, NEW tier \in Tiers, SyncTier(t, tier)
      PROVE  UNCHANGED <<course, lesson, enrollment>>
  BY <1>7 DEF SyncTier
<1>8. UNCHANGED vars => UNCHANGED <<course, lesson, enrollment>>
  BY DEF vars
<1> QED
  BY <1>1, <1>2, <1>3, <1>4, <1>5, <1>6, <1>7, <1>8
     DEF Next, CourseStep, LessonStep, EnrollmentStep, SingleStatement

\* What may become of a row.
CourseRemains(c) ==
    course[c] # Unused =>
        \/ course'[c] = Deleted
        \/ course[c] \notin Gone /\ course'[c] \notin Gone /\ course'[c].tenant = course[c].tenant

LessonRemains(l) ==
    lesson[l] # Unused =>
        \/ lesson'[l] = Deleted
        \/ /\ lesson[l] \notin Gone /\ lesson'[l] \notin Gone
           /\ lesson'[l].tenant = lesson[l].tenant /\ lesson'[l].course = lesson[l].course

EnrollmentRemains(n) ==
    enrollment[n] # Unused =>
        \/ enrollment'[n] = Deleted
        \/ /\ enrollment[n] \notin Gone /\ enrollment'[n] \notin Gone
           /\ enrollment'[n].tenant = enrollment[n].tenant
           /\ enrollment'[n].course = enrollment[n].course
           /\ enrollment'[n].user = enrollment[n].user

LEMMA RowIsNotGone ==
  ASSUME NEW row \in CourseRow \cup LessonRow \cup EnrollmentRow
  PROVE  row \notin Gone
  BY GoneAssumption

LEMMA CoursesRemain ==
  ASSUME TInv, [Next]_vars, NEW c \in Courses
  PROVE  CourseRemains(c)
<1>1. ASSUME NEW r \in Requests, NEW d \in Courses, CreateCourse(r, d)
      PROVE  CourseRemains(c)
  BY <1>1 DEF CreateCourse, CourseRemains, TInv, TypeOK, Gone
<1>2. ASSUME NEW t \in Tenants, NEW d \in Courses, UpdateCourse(t, d)
      PROVE  CourseRemains(c)
  <2>1. course[d] \in CourseRow /\ [course[d] EXCEPT !.by = t] \in CourseRow
    BY <1>2 DEF UpdateCourse, Found, TInv, TypeOK, CourseRow
  <2>2. /\ course'[d] \notin Gone
        /\ course'[d].tenant = course[d].tenant
    BY <1>2, <2>1, RowIsNotGone DEF UpdateCourse, TInv, TypeOK, CourseRow
  <2>3. c # d => course'[c] = course[c]
    BY <1>2 DEF UpdateCourse, TInv, TypeOK
  <2> QED
    BY <1>2, <2>2, <2>3 DEF UpdateCourse, Found, CourseRemains, Gone
<1>3. ASSUME NEW t \in Tenants, NEW d \in Courses, DeleteCourse(t, d)
      PROVE  CourseRemains(c)
  BY <1>3 DEF DeleteCourse, CourseRemains, TInv, TypeOK, Gone
<1>4. UNCHANGED course => CourseRemains(c)
  BY DEF CourseRemains, Gone
<1> QED
  BY <1>1, <1>2, <1>3, <1>4, RowSteps
     DEF CreateLesson, WriteLesson, CreateEnrollment, WriteEnrollment, DeleteLesson,
         DeleteEnrollment

LEMMA LessonsRemain ==
  ASSUME TInv, [Next]_vars, NEW l \in Lessons
  PROVE  LessonRemains(l)
<1>1. ASSUME NEW r \in Requests, NEW k \in Lessons, CreateLesson(r, k)
      PROVE  LessonRemains(l)
  BY <1>1 DEF CreateLesson, LessonRemains, TInv, TypeOK, Gone
<1>2. ASSUME NEW r \in Requests, WriteLesson(r)
      PROVE  LessonRemains(l)
  <2> DEFINE k == request[r].row
  <2>1. k \in Lessons /\ request[r].tenant \in Tenants
    BY <1>2 DEF WriteLesson, TInv, Locals
  <2>2. CASE lesson[k] \in Gone
    BY <1>2, <2>2 DEF WriteLesson, LessonRemains, Gone
  <2>3. CASE lesson[k] \notin Gone
    <3>1. lesson[k] \in LessonRow /\ [lesson[k] EXCEPT !.by = request[r].tenant] \in LessonRow
      BY <2>1, <2>3 DEF TInv, TypeOK, LessonRow
    <3>2. /\ lesson'[k] \notin Gone
          /\ lesson'[k].tenant = lesson[k].tenant
          /\ lesson'[k].course = lesson[k].course
      BY <1>2, <2>1, <2>3, <3>1, RowIsNotGone DEF WriteLesson, TInv, TypeOK, LessonRow
    <3>3. l # k => lesson'[l] = lesson[l]
      BY <1>2, <2>1, <2>3 DEF WriteLesson, TInv, TypeOK
    <3> QED
      BY <2>3, <3>2, <3>3 DEF LessonRemains, Gone
  <2> QED
    BY <2>2, <2>3
<1>3. ASSUME NEW t \in Tenants, NEW c \in Courses, DeleteCourse(t, c)
      PROVE  LessonRemains(l)
  BY <1>3 DEF DeleteCourse, LessonRemains, Gone
<1>4. ASSUME NEW t \in Tenants, NEW c \in Courses, NEW k \in Lessons, DeleteLesson(t, c, k)
      PROVE  LessonRemains(l)
  BY <1>4 DEF DeleteLesson, LessonRemains, TInv, TypeOK, Gone
<1>5. UNCHANGED lesson => LessonRemains(l)
  BY DEF LessonRemains, Gone
<1> QED
  BY <1>1, <1>2, <1>3, <1>4, <1>5, RowSteps
     DEF CreateCourse, UpdateCourse, CreateEnrollment, WriteEnrollment, DeleteEnrollment

LEMMA EnrollmentsRemain ==
  ASSUME TInv, [Next]_vars, NEW n \in Enrollments
  PROVE  EnrollmentRemains(n)
<1>1. ASSUME NEW r \in Requests, NEW k \in Enrollments, CreateEnrollment(r, k)
      PROVE  EnrollmentRemains(n)
  BY <1>1 DEF CreateEnrollment, EnrollmentRemains, TInv, TypeOK, Gone
<1>2. ASSUME NEW r \in Requests, WriteEnrollment(r)
      PROVE  EnrollmentRemains(n)
  <2> DEFINE q == request[r]
             k == request[r].row
             written == [[enrollment[k] EXCEPT !.by = q.tenant] EXCEPT !.actor = q.actor]
  <2>1. k \in Enrollments /\ q.tenant \in Tenants /\ q.actor \in Users \cup {Staff}
    BY <1>2 DEF WriteEnrollment, TInv, Locals
  <2>2. CASE enrollment[k] \in Gone
    BY <1>2, <2>2 DEF WriteEnrollment, EnrollmentRemains, Gone
  <2>3. CASE enrollment[k] \notin Gone
    <3>1. enrollment[k] \in EnrollmentRow /\ written \in EnrollmentRow
      BY <2>1, <2>3 DEF TInv, TypeOK, EnrollmentRow
    <3>2. enrollment' = [enrollment EXCEPT ![k] = written]
      BY <1>2, <2>1, <2>3 DEF WriteEnrollment, TInv, TypeOK
    <3>3. /\ enrollment'[k] \notin Gone
          /\ enrollment'[k].tenant = enrollment[k].tenant
          /\ enrollment'[k].course = enrollment[k].course
          /\ enrollment'[k].user = enrollment[k].user
      BY <2>1, <3>1, <3>2, RowIsNotGone DEF TInv, TypeOK, EnrollmentRow
    <3>4. n # k => enrollment'[n] = enrollment[n]
      BY <2>1, <3>2 DEF TInv, TypeOK
    <3> QED
      BY <2>3, <3>3, <3>4 DEF EnrollmentRemains, Gone
  <2> QED
    BY <2>2, <2>3
<1>3. ASSUME NEW t \in Tenants, NEW c \in Courses, DeleteCourse(t, c)
      PROVE  EnrollmentRemains(n)
  BY <1>3 DEF DeleteCourse, EnrollmentRemains, Gone
<1>4. ASSUME NEW t \in Tenants, NEW k \in Enrollments, DeleteEnrollment(t, k)
      PROVE  EnrollmentRemains(n)
  BY <1>4 DEF DeleteEnrollment, EnrollmentRemains, TInv, TypeOK, Gone
<1>5. UNCHANGED enrollment => EnrollmentRemains(n)
  BY DEF EnrollmentRemains, Gone
<1> QED
  BY <1>1, <1>2, <1>3, <1>4, <1>5, RowSteps
     DEF CreateCourse, UpdateCourse, CreateLesson, WriteLesson, DeleteLesson

-----------------------------------------------------------------------------
(* Look-ups.  A request that found a row still knows its tenant, and the   *)
(* owner of an enrollment, when it writes: or the row is gone.             *)

CourseHeld(q) == course[q.course] = Deleted \/ Found(q.tenant, q.course)

LessonHeld(q) ==
    \/ lesson[q.row] = Deleted
    \/ lesson[q.row] \notin Gone /\ lesson[q.row].tenant = q.tenant

EnrollmentHeld(q) ==
    \/ enrollment[q.row] = Deleted
    \/ EnrollmentFound(q.tenant, q.row) /\ Owns(q.actor, q.row)

LookedUp(q) ==
    /\ q.pc \in {"createLesson", "enroll"} => CourseHeld(q)
    /\ q.pc = "writeLesson" => LessonHeld(q)
    /\ q.pc = "writeEnrollment" => EnrollmentHeld(q)

Looked == \A r \in Requests : LookedUp(request[r])

LEMMA HeldStays ==
  ASSUME TInv, [Next]_vars, NEW q, Locals(q), LookedUp(q)
  PROVE  LookedUp(q)'
<1>1. ASSUME q.pc \in {"createLesson", "enroll"}
      PROVE  CourseHeld(q)'
  <2>1. q.course \in Courses
    BY <1>1 DEF Locals
  <2>2. CourseRemains(q.course)
    BY <2>1, CoursesRemain
  <2> QED
    BY <1>1, <2>2, GoneAssumption DEF LookedUp, CourseHeld, Found, CourseRemains, Gone
<1>2. ASSUME q.pc = "writeLesson"
      PROVE  LessonHeld(q)'
  <2>1. LessonRemains(q.row)
    BY <1>2, LessonsRemain DEF Locals
  <2> QED
    BY <1>2, <2>1, GoneAssumption DEF LookedUp, LessonHeld, LessonRemains, Gone
<1>3. ASSUME q.pc = "writeEnrollment"
      PROVE  EnrollmentHeld(q)'
  <2>1. EnrollmentRemains(q.row)
    BY <1>3, EnrollmentsRemain DEF Locals
  <2> QED
    BY <1>3, <2>1, GoneAssumption
       DEF LookedUp, EnrollmentHeld, EnrollmentFound, Owns, EnrollmentRemains, Gone
<1> QED
  BY <1>1, <1>2, <1>3 DEF LookedUp

\* A step leaves a request as it is, ends it, or gives it what it has looked up.
LEMMA RequestSteps ==
  ASSUME TInv, [Next]_vars, NEW s \in Requests
  PROVE  request'[s] = request[s] \/ LookedUp(request[s])'
<1>1. ASSUME NEW r \in Requests, Done(r)
      PROVE  request'[s] = request[s] \/ LookedUp(request[s])'
  <2>1. request'[s] = request[s] \/ request'[s] = Idle
    BY <1>1 DEF Done, Goes, TInv, TypeOK
  <2> QED
    BY <2>1 DEF LookedUp, Idle
<1>2. ASSUME NEW r \in Requests, NEW state, Goes(r, state), LookedUp(state)'
      PROVE  request'[s] = request[s] \/ LookedUp(request[s])'
  <2>1. request'[s] = request[s] \/ request'[s] = state
    BY <1>2 DEF Goes, TInv, TypeOK
  <2> QED
    BY <1>2, <2>1
       DEF LookedUp, CourseHeld, LessonHeld, EnrollmentHeld, Found, EnrollmentFound, Owns
<1>3. ASSUME NEW r \in Requests, NEW t \in Tenants, NEW tier \in Tiers, CountCourses(r, t, tier)
      PROVE  request'[s] = request[s] \/ LookedUp(request[s])'
  <2>1. LookedUp([Idle EXCEPT !.pc = "createCourse", !.tenant = t])'
    BY DEF LookedUp, Idle
  <2> QED
    BY <1>2, <1>3, <2>1 DEF CountCourses
<1>4. ASSUME NEW r \in Requests, NEW t \in Tenants, NEW c \in Courses, FindCourseForLesson(r, t, c)
      PROVE  request'[s] = request[s] \/ LookedUp(request[s])'
  <2>1. LookedUp([Idle EXCEPT !.pc = "createLesson", !.tenant = t, !.course = c])'
    BY <1>4 DEF LookedUp, Idle, FindCourseForLesson, CourseHeld, Found
  <2> QED
    BY <1>2, <1>4, <2>1 DEF FindCourseForLesson
<1>5. ASSUME NEW r \in Requests, NEW t \in Tenants, NEW c \in Courses, NEW l \in Lessons,
             FindLesson(r, t, c, l)
      PROVE  request'[s] = request[s] \/ LookedUp(request[s])'
  <2>1. LookedUp([Idle EXCEPT !.pc = "writeLesson", !.tenant = t, !.row = l])'
    BY <1>5 DEF LookedUp, Idle, FindLesson, LessonHeld, LessonFound
  <2> QED
    BY <1>2, <1>5, <2>1 DEF FindLesson
<1>6. ASSUME NEW r \in Requests, NEW t \in Tenants, NEW c \in Courses, NEW u \in Users,
             FindCourseForEnrollment(r, t, c, u)
      PROVE  request'[s] = request[s] \/ LookedUp(request[s])'
  <2>1. LookedUp([Idle EXCEPT !.pc = "enroll", !.tenant = t, !.course = c, !.actor = u])'
    BY <1>6 DEF LookedUp, Idle, FindCourseForEnrollment, CourseHeld, Found
  <2> QED
    BY <1>2, <1>6, <2>1 DEF FindCourseForEnrollment
<1>7. ASSUME NEW r \in Requests, NEW t \in Tenants, NEW n \in Enrollments,
             NEW a \in Users \cup {Staff}, FindEnrollment(r, t, n, a)
      PROVE  request'[s] = request[s] \/ LookedUp(request[s])'
  <2>1. LookedUp([Idle EXCEPT !.pc = "writeEnrollment", !.tenant = t, !.row = n, !.actor = a])'
    BY <1>7 DEF LookedUp, Idle, FindEnrollment, EnrollmentHeld, EnrollmentFound, Owns
  <2> QED
    BY <1>2, <1>7, <2>1 DEF FindEnrollment
<1>8. ASSUME NEW r \in Requests,
             \/ \E c \in Courses : CreateCourse(r, c)
             \/ \E l \in Lessons : CreateLesson(r, l)
             \/ \E n \in Enrollments : CreateEnrollment(r, n)
             \/ WriteLesson(r) \/ WriteEnrollment(r) \/ Dies(r)
      PROVE  request'[s] = request[s] \/ LookedUp(request[s])'
  <2>1. Done(r)
    BY <1>8 DEF CreateCourse, CreateLesson, CreateEnrollment, WriteLesson, WriteEnrollment, Dies
  <2> QED
    BY <1>1, <2>1
<1>9. ASSUME NEW t \in Tenants, SingleStatement(t)
      PROVE  request' = request
  BY <1>9 DEF SingleStatement, SyncTier, UpdateCourse, DeleteCourse, DeleteLesson, DeleteEnrollment
<1>10. UNCHANGED vars => request' = request
  BY DEF vars
<1> QED
  BY <1>3, <1>4, <1>5, <1>6, <1>7, <1>8, <1>9, <1>10
     DEF Next, CourseStep, LessonStep, EnrollmentStep

LEMMA LookedStep ==
  ASSUME TInv, Looked, [Next]_vars
  PROVE  Looked'
<1> SUFFICES ASSUME NEW s \in Requests PROVE LookedUp(request[s])'
  BY DEF Looked
<1>1. Locals(request[s]) /\ LookedUp(request[s])
  BY DEF TInv, Looked
<1> DEFINE q == request[s]
<1>2. ASSUME request'[s] = request[s]
      PROVE  LookedUp(request[s])'
  <2>1. ASSUME NEW p, p = request[s] PROVE LookedUp(p)'
    BY <1>1, <2>1, HeldStays
  <2> QED
    BY <1>2, <2>1 DEF LookedUp, CourseHeld, LessonHeld, EnrollmentHeld, Found, EnrollmentFound, Owns
<1> QED
  BY <1>2, RequestSteps

-----------------------------------------------------------------------------
(* What the rows keep.                                                     *)

RowInv == /\ TInv
          /\ Looked
          /\ ChildrenBelong
          /\ EnrolledOnce
          /\ WrittenByOwnTenant
          /\ ProgressOfOwnLearner

LEMMA RowInit == Init => RowInv
<1> SUFFICES ASSUME Init PROVE RowInv
  OBVIOUS
<1>1. TInv
  BY TypeInit
<1>2. Looked
  BY DEF Init, Looked, LookedUp, Idle
<1>3. ChildrenBelong /\ EnrolledOnce
  BY DEF Init, ChildrenBelong, EnrolledOnce, Gone
<1>4. WrittenByOwnTenant /\ ProgressOfOwnLearner
  BY DEF Init, WrittenByOwnTenant, ProgressOfOwnLearner, Gone
<1> QED
  BY <1>1, <1>2, <1>3, <1>4 DEF RowInv

\* The row that each write leaves behind.
LEMMA LessonCreated ==
  ASSUME RowInv, NEW r \in Requests, NEW l \in Lessons, CreateLesson(r, l), lesson' # lesson
  PROVE  /\ lesson' = [lesson EXCEPT ![l] = [tenant |-> request[r].tenant,
                                             course |-> request[r].course,
                                             by     |-> request[r].tenant]]
         /\ Found(request[r].tenant, request[r].course)
<1>1. LookedUp(request[r]) /\ request[r].pc = "createLesson"
  BY DEF RowInv, Looked, CreateLesson
<1> QED
  BY <1>1 DEF CreateLesson, LookedUp, CourseHeld, Gone

LEMMA EnrollmentCreated ==
  ASSUME RowInv, NEW r \in Requests, NEW n \in Enrollments, CreateEnrollment(r, n),
         enrollment' # enrollment
  PROVE  /\ enrollment' = [enrollment EXCEPT ![n] =
                             [tenant |-> request[r].tenant, course |-> request[r].course,
                              user |-> request[r].actor, by |-> request[r].tenant,
                              actor |-> Staff]]
         /\ Found(request[r].tenant, request[r].course)
         /\ ~Enrolled(request[r].tenant, request[r].course, request[r].actor)
<1>1. LookedUp(request[r]) /\ request[r].pc = "enroll"
  BY DEF RowInv, Looked, CreateEnrollment
<1> QED
  BY <1>1 DEF CreateEnrollment, LookedUp, CourseHeld, Gone

LEMMA LessonWritten ==
  ASSUME RowInv, NEW r \in Requests, WriteLesson(r), lesson' # lesson
  PROVE  /\ request[r].row \in Lessons
         /\ lesson[request[r].row] \notin Gone
         /\ lesson[request[r].row].tenant = request[r].tenant
         /\ lesson' = [lesson EXCEPT ![request[r].row].by = request[r].tenant]
<1>1. /\ LookedUp(request[r]) /\ request[r].pc = "writeLesson"
      /\ Locals(request[r])
  BY DEF RowInv, TInv, Looked, WriteLesson
<1> QED
  BY <1>1 DEF WriteLesson, LookedUp, LessonHeld, Locals, Gone

LEMMA EnrollmentWritten ==
  ASSUME RowInv, NEW r \in Requests, WriteEnrollment(r), enrollment' # enrollment
  PROVE  /\ request[r].row \in Enrollments
         /\ EnrollmentFound(request[r].tenant, request[r].row)
         /\ Owns(request[r].actor, request[r].row)
         /\ enrollment' = [enrollment EXCEPT ![request[r].row].by = request[r].tenant,
                                             ![request[r].row].actor = request[r].actor]
<1>1. /\ LookedUp(request[r]) /\ request[r].pc = "writeEnrollment"
      /\ Locals(request[r])
  BY DEF RowInv, TInv, Looked, WriteEnrollment
<1> QED
  BY <1>1 DEF WriteEnrollment, LookedUp, EnrollmentHeld, Locals, Gone

\* Lessons that a step does not create were there before, in the same course.
LEMMA LessonBefore ==
  ASSUME RowInv, [Next]_vars, NEW l \in Lessons, lesson'[l] \notin Gone
  PROVE  \/ \E r \in Requests : CreateLesson(r, l) /\ lesson' # lesson
         \/ lesson[l] \notin Gone /\ lesson'[l].tenant = lesson[l].tenant
                                  /\ lesson'[l].course = lesson[l].course
<1>1. CASE lesson[l] # Unused
  BY <1>1, LessonsRemain DEF LessonRemains, RowInv, Gone
<1>2. CASE lesson[l] = Unused
  <2>1. ASSUME NEW r \in Requests, NEW k \in Lessons, CreateLesson(r, k), ~CreateLesson(r, l)
        PROVE  FALSE
    BY <1>2, <2>1 DEF CreateLesson, RowInv, TInv, TypeOK, Gone
  <2>2. ASSUME NEW r \in Requests, WriteLesson(r) PROVE FALSE
    <3>1. CASE lesson' = lesson
      BY <1>2, <3>1 DEF Gone
    <3>2. CASE lesson' # lesson
      BY <1>2, <2>2, <3>2, LessonWritten DEF RowInv, TInv, TypeOK, Gone
    <3> QED
      BY <3>1, <3>2
  <2>3. ASSUME NEW t \in Tenants, NEW c \in Courses, DeleteCourse(t, c) PROVE FALSE
    BY <1>2, <2>3 DEF DeleteCourse, Gone
  <2>4. ASSUME NEW t \in Tenants, NEW c \in Courses, NEW k \in Lessons, DeleteLesson(t, c, k)
        PROVE  FALSE
    BY <1>2, <2>4 DEF DeleteLesson, RowInv, TInv, TypeOK, Gone
  <2>5. lesson' # lesson
    BY <1>2 DEF Gone
  <2> QED
    BY <2>1, <2>2, <2>3, <2>4, <2>5, RowSteps
       DEF CreateCourse, UpdateCourse, CreateEnrollment, WriteEnrollment, DeleteEnrollment
<1> QED
  BY <1>1, <1>2

LEMMA EnrollmentBefore ==
  ASSUME RowInv, [Next]_vars, NEW n \in Enrollments, enrollment'[n] \notin Gone
  PROVE  \/ \E r \in Requests : CreateEnrollment(r, n) /\ enrollment' # enrollment
         \/ enrollment[n] \notin Gone /\ enrollment'[n].tenant = enrollment[n].tenant
                                      /\ enrollment'[n].course = enrollment[n].course
                                      /\ enrollment'[n].user = enrollment[n].user
<1>1. CASE enrollment[n] # Unused
  BY <1>1, EnrollmentsRemain DEF EnrollmentRemains, RowInv, Gone
<1>2. CASE enrollment[n] = Unused
  <2>1. ASSUME NEW r \in Requests, NEW k \in Enrollments, CreateEnrollment(r, k),
               ~CreateEnrollment(r, n)
        PROVE  FALSE
    BY <1>2, <2>1 DEF CreateEnrollment, RowInv, TInv, TypeOK, Gone
  <2>2. ASSUME NEW r \in Requests, WriteEnrollment(r) PROVE FALSE
    <3>1. CASE enrollment' = enrollment
      BY <1>2, <3>1 DEF Gone
    <3>2. CASE enrollment' # enrollment
      BY <1>2, <2>2, <3>2, EnrollmentWritten DEF EnrollmentFound, RowInv, TInv, TypeOK, Gone
    <3> QED
      BY <3>1, <3>2
  <2>3. ASSUME NEW t \in Tenants, NEW c \in Courses, DeleteCourse(t, c) PROVE FALSE
    BY <1>2, <2>3 DEF DeleteCourse, Gone
  <2>4. ASSUME NEW t \in Tenants, NEW k \in Enrollments, DeleteEnrollment(t, k) PROVE FALSE
    BY <1>2, <2>4 DEF DeleteEnrollment, RowInv, TInv, TypeOK, Gone
  <2>5. enrollment' # enrollment
    BY <1>2 DEF Gone
  <2> QED
    BY <2>1, <2>2, <2>3, <2>4, <2>5, RowSteps
       DEF CreateCourse, UpdateCourse, CreateLesson, WriteLesson, DeleteLesson
<1> QED
  BY <1>1, <1>2

\* A course is gone only by its deletion, which takes its rows with it.
LEMMA CourseStays ==
  ASSUME TInv, [Next]_vars, NEW t \in Tenants, NEW c \in Courses, Found(t, c)
  PROVE  Found(t, c)' \/ \E u \in Tenants : DeleteCourse(u, c)
<1>1. CASE course'[c] # Deleted
  BY <1>1, CoursesRemain DEF CourseRemains, Found, Gone
<1>2. CASE course'[c] = Deleted
  <2>1. ASSUME NEW r \in Requests, NEW d \in Courses, CreateCourse(r, d) PROVE FALSE
    <3>1. [tenant |-> request[r].tenant, by |-> request[r].tenant] \in CourseRow
      BY <2>1 DEF CreateCourse, TInv, Locals, CourseRow
    <3> QED
      BY <1>2, <2>1, <3>1, RowIsNotGone DEF CreateCourse, Found, TInv, TypeOK, Gone
  <2>2. ASSUME NEW u \in Tenants, NEW d \in Courses, UpdateCourse(u, d) PROVE FALSE
    <3>1. [course[d] EXCEPT !.by = u] \in CourseRow
      BY <2>2 DEF UpdateCourse, Found, TInv, TypeOK, CourseRow
    <3> QED
      BY <1>2, <2>2, <3>1, RowIsNotGone DEF UpdateCourse, Found, TInv, TypeOK, Gone
  <2>3. ASSUME NEW u \in Tenants, NEW d \in Courses, DeleteCourse(u, d) PROVE d = c
    BY <1>2, <2>3 DEF DeleteCourse, Found, TInv, TypeOK, Gone
  <2>4. course' # course
    BY <1>2 DEF Found, Gone
  <2> QED
    BY <2>1, <2>2, <2>3, <2>4, RowSteps
       DEF CreateLesson, WriteLesson, CreateEnrollment, WriteEnrollment, DeleteLesson,
           DeleteEnrollment
<1> QED
  BY <1>1, <1>2

LEMMA ChildrenStep ==
  ASSUME RowInv, [Next]_vars
  PROVE  ChildrenBelong'
<1>1. ASSUME NEW l \in Lessons, lesson'[l] \notin Gone
      PROVE  Found(lesson[l].tenant, lesson[l].course)'
  <2>1. ASSUME NEW r \in Requests, CreateLesson(r, l), lesson' # lesson
        PROVE  Found(lesson[l].tenant, lesson[l].course)'
    <3>1. /\ lesson'[l].tenant = request[r].tenant
          /\ lesson'[l].course = request[r].course
      BY <2>1, LessonCreated DEF RowInv, TInv, TypeOK
    <3> QED
      BY <2>1, <3>1, LessonCreated DEF CreateLesson, Found
  <2>2. ASSUME lesson[l] \notin Gone, lesson'[l].tenant = lesson[l].tenant,
               lesson'[l].course = lesson[l].course
        PROVE  Found(lesson[l].tenant, lesson[l].course)'
    <3> DEFINE c == lesson[l].course
    <3>1. Found(lesson[l].tenant, c)
      BY <2>2 DEF RowInv, ChildrenBelong
    <3>2. c \in Courses /\ lesson[l].tenant \in Tenants
      BY <2>2 DEF RowInv, TInv, TypeOK, LessonRow
    <3>3. ASSUME NEW u \in Tenants, DeleteCourse(u, c) PROVE FALSE
      BY <1>1, <2>2, <3>3 DEF DeleteCourse, Gone
    <3>4. \A t \in Tenants, d \in Courses :
            Found(t, d) => Found(t, d)' \/ \E u \in Tenants : DeleteCourse(u, d)
      BY CourseStays DEF RowInv
    <3>5. course'[c] \notin Gone /\ course'[c].tenant = lesson[l].tenant
      BY <3>1, <3>2, <3>3, <3>4 DEF Found
    <3> QED
      BY <2>2, <3>5 DEF Found
  <2> QED
    BY <1>1, <2>1, <2>2, LessonBefore
<1>2. ASSUME NEW n \in Enrollments, enrollment'[n] \notin Gone
      PROVE  Found(enrollment[n].tenant, enrollment[n].course)'
  <2>1. ASSUME NEW r \in Requests, CreateEnrollment(r, n), enrollment' # enrollment
        PROVE  Found(enrollment[n].tenant, enrollment[n].course)'
    <3>1. /\ enrollment'[n].tenant = request[r].tenant
          /\ enrollment'[n].course = request[r].course
      BY <2>1, EnrollmentCreated DEF RowInv, TInv, TypeOK
    <3> QED
      BY <2>1, <3>1, EnrollmentCreated DEF CreateEnrollment, Found
  <2>2. ASSUME enrollment[n] \notin Gone, enrollment'[n].tenant = enrollment[n].tenant,
               enrollment'[n].course = enrollment[n].course
        PROVE  Found(enrollment[n].tenant, enrollment[n].course)'
    <3> DEFINE c == enrollment[n].course
    <3>1. Found(enrollment[n].tenant, c)
      BY <2>2 DEF RowInv, ChildrenBelong
    <3>2. c \in Courses /\ enrollment[n].tenant \in Tenants
      BY <2>2 DEF RowInv, TInv, TypeOK, EnrollmentRow
    <3>3. ASSUME NEW u \in Tenants, DeleteCourse(u, c) PROVE FALSE
      BY <1>2, <2>2, <3>3 DEF DeleteCourse, Gone
    <3>4. \A t \in Tenants, d \in Courses :
            Found(t, d) => Found(t, d)' \/ \E u \in Tenants : DeleteCourse(u, d)
      BY CourseStays DEF RowInv
    <3>5. course'[c] \notin Gone /\ course'[c].tenant = enrollment[n].tenant
      BY <3>1, <3>2, <3>3, <3>4 DEF Found
    <3> QED
      BY <2>2, <3>5 DEF Found
  <2> QED
    BY <1>2, <2>1, <2>2, EnrollmentBefore
<1> QED
  BY <1>1, <1>2 DEF ChildrenBelong, Gone

LEMMA EnrolledOnceStep ==
  ASSUME RowInv, [Next]_vars
  PROVE  EnrolledOnce'
<1> SUFFICES ASSUME NEW m \in Enrollments, NEW n \in Enrollments,
                    enrollment'[m] \notin Gone, enrollment'[n] \notin Gone,
                    enrollment'[m].course = enrollment'[n].course,
                    enrollment'[m].user = enrollment'[n].user, m # n
             PROVE  FALSE
  BY DEF EnrolledOnce, Gone
\* A new row beside one of the same course and user: that one was found.
<1>1. ASSUME NEW r \in Requests, NEW i \in Enrollments, NEW k \in Enrollments, i # k,
             CreateEnrollment(r, i), enrollment' # enrollment, enrollment'[k] \notin Gone,
             enrollment'[i].course = enrollment'[k].course,
             enrollment'[i].user = enrollment'[k].user
      PROVE  FALSE
  <2> DEFINE q == request[r]
  <2>1. /\ enrollment'[i].course = q.course /\ enrollment'[i].user = q.actor
        /\ enrollment'[k] = enrollment[k]
        /\ Found(q.tenant, q.course) /\ ~Enrolled(q.tenant, q.course, q.actor)
    BY <1>1, EnrollmentCreated DEF RowInv, TInv, TypeOK
  <2>2. Found(enrollment[k].tenant, enrollment[k].course) /\ enrollment[k] \notin Gone
    BY <1>1, <2>1 DEF RowInv, ChildrenBelong
  <2>3. enrollment[k].tenant = q.tenant
    BY <1>1, <2>1, <2>2 DEF Found
  <2> QED
    BY <1>1, <2>1, <2>2, <2>3 DEF Enrolled
<1>2. ~\E r \in Requests : \/ CreateEnrollment(r, m) /\ enrollment' # enrollment
                           \/ CreateEnrollment(r, n) /\ enrollment' # enrollment
  BY <1>1
<1>3. /\ enrollment[m] \notin Gone /\ enrollment[n] \notin Gone
      /\ enrollment[m].course = enrollment[n].course
      /\ enrollment[m].user = enrollment[n].user
  BY <1>2, EnrollmentBefore
<1> QED
  BY <1>3 DEF RowInv, EnrolledOnce

\* Who writes an enrollment: both properties come from what the write looked up.
LEMMA WrittenEnrollments ==
  ASSUME RowInv, [Next]_vars, NEW n \in Enrollments, enrollment'[n] \notin Gone
  PROVE  /\ enrollment'[n].by = enrollment'[n].tenant
         /\ enrollment'[n].actor \in {Staff, enrollment'[n].user}
<1> DEFINE Goal == /\ enrollment'[n].by = enrollment'[n].tenant
                   /\ enrollment'[n].actor \in {Staff, enrollment'[n].user}
<1>0. ASSUME enrollment'[n] = enrollment[n] PROVE Goal
  BY <1>0 DEF RowInv, WrittenByOwnTenant, ProgressOfOwnLearner
<1>1. CASE enrollment' = enrollment
  BY <1>0, <1>1
<1>2. ASSUME enrollment' # enrollment, NEW r \in Requests, NEW k \in Enrollments,
             CreateEnrollment(r, k)
      PROVE  Goal
  <2>1. k # n => Goal
    BY <1>0, <1>2, EnrollmentCreated DEF RowInv, TInv, TypeOK
  <2>2. k = n => Goal
    BY <1>2, EnrollmentCreated DEF RowInv, TInv, TypeOK
  <2> QED
    BY <2>1, <2>2
<1>3. ASSUME enrollment' # enrollment, NEW r \in Requests, WriteEnrollment(r)
      PROVE  Goal
  <2> DEFINE q == request[r]
             k == request[r].row
  <2>1. /\ k \in Enrollments
        /\ enrollment[k] \notin Gone /\ enrollment[k].tenant = q.tenant
        /\ q.actor = Staff \/ enrollment[k].user = q.actor
        /\ enrollment' = [enrollment EXCEPT ![k].by = q.tenant, ![k].actor = q.actor]
    BY <1>3, EnrollmentWritten DEF EnrollmentFound, Owns
  <2>2. k # n => Goal
    BY <1>0, <2>1 DEF RowInv, TInv, TypeOK
  <2>3. enrollment[k] \in EnrollmentRow
    BY <2>1 DEF RowInv, TInv, TypeOK
  <2>4. enrollment'[k] = [[enrollment[k] EXCEPT !.by = q.tenant] EXCEPT !.actor = q.actor]
    BY <2>1 DEF RowInv, TInv, TypeOK
  <2>5. /\ enrollment'[k].tenant = enrollment[k].tenant
        /\ enrollment'[k].user = enrollment[k].user
        /\ enrollment'[k].by = q.tenant
        /\ enrollment'[k].actor = q.actor
    BY <2>3, <2>4 DEF EnrollmentRow
  <2>6. k = n => Goal
    BY <2>1, <2>5
  <2> QED
    BY <2>2, <2>6
<1>4. ASSUME NEW t \in Tenants, NEW c \in Courses, DeleteCourse(t, c)
      PROVE  Goal
  BY <1>0, <1>4 DEF DeleteCourse, Gone
<1>5. ASSUME NEW t \in Tenants, NEW k \in Enrollments, DeleteEnrollment(t, k)
      PROVE  Goal
  BY <1>0, <1>5 DEF DeleteEnrollment, RowInv, TInv, TypeOK, Gone
<1> QED
  BY <1>1, <1>2, <1>3, <1>4, <1>5, RowSteps
     DEF CreateCourse, UpdateCourse, CreateLesson, WriteLesson, DeleteLesson

LEMMA WrittenStep ==
  ASSUME RowInv, [Next]_vars
  PROVE  WrittenByOwnTenant'
<1>1. ASSUME NEW c \in Courses, course'[c] \notin Gone
      PROVE  course'[c].by = course'[c].tenant
  <2>1. ASSUME NEW r \in Requests, NEW d \in Courses, CreateCourse(r, d)
        PROVE  course'[c].by = course'[c].tenant
    BY <1>1, <2>1 DEF CreateCourse, RowInv, TInv, TypeOK, WrittenByOwnTenant
  <2>2. ASSUME NEW t \in Tenants, NEW d \in Courses, UpdateCourse(t, d)
        PROVE  course'[c].by = course'[c].tenant
    <3>1. course[d] \in CourseRow /\ course[d].tenant = t
      BY <2>2 DEF UpdateCourse, Found, RowInv, TInv, TypeOK
    <3> QED
      BY <1>1, <2>2, <3>1 DEF UpdateCourse, RowInv, TInv, TypeOK, WrittenByOwnTenant, CourseRow
  <2>3. ASSUME NEW t \in Tenants, NEW d \in Courses, DeleteCourse(t, d)
        PROVE  course'[c].by = course'[c].tenant
    BY <1>1, <2>3 DEF DeleteCourse, RowInv, TInv, TypeOK, WrittenByOwnTenant, Gone
  <2>4. course' = course => course'[c].by = course'[c].tenant
    BY <1>1 DEF RowInv, WrittenByOwnTenant
  <2> QED
    BY <2>1, <2>2, <2>3, <2>4, RowSteps
       DEF CreateLesson, WriteLesson, CreateEnrollment, WriteEnrollment, DeleteLesson,
           DeleteEnrollment
<1>2. ASSUME NEW l \in Lessons, lesson'[l] \notin Gone
      PROVE  lesson'[l].by = lesson'[l].tenant
  <2>1. CASE lesson' = lesson
    BY <1>2, <2>1 DEF RowInv, WrittenByOwnTenant
  <2>2. ASSUME lesson' # lesson, NEW r \in Requests, NEW k \in Lessons, CreateLesson(r, k)
        PROVE  lesson'[l].by = lesson'[l].tenant
    BY <1>2, <2>2, LessonCreated DEF RowInv, TInv, TypeOK, WrittenByOwnTenant
  <2>3. ASSUME lesson' # lesson, NEW r \in Requests, WriteLesson(r)
        PROVE  lesson'[l].by = lesson'[l].tenant
    <3> DEFINE q == request[r]
               k == request[r].row
    <3>1. /\ k \in Lessons /\ lesson[k] \notin Gone /\ lesson[k].tenant = q.tenant
          /\ lesson' = [lesson EXCEPT ![k].by = q.tenant]
      BY <2>3, LessonWritten
    <3>2. lesson[k] \in LessonRow /\ lesson'[k] = [lesson[k] EXCEPT !.by = q.tenant]
      BY <3>1 DEF RowInv, TInv, TypeOK
    <3>3. lesson'[k].tenant = lesson[k].tenant /\ lesson'[k].by = q.tenant
      BY <3>2 DEF LessonRow
    <3>4. k # l => lesson'[l] = lesson[l]
      BY <3>1 DEF RowInv, TInv, TypeOK
    <3> QED
      BY <1>2, <3>1, <3>3, <3>4 DEF RowInv, WrittenByOwnTenant
  <2>4. ASSUME NEW t \in Tenants, NEW c \in Courses, DeleteCourse(t, c)
        PROVE  lesson'[l].by = lesson'[l].tenant
    BY <1>2, <2>4 DEF DeleteCourse, RowInv, WrittenByOwnTenant, Gone
  <2>5. ASSUME NEW t \in Tenants, NEW c \in Courses, NEW k \in Lessons, DeleteLesson(t, c, k)
        PROVE  lesson'[l].by = lesson'[l].tenant
    BY <1>2, <2>5 DEF DeleteLesson, RowInv, TInv, TypeOK, WrittenByOwnTenant, Gone
  <2> QED
    BY <2>1, <2>2, <2>3, <2>4, <2>5, RowSteps
       DEF CreateCourse, UpdateCourse, CreateEnrollment, WriteEnrollment, DeleteEnrollment
<1>3. ASSUME NEW n \in Enrollments, enrollment'[n] \notin Gone
      PROVE  /\ enrollment'[n].by = enrollment'[n].tenant
             /\ enrollment'[n].actor \in {Staff, enrollment'[n].user}
  BY <1>3, WrittenEnrollments
<1> QED
  BY <1>1, <1>2, <1>3 DEF WrittenByOwnTenant, Gone

LEMMA ProgressStep ==
  ASSUME RowInv, [Next]_vars
  PROVE  ProgressOfOwnLearner'
  BY WrittenEnrollments DEF ProgressOfOwnLearner, Gone

LEMMA RowStep == RowInv /\ [Next]_vars => RowInv'
<1> SUFFICES ASSUME RowInv, [Next]_vars PROVE RowInv'
  OBVIOUS
<1>1. TInv' /\ Looked'
  BY TypeStep, LookedStep DEF RowInv
<1> QED
  BY <1>1, ChildrenStep, EnrolledOnceStep, WrittenStep, ProgressStep DEF RowInv

LEMMA RowInvariance == Spec => []RowInv
  BY RowInit, RowStep, PTL DEF Spec

\* Lessons and enrollments belong to a course of their tenant that exists, and a
\* user is enrolled in a course once.
THEOREM RowsSafe == Spec => []RowsConsistent
<1>1. RowInv => RowsConsistent
  BY DEF RowInv, RowsConsistent
<1> QED
  BY <1>1, RowInvariance, PTL

\* Rows are written by requests of their own tenant, and the progress of an
\* enrollment by its learner or by staff.
THEOREM WritersSafe == Spec => []WrittenByTheirOwn
<1>1. RowInv => WrittenByTheirOwn
  BY DEF RowInv, WrittenByTheirOwn
<1> QED
  BY <1>1, RowInvariance, PTL

-----------------------------------------------------------------------------
(* The course limit.  A request between the count and the creation counts  *)
(* like a course: the sum is what a creation leaves unchanged.             *)

Creating(t) == {r \in Requests : request[r].pc = "createCourse" /\ request[r].tenant = t}

CountInv ==
    \A t \in Tenants : granted[t] # NoLimit =>
        Cardinality(CoursesOf(t)) + Cardinality(Creating(t))
            <= granted[t] + Cardinality(Requests) - 1

LEMMA Finite ==
  ASSUME NEW t
  PROVE  /\ IsFiniteSet(CoursesOf(t)) /\ IsFiniteSet(Creating(t))
         /\ Cardinality(CoursesOf(t)) \in Nat /\ Cardinality(Creating(t)) \in Nat
         /\ Cardinality(Creating(t)) <= Cardinality(Requests)
         /\ Cardinality(Requests) \in Nat \ {0}
<1>1. CoursesOf(t) \subseteq Courses /\ Creating(t) \subseteq Requests
  BY DEF CoursesOf, Creating
<1>2. /\ IsFiniteSet(CoursesOf(t)) /\ IsFiniteSet(Creating(t))
      /\ Cardinality(Creating(t)) <= Cardinality(Requests)
  BY <1>1, FS_Subset, RequestsAssumption, CoursesAssumption
<1>3. Cardinality(Requests) # 0
  BY RequestsAssumption, FS_EmptySet
<1> QED
  BY <1>2, <1>3, FS_CardinalityType, RequestsAssumption

\* The same after a step: what the lemma says holds in every state.
LEMMA FiniteNext ==
  ASSUME NEW t
  PROVE  /\ IsFiniteSet(CoursesOf(t)') /\ IsFiniteSet(Creating(t)')
         /\ Cardinality(CoursesOf(t)') \in Nat /\ Cardinality(Creating(t)') \in Nat
         /\ Cardinality(Creating(t)') <= Cardinality(Requests)
<1>1. CoursesOf(t)' \subseteq Courses /\ Creating(t)' \subseteq Requests
  BY DEF CoursesOf, Creating
<1> QED
  BY <1>1, FS_Subset, FS_CardinalityType, RequestsAssumption, CoursesAssumption

LEMMA CountInit == Init => CountInv
<1> SUFFICES ASSUME Init, NEW t \in Tenants
             PROVE  Cardinality(CoursesOf(t)) + Cardinality(Creating(t))
                      <= granted[t] + Cardinality(Requests) - 1
  BY DEF CountInv
<1>1. CoursesOf(t) = {} /\ Creating(t) = {} /\ granted[t] = 0
  BY DEF Init, CoursesOf, Found, Creating, Idle, Gone
<1> QED
  BY <1>1, Finite, FS_EmptySet

LEMMA CountedStep ==
  ASSUME TInv, CountInv, NEW r \in Requests, NEW u \in Tenants, NEW tier \in Tiers,
         CountCourses(r, u, tier)
  PROVE  CountInv'
<1> SUFFICES ASSUME NEW t \in Tenants, granted'[t] # NoLimit
             PROVE  Cardinality(CoursesOf(t)') + Cardinality(Creating(t)')
                      <= granted'[t] + Cardinality(Requests) - 1
  BY DEF CountInv
<1>1. CoursesOf(t)' = CoursesOf(t)
  BY DEF CountCourses, CoursesOf, Found, Gone
<1>2. CASE u = t
  <2>1. granted'[t] = Higher(granted[t], Limit[tier])
    BY <1>2 DEF CountCourses, TInv, TypeOK
  <2>2. /\ Limit[tier] \in Nat /\ granted'[t] \in Nat
        /\ Limit[tier] <= granted'[t]
    BY <2>1, LimitAssumption DEF Higher, TInv, TypeOK
  <2>3. Cardinality(CoursesOf(t)) < Limit[tier]
    BY <1>2, <2>2, LimitAssumption DEF CountCourses, MayCreate
  <2> QED
    BY <1>1, <2>2, <2>3, Finite, FiniteNext
<1>3. CASE u # t
  <2>1. Creating(t)' = Creating(t)
    <3>1. \A s \in Requests : \/ request'[s] = request[s]
                              \/ /\ s = r /\ request[s].pc = "idle"
                                 /\ request'[s] = [Idle EXCEPT !.pc = "createCourse", !.tenant = u]
      BY DEF CountCourses, Goes, TInv, TypeOK
    <3>2. [Idle EXCEPT !.pc = "createCourse", !.tenant = u].tenant = u
      BY DEF Idle
    <3> QED
      BY <1>3, <3>1, <3>2 DEF Creating
  <2>2. granted'[t] = granted[t]
    BY <1>3 DEF CountCourses, TInv, TypeOK
  <2> QED
    BY <1>1, <2>1, <2>2 DEF CountInv
<1> QED
  BY <1>2, <1>3

LEMMA CreatedStep ==
  ASSUME TInv, CountInv, NEW r \in Requests, NEW c \in Courses, CreateCourse(r, c)
  PROVE  CountInv'
<1> SUFFICES ASSUME NEW t \in Tenants, granted'[t] # NoLimit
             PROVE  Cardinality(CoursesOf(t)') + Cardinality(Creating(t)')
                      <= granted'[t] + Cardinality(Requests) - 1
  BY DEF CountInv
<1> DEFINE u == request[r].tenant
           row == [tenant |-> u, by |-> u]
<1>1. row \in CourseRow /\ row \notin Gone
  BY RowIsNotGone DEF CreateCourse, TInv, Locals, CourseRow
<1>2. /\ course' = [course EXCEPT ![c] = row] /\ course[c] = Unused
      /\ request' = [request EXCEPT ![r] = Idle] /\ request[r].pc = "createCourse"
      /\ granted' = granted
  BY DEF CreateCourse, Done, Goes
<1>3. /\ CoursesOf(t)' = CoursesOf(t) \cup (IF u = t THEN {c} ELSE {})
      /\ c \notin CoursesOf(t)
  BY <1>1, <1>2 DEF CoursesOf, Found, TInv, TypeOK, Gone
<1>4. Creating(t)' = Creating(t) \ {r}
  BY <1>2 DEF Creating, Idle, TInv, TypeOK
<1>5. r \in Creating(t) <=> u = t
  BY <1>2 DEF Creating
<1>6. CASE u = t
  <2>1. Cardinality(CoursesOf(t)') = Cardinality(CoursesOf(t)) + 1
    BY <1>3, <1>6, Finite, FS_AddElement
  <2>2. Cardinality(Creating(t)') = Cardinality(Creating(t)) - 1
    BY <1>4, <1>5, <1>6, Finite, FS_RemoveElement
  <2>3. granted[t] \in Nat
    BY <1>2 DEF TInv, TypeOK
  <2> QED
    BY <1>2, <2>1, <2>2, <2>3, Finite DEF CountInv
<1>7. CASE u # t
  <2>1. CoursesOf(t)' = CoursesOf(t) /\ Creating(t)' = Creating(t)
    BY <1>3, <1>4, <1>5, <1>7
  <2> QED
    BY <1>2, <2>1 DEF CountInv
<1> QED
  BY <1>6, <1>7

\* No other step grants, creates or prepares a creation.
LEMMA OtherSteps ==
  ASSUME TInv, [Next]_vars,
         ~\E r \in Requests, t \in Tenants, tier \in Tiers : CountCourses(r, t, tier),
         ~\E r \in Requests, c \in Courses : CreateCourse(r, c)
  PROVE  /\ granted' = granted
         /\ \A s \in Requests : request'[s] = request[s] \/ request'[s].pc # "createCourse"
         /\ \A c \in Courses : course[c] = Unused => course'[c] = Unused
<1> DEFINE Quiet == /\ granted' = granted
                    /\ \A s \in Requests :
                         request'[s] = request[s] \/ request'[s].pc # "createCourse"
                    /\ \A c \in Courses : course[c] = Unused => course'[c] = Unused
<1>0. /\ \A p, t, c : [Idle EXCEPT !.pc = p, !.tenant = t, !.course = c].pc = p
      /\ \A p, t, n : [Idle EXCEPT !.pc = p, !.tenant = t, !.row = n].pc = p
      /\ \A p, t, c, u : [Idle EXCEPT !.pc = p, !.tenant = t, !.course = c, !.actor = u].pc = p
      /\ \A p, t, n, u : [Idle EXCEPT !.pc = p, !.tenant = t, !.row = n, !.actor = u].pc = p
      /\ Idle.pc = "idle"
  BY DEF Idle
<1>10. ASSUME NEW r \in Requests, NEW state, Goes(r, state), state.pc # "createCourse",
              granted' = granted, course' = course
       PROVE  Quiet
  BY <1>10 DEF Goes, TInv, TypeOK
<1>1. ASSUME NEW r \in Requests, LessonStep(r) PROVE Quiet
  <2>1. ASSUME NEW t \in Tenants, NEW c \in Courses, FindCourseForLesson(r, t, c) PROVE Quiet
    <3>1. [Idle EXCEPT !.pc = "createLesson", !.tenant = t, !.course = c].pc # "createCourse"
      BY <1>0
    <3> QED
      BY <2>1, <3>1, <1>10 DEF FindCourseForLesson
  <2>2. ASSUME NEW t \in Tenants, NEW c \in Courses, NEW l \in Lessons, FindLesson(r, t, c, l)
        PROVE  Quiet
    <3>1. [Idle EXCEPT !.pc = "writeLesson", !.tenant = t, !.row = l].pc # "createCourse"
      BY <1>0
    <3> QED
      BY <2>2, <3>1, <1>10 DEF FindLesson
  <2>3. ASSUME NEW l \in Lessons, CreateLesson(r, l) PROVE Quiet
    BY <2>3, <1>0, <1>10 DEF CreateLesson, Done
  <2>4. ASSUME WriteLesson(r) PROVE Quiet
    BY <2>4, <1>0, <1>10 DEF WriteLesson, Done
  <2> QED
    BY <1>1, <2>1, <2>2, <2>3, <2>4 DEF LessonStep
<1>2. ASSUME NEW r \in Requests, EnrollmentStep(r) PROVE Quiet
  <2>1. ASSUME NEW t \in Tenants, NEW c \in Courses, NEW u \in Users,
               FindCourseForEnrollment(r, t, c, u)
        PROVE  Quiet
    <3>1. [Idle EXCEPT !.pc = "enroll", !.tenant = t, !.course = c, !.actor = u].pc
            # "createCourse"
      BY <1>0
    <3> QED
      BY <2>1, <3>1, <1>10 DEF FindCourseForEnrollment
  <2>2. ASSUME NEW t \in Tenants, NEW n \in Enrollments, NEW a \in Users \cup {Staff},
               FindEnrollment(r, t, n, a)
        PROVE  Quiet
    <3>1. [Idle EXCEPT !.pc = "writeEnrollment", !.tenant = t, !.row = n, !.actor = a].pc
            # "createCourse"
      BY <1>0
    <3> QED
      BY <2>2, <3>1, <1>10 DEF FindEnrollment
  <2>3. ASSUME NEW n \in Enrollments, CreateEnrollment(r, n) PROVE Quiet
    BY <2>3, <1>0, <1>10 DEF CreateEnrollment, Done
  <2>4. ASSUME WriteEnrollment(r) PROVE Quiet
    BY <2>4, <1>0, <1>10 DEF WriteEnrollment, Done
  <2> QED
    BY <1>2, <2>1, <2>2, <2>3, <2>4 DEF EnrollmentStep
<1>3. ASSUME NEW r \in Requests, Dies(r) PROVE Quiet
  BY <1>3 DEF Dies, Goes, Done, Idle, TInv, TypeOK
<1>4. ASSUME NEW t \in Tenants, SingleStatement(t) PROVE Quiet
  BY <1>4 DEF SingleStatement, SyncTier, UpdateCourse, DeleteCourse, DeleteLesson, DeleteEnrollment,
              Found, TInv, TypeOK, Gone
<1>5. UNCHANGED vars => Quiet
  BY DEF vars
<1> QED
  BY <1>1, <1>2, <1>3, <1>4, <1>5 DEF Next, CourseStep

LEMMA CountStep == TInv /\ CountInv /\ [Next]_vars => CountInv'
<1> SUFFICES ASSUME TInv, CountInv, [Next]_vars PROVE CountInv'
  OBVIOUS
<1>1. CASE \/ \E r \in Requests, t \in Tenants, tier \in Tiers : CountCourses(r, t, tier)
           \/ \E r \in Requests, c \in Courses : CreateCourse(r, c)
  BY <1>1, CountedStep, CreatedStep
<1>2. CASE ~ \/ \E r \in Requests, t \in Tenants, tier \in Tiers : CountCourses(r, t, tier)
             \/ \E r \in Requests, c \in Courses : CreateCourse(r, c)
  <2> SUFFICES ASSUME NEW t \in Tenants, granted'[t] # NoLimit
               PROVE  Cardinality(CoursesOf(t)') + Cardinality(Creating(t)')
                        <= granted'[t] + Cardinality(Requests) - 1
    BY DEF CountInv
  <2>1. /\ granted' = granted
        /\ \A s \in Requests : request'[s] = request[s] \/ request'[s].pc # "createCourse"
        /\ \A c \in Courses : course[c] = Unused => course'[c] = Unused
    BY <1>2, OtherSteps
  <2>2. Creating(t)' \subseteq Creating(t)
    BY <2>1 DEF Creating
  <2>3. CoursesOf(t)' \subseteq CoursesOf(t)
    BY <2>1, CoursesRemain DEF CoursesOf, Found, CourseRemains, Gone
  <2>4. /\ Cardinality(CoursesOf(t)') <= Cardinality(CoursesOf(t))
        /\ Cardinality(Creating(t)') <= Cardinality(Creating(t))
    BY <2>2, <2>3, Finite, FS_Subset
  <2>5. granted[t] \in Nat /\ granted[t] # NoLimit
    BY <2>1 DEF TInv, TypeOK
  <2> QED
    BY <2>1, <2>4, <2>5, Finite, FiniteNext DEF CountInv
<1> QED
  BY <1>1, <1>2

\* The courses of a tenant never exceed the limit by as many as there may be
\* requests at a time: with one request at a time they never exceed it.
THEOREM OverrunSafe == Spec => []OverrunIsBounded
<1>1. TInv /\ CountInv => OverrunIsBounded
  <2> SUFFICES ASSUME TInv, CountInv, NEW t \in Tenants, granted[t] # NoLimit
               PROVE  Cardinality(CoursesOf(t)) <= granted[t] + Cardinality(Requests) - 1
    BY DEF OverrunIsBounded
  <2>1. granted[t] \in Nat
    BY DEF TInv, TypeOK
  <2> QED
    BY <2>1, Finite DEF CountInv
<1> QED
  BY <1>1, TypeInit, TypeStep, CountInit, CountStep, PTL DEF Spec

=============================================================================
