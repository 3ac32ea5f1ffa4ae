----------------------------- MODULE Admission -----------------------------
(***************************************************************************)
(* What auth-org-service promises about who gets into an organization,     *)
(* without its handlers, its requests and its clock: whoever is admitted   *)
(* was invited, and keeps the role of that invite; an admission ends with  *)
(* a membership or is abandoned; an invite is spent only for a member.     *)
(*                                                                         *)
(* A learner who is admitted takes a seat within the limit, unless the     *)
(* grace window was open, or the limit was changed or a seat taken while   *)
(* the learner was at the door: such a learner is excused.                 *)
(***************************************************************************)
EXTENDS Naturals, FiniteSets

CONSTANTS Emails, Invites, EmailOf, RoleOf, Limits

VARIABLES
    issued, spent,      \* invites
    role,               \* of each user, "none" of others
    admitting,          \* users who are no members yet
    abandoned,          \* users who will not be members
    members,
    seats,              \* the learners that count as active
    limit,
    lenient,            \* the grace window is open
    excused             \* those whose seat may be one too many

people == <<role, admitting, abandoned, members>>
tenant == <<limit, lenient>>
vars   == <<issued, spent, people, seats, tenant, excused>>

Init ==
    /\ issued    = {} /\ spent = {}
    /\ role      = [e \in Emails |-> "none"]
    /\ admitting = {} /\ abandoned = {} /\ members = {}
    /\ seats     = {} /\ limit \in Limits /\ ~lenient
    /\ excused   = {}

\* Whoever leaves the door, or finds a seat free, needs no excuse any more.
Leave == excused' \in SUBSET excused

Issue(i) ==
    /\ i \notin issued
    /\ issued' = issued \cup {i}
    /\ Leave /\ UNCHANGED <<spent, people, seats, tenant>>

Enrol(i) ==
    /\ i \in issued /\ role[EmailOf[i]] = "none"
    /\ role'      = [role EXCEPT ![EmailOf[i]] = RoleOf[i]]
    /\ admitting' = admitting \cup {EmailOf[i]}
    /\ Leave /\ UNCHANGED <<issued, spent, abandoned, members, seats, tenant>>

\* Whoever takes a seat may excuse others.
TakeSeat(e) ==
    /\ seats'   = seats \cup {e}
    /\ excused' \in SUBSET Emails

Join(e) ==
    /\ e \in admitting
    /\ admitting' = admitting \ {e}
    /\ members'   = members \cup {e}
    /\ \/ role[e] # "LEARNER" /\ Leave /\ UNCHANGED seats
       \/ role[e] = "LEARNER" /\ TakeSeat(e) /\ (e \in excused \/ Cardinality(seats') <= limit)
    /\ UNCHANGED <<issued, spent, role, abandoned, tenant>>

Abandon(e) ==
    /\ e \in admitting
    /\ admitting' = admitting \ {e}
    /\ abandoned' = abandoned \cup {e}
    /\ Leave /\ UNCHANGED <<issued, spent, role, members, seats, tenant>>

Spend(i) ==
    /\ i \in issued /\ EmailOf[i] \in members /\ role[EmailOf[i]] = RoleOf[i]
    /\ spent' = spent \cup {i}
    /\ Leave /\ UNCHANGED <<issued, people, seats, tenant>>

\* A learner who was away comes back.
Return(e) ==
    /\ e \in members /\ role[e] = "LEARNER"
    /\ TakeSeat(e)
    /\ UNCHANGED <<issued, spent, people, tenant>>

Offer ==
    /\ limit' \in Limits /\ lenient' \in BOOLEAN /\ excused' \in SUBSET Emails
    /\ UNCHANGED <<issued, spent, people, seats>>

TimePasses ==
    /\ seats' \in SUBSET seats
    /\ lenient' => lenient
    /\ Leave /\ UNCHANGED <<issued, spent, people, limit>>

Excuse(e) ==
    /\ lenient
    /\ excused' \in SUBSET (excused \cup {e})
    /\ UNCHANGED <<issued, spent, people, seats, tenant>>

Withdraw == Leave /\ UNCHANGED <<issued, spent, people, seats, tenant>>

Next ==
    \/ Withdraw \/ TimePasses \/ Offer
    \/ \E i \in Invites : Issue(i) \/ Enrol(i) \/ Spend(i)
    \/ \E e \in Emails : Join(e) \/ Abandon(e) \/ Return(e) \/ Excuse(e)

Spec == Init /\ [][Next]_vars

=============================================================================
