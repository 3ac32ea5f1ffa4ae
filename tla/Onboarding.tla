----------------------------- MODULE Onboarding -----------------------------
(***************************************************************************)
(* Onboarding and learner seats in auth-org-service                        *)
(* (auth-org-service.service.ts): an organization registers, invites users,*)
(* and each accepted invite makes a user and a membership.  A learner is   *)
(* admitted only while the tenant has a seat left, counted over the        *)
(* learners active within a rolling window.                                *)
(*                                                                         *)
(* The module is about one organization's name and the tenant made of it.  *)
(* Nothing runs in a transaction: every await of a handler is a step.      *)
(* Dates are relative: left is the time until an invite expires, or until  *)
(* a member's activity falls out of the window, grace the time until the   *)
(* grace window after the tenant row's updatedAt ends.                     *)
(***************************************************************************)
EXTENDS Integers, FiniteSets

CONSTANTS
    Emails,
    Invites,     \* bound: rows of Invite that are ever created
    EmailOf,
    RoleOf,
    NoInvite,
    Requests,    \* requests that may be under way at once
    Limits,      \* the values of includedLearnerSeats
    FreeSeats,   \* freeTierSeatLimit(), used when includedLearnerSeats is null
    Window,      \* seatBillingPeriodDays, in time units
    InviteTtl,   \* expiresInDays, in time units
    GraceDays,   \* seatGraceDays(), in time units
    MaxFaults    \* bound: calls that throw, requests that die

Roles == {"LEARNER", "INSTRUCTOR"}

ASSUME InvitesAssumption == /\ EmailOf \in [Invites -> Emails] /\ RoleOf \in [Invites -> Roles]
                            /\ NoInvite \notin Invites
ASSUME EmailsAssumption  == IsFiniteSet(Emails)
ASSUME LimitsAssumption  == Limits \subseteq Nat /\ FreeSeats \in Limits \ {0}
ASSUME TimesAssumption   == {Window, InviteTtl} \subseteq Nat \ {0} /\ GraceDays \in Nat
ASSUME BoundAssumption   == MaxFaults \in Nat

VARIABLES
    org,        \* the tenant, its admin user and the admin's membership, in this order
    limit,      \* includedLearnerSeats
    grace,      \* updatedAt + seatGraceDays() if stripeSubscriptionId is not null, else 0
    account,    \* the User and the Membership of each email
    invite,
    request,    \* the locals of each request
    fresh,      \* history: requests whose view of limit and seats nobody has outdated
    cut,        \* history: emails whose accept died between its writes
    orgCut,     \* history: the registration died between its writes
    faults

tenant  == <<org, limit, grace>>
history == <<fresh, cut, orgCut, faults>>
vars == <<tenant, account, invite, request, history>>

Account == [role : Roles \cup {"none"}, member : BOOLEAN, left : 0..Window]
Invite  == [state : {"absent", "open", "used", "deleted"}, left : 0..InviteTtl]
Places  == {"idle", "tenant", "admin", "adminMember", "invite", "mail",
            "limit", "count", "user", "member", "use"}
Request == [pc : Places, invite : Invites \cup {NoInvite}, limit : Limits, graced : BOOLEAN]

NoAccount == [role |-> "none", member |-> FALSE, left |-> 0]
Idle      == [pc |-> "idle", invite |-> NoInvite, limit |-> FreeSeats, graced |-> FALSE]

TypeOK ==
    /\ org     \in {"none", "tenant", "admin", "ready"}
    /\ limit   \in Limits
    /\ grace   \in 0..GraceDays
    /\ account \in [Emails -> Account]
    /\ invite  \in [Invites -> Invite]
    /\ request \in [Requests -> Request]
    /\ fresh   \subseteq Requests
    /\ cut     \subseteq Emails
    /\ orgCut  \in BOOLEAN
    /\ faults  \in 0..MaxFaults

Init ==
    /\ org     = "none"
    /\ limit   = FreeSeats
    /\ grace   = 0
    /\ account = [e \in Emails |-> NoAccount]
    /\ invite  = [i \in Invites |-> [state |-> "absent", left |-> 0]]
    /\ request = [r \in Requests |-> Idle]
    /\ fresh   = {}
    /\ cut     = {}
    /\ orgCut  = FALSE
    /\ faults  = 0

GoTo(r, pc) == request' = [request EXCEPT ![r].pc = pc]
Done(r)     == request' = [request EXCEPT ![r] = Idle]
Mine(r)     == request[r].invite
Email(r)    == EmailOf[Mine(r)]

-----------------------------------------------------------------------------
(* registerTenant                                                          *)

FindName(r) ==
    /\ request[r].pc = "idle" /\ org = "none"
    /\ GoTo(r, "tenant")
    /\ UNCHANGED <<tenant, account, invite, history>>

\* The name is unique: a second create is answered 409.
CreateTenant(r) ==
    /\ request[r].pc = "tenant"
    /\ \/ org = "none" /\ org' = "tenant" /\ GoTo(r, "admin")
       \/ org # "none" /\ UNCHANGED org /\ Done(r)
    /\ UNCHANGED <<limit, grace, account, invite, history>>

CreateAdmin(r) ==
    /\ request[r].pc = "admin"
    /\ org' = "admin"
    /\ GoTo(r, "adminMember")
    /\ UNCHANGED <<limit, grace, account, invite, history>>

\* Mutant: the membership of the admin is not created.
AdminMembershipForgotten(r) ==
    /\ request[r].pc = "adminMember"
    /\ Done(r)
    /\ UNCHANGED <<tenant, account, invite, history>>

CreateAdminMembership(r) ==
    /\ request[r].pc = "adminMember"
    /\ org' = "ready"
    /\ Done(r)
    /\ UNCHANGED <<limit, grace, account, invite, history>>

-----------------------------------------------------------------------------
(* createInvite: the inviter is the admin.                                 *)

FindInvitee(r, i) ==
    /\ request[r].pc = "idle" /\ org \in {"admin", "ready"}
    /\ account[EmailOf[i]].role = "none"
    /\ invite[i].state = "absent" /\ \A x \in Requests : Mine(x) # i
    /\ request' = [request EXCEPT ![r] = [Idle EXCEPT !.pc = "invite", !.invite = i]]
    /\ UNCHANGED <<tenant, account, invite, history>>

CreateInvite(r) ==
    /\ request[r].pc = "invite"
    /\ invite' = [invite EXCEPT ![Mine(r)] = [state |-> "open", left |-> InviteTtl]]
    /\ GoTo(r, "mail")
    /\ UNCHANGED <<tenant, account, history>>

\* dispatchInviteEmail; a mail that cannot be sent is Dies: the invite stays.
SendMail(r) ==
    /\ request[r].pc = "mail"
    /\ Done(r)
    /\ UNCHANGED <<tenant, account, invite, history>>

-----------------------------------------------------------------------------
(* acceptInvite                                                            *)

FindInvite(r, i) ==
    /\ request[r].pc = "idle"
    /\ invite[i].state = "open" /\ invite[i].left > 0
    /\ request' = [request EXCEPT ![r] = [Idle EXCEPT
                      !.pc = IF RoleOf[i] = "LEARNER" THEN "limit" ELSE "user", !.invite = i]]
    /\ UNCHANGED <<tenant, account, invite, history>>

\* Only a learner's membership counts toward the seats: left is 0 in any other.
Counts(e) == account[e].role = "LEARNER" /\ account[e].member

Seats == {e \in Emails : Counts(e) /\ account[e].left > 0}

\* assertSeatCapacityForNewActiveLearner reads the tenant, then counts.
ReadLimit(r) ==
    /\ request[r].pc = "limit"
    /\ request' = [request EXCEPT ![r].pc = "count", ![r].limit = limit,
                                  ![r].graced = grace > 0]
    /\ fresh' = fresh \cup {r}
    /\ UNCHANGED <<tenant, account, invite, cut, orgCut, faults>>

\* Mutant: the last seat is given twice.
SeatFreeOrFull(r) == Cardinality(Seats) <= request[r].limit

SeatFree(r) == Cardinality(Seats) < request[r].limit

\* The check is over; graced remembers for the properties why it admits.
Admit(r, graced) ==
    request' = [request EXCEPT ![r] =
                  [Idle EXCEPT !.pc = "user", !.invite = Mine(r), !.graced = graced]]

CountSeats(r) ==
    /\ request[r].pc = "count"
    /\ \/ SeatFree(r) /\ Admit(r, FALSE)
       \/ ~SeatFree(r) /\ request[r].graced /\ Admit(r, TRUE)
       \/ ~SeatFree(r) /\ ~request[r].graced /\ Done(r)
    /\ UNCHANGED <<tenant, account, invite, history>>

\* Mutant: the membership is skipped.
CreateUserOnly(r) ==
    /\ request[r].pc = "user"
    /\ account[Email(r)].role = "none"
    /\ account' = [account EXCEPT ![Email(r)].role = RoleOf[Mine(r)]]
    /\ GoTo(r, "use")
    /\ UNCHANGED <<tenant, invite, history>>

\* (tenantId, email) is unique: a second user.create throws.
CreateUser(r) ==
    /\ request[r].pc = "user"
    /\ \/ /\ account[Email(r)].role = "none"
          /\ account' = [account EXCEPT ![Email(r)].role = RoleOf[Mine(r)]]
          /\ GoTo(r, "member")
       \/ /\ account[Email(r)].role # "none"
          /\ UNCHANGED account
          /\ Done(r)
    /\ UNCHANGED <<tenant, invite, history>>

\* A seat taken outdates the view of every request that has counted them.
Outdated ==
    fresh' = IF Seats' = Seats THEN fresh ELSE {q \in fresh : request[q].pc = "count"}

CreateMembership(r) ==
    /\ request[r].pc = "member"
    /\ account' = [account EXCEPT ![Email(r)].member = TRUE,
                      ![Email(r)].left = IF RoleOf[Mine(r)] = "LEARNER" THEN Window ELSE 0]
    /\ GoTo(r, "use")
    /\ Outdated
    /\ UNCHANGED <<tenant, invite, cut, orgCut, faults>>

\* Mutant: usedAt is not written.
UseForgotten(r) ==
    /\ request[r].pc = "use"
    /\ Done(r)
    /\ UNCHANGED <<tenant, account, invite, history>>

\* The update goes by id: it throws when the job has deleted the invite.
UseInvite(r) ==
    /\ request[r].pc = "use"
    /\ invite' = [invite EXCEPT ![Mine(r)].state = IF @ = "deleted" THEN @ ELSE "used"]
    /\ Done(r)
    /\ UNCHANGED <<tenant, account, history>>

-----------------------------------------------------------------------------
(* The rest of the service, faults and time.                               *)

\* login writes lastSeatQualifyingActivityAt of the membership, with no look at
\* the seats: a learner who was away takes one again.
Login(e) ==
    /\ account[e].role # "none"
    /\ account' = [account EXCEPT ![e].left = IF Counts(e) THEN Window ELSE 0]
    /\ Outdated
    /\ UNCHANGED <<tenant, invite, request, cut, orgCut, faults>>

\* The Stripe webhook (module StripeBilling) writes the tenant row.
SyncTenant(l, subscribed) ==
    /\ org # "none"
    /\ limit' = l /\ grace' = IF subscribed THEN GraceDays ELSE 0
    /\ fresh' = {}
    /\ UNCHANGED <<org, account, invite, request, cut, orgCut, faults>>

Expired(i) == invite[i].state = "open" /\ invite[i].left = 0

\* cleanupExpiredInvites
Cleanup ==
    /\ \E i \in Invites : Expired(i)
    /\ invite' = [i \in Invites |-> IF Expired(i) THEN [invite[i] EXCEPT !.state = "deleted"]
                                                  ELSE invite[i]]
    /\ UNCHANGED <<tenant, account, request, history>>

\* A call throws or the process stops: what the request has written stays.
Dies(r) ==
    /\ request[r].pc # "idle"
    /\ faults < MaxFaults
    /\ faults' = faults + 1
    /\ cut'    = IF request[r].pc \in {"member", "use"} THEN cut \cup {Email(r)} ELSE cut
    /\ orgCut' = (orgCut \/ request[r].pc \in {"admin", "adminMember"})
    /\ Done(r)
    /\ UNCHANGED <<tenant, account, invite, fresh>>

Sooner(n) == IF n = 0 THEN 0 ELSE n - 1

Tick ==
    /\ grace'   = Sooner(grace)
    /\ account' = [e \in Emails |-> [account[e] EXCEPT !.left = Sooner(@)]]
    /\ invite'  = [i \in Invites |-> [invite[i] EXCEPT !.left = Sooner(@)]]
    /\ UNCHANGED <<org, limit, request, history>>

-----------------------------------------------------------------------------
Register(r) == FindName(r) \/ CreateTenant(r) \/ CreateAdmin(r) \/ CreateAdminMembership(r)
Accept(r)   == ReadLimit(r) \/ CountSeats(r) \/ CreateUser(r) \/ CreateMembership(r) \/ UseInvite(r)

RequestStep(r) ==
    \/ Register(r) \/ Accept(r) \/ CreateInvite(r) \/ SendMail(r) \/ Dies(r)
    \/ \E i \in Invites : FindInvitee(r, i) \/ FindInvite(r, i)

Next ==
    \/ \E r \in Requests : RequestStep(r)
    \/ \E e \in Emails : Login(e)
    \/ \E l \in Limits, subscribed \in BOOLEAN : SyncTenant(l, subscribed)
    \/ Cleanup \/ Tick

Spec == Init /\ [][Next]_vars

-----------------------------------------------------------------------------
(* Properties.                                                             *)

\* Seat enforcement (README.md:39-41): an accept that is not let in by the grace window
\* takes no seat too many, unless the limit was written after it read it or another
\* learner took a seat after it counted them.
SeatsWithinLimit ==
    [][\A r \in fresh :
          /\ request[r].pc = "member" /\ request'[r].pc = "use"
          /\ RoleOf[Mine(r)] = "LEARNER" /\ ~request[r].graced
          => Cardinality(Seats') <= limit]_vars

\* An invite is used up only when its user and the membership exist, so that a
\* request that dies cannot use up an invite for nothing.
UsedInviteHasMember ==
    \A i \in Invites : invite[i].state = "used" =>
        account[EmailOf[i]].member /\ account[EmailOf[i]].role = RoleOf[i]

\* A user without a membership is one whose accept is under way or has died.
AdmittedWholly ==
    \A e \in Emails : account[e].role # "none" /\ ~account[e].member =>
        e \in cut \/ \E r \in Requests : request[r].pc = "member" /\ Email(r) = e

\* However accepts overlap, and wherever one dies: an invite is used up for a
\* member, and a user who is no member is the trace of an accept.
AcceptsAreWhole == UsedInviteHasMember /\ AdmittedWholly

\* An invite stays open for a user who exists already only while its accept is
\* under way, when an accept has died, or when the user has come by another invite.
OpenInviteIsUsable ==
    \A i \in Invites : invite[i].state = "open" /\ account[EmailOf[i]].role # "none" =>
        \/ EmailOf[i] \in cut
        \/ \E r \in Requests : request[r].pc \in {"member", "use"} /\ Mine(r) = i
        \/ \E j \in Invites \ {i} : EmailOf[j] = EmailOf[i] /\ invite[j].state # "absent"

\* A tenant without an administrator who is its member is one whose registration
\* is under way or has died.
TenantHasAdmin ==
    org \in {"tenant", "admin"} =>
        orgCut \/ \E r \in Requests : request[r].pc \in {"admin", "adminMember"}

-----------------------------------------------------------------------------
(* The promise of the service, and what its requests do for it.            *)

Joining == {Email(r) : r \in {q \in Requests : request[q].pc = "member"}}

\* Learners whose accept has an outdated view, or one taken in the grace window.
Unsure(r) ==
    /\ request[r].pc \in {"count", "user", "member"} /\ RoleOf[Mine(r)] = "LEARNER"
    /\ r \notin fresh \/ request[r].graced

Excused == {Email(r) : r \in {q \in Requests : Unsure(q)}}

Promise == INSTANCE Admission WITH
             issued    <- {i \in Invites : invite[i].state # "absent"},
             spent     <- {i \in Invites : invite[i].state = "used"},
             role      <- [e \in Emails |-> account[e].role],
             admitting <- Joining,
             abandoned <- {e \in cut : ~account[e].member},
             members   <- {e \in Emails : account[e].member},
             seats     <- Seats,
             lenient   <- grace > 0,
             excused   <- Excused

\* However accepts overlap, stop or die, and whatever the webhook, the clean-up and
\* the clock do meanwhile, people get in as Admission allows.
ImplementsAdmission == Promise!Spec

=============================================================================
