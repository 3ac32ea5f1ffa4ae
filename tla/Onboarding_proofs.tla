------------------------- MODULE Onboarding_proofs -------------------------
(***************************************************************************)
(* Proofs about Onboarding, for any emails, invites and overlapping        *)
(* requests, and any limits and times.                                     *)
(***************************************************************************)
EXTENDS Onboarding, FiniteSetTheorems, TLAPS

-----------------------------------------------------------------------------
(* Type correctness.  A request about an invite holds one.                 *)

InviteFree == {"idle", "tenant", "admin", "adminMember"}

Holding == \A r \in Requests : request[r].pc \notin InviteFree => Mine(r) \in Invites

TInv == TypeOK /\ Holding

LEMMA IdleType == Idle \in Request /\ Idle.pc = "idle"
BY LimitsAssumption DEF Idle, Request, Places

LEMMA GoToRequest ==
  ASSUME TypeOK, NEW r \in Requests, NEW pc \in Places, GoTo(r, pc)
  PROVE  /\ request' \in [Requests -> Request]
         /\ request'[r] = [request[r] EXCEPT !.pc = pc]
         /\ \A x \in Requests \ {r} : request'[x] = request[x]
BY DEF GoTo, TypeOK, Request

LEMMA DoneRequest ==
  ASSUME TypeOK, NEW r \in Requests, Done(r)
  PROVE  /\ request' \in [Requests -> Request]
         /\ request'[r].pc = "idle" /\ request'[r].invite = NoInvite
         /\ \A x \in Requests \ {r} : request'[x] = request[x]
BY IdleType DEF Done, Idle, TypeOK

LEMMA HoldRequest ==
  ASSUME TypeOK, NEW r \in Requests, NEW pc \in Places, NEW i \in Invites,
         request' = [request EXCEPT ![r] = [Idle EXCEPT !.pc = pc, !.invite = i]]
  PROVE  /\ request' \in [Requests -> Request]
         /\ request'[r].pc = pc /\ request'[r].invite = i
         /\ \A x \in Requests \ {r} : request'[x] = request[x]
<1>1. [Idle EXCEPT !.pc = pc, !.invite = i] \in Request
  BY IdleType DEF Request
<1> QED
  BY <1>1 DEF TypeOK, Idle

LEMMA AdmitRequest ==
  ASSUME TypeOK, NEW r \in Requests, Mine(r) \in Invites, NEW graced \in BOOLEAN, Admit(r, graced)
  PROVE  /\ request' \in [Requests -> Request]
         /\ request'[r].pc = "user" /\ request'[r].invite = Mine(r)
         /\ request'[r].graced = graced
         /\ \A x \in Requests \ {r} : request'[x] = request[x]
<1> DEFINE mine == [Idle EXCEPT !.pc = "user", !.invite = Mine(r), !.graced = graced]
<1>1. /\ mine \in Request
      /\ mine.pc = "user" /\ mine.invite = Mine(r) /\ mine.graced = graced
  BY IdleType DEF Request, Places
<1>2. request' = [request EXCEPT ![r] = mine]
  BY DEF Admit
<1> HIDE DEF mine
<1> QED
  BY <1>1, <1>2 DEF TypeOK

LEMMA SoonerType == ASSUME NEW m \in Nat, NEW n \in 0..m PROVE Sooner(n) \in 0..m /\ Sooner(n) <= n
BY DEF Sooner

\* What a request may do to its own locals: it is done, or it keeps its invite,
\* or it takes one.
LEMMA RequestTypes ==
  ASSUME TInv, NEW r \in Requests, RequestStep(r)
  PROVE  /\ request' \in [Requests -> Request]
         /\ \A x \in Requests \ {r} : request'[x] = request[x]
         /\ request'[r].pc \notin InviteFree => request'[r].invite \in Invites
<1>0. TypeOK /\ Holding /\ request[r] \in Request
  BY DEF TInv, TypeOK
<1>1. CASE Done(r)
  BY <1>0, <1>1, DoneRequest DEF InviteFree
<1>2. ASSUME NEW pc \in Places, GoTo(r, pc), pc \in InviteFree \/ request[r].pc \notin InviteFree
      PROVE  /\ request' \in [Requests -> Request]
             /\ \A x \in Requests \ {r} : request'[x] = request[x]
             /\ request'[r].pc \notin InviteFree => request'[r].invite \in Invites
  <2>1. /\ request' \in [Requests -> Request] /\ request'[r] = [request[r] EXCEPT !.pc = pc]
        /\ \A x \in Requests \ {r} : request'[x] = request[x]
    BY <1>0, <1>2, GoToRequest
  <2>2. request'[r].pc = pc /\ request'[r].invite = request[r].invite
    BY <1>0, <2>1 DEF Request
  <2> QED
    BY <1>0, <1>2, <2>1, <2>2 DEF Holding, Mine
<1>3. CASE Register(r)
  BY <1>1, <1>2, <1>3 DEF Register, FindName, CreateTenant, CreateAdmin, CreateAdminMembership,
     InviteFree, Places
<1>4. CASE CreateInvite(r) \/ SendMail(r) \/ Dies(r)
  BY <1>1, <1>2, <1>4 DEF CreateInvite, SendMail, Dies, InviteFree, Places
<1>5. CASE ReadLimit(r)
  <2>0. PICK g \in BOOLEAN : g = (grace > 0)
    <3>1. CASE grace > 0
      <4>1. TRUE = (grace > 0)
        BY <3>1
      <4> QED
        BY <4>1, Zenon
    <3>2. CASE ~(grace > 0)
      <4>1. FALSE = (grace > 0)
        BY <3>2
      <4> QED
        BY <4>1, Zenon
    <3> QED
      BY <3>1, <3>2
  <2>1. request'[r] = [request[r] EXCEPT !.pc = "count", !.limit = limit, !.graced = g]
        /\ \A x \in Requests \ {r} : request'[x] = request[x]
    BY <1>0, <1>5, <2>0 DEF ReadLimit, TypeOK
  <2>2. request'[r] \in Request /\ request'[r].invite = request[r].invite
    BY <1>0, <2>1 DEF TypeOK, Request, Places
  <2>3. request' \in [Requests -> Request]
    BY <1>0, <1>5, <2>1, <2>2 DEF ReadLimit, TypeOK
  <2> QED
    BY <1>0, <1>5, <2>1, <2>2, <2>3 DEF ReadLimit, Holding, Mine, InviteFree
<1>6. CASE CountSeats(r)
  <2>1. ASSUME NEW graced \in BOOLEAN, Admit(r, graced), request[r].pc = "count"
        PROVE  /\ request' \in [Requests -> Request]
               /\ \A x \in Requests \ {r} : request'[x] = request[x]
               /\ request'[r].pc \notin InviteFree => request'[r].invite \in Invites
    BY <1>0, <2>1, AdmitRequest DEF Holding, InviteFree
  <2> QED
    BY <1>1, <1>6, <2>1 DEF CountSeats
<1>7. CASE CreateUser(r) \/ CreateMembership(r) \/ UseInvite(r)
  BY <1>1, <1>2, <1>7 DEF CreateUser, CreateMembership, UseInvite, InviteFree, Places
<1>8. ASSUME NEW i \in Invites, FindInvitee(r, i) \/ FindInvite(r, i)
      PROVE  /\ request' \in [Requests -> Request]
             /\ \A x \in Requests \ {r} : request'[x] = request[x]
             /\ request'[r].pc \notin InviteFree => request'[r].invite \in Invites
  <2>1. PICK pc \in Places : request' = [request EXCEPT ![r] = [Idle EXCEPT !.pc = pc, !.invite = i]]
    BY <1>8 DEF FindInvitee, FindInvite, Places
  <2> QED
    BY <1>0, <2>1, HoldRequest
<1> QED
  BY <1>3, <1>4, <1>5, <1>6, <1>7, <1>8 DEF RequestStep, Accept

LEMMA AccountTypes ==
  ASSUME NEW x \in Account, NEW role \in Roles, NEW l \in 0..Window
  PROVE  /\ [x EXCEPT !.role = role] \in Account
         /\ [x EXCEPT !.member = TRUE, !.left = l] \in Account
         /\ [x EXCEPT !.left = l] \in Account
BY DEF Account

\* What a step does to the accounts: a role is given once, a membership stays.
LEMMA AccountStep ==
  ASSUME TInv, [Next]_vars
  PROVE  /\ account' \in [Emails -> Account]
         /\ \A e \in Emails :
               /\ account[e].role # "none" => account'[e].role = account[e].role
               /\ account[e].member => account'[e].member
<1> DEFINE Kept == /\ account' \in [Emails -> Account]
                  /\ \A e \in Emails :
                        /\ account[e].role # "none" => account'[e].role = account[e].role
                        /\ account[e].member => account'[e].member
<1>0. /\ TypeOK /\ Holding /\ {0, Window} \subseteq 0..Window
      /\ \A e \in Emails : account[e] \in Account
  BY TimesAssumption DEF TInv, TypeOK
<1>1. ASSUME UNCHANGED account PROVE Kept
  BY <1>0, <1>1 DEF TypeOK
<1>2. ASSUME NEW e \in Emails, NEW x \in Account, account' = [account EXCEPT ![e] = x],
             account[e].role # "none" => x.role = account[e].role,
             account[e].member => x.member
      PROVE  Kept
  BY <1>0, <1>2 DEF TypeOK
<1>3. ASSUME NEW r \in Requests, CreateUser(r) PROVE Kept
  <2>1. Mine(r) \in Invites /\ Email(r) \in Emails /\ RoleOf[Mine(r)] \in Roles
    BY <1>0, <1>3, InvitesAssumption DEF CreateUser, Holding, InviteFree, Email
  <2>2. CASE UNCHANGED account
    BY <1>1, <2>2
  <2>3. CASE account[Email(r)].role = "none"
             /\ account' = [account EXCEPT ![Email(r)].role = RoleOf[Mine(r)]]
    <3>1. [account[Email(r)] EXCEPT !.role = RoleOf[Mine(r)]] \in Account
      BY <1>0, <2>1, AccountTypes
    <3> QED
      BY <1>0, <1>2, <2>1, <2>3, <3>1 DEF Account
  <2> QED
    BY <1>3, <2>2, <2>3 DEF CreateUser
<1>4. ASSUME NEW r \in Requests, CreateMembership(r) PROVE Kept
  <2>1. Mine(r) \in Invites /\ Email(r) \in Emails
    BY <1>0, <1>4, InvitesAssumption DEF CreateMembership, Holding, InviteFree, Email
  <2>2. PICK l \in 0..Window :
          account' = [account EXCEPT ![Email(r)].member = TRUE, ![Email(r)].left = l]
    BY <1>0, <1>4 DEF CreateMembership
  <2>3. [account[Email(r)] EXCEPT !.member = TRUE, !.left = l] \in Account
    BY <1>0, <2>1, AccountTypes DEF Roles
  <2>4. account' = [account EXCEPT ![Email(r)] = [account[Email(r)] EXCEPT !.member = TRUE, !.left = l]]
    BY <1>0, <2>1, <2>2 DEF TypeOK
  <2> QED
    BY <1>0, <1>2, <2>1, <2>3, <2>4 DEF Account
<1>5. ASSUME NEW e \in Emails, Login(e) PROVE Kept
  <2>1. PICK l \in 0..Window : account' = [account EXCEPT ![e].left = l]
    BY <1>0, <1>5 DEF Login
  <2>2. [account[e] EXCEPT !.left = l] \in Account
    BY <1>0, AccountTypes DEF Roles
  <2>3. account' = [account EXCEPT ![e] = [account[e] EXCEPT !.left = l]]
    BY <1>0, <2>1 DEF TypeOK
  <2> QED
    BY <1>0, <1>2, <2>2, <2>3 DEF Account
<1>6. CASE Tick
  <2> SUFFICES ASSUME NEW e \in Emails
               PROVE  /\ account'[e] \in Account /\ account'[e].role = account[e].role
                      /\ account'[e].member = account[e].member
    BY <1>6 DEF Tick
  <2>1. Window \in Nat /\ account[e].left \in 0..Window
    BY <1>0, TimesAssumption DEF Account
  <2>2. Sooner(account[e].left) \in 0..Window
    BY <2>1, SoonerType
  <2>3. account'[e] = [account[e] EXCEPT !.left = Sooner(account[e].left)]
    BY <1>6 DEF Tick
  <2> HIDE DEF Kept
  <2> QED
    BY <1>0, <2>2, <2>3 DEF Account
<1>7. ASSUME NEW r \in Requests, RequestStep(r) PROVE Kept
  BY <1>1, <1>3, <1>4, <1>7 DEF RequestStep, Register, Accept, FindName, CreateTenant, CreateAdmin,
     CreateAdminMembership, FindInvitee, CreateInvite, SendMail, FindInvite, ReadLimit, CountSeats,
     UseInvite, Dies
<1> QED
  BY <1>1, <1>5, <1>6, <1>7 DEF Next, vars, SyncTenant, Cleanup

LEMMA InviteTypes ==
  ASSUME NEW x \in Invite, NEW state \in {"absent", "open", "used", "deleted"}
  PROVE  [x EXCEPT !.state = state] \in Invite
BY DEF Invite

\* What a step does to the invites: it opens one, uses one up, deletes some or ages all.
InviteMoves ==
    \/ UNCHANGED invite
    \/ \E r \in Requests : CreateInvite(r)
    \/ \E r \in Requests : UseInvite(r)
    \/ Cleanup
    \/ Tick

LEMMA InviteCases == [Next]_vars => InviteMoves
BY DEF InviteMoves, Next, vars, RequestStep, Register, Accept, FindName, CreateTenant, CreateAdmin,
   CreateAdminMembership, FindInvitee, SendMail, FindInvite, ReadLimit, CountSeats,
   CreateUser, CreateMembership, Dies, Login, SyncTenant

LEMMA InviteStep ==
  ASSUME TInv, [Next]_vars
  PROVE  /\ invite' \in [Invites -> Invite]
         /\ \A i \in Invites : invite[i].state # "absent" => invite'[i].state # "absent"
<1>0. /\ TypeOK /\ Holding /\ InviteTtl \in 0..InviteTtl
      /\ \A i \in Invites : invite[i] \in Invite
  BY TimesAssumption DEF TInv, TypeOK
<1>1. ASSUME NEW r \in Requests, CreateInvite(r)
      PROVE  /\ invite' \in [Invites -> Invite]
             /\ \A i \in Invites : invite[i].state # "absent" => invite'[i].state # "absent"
  <2>1. Mine(r) \in Invites
    BY <1>0, <1>1 DEF CreateInvite, Holding, InviteFree
  <2>2. [state |-> "open", left |-> InviteTtl] \in Invite
    BY <1>0 DEF Invite
  <2> QED
    BY <1>0, <1>1, <2>1, <2>2 DEF CreateInvite, TypeOK
<1>2. ASSUME NEW r \in Requests, UseInvite(r)
      PROVE  /\ invite' \in [Invites -> Invite]
             /\ \A i \in Invites : invite[i].state # "absent" => invite'[i].state # "absent"
  <2>1. Mine(r) \in Invites
    BY <1>0, <1>2 DEF UseInvite, Holding, InviteFree
  <2>2. PICK s \in {"deleted", "used"} :
          invite' = [invite EXCEPT ![Mine(r)] = [invite[Mine(r)] EXCEPT !.state = s]]
    BY <1>0, <1>2, <2>1 DEF UseInvite, TypeOK
  <2>3. [invite[Mine(r)] EXCEPT !.state = s] \in Invite
    BY <1>0, <2>1, InviteTypes
  <2> QED
    BY <1>0, <2>1, <2>2, <2>3 DEF TypeOK, Invite
<1>3. CASE Cleanup
  <2> SUFFICES ASSUME NEW i \in Invites
               PROVE  invite'[i] \in Invite /\ (invite[i].state # "absent" => invite'[i].state # "absent")
    BY <1>3 DEF Cleanup
  <2>1. [invite[i] EXCEPT !.state = "deleted"] \in Invite
    BY <1>0, InviteTypes
  <2> QED
    BY <1>0, <1>3, <2>1 DEF Cleanup, Invite
<1>4. CASE Tick
  <2> SUFFICES ASSUME NEW i \in Invites
               PROVE  invite'[i] \in Invite /\ invite'[i].state = invite[i].state
    BY <1>4 DEF Tick
  <2>1. InviteTtl \in Nat /\ invite[i].left \in 0..InviteTtl
    BY <1>0, TimesAssumption DEF Invite
  <2>2. Sooner(invite[i].left) \in 0..InviteTtl
    BY <2>1, SoonerType
  <2>3. invite'[i] = [invite[i] EXCEPT !.left = Sooner(invite[i].left)]
    BY <1>4 DEF Tick
  <2> QED
    BY <1>0, <2>2, <2>3 DEF Invite
<1> QED
  BY <1>0, <1>1, <1>2, <1>3, <1>4, InviteCases DEF InviteMoves, TypeOK

LEMMA TenantStep ==
  ASSUME TInv, [Next]_vars
  PROVE  /\ org' \in {"none", "tenant", "admin", "ready"} /\ limit' \in Limits
         /\ grace' \in 0..GraceDays
         /\ fresh' \subseteq Requests /\ cut' \subseteq Emails
         /\ orgCut' \in BOOLEAN /\ faults' \in 0..MaxFaults
<1>0. TypeOK /\ Holding
  BY DEF TInv
<1> DEFINE Quiet == /\ UNCHANGED <<limit, grace, cut, orgCut, faults>>
                   /\ org' \in {"none", "tenant", "admin", "ready"} /\ fresh' \subseteq Requests
<1>1. ASSUME NEW r \in Requests, RequestStep(r), ~Dies(r) PROVE Quiet
  <2>1. CASE Register(r)
    BY <1>0, <2>1 DEF Register, FindName, CreateTenant, CreateAdmin, CreateAdminMembership,
       tenant, history, TypeOK
  <2>2. CASE ReadLimit(r) \/ CreateMembership(r)
    BY <1>0, <2>2 DEF ReadLimit, CreateMembership, Outdated, tenant, TypeOK
  <2>3. CASE \/ CreateInvite(r) \/ SendMail(r) \/ CountSeats(r) \/ CreateUser(r) \/ UseInvite(r)
             \/ \E i \in Invites : FindInvitee(r, i) \/ FindInvite(r, i)
    BY <1>0, <2>3 DEF CreateInvite, SendMail, CountSeats, CreateUser, UseInvite, FindInvitee,
       FindInvite, tenant, history, TypeOK
  <2> QED
    BY <1>1, <2>1, <2>2, <2>3 DEF RequestStep, Accept
<1>2. ASSUME NEW r \in Requests, Dies(r) PROVE
         /\ UNCHANGED <<tenant, fresh>> /\ cut' \subseteq Emails
         /\ orgCut' \in BOOLEAN /\ faults' \in 0..MaxFaults
  <2>1. request[r].pc \in {"member", "use"} => Email(r) \in Emails
    BY <1>0, InvitesAssumption DEF Holding, InviteFree, Email
  <2> QED
    BY <1>0, <1>2, <2>1, BoundAssumption DEF Dies, TypeOK
<1>3. CASE Tick
  <2>1. GraceDays \in Nat /\ grace' \in 0..GraceDays
    BY <1>0, <1>3, SoonerType, TimesAssumption DEF Tick, TypeOK
  <2> QED
    BY <1>0, <1>3, <2>1 DEF Tick, TypeOK, history
<1>4. ASSUME NEW l \in Limits, NEW p \in BOOLEAN, SyncTenant(l, p) PROVE
         /\ UNCHANGED <<org, cut, orgCut, faults>> /\ limit' \in Limits
         /\ grace' \in 0..GraceDays /\ fresh' \subseteq Requests
  BY <1>0, <1>4, TimesAssumption DEF SyncTenant
<1>5. ASSUME NEW e \in Emails, Login(e) PROVE Quiet
  BY <1>0, <1>5 DEF Login, Outdated, tenant, TypeOK
<1>6. CASE Cleanup
  BY <1>0, <1>6 DEF Cleanup, tenant, history, TypeOK
<1>7. CASE UNCHANGED vars
  BY <1>0, <1>7 DEF vars, tenant, history, TypeOK
<1>8. Quiet => /\ org' \in {"none", "tenant", "admin", "ready"} /\ limit' \in Limits
               /\ grace' \in 0..GraceDays
               /\ fresh' \subseteq Requests /\ cut' \subseteq Emails
               /\ orgCut' \in BOOLEAN /\ faults' \in 0..MaxFaults
  BY <1>0 DEF TypeOK
<1> HIDE DEF Quiet
<1>9. CASE \E r \in Requests : Dies(r)
  BY <1>0, <1>2, <1>9 DEF TypeOK, tenant
<1>10. CASE \E l \in Limits, p \in BOOLEAN : SyncTenant(l, p)
  BY <1>0, <1>4, <1>10 DEF TypeOK
<1> QED
  BY <1>1, <1>3, <1>5, <1>6, <1>7, <1>8, <1>9, <1>10 DEF Next

LEMMA RequestCases ==
  [Next]_vars => UNCHANGED request \/ \E r \in Requests : RequestStep(r)
BY DEF Next, vars, Login, SyncTenant, Cleanup, Tick

LEMMA TypeStep == TInv /\ [Next]_vars => TInv'
<1> SUFFICES ASSUME TInv, [Next]_vars PROVE TInv'
  OBVIOUS
<1>1. request' \in [Requests -> Request] /\ Holding'
  <2>1. CASE UNCHANGED request
    BY <2>1 DEF TInv, TypeOK, Holding, Mine
  <2>2. ASSUME NEW r \in Requests, RequestStep(r) PROVE request' \in [Requests -> Request] /\ Holding'
    BY <2>2, RequestTypes DEF TInv, Holding, Mine
  <2> QED
    BY <2>1, <2>2, RequestCases
<1> QED
  BY <1>1, AccountStep, InviteStep, TenantStep DEF TInv, TypeOK

LEMMA TypeInit == Init => TInv
<1> SUFFICES ASSUME Init PROVE TInv
  OBVIOUS
<1>1. NoAccount \in Account /\ [state |-> "absent", left |-> 0] \in Invite
  BY TimesAssumption DEF NoAccount, Account, Invite
<1> QED
  <2>1. account \in [Emails -> Account] /\ invite \in [Invites -> Invite]
    BY <1>1 DEF Init
  <2>2. request \in [Requests -> Request] /\ Holding
    BY IdleType DEF Init, Holding, InviteFree
  <2>3. limit \in Limits /\ grace \in 0..GraceDays /\ faults \in 0..MaxFaults
    BY LimitsAssumption, TimesAssumption, BoundAssumption DEF Init
  <2> QED
    BY <2>1, <2>2, <2>3 DEF Init, TInv, TypeOK

\* Every reachable state is well typed.
THEOREM TypeCorrect == Spec => []TypeOK
<1>1. TInv => TypeOK
  BY DEF TInv
<1> QED
  BY <1>1, TypeInit, TypeStep, PTL DEF Spec

-----------------------------------------------------------------------------
(* How a request comes to the writes of acceptInvite and how it leaves.    *)

LEMMA GoToPc ==
  ASSUME TInv, NEW r \in Requests, NEW pc \in Places, GoTo(r, pc)
  PROVE  request'[r].pc = pc /\ request'[r].invite = request[r].invite
<1>1. request[r] \in Request /\ request'[r] = [request[r] EXCEPT !.pc = pc]
  BY GoToRequest DEF TInv, TypeOK
<1> QED
  BY <1>1 DEF Request

LEMMA DonePc == ASSUME TInv, NEW r \in Requests, Done(r) PROVE request'[r].pc = "idle"
BY DoneRequest DEF TInv

LEMMA FindPc ==
  ASSUME TInv, NEW r \in Requests, NEW i \in Invites, FindInvitee(r, i) \/ FindInvite(r, i)
  PROVE  /\ request[r].pc = "idle"
         /\ request'[r].pc = IF FindInvitee(r, i) THEN "invite" ELSE
                              IF RoleOf[i] = "LEARNER" THEN "limit" ELSE "user"
         /\ request'[r].invite = i
<1>1. ASSUME NEW pc \in Places,
             request' = [request EXCEPT ![r] = [Idle EXCEPT !.pc = pc, !.invite = i]]
      PROVE  request'[r].pc = pc /\ request'[r].invite = i
  <2>1. TypeOK
    BY DEF TInv
  <2> QED
    BY <1>1, <2>1, HoldRequest
<1>2. {"invite", "limit", "user"} \subseteq Places
  BY DEF Places
<1>3. CASE FindInvitee(r, i)
  BY <1>1, <1>2, <1>3 DEF FindInvitee
<1>4. CASE FindInvite(r, i) /\ ~FindInvitee(r, i)
  BY <1>1, <1>2, <1>4 DEF FindInvite
<1> QED
  BY <1>3, <1>4

LEMMA ReadPc ==
  ASSUME TInv, NEW r \in Requests, ReadLimit(r)
  PROVE  /\ request'[r].pc = "count" /\ request'[r].invite = request[r].invite
         /\ request'[r].limit = limit
BY DEF ReadLimit, TInv, TypeOK, Request

LEMMA CountPc ==
  ASSUME TInv, NEW r \in Requests, CountSeats(r)
  PROVE  \/ Done(r) /\ request'[r].pc = "idle"
         \/ /\ request'[r].pc = "user" /\ request'[r].invite = request[r].invite
            /\ request'[r].graced => request[r].graced
            /\ ~request'[r].graced => SeatFree(r)
<1>0. TypeOK /\ Mine(r) \in Invites
  BY DEF TInv, Holding, CountSeats, InviteFree
<1>1. CASE Done(r)
  BY <1>1, DonePc
<1>2. CASE request[r].graced /\ Admit(r, TRUE)
  BY <1>0, <1>2, AdmitRequest DEF Mine
<1>3. CASE SeatFree(r) /\ Admit(r, FALSE)
  BY <1>0, <1>3, AdmitRequest DEF Mine
<1> QED
  BY <1>1, <1>2, <1>3 DEF CountSeats

Same(r) == request'[r] = request[r]

LEMMA Others ==
  ASSUME TInv, [Next]_vars, NEW x \in Requests
  PROVE  Same(x) \/ RequestStep(x)
BY RequestTypes, RequestCases DEF Same

LEMMA Moves ==
  ASSUME TInv, NEW r \in Requests, RequestStep(r)
  PROVE  /\ request'[r].pc = "member" => CreateUser(r)
         /\ request'[r].pc = "use"    => CreateMembership(r)
         /\ request[r].pc = "member"  => CreateMembership(r) \/ Dies(r)
         /\ request[r].pc = "use"     => UseInvite(r) \/ Dies(r)
         /\ request[r].pc = "admin"       => CreateAdmin(r) \/ Dies(r)
         /\ request[r].pc = "adminMember" => CreateAdminMembership(r) \/ Dies(r)
<1>1. CASE Register(r)
  BY <1>1, GoToPc, DonePc DEF Register, FindName, CreateTenant, CreateAdmin, CreateAdminMembership, Places
<1>2. CASE \E i \in Invites : FindInvitee(r, i) \/ FindInvite(r, i)
  BY <1>2, FindPc
<1>3. CASE ReadLimit(r) \/ CountSeats(r)
  <2>1. request[r].pc \in {"limit", "count"}
    BY <1>3 DEF ReadLimit, CountSeats
  <2> QED
    BY <1>3, <2>1, ReadPc, CountPc
<1>4. CASE CreateInvite(r) \/ SendMail(r) \/ UseInvite(r) \/ Dies(r)
  <2>1. request'[r].pc \in {"mail", "idle"}
    BY <1>4, GoToPc, DonePc DEF CreateInvite, SendMail, UseInvite, Dies, Places
  <2> QED
    BY <1>4, <2>1 DEF CreateInvite, SendMail, UseInvite
<1>5. CASE CreateUser(r) \/ CreateMembership(r)
  BY <1>5, GoToPc, DonePc DEF CreateUser, CreateMembership, Places
<1> QED
  BY <1>1, <1>2, <1>3, <1>4, <1>5 DEF RequestStep, Accept

LEMMA MineType ==
  ASSUME TInv, NEW r \in Requests, request[r].pc \notin InviteFree
  PROVE  Mine(r) \in Invites /\ Email(r) \in Emails /\ RoleOf[Mine(r)] \in Roles
BY InvitesAssumption DEF TInv, Holding, Email

-----------------------------------------------------------------------------
(* Whom a request admits: its user is known, and then a member.            *)

Known ==
    \A r \in Requests :
        /\ request[r].pc \in {"member", "use"} => account[Email(r)].role = RoleOf[Mine(r)]
        /\ request[r].pc = "use" => account[Email(r)].member

LEMMA CreateUserEffect ==
  ASSUME TInv, NEW r \in Requests, CreateUser(r), request'[r].pc # "idle"
  PROVE  /\ Mine(r)' = Mine(r) /\ request'[r].pc = "member" /\ account[Email(r)].role = "none"
         /\ account' = [account EXCEPT ![Email(r)].role = RoleOf[Mine(r)]]
         /\ account'[Email(r)].role = RoleOf[Mine(r)]
<1>1. Email(r) \in Emails
  BY MineType DEF CreateUser, InviteFree
<1>2. GoTo(r, "member") /\ account[Email(r)].role = "none"
      /\ account' = [account EXCEPT ![Email(r)].role = RoleOf[Mine(r)]]
  BY DonePc DEF CreateUser
<1> QED
  BY <1>1, <1>2, GoToPc DEF TInv, TypeOK, Account, Places, Mine

LEMMA CreateMembershipEffect ==
  ASSUME TInv, NEW r \in Requests, CreateMembership(r)
  PROVE  /\ Mine(r)' = Mine(r) /\ request'[r].pc = "use"
         /\ account'[Email(r)].member
         /\ account'[Email(r)].role = account[Email(r)].role
         /\ \A e \in Emails \ {Email(r)} : account'[e] = account[e]
<1>1. Email(r) \in Emails
  BY MineType DEF CreateMembership, InviteFree
<1>2. GoTo(r, "use")
  BY DEF CreateMembership
<1>3. request'[r].pc = "use" /\ Mine(r)' = Mine(r)
  BY <1>2, GoToPc DEF Places, Mine
<1> QED
  BY <1>1, <1>3 DEF CreateMembership, TInv, TypeOK, Account

LEMMA KnownStep == TInv /\ Known /\ [Next]_vars => Known'
<1> SUFFICES ASSUME TInv, Known, [Next]_vars, NEW x \in Requests
             PROVE  /\ request'[x].pc \in {"member", "use"} =>
                          account'[Email(x)'].role = RoleOf[Mine(x)']
                    /\ request'[x].pc = "use" => account'[Email(x)'].member
  BY DEF Known
<1>1. CASE Same(x)
  <2>1. Mine(x)' = Mine(x) /\ Email(x)' = Email(x)
    BY <1>1 DEF Same, Mine, Email
  <2>2. request[x].pc \in {"member", "use"} =>
          Email(x) \in Emails /\ account[Email(x)].role # "none"
    BY MineType DEF Known, InviteFree, Roles
  <2> QED
    BY <1>1, <2>1, <2>2, AccountStep DEF Same, Known
<1>2. CASE request'[x].pc = "member" /\ CreateUser(x)
  <2>1. Email(x)' = Email(x) /\ Mine(x)' = Mine(x)
    BY <1>2, CreateUserEffect DEF Email
  <2> QED
    BY <1>2, <2>1, CreateUserEffect
<1>3. CASE request'[x].pc = "use" /\ CreateMembership(x)
  <2>1. Email(x)' = Email(x) /\ Mine(x)' = Mine(x)
    BY <1>3, CreateMembershipEffect DEF Email
  <2>2. account[Email(x)].role = RoleOf[Mine(x)]
    BY <1>3 DEF Known, CreateMembership
  <2> QED
    BY <1>3, <2>1, <2>2, CreateMembershipEffect
<1> QED
  BY <1>1, <1>2, <1>3, Others, Moves

LEMMA UsedStep == TInv /\ Known /\ UsedInviteHasMember /\ [Next]_vars => UsedInviteHasMember'
<1> SUFFICES ASSUME TInv, Known, UsedInviteHasMember, [Next]_vars,
                    NEW i \in Invites, invite'[i].state = "used"
             PROVE  account'[EmailOf[i]].member /\ account'[EmailOf[i]].role = RoleOf[i]
  BY DEF UsedInviteHasMember
<1>1. SUFFICES account[EmailOf[i]].member /\ account[EmailOf[i]].role = RoleOf[i]
  <2>1. EmailOf[i] \in Emails /\ RoleOf[i] # "none"
    BY InvitesAssumption DEF Roles
  <2> QED
    BY <1>1, <2>1, AccountStep
<1>2. CASE invite[i].state = "used"
  BY <1>2 DEF UsedInviteHasMember
<1>3. ASSUME invite[i].state # "used", NEW r \in Requests, UseInvite(r)
      PROVE  account[EmailOf[i]].member /\ account[EmailOf[i]].role = RoleOf[i]
  <2>1. i = Mine(r)
    BY <1>3 DEF UseInvite, TInv, TypeOK, Invite
  <2> QED
    BY <1>3, <2>1 DEF UseInvite, Known, Email
<1>4. ASSUME invite[i].state # "used", NEW r \in Requests, CreateInvite(r) PROVE FALSE
  BY <1>4 DEF CreateInvite, TInv, TypeOK, Invite
<1>5. ASSUME invite[i].state # "used", Cleanup \/ Tick \/ UNCHANGED invite PROVE FALSE
  <2>1. invite[i] \in Invite
    BY DEF TInv, TypeOK
  <2> QED
    BY <1>5, <2>1 DEF Cleanup, Tick, Invite
<1> QED
  BY <1>2, <1>3, <1>4, <1>5, InviteCases DEF InviteMoves

\* A user comes into being only through CreateUser of a request.
LEMMA Newcomer ==
  ASSUME TInv, [Next]_vars, NEW e \in Emails, account[e].role = "none", account'[e].role # "none"
  PROVE  \E r \in Requests : /\ CreateUser(r) /\ Email(r) = e /\ Mine(r)' = Mine(r)
                            /\ request'[r].pc = "member" /\ UNCHANGED invite
<1>1. PICK r \in Requests : CreateUser(r)
  <2>1. ASSUME NEW r \in Requests, CreateMembership(r) PROVE FALSE
    BY <2>1, CreateMembershipEffect
  <2>2. ASSUME NEW x \in Emails, Login(x) PROVE FALSE
    BY <2>2 DEF Login, TInv, TypeOK, Account
  <2>3. CASE Tick
    <3>1. account'[e].role = account[e].role
      BY <2>3 DEF Tick, TInv, TypeOK, Account
    <3> QED
      BY <3>1
  <2>4. ASSUME NEW r \in Requests, RequestStep(r) PROVE CreateUser(r)
    BY <2>1, <2>4 DEF RequestStep, Register, Accept, FindName, CreateTenant, CreateAdmin,
       CreateAdminMembership, FindInvitee, CreateInvite, SendMail, FindInvite, ReadLimit, CountSeats,
       UseInvite, Dies
  <2> QED
    BY <2>2, <2>3, <2>4 DEF Next, vars, SyncTenant, Cleanup
<1>2. request'[r].pc # "idle"
  <2>1. CASE Done(r)
    BY <1>1, <2>1 DEF CreateUser, GoTo, Done, Idle, TInv, TypeOK, Request
  <2>2. CASE GoTo(r, "member")
    BY <2>2, GoToPc DEF Places
  <2> QED
    BY <1>1, <2>1, <2>2 DEF CreateUser
<1>3. Mine(r)' = Mine(r) /\ request'[r].pc = "member"
      /\ account' = [account EXCEPT ![Email(r)].role = RoleOf[Mine(r)]]
  BY <1>1, <1>2, CreateUserEffect
<1>4. e = Email(r)
  BY <1>3 DEF TInv, TypeOK
<1> QED
  BY <1>1, <1>3, <1>4 DEF CreateUser

LEMMA CutGrows == [Next]_vars => cut \subseteq cut'
BY DEF Next, vars, RequestStep, Register, Accept, FindName, CreateTenant, CreateAdmin,
   CreateAdminMembership, FindInvitee, CreateInvite, SendMail, FindInvite, ReadLimit, CountSeats,
   CreateUser, CreateMembership, UseInvite, Dies, Login, SyncTenant, Cleanup, Tick, history

LEMMA AdmittedStep == TInv /\ AdmittedWholly /\ [Next]_vars => AdmittedWholly'
<1> SUFFICES ASSUME TInv, AdmittedWholly, [Next]_vars, NEW e \in Emails,
                    account'[e].role # "none", ~account'[e].member
             PROVE  e \in cut' \/ \E r \in Requests : request'[r].pc = "member" /\ Email(r)' = e
  BY DEF AdmittedWholly
<1>1. ~account[e].member /\ cut \subseteq cut'
  BY AccountStep, CutGrows
<1>2. CASE account[e].role # "none"
  <2>1. CASE e \in cut
    BY <1>1, <2>1
  <2>2. ASSUME NEW r \in Requests, request[r].pc = "member", Email(r) = e
        PROVE  e \in cut' \/ \E x \in Requests : request'[x].pc = "member" /\ Email(x)' = e
    <3>1. CASE Same(r)
      BY <2>2, <3>1 DEF Same, Email, Mine
    <3>2. CASE Dies(r)
      BY <2>2, <3>2 DEF Dies
    <3>3. CASE CreateMembership(r)
      BY <2>2, <3>3, CreateMembershipEffect
    <3> QED
      BY <2>2, <3>1, <3>2, <3>3, Others, Moves
  <2> QED
    BY <1>1, <1>2, <2>1, <2>2 DEF AdmittedWholly
<1>3. CASE account[e].role = "none"
  BY <1>3, Newcomer DEF Email
<1> QED
  BY <1>2, <1>3

-----------------------------------------------------------------------------
(* Which invites stay open.                                                *)

\* The invite a request is about to create is its own; any other it holds exists.
Made ==
    \A r \in Requests :
        /\ request[r].pc = "invite" =>
              invite[Mine(r)].state = "absent" /\ \A x \in Requests : Mine(x) = Mine(r) => x = r
        /\ request[r].pc \in {"mail", "limit", "count", "user", "member", "use"} =>
              invite[Mine(r)].state # "absent"

\* Whoever is a user came by an invite.
Sourced ==
    \A e \in Emails : account[e].role # "none" =>
        \E i \in Invites : EmailOf[i] = e /\ invite[i].state # "absent"

\* An invite is opened by the request that holds it, and used up or removed for good.
LEMMA Opened ==
  ASSUME TInv, Made, [Next]_vars, NEW i \in Invites, invite[i].state # invite'[i].state
  PROVE  \/ \E r \in Requests : CreateInvite(r) /\ Mine(r) = i /\ invite'[i].state = "open"
         \/ invite[i].state # "absent" /\ invite'[i].state \in {"used", "deleted"}
<1>0. invite \in [Invites -> Invite] /\ invite[i] \in Invite
  BY DEF TInv, TypeOK
<1>1. ASSUME NEW r \in Requests, CreateInvite(r)
      PROVE  Mine(r) = i /\ invite'[i].state = "open"
  BY <1>0, <1>1 DEF CreateInvite
<1>2. ASSUME NEW r \in Requests, UseInvite(r) PROVE invite[i].state # "absent"
  <2>1. Mine(r) = i
    BY <1>0, <1>2 DEF UseInvite
  <2> QED
    BY <1>2, <2>1 DEF UseInvite, Made
<1>3. ASSUME NEW r \in Requests, UseInvite(r) PROVE invite'[i].state \in {"used", "deleted"}
  BY <1>0, <1>3 DEF UseInvite, Invite
<1>4. CASE Cleanup
  BY <1>0, <1>4 DEF Cleanup, Expired, Invite
<1>5. CASE Tick
  <2>1. invite'[i].state = invite[i].state
    BY <1>0, <1>5 DEF Tick, Invite
  <2> QED
    BY <2>1
<1> QED
  BY <1>0, <1>1, <1>2, <1>3, <1>4, <1>5, InviteCases DEF InviteMoves

LEMMA MadeStep == TInv /\ Made /\ [Next]_vars => Made'
<1> SUFFICES ASSUME TInv, Made, [Next]_vars, NEW r \in Requests
             PROVE  /\ request'[r].pc = "invite" =>
                          /\ invite'[Mine(r)'].state = "absent"
                          /\ \A x \in Requests : Mine(x)' = Mine(r)' => x = r
                    /\ request'[r].pc \in {"mail", "limit", "count", "user", "member", "use"} =>
                          invite'[Mine(r)'].state # "absent"
  BY DEF Made
<1> DEFINE Later == {"mail", "limit", "count", "user", "member", "use"}
<1>1. ASSUME NEW x \in Requests, NEW i \in Invites, Mine(x)' = i, Mine(x) # i
      PROVE  FindInvitee(x, i) \/ FindInvite(x, i)
  <2>1. RequestStep(x) /\ ~Same(x)
    BY <1>1, Others DEF Same, Mine
  <2>2. ASSUME Done(x) PROVE FALSE
    BY <1>1, <2>2, DoneRequest, InvitesAssumption DEF TInv, Mine
  <2>3. ASSUME NEW pc \in Places, GoTo(x, pc) PROVE FALSE
    BY <1>1, <2>3, GoToPc DEF Mine
  <2>4. ASSUME ReadLimit(x) \/ CountSeats(x) PROVE FALSE
    <3>1. Mine(x)' = Mine(x) \/ Done(x)
      BY <2>4, ReadPc, CountPc, DonePc DEF Mine, CountSeats
    <3> QED
      BY <1>1, <2>2, <3>1
  <2>5. PICK j \in Invites : FindInvitee(x, j) \/ FindInvite(x, j)
    BY <2>1, <2>2, <2>3, <2>4 DEF RequestStep, Register, Accept, FindName, CreateTenant, CreateAdmin,
       CreateAdminMembership, CreateInvite, SendMail, CreateUser, CreateMembership, UseInvite, Dies, Places
  <2> QED
    BY <1>1, <2>5, FindPc DEF Mine
<1>2. CASE Same(r)
  <2>1. Mine(r)' = Mine(r) /\ request'[r].pc = request[r].pc
    BY <1>2 DEF Same, Mine
  <2>2. ASSUME request[r].pc = "invite"
        PROVE  /\ invite'[Mine(r)].state = "absent"
               /\ \A x \in Requests : Mine(x)' = Mine(r) => x = r
    <3>1. Mine(r) \in Invites /\ invite[Mine(r)].state = "absent"
      BY <2>2, MineType DEF Made, InviteFree
    <3>2. ASSUME NEW x \in Requests, CreateInvite(x), Mine(x) = Mine(r) PROVE FALSE
      <4>1. x = r
        BY <2>2, <3>2 DEF Made
      <4>2. request'[r].pc = "mail"
        BY <3>2, <4>1, GoToPc DEF CreateInvite, Places
      <4> QED
        BY <2>1, <2>2, <4>2
    <3>3. invite'[Mine(r)].state = "absent"
      BY <3>1, <3>2, Opened
    <3>4. ASSUME NEW x \in Requests, Mine(x)' = Mine(r), x # r PROVE FALSE
      <4>1. Mine(x) # Mine(r)
        BY <2>2, <3>4 DEF Made
      <4>2. FindInvitee(x, Mine(r)) \/ FindInvite(x, Mine(r))
        BY <1>1, <3>1, <3>4, <4>1
      <4> QED
        BY <3>1, <4>2 DEF FindInvitee, FindInvite
    <3> QED
      BY <3>3, <3>4
  <2>3. ASSUME request[r].pc \in Later PROVE invite'[Mine(r)].state # "absent"
    BY <2>3, MineType, InviteStep DEF Made, InviteFree
  <2> QED
    BY <2>1, <2>2, <2>3
<1>3. ASSUME NEW i \in Invites, FindInvitee(r, i) PROVE
        /\ request'[r].pc = "invite" /\ Mine(r)' = i /\ invite'[i].state = "absent"
        /\ \A x \in Requests : Mine(x)' = i => x = r
  <2>1. request'[r].pc = "invite" /\ Mine(r)' = i
    BY <1>3, FindPc DEF Mine
  <2>2. invite'[i].state = "absent"
    BY <1>3 DEF FindInvitee
  <2>3. ASSUME NEW x \in Requests, Mine(x)' = i, x # r PROVE FALSE
    BY <1>3, <2>3, RequestTypes DEF FindInvitee, Mine, RequestStep
  <2> QED
    BY <2>1, <2>2, <2>3
<1>4. ASSUME NEW i \in Invites, FindInvite(r, i), ~FindInvitee(r, i) PROVE
        request'[r].pc # "invite" /\ Mine(r)' = i /\ invite'[i].state # "absent"
  <2>1. request'[r].pc \in {"limit", "user"} /\ request'[r].invite = i
    BY <1>4, FindPc
  <2> QED
    BY <1>4, <2>1 DEF FindInvite, Mine
<1>5. ASSUME CreateInvite(r) PROVE
        request'[r].pc = "mail" /\ invite'[Mine(r)'].state # "absent"
  <2>1. request'[r].pc = "mail" /\ Mine(r)' = Mine(r)
    BY <1>5, GoToPc DEF CreateInvite, Places, Mine
  <2>2. Mine(r) \in Invites
    BY <1>5, MineType DEF CreateInvite, InviteFree
  <2> QED
    BY <1>5, <2>1, <2>2 DEF CreateInvite, TInv, TypeOK
<1>6. ASSUME request'[r].pc \notin {"invite"} \cup Later PROVE
        request'[r].pc # "invite" /\ request'[r].pc \notin Later
  BY <1>6
<1>7. ASSUME Accept(r), request'[r].pc \in {"invite"} \cup Later PROVE
        request'[r].pc # "invite" /\ invite'[Mine(r)'].state # "absent"
  <2>1. request'[r].pc # "idle"
    BY <1>7
  <2>2. request[r].pc \in Later /\ request'[r].pc # "invite" /\ Mine(r)' = Mine(r)
    BY <1>7, <2>1, ReadPc, CountPc, GoToPc, DonePc
       DEF Accept, ReadLimit, CountSeats, CreateUser, CreateMembership, UseInvite, Places, Mine
  <2> QED
    BY <2>2, MineType, InviteStep DEF Made, InviteFree
<1>8. ASSUME Register(r) \/ SendMail(r) \/ Dies(r) PROVE request'[r].pc \notin {"invite"} \cup Later
  BY <1>8, GoToPc, DonePc DEF Register, FindName, CreateTenant, CreateAdmin, CreateAdminMembership,
     SendMail, Dies, Places
<1> QED
  BY <1>2, <1>3, <1>4, <1>5, <1>6, <1>7, <1>8, Others DEF RequestStep

LEMMA SourcedStep == TInv /\ Made /\ Sourced /\ [Next]_vars => Sourced'
<1> SUFFICES ASSUME TInv, Made, Sourced, [Next]_vars, NEW e \in Emails, account'[e].role # "none"
             PROVE  \E i \in Invites : EmailOf[i] = e /\ invite'[i].state # "absent"
  BY DEF Sourced
<1>1. CASE account[e].role # "none"
  BY <1>1, InviteStep DEF Sourced
<1>2. CASE account[e].role = "none"
  <2>1. PICK r \in Requests : CreateUser(r) /\ Email(r) = e
    BY <1>2, Newcomer
  <2>2. Mine(r) \in Invites /\ invite[Mine(r)].state # "absent"
    BY <2>1, MineType DEF CreateUser, Made, InviteFree
  <2> QED
    BY <2>1, <2>2, InviteStep DEF Email
<1> QED
  BY <1>1, <1>2

LEMMA OpenStep ==
  TInv /\ Made /\ Sourced /\ OpenInviteIsUsable /\ [Next]_vars => OpenInviteIsUsable'
<1> SUFFICES ASSUME TInv, Made, Sourced, OpenInviteIsUsable, [Next]_vars, NEW i \in Invites,
                    invite'[i].state = "open", account'[EmailOf[i]].role # "none"
             PROVE  \/ EmailOf[i] \in cut'
                    \/ \E r \in Requests : request'[r].pc \in {"member", "use"} /\ Mine(r)' = i
                    \/ \E j \in Invites \ {i} : EmailOf[j] = EmailOf[i] /\ invite'[j].state # "absent"
  BY DEF OpenInviteIsUsable
<1>0. EmailOf[i] \in Emails
  BY InvitesAssumption
<1>1. CASE invite[i].state # "open"
  <2>1. PICK r \in Requests : CreateInvite(r) /\ Mine(r) = i
    BY <1>1, Opened
  <2>2. invite[i].state = "absent" /\ account' = account
    BY <2>1 DEF CreateInvite, Made
  <2>3. PICK j \in Invites : EmailOf[j] = EmailOf[i] /\ invite[j].state # "absent"
    BY <1>0, <2>2 DEF Sourced
  <2> QED
    BY <2>2, <2>3, InviteStep
<1>2. CASE invite[i].state = "open" /\ account[EmailOf[i]].role = "none"
  <2>1. PICK r \in Requests : /\ CreateUser(r) /\ Email(r) = EmailOf[i]
                              /\ Mine(r)' = Mine(r) /\ request'[r].pc = "member"
    BY <1>0, <1>2, Newcomer
  <2>2. Mine(r) \in Invites /\ invite[Mine(r)].state # "absent"
    BY <2>1, MineType DEF CreateUser, Made, InviteFree
  <2> QED
    BY <2>1, <2>2, InviteStep DEF Email
<1>3. CASE invite[i].state = "open" /\ account[EmailOf[i]].role # "none"
  <2>1. CASE EmailOf[i] \in cut
    BY <2>1, CutGrows
  <2>2. ASSUME NEW j \in Invites \ {i}, EmailOf[j] = EmailOf[i], invite[j].state # "absent"
        PROVE  invite'[j].state # "absent"
    BY <2>2, InviteStep
  <2>3. ASSUME NEW r \in Requests, request[r].pc \in {"member", "use"}, Mine(r) = i
        PROVE  \/ EmailOf[i] \in cut'
               \/ \E x \in Requests : request'[x].pc \in {"member", "use"} /\ Mine(x)' = i
    <3>1. CASE Same(r)
      BY <2>3, <3>1 DEF Same, Mine
    <3>2. CASE Dies(r)
      BY <2>3, <3>2 DEF Dies, Email
    <3>3. CASE CreateMembership(r)
      BY <2>3, <3>3, CreateMembershipEffect
    <3>4. ASSUME UseInvite(r) PROVE FALSE
      BY <2>3, <3>4 DEF UseInvite, TInv, TypeOK, Invite
    <3> QED
      BY <2>3, <3>1, <3>2, <3>3, <3>4, Others, Moves
  <2> QED
    BY <1>3, <2>1, <2>2, <2>3 DEF OpenInviteIsUsable
<1> QED
  BY <1>1, <1>2, <1>3

LEMMA AdminStep == TInv /\ TenantHasAdmin /\ [Next]_vars => TenantHasAdmin'
<1> SUFFICES ASSUME TInv, TenantHasAdmin, [Next]_vars, org' \in {"tenant", "admin"}
             PROVE  orgCut' \/ \E r \in Requests : request'[r].pc \in {"admin", "adminMember"}
  BY DEF TenantHasAdmin
<1>1. ASSUME NEW r \in Requests, CreateTenant(r), org = "none"
      PROVE  request'[r].pc = "admin"
  BY <1>1, GoToPc DEF CreateTenant, Places
<1>2. ASSUME NEW r \in Requests, CreateAdmin(r) PROVE request'[r].pc = "adminMember"
  BY <1>2, GoToPc DEF CreateAdmin, Places
<1>3. CASE org' # org
  <2>1. \E r \in Requests : (CreateTenant(r) /\ org = "none") \/ CreateAdmin(r)
    BY <1>3 DEF Next, vars, RequestStep, Register, Accept, FindName, CreateTenant,
       CreateAdminMembership, FindInvitee, CreateInvite, SendMail, FindInvite, ReadLimit, CountSeats,
       CreateUser, CreateMembership, UseInvite, Dies, Login, SyncTenant, Cleanup, Tick, tenant
  <2> QED
    BY <1>1, <1>2, <2>1
<1>4. CASE org' = org /\ orgCut
  BY <1>4 DEF Next, vars, RequestStep, Register, Accept, FindName, CreateTenant, CreateAdmin,
     CreateAdminMembership, FindInvitee, CreateInvite, SendMail, FindInvite, ReadLimit, CountSeats,
     CreateUser, CreateMembership, UseInvite, Dies, Login, SyncTenant, Cleanup, Tick, history
<1>5. ASSUME org' = org, NEW r \in Requests, request[r].pc \in {"admin", "adminMember"}
      PROVE  orgCut' \/ \E x \in Requests : request'[x].pc \in {"admin", "adminMember"}
  <2>1. CASE Same(r)
    BY <1>5, <2>1 DEF Same
  <2>2. CASE Dies(r)
    BY <1>5, <2>2 DEF Dies
  <2>3. CASE CreateAdmin(r)
    BY <1>2, <2>3
  <2>4. ASSUME CreateAdminMembership(r) PROVE FALSE
    BY <2>4 DEF CreateAdminMembership
  <2> QED
    BY <1>5, <2>1, <2>2, <2>3, <2>4, Others, Moves
<1> QED
  BY <1>3, <1>4, <1>5 DEF TenantHasAdmin

-----------------------------------------------------------------------------
(* Seats.                                                                  *)

\* Who is not a user is no member.
NoStranger == \A e \in Emails : account[e].member => account[e].role # "none"

\* What a fresh request has read still holds.
FreshView ==
    \A r \in fresh :
        /\ request[r].pc = "count" => request[r].limit = limit
        /\ /\ request[r].pc \in {"user", "member"}
           /\ RoleOf[Mine(r)] = "LEARNER" /\ ~request[r].graced
           => Cardinality(Seats) < limit

LEMMA StrangerStep == TInv /\ Known /\ NoStranger /\ [Next]_vars => NoStranger'
<1> SUFFICES ASSUME TInv, Known, NoStranger, [Next]_vars, NEW e \in Emails, account'[e].member
             PROVE  account'[e].role # "none"
  BY DEF NoStranger
<1>1. CASE account[e].member
  BY <1>1, AccountStep DEF NoStranger
<1>2. CASE ~account[e].member
  <2>1. PICK r \in Requests : CreateMembership(r)
    <3>1. ASSUME NEW r \in Requests, CreateUser(r) PROVE account'[e].member = account[e].member
      BY <3>1, MineType DEF CreateUser, TInv, TypeOK, Account, InviteFree
    <3>2. ASSUME NEW x \in Emails, Login(x) PROVE account'[e].member = account[e].member
      BY <3>2 DEF Login, TInv, TypeOK, Account
    <3>3. Tick => account'[e].member = account[e].member
      BY DEF Tick, TInv, TypeOK, Account
    <3>4. ASSUME NEW r \in Requests, RequestStep(r) PROVE CreateMembership(r)
      BY <1>2, <3>1, <3>4 DEF RequestStep, Register, Accept, FindName, CreateTenant, CreateAdmin,
         CreateAdminMembership, FindInvitee, CreateInvite, SendMail, FindInvite, ReadLimit, CountSeats,
         UseInvite, Dies
    <3> QED
      BY <1>2, <3>2, <3>3, <3>4 DEF Next, vars, SyncTenant, Cleanup
  <2>2. e = Email(r)
    BY <1>2, <2>1, CreateMembershipEffect
  <2>3. account[e].role = RoleOf[Mine(r)] /\ RoleOf[Mine(r)] # "none"
    BY <2>1, <2>2, MineType DEF Known, CreateMembership, InviteFree, Roles
  <2> QED
    BY <2>3, AccountStep
<1> QED
  BY <1>1, <1>2

LEMMA SeatsFinite ==
  ASSUME NEW S \in SUBSET Emails
  PROVE  IsFiniteSet(S) /\ Cardinality(S) \in Nat
BY EmailsAssumption, FS_Subset, FS_CardinalityType

LEMMA SeatsType == Seats \subseteq Emails /\ Seats' \subseteq Emails
BY DEF Seats

LEMMA CreateUserSeats ==
  ASSUME TInv, NoStranger, NEW r \in Requests, CreateUser(r)
  PROVE  Seats' = Seats
<1>0. account \in [Emails -> Account] /\ Email(r) \in Emails
  BY MineType DEF TInv, TypeOK, CreateUser, InviteFree
<1>1. CASE account[Email(r)].role = "none"
  <2>1. ~account[Email(r)].member
    BY <1>0, <1>1 DEF NoStranger
  <2>2. \A e \in Emails \ {Email(r)} : account'[e] = account[e]
    BY <1>0, <1>1 DEF CreateUser
  <2>3. ~account'[Email(r)].member
    BY <1>0, <1>1, <2>1 DEF CreateUser, Account
  <2>4. ASSUME NEW e \in Emails PROVE e \in Seats' <=> e \in Seats
    BY <2>1, <2>2, <2>3, <2>4 DEF Seats, Counts
  <2> QED
    BY <2>4, SeatsType
<1>2. CASE account[Email(r)].role # "none"
  BY <1>2 DEF CreateUser, Seats, Counts
<1> QED
  BY <1>1, <1>2

LEMMA TickSeats ==
  ASSUME TInv, Tick
  PROVE  /\ Seats' \subseteq Seats
         /\ \A e \in Emails : /\ account'[e].role = account[e].role
                              /\ account'[e].member = account[e].member
<1> SUFFICES ASSUME NEW e \in Emails
             PROVE  /\ account'[e].role = account[e].role
                    /\ account'[e].member = account[e].member
                    /\ account'[e].left > 0 => account[e].left > 0
  BY DEF Seats, Counts
<1>1. account[e] \in Account /\ Window \in Nat
  BY TimesAssumption DEF TInv, TypeOK
<1>2. account'[e].left = Sooner(account[e].left) /\ account'[e].role = account[e].role
      /\ account'[e].member = account[e].member
  BY <1>1 DEF Tick, Account
<1>3. account[e].left \in 0..Window
  BY <1>1 DEF Account
<1> QED
  BY <1>1, <1>2, <1>3 DEF Sooner

\* Only an accept and a login can take a seat, and an accept takes one.
LEMMA SeatsStep ==
  ASSUME TInv, NoStranger, [Next]_vars
  PROVE  \/ Seats' \subseteq Seats
         \/ \E r \in Requests : CreateMembership(r) /\ Seats' \subseteq Seats \cup {Email(r)}
         \/ \E e \in Emails : Login(e) /\ Counts(e) /\ Seats' \subseteq Seats \cup {e}
<1>0. account \in [Emails -> Account]
  BY DEF TInv, TypeOK
<1>1. CASE UNCHANGED account
  BY <1>1 DEF Seats, Counts
<1>2. ASSUME NEW r \in Requests, CreateUser(r) PROVE Seats' \subseteq Seats
  BY <1>2, CreateUserSeats
<1>3. ASSUME NEW r \in Requests, CreateMembership(r) PROVE Seats' \subseteq Seats \cup {Email(r)}
  BY <1>3, CreateMembershipEffect DEF Seats, Counts
<1>4. ASSUME NEW e \in Emails, Login(e)
      PROVE  Seats' \subseteq Seats \/ (Counts(e) /\ Seats' \subseteq Seats \cup {e})
  <2>1. \A x \in Emails : /\ Counts(x)' => Counts(x)
                          /\ account'[x] = account[x] \/ x = e
    BY <1>0, <1>4 DEF Login, Counts, Account
  <2>2. Seats' \subseteq Seats \cup {e}
    BY <2>1 DEF Seats
  <2>3. ~Counts(e) => Seats' \subseteq Seats
    BY <2>1 DEF Seats
  <2> QED
    BY <2>2, <2>3
<1>5. CASE Tick
  BY <1>5, TickSeats
<1>6. ASSUME NEW r \in Requests, RequestStep(r)
      PROVE  UNCHANGED account \/ CreateUser(r) \/ CreateMembership(r)
  BY <1>6 DEF RequestStep, Register, Accept, FindName, CreateTenant, CreateAdmin,
     CreateAdminMembership, FindInvitee, CreateInvite, SendMail, FindInvite, ReadLimit, CountSeats,
     UseInvite, Dies
<1>7. ASSUME [Next]_vars PROVE UNCHANGED account \/ Tick \/ (\E r \in Requests : RequestStep(r))
                              \/ (\E e \in Emails : Login(e))
  BY <1>7 DEF Next, vars, SyncTenant, Cleanup
<1> QED
  BY <1>1, <1>2, <1>3, <1>4, <1>5, <1>6, <1>7

LEMMA FewerSeats ==
  ASSUME TInv, Seats' \subseteq Seats, limit' = limit, Cardinality(Seats) < limit
  PROVE  Cardinality(Seats') < limit'
<1>1. Cardinality(Seats') <= Cardinality(Seats)
  BY SeatsType, SeatsFinite, FS_Subset
<1>2. Cardinality(Seats) \in Nat /\ Cardinality(Seats') \in Nat /\ limit \in Nat
  BY SeatsType, SeatsFinite, LimitsAssumption DEF TInv, TypeOK
<1> QED
  BY <1>1, <1>2

\* A fresh request reads the limit now, or it was fresh: then the limit is the same,
\* and it has not counted yet, or nobody else takes a seat.
Uncounted == {q \in fresh : request[q].pc = "count"}

LEMMA FreshFrom ==
  ASSUME TInv, NoStranger, [Next]_vars, NEW r \in Requests, r \in fresh'
  PROVE  \/ ReadLimit(r)
         \/ /\ r \in fresh /\ limit' = limit
            /\ (r \in Uncounted /\ Same(r)) \/ Seats' \subseteq Seats \/ CreateMembership(r)
<1>1. ASSUME NEW x \in Requests, RequestStep(x), ~ReadLimit(x), ~CreateMembership(x)
      PROVE  fresh' = fresh /\ limit' = limit
  BY <1>1 DEF RequestStep, Register, Accept, FindName, CreateTenant, CreateAdmin,
     CreateAdminMembership, FindInvitee, CreateInvite, SendMail, FindInvite, CountSeats, CreateUser,
     UseInvite, Dies, tenant, history
<1>2. ASSUME NEW x \in Requests, ReadLimit(x)
      PROVE  fresh' = fresh \cup {x} /\ limit' = limit /\ Seats' = Seats
  BY <1>2 DEF ReadLimit, tenant, Seats, Counts
<1>3. ASSUME NEW x \in Requests, CreateMembership(x), x # r
      PROVE  /\ r \in fresh /\ limit' = limit
             /\ (r \in Uncounted /\ Same(r)) \/ Seats' \subseteq Seats
  <2>1. Same(r)
    BY <1>3, RequestTypes DEF RequestStep, Accept, Same
  <2> QED
    BY <1>3, <2>1 DEF CreateMembership, tenant, Outdated, Uncounted
<1>4. ASSUME NEW x \in Requests, CreateMembership(x), x = r PROVE r \in fresh /\ limit' = limit
  BY <1>4 DEF CreateMembership, tenant, Outdated
<1>5. ASSUME NEW e \in Emails, Login(e)
      PROVE  /\ r \in fresh /\ limit' = limit
             /\ (r \in Uncounted /\ Same(r)) \/ Seats' \subseteq Seats
  BY <1>5 DEF Login, tenant, Same, Outdated, Uncounted
<1>6. ASSUME NEW l \in Limits, NEW p \in BOOLEAN, SyncTenant(l, p) PROVE FALSE
  BY <1>6 DEF SyncTenant
<1>7. ASSUME Tick \/ Cleanup \/ UNCHANGED vars PROVE fresh' = fresh /\ limit' = limit
  BY <1>7 DEF Tick, Cleanup, vars, tenant, history
<1>8. CASE Seats' \subseteq Seats
  <2>1. ReadLimit(r) \/ (r \in fresh /\ limit' = limit)
    BY <1>1, <1>2, <1>3, <1>4, <1>5, <1>6, <1>7 DEF Next
  <2> QED
    BY <1>8, <2>1
<1>9. CASE \E x \in Requests : CreateMembership(x)
  BY <1>3, <1>4, <1>9
<1>10. CASE \E e \in Emails : Login(e)
  BY <1>5, <1>10
<1> QED
  BY <1>8, <1>9, <1>10, SeatsStep

LEMMA FreshStep == TInv /\ NoStranger /\ FreshView /\ [Next]_vars => FreshView'
<1> SUFFICES ASSUME TInv, NoStranger, FreshView, [Next]_vars, NEW r \in fresh'
             PROVE  /\ request'[r].pc = "count" => request'[r].limit = limit'
                    /\ /\ request'[r].pc \in {"user", "member"}
                       /\ RoleOf[Mine(r)'] = "LEARNER" /\ ~request'[r].graced
                       => Cardinality(Seats') < limit'
  BY DEF FreshView
<1>0. r \in Requests
  BY TenantStep
<1>1. CASE ReadLimit(r)
  <2>1. request'[r].pc = "count" /\ request'[r].limit = limit /\ limit' = limit
    BY <1>0, <1>1, ReadPc DEF ReadLimit, tenant
  <2> QED
    BY <2>1
<1>2. CASE r \in fresh /\ limit' = limit /\ r \in Uncounted /\ Same(r)
  <2>1. request'[r].pc = "count" /\ request'[r].limit = limit
    BY <1>2 DEF Same, Uncounted, FreshView
  <2> QED
    BY <1>2, <2>1
<1>3. CASE CreateMembership(r)
  BY <1>0, <1>3, CreateMembershipEffect
<1>4. CASE r \in fresh /\ limit' = limit /\ Seats' \subseteq Seats /\ ~ReadLimit(r) /\ ~CreateMembership(r)
  <2>1. CASE Same(r)
    <3>1. Mine(r)' = Mine(r)
      BY <2>1 DEF Same, Mine
    <3> QED
      BY <1>4, <2>1, <3>1, FewerSeats DEF Same, FreshView
  <2>2. CASE CountSeats(r) /\ ~Same(r)
    <3>1. CASE request'[r].pc = "idle"
      BY <3>1
    <3>2. CASE request'[r].pc = "user" /\ (~request'[r].graced => SeatFree(r))
      <4>1. request[r].limit = limit
        BY <1>4, <2>2 DEF CountSeats, FreshView
      <4> QED
        BY <1>4, <3>2, <4>1, FewerSeats DEF SeatFree
    <3> QED
      BY <1>0, <2>2, <3>1, <3>2, CountPc
  <2>3. CASE CreateUser(r)
    <3>1. request[r].pc = "user" /\ (request'[r].pc = "idle" \/ request'[r].pc = "member")
      BY <1>0, <2>3, GoToPc, DonePc DEF CreateUser, Places
    <3>2. request'[r].pc = "member" => Mine(r)' = Mine(r) /\ request'[r].graced = request[r].graced
      <4>1. ASSUME GoTo(r, "member") PROVE Mine(r)' = Mine(r) /\ request'[r].graced = request[r].graced
        BY <1>0, <4>1, GoToPc DEF GoTo, Mine, TInv, TypeOK, Request, Places
      <4>2. Done(r) => request'[r].pc = "idle"
        BY <1>0, DonePc
      <4> QED
        BY <2>3, <4>1, <4>2 DEF CreateUser
    <3> QED
      BY <1>4, <3>1, <3>2, FewerSeats DEF FreshView
  <2>4. ASSUME NEW i \in Invites, FindInvitee(r, i) \/ FindInvite(r, i)
        PROVE  /\ request'[r].pc \in {"invite", "limit", "user"}
               /\ request'[r].pc = "user" => RoleOf[Mine(r)'] # "LEARNER"
    BY <1>0, <2>4, FindPc DEF Mine
  <2>5. CASE \/ Register(r) \/ CreateInvite(r) \/ SendMail(r) \/ UseInvite(r) \/ Dies(r)
    BY <1>0, <2>5, GoToPc, DonePc DEF Register, FindName, CreateTenant, CreateAdmin,
       CreateAdminMembership, CreateInvite, SendMail, UseInvite, Dies, Places
  <2> QED
    BY <1>0, <1>4, <2>1, <2>2, <2>3, <2>4, <2>5, Others DEF RequestStep, Accept
<1> QED
  BY <1>0, <1>1, <1>2, <1>3, <1>4, FreshFrom

LEMMA SeatTaken ==
  ASSUME TInv, NoStranger, FreshView, [Next]_vars, NEW r \in fresh,
         request[r].pc = "member", request'[r].pc = "use",
         RoleOf[Mine(r)] = "LEARNER", ~request[r].graced
  PROVE  Cardinality(Seats') <= limit
<1>0. r \in Requests
  BY DEF TInv, TypeOK
<1>1. CreateMembership(r)
  BY <1>0, Others, Moves DEF Same
<1>2. Seats' \subseteq Seats \cup {Email(r)}
  BY <1>0, <1>1, CreateMembershipEffect DEF Seats, Counts
<1>3. Cardinality(Seats) < limit
  BY DEF FreshView
<1>4. /\ IsFiniteSet(Seats \cup {Email(r)})
      /\ Cardinality(Seats \cup {Email(r)}) <= Cardinality(Seats) + 1
  <2>1. IsFiniteSet(Seats) /\ Cardinality(Seats) \in Nat
    BY SeatsType, SeatsFinite
  <2>2. /\ IsFiniteSet(Seats \cup {Email(r)})
        /\ \/ Cardinality(Seats \cup {Email(r)}) = Cardinality(Seats)
           \/ Cardinality(Seats \cup {Email(r)}) = Cardinality(Seats) + 1
    BY <2>1, FS_AddElement
  <2> QED
    BY <2>1, <2>2
<1>5. Cardinality(Seats') <= Cardinality(Seats \cup {Email(r)})
  BY <1>2, <1>4, FS_Subset
<1>6. /\ Cardinality(Seats) \in Nat /\ Cardinality(Seats') \in Nat /\ limit \in Nat
      /\ Cardinality(Seats \cup {Email(r)}) \in Nat
  BY SeatsType, SeatsFinite, <1>4, FS_CardinalityType, LimitsAssumption DEF TInv, TypeOK
<1> QED
  BY <1>3, <1>4, <1>5, <1>6

-----------------------------------------------------------------------------
(* The theorems.                                                           *)

IInv == /\ TInv /\ Known /\ NoStranger /\ Made /\ Sourced /\ FreshView
        /\ UsedInviteHasMember /\ AdmittedWholly /\ OpenInviteIsUsable /\ TenantHasAdmin

LEMMA InvInit == Init => IInv
<1> SUFFICES ASSUME Init PROVE IInv
  OBVIOUS
<1>1. /\ \A e \in Emails : account[e].role = "none" /\ ~account[e].member
      /\ \A i \in Invites : invite[i].state = "absent"
      /\ \A r \in Requests : request[r].pc = "idle"
      /\ fresh = {} /\ org = "none"
  BY IdleType DEF Init, NoAccount
<1> QED
  BY <1>1, TypeInit DEF IInv, Known, NoStranger, Made, Sourced, FreshView, UsedInviteHasMember,
     AdmittedWholly, OpenInviteIsUsable, TenantHasAdmin

LEMMA InvStep == IInv /\ [Next]_vars => IInv'
BY TypeStep, KnownStep, StrangerStep, MadeStep, SourcedStep, FreshStep, UsedStep, AdmittedStep,
   OpenStep, AdminStep DEF IInv

LEMMA Invariance == Spec => []IInv
BY InvInit, InvStep, PTL DEF Spec

\* An invite is used up only when its user and the membership exist.
THEOREM UsedSafe == Spec => []UsedInviteHasMember
<1>1. IInv => UsedInviteHasMember
  BY DEF IInv
<1> QED
  BY <1>1, Invariance, PTL

\* A user without a membership is one whose accept is under way or has died.
THEOREM AdmittedSafe == Spec => []AdmittedWholly
<1>1. IInv => AdmittedWholly
  BY DEF IInv
<1> QED
  BY <1>1, Invariance, PTL

\* An invite that no one can accept any more is open only for a known reason.
THEOREM OpenSafe == Spec => []OpenInviteIsUsable
<1>1. IInv => OpenInviteIsUsable
  BY DEF IInv
<1> QED
  BY <1>1, Invariance, PTL

\* A tenant has an administrator unless its registration is under way or has died.
THEOREM AdminSafe == Spec => []TenantHasAdmin
<1>1. IInv => TenantHasAdmin
  BY DEF IInv
<1> QED
  BY <1>1, Invariance, PTL

\* An accept whose view nobody has outdated never takes a seat too many.
THEOREM SeatsSafe == Spec => SeatsWithinLimit
<1>1. IInv /\ [Next]_vars =>
        [\A r \in fresh :
          /\ request[r].pc = "member" /\ request'[r].pc = "use"
          /\ RoleOf[Mine(r)] = "LEARNER" /\ ~request[r].graced
          => Cardinality(Seats') <= limit]_vars
  BY SeatTaken DEF IInv
<1> QED
  BY <1>1, Invariance, PTL DEF Spec, SeatsWithinLimit

\* An acceptance leaves a member of the tenant behind, and no member is admitted
\* by half.
THEOREM AcceptsWholeSafe == Spec => []AcceptsAreWhole
<1> QED
  BY UsedSafe, AdmittedSafe, PTL DEF AcceptsAreWhole

-----------------------------------------------------------------------------
(* Every step is one of Admission, or invisible to it.                     *)

\* A request that creates a membership is the only one that does, and the user is
\* no member, and no one that a request left behind.
Sole ==
    \A r \in Requests : request[r].pc = "member" =>
        /\ ~account[Email(r)].member
        /\ Email(r) \notin cut
        /\ \A q \in Requests : request[q].pc = "member" /\ Email(q) = Email(r) => q = r

LeftAreUsers == \A e \in cut : account[e].role # "none"

AdmissionInv == IInv /\ Sole /\ LeftAreUsers

LEMMA CutStep ==
  ASSUME [Next]_vars, NEW e \in cut' \ cut
  PROVE  \E r \in Requests : Dies(r) /\ request[r].pc \in {"member", "use"} /\ Email(r) = e
BY DEF Next, vars, RequestStep, Register, Accept, FindName, CreateTenant, CreateAdmin,
   CreateAdminMembership, FindInvitee, CreateInvite, SendMail, FindInvite, ReadLimit, CountSeats,
   CreateUser, CreateMembership, UseInvite, Dies, Login, SyncTenant, Cleanup, Tick, history

\* Whom a request admits is a user, with the role of the invite.
LEMMA AdmittedUser ==
  ASSUME TInv, Known, NEW r \in Requests, request[r].pc \in {"member", "use"}
  PROVE  /\ Mine(r) \in Invites /\ Email(r) \in Emails
         /\ account[Email(r)].role = RoleOf[Mine(r)] /\ account[Email(r)].role # "none"
         /\ request[r].pc = "use" => account[Email(r)].member
BY MineType DEF Known, InviteFree, Roles

LEMMA LeftStep == IInv /\ LeftAreUsers /\ [Next]_vars => LeftAreUsers'
<1> SUFFICES ASSUME IInv, LeftAreUsers, [Next]_vars, NEW e \in cut' PROVE account'[e].role # "none"
  BY DEF LeftAreUsers
<1>0. TInv /\ TypeOK /\ Known
  BY DEF IInv, TInv
<1>1. e \in Emails /\ account[e].role # "none"
  <2>1. CASE e \in cut
    BY <1>0, <2>1 DEF LeftAreUsers, TypeOK
  <2>2. CASE e \notin cut
    BY <1>0, <2>2, CutStep, AdmittedUser
  <2> QED
    BY <2>1, <2>2
<1> QED
  BY <1>0, <1>1, AccountStep

\* Only CreateMembership makes a member.
LEMMA NewMember ==
  ASSUME TInv, [Next]_vars, NEW e \in Emails, ~account[e].member, account'[e].member
  PROVE  \E r \in Requests : CreateMembership(r) /\ Email(r) = e
<1>1. ASSUME NEW r \in Requests, CreateUser(r) PROVE account'[e].member = account[e].member
  BY <1>1, MineType DEF CreateUser, TInv, TypeOK, Account, InviteFree
<1>2. ASSUME NEW x \in Emails, Login(x) PROVE account'[e].member = account[e].member
  BY <1>2 DEF Login, TInv, TypeOK, Account
<1>3. Tick => account'[e].member = account[e].member
  BY TickSeats
<1>4. ASSUME NEW r \in Requests, RequestStep(r) PROVE CreateMembership(r)
  BY <1>1, <1>4 DEF RequestStep, Register, Accept, FindName, CreateTenant, CreateAdmin,
     CreateAdminMembership, FindInvitee, CreateInvite, SendMail, FindInvite, ReadLimit, CountSeats,
     UseInvite, Dies
<1>5. PICK r \in Requests : CreateMembership(r)
  BY <1>2, <1>3, <1>4 DEF Next, vars, SyncTenant, Cleanup
<1> QED
  BY <1>5, CreateMembershipEffect

LEMMA SoleStep == AdmissionInv /\ [Next]_vars => Sole'
<1> SUFFICES ASSUME AdmissionInv, [Next]_vars, NEW r \in Requests, request'[r].pc = "member"
             PROVE  /\ ~account'[Email(r)'].member
                    /\ Email(r)' \notin cut'
                    /\ \A q \in Requests : request'[q].pc = "member" /\ Email(q)' = Email(r)' => q = r
  BY DEF Sole
<1>0. /\ TInv /\ TypeOK /\ Known /\ NoStranger /\ Sole /\ LeftAreUsers
  BY DEF AdmissionInv, IInv, TInv
<1>1. ASSUME NEW q \in Requests, request'[q].pc = "member"
      PROVE  \/ Same(q) /\ request[q].pc = "member" /\ Email(q)' = Email(q)
             \/ /\ CreateUser(q) /\ Email(q)' = Email(q) /\ account[Email(q)].role = "none"
                /\ Email(q) \in Emails
  <2>1. CASE Same(q)
    BY <1>1, <2>1 DEF Same, Email, Mine
  <2>2. CASE ~Same(q)
    <3>1. CreateUser(q)
      BY <1>0, <1>1, <2>2, Others, Moves
    <3> QED
      BY <1>0, <1>1, <3>1, CreateUserEffect, MineType DEF CreateUser, InviteFree, Email
  <2> QED
    BY <2>1, <2>2
<1>2. ASSUME Same(r), request[r].pc = "member", Email(r)' = Email(r)
      PROVE  /\ ~account'[Email(r)].member
             /\ Email(r) \notin cut'
             /\ \A q \in Requests : request'[q].pc = "member" /\ Email(q)' = Email(r) => q = r
  <2>1. /\ ~account[Email(r)].member /\ Email(r) \notin cut
        /\ \A q \in Requests : request[q].pc = "member" /\ Email(q) = Email(r) => q = r
        /\ account[Email(r)].role # "none" /\ Email(r) \in Emails
    BY <1>0, <1>2, AdmittedUser DEF Sole
  <2>2. ASSUME NEW q \in Requests, CreateMembership(q), Email(q) = Email(r) PROVE FALSE
    <3>1. q = r
      BY <2>1, <2>2 DEF CreateMembership
    <3> QED
      BY <1>0, <1>2, <2>2, <3>1, CreateMembershipEffect DEF Same
  <2>3. ASSUME NEW q \in Requests, Dies(q), request[q].pc \in {"member", "use"}, Email(q) = Email(r)
        PROVE  FALSE
    <3>1. CASE request[q].pc = "use"
      BY <1>0, <2>1, <2>3, <3>1, AdmittedUser
    <3>2. CASE request[q].pc = "member"
      <4>1. q = r
        BY <2>1, <2>3, <3>2
      <4>2. request'[r].pc = "idle"
        BY <1>0, <2>3, <4>1, DonePc DEF Dies
      <4> QED
        BY <4>2
    <3> QED
      BY <2>3, <3>1, <3>2
  <2>4. ASSUME NEW q \in Requests, request'[q].pc = "member", Email(q)' = Email(r) PROVE q = r
    BY <1>1, <2>1, <2>4
  <2> QED
    BY <1>0, <2>1, <2>2, <2>3, <2>4, NewMember, CutStep
<1>3. ASSUME CreateUser(r), Email(r)' = Email(r), account[Email(r)].role = "none", Email(r) \in Emails
      PROVE  /\ ~account'[Email(r)].member
             /\ Email(r) \notin cut'
             /\ \A q \in Requests : request'[q].pc = "member" /\ Email(q)' = Email(r) => q = r
  <2>1. ~account'[Email(r)].member
    <3>1. ~account[Email(r)].member
      BY <1>0, <1>3 DEF NoStranger
    <3>2. ASSUME NEW q \in Requests, CreateMembership(q) PROVE FALSE
      <4>1. request'[q].pc = "use" /\ \A x \in Requests \ {q} : request'[x] = request[x]
        BY <1>0, <3>2, CreateMembershipEffect, RequestTypes DEF RequestStep, Accept
      <4>2. request[r].pc = "user"
        BY <1>3 DEF CreateUser
      <4> QED
        BY <4>1, <4>2
    <3> QED
      BY <1>0, <1>3, <3>1, <3>2, NewMember
  <2>2. Email(r) \notin cut'
    BY <1>0, <1>3 DEF CreateUser, history, LeftAreUsers
  <2>3. ASSUME NEW q \in Requests, request'[q].pc = "member", Email(q)' = Email(r), q # r PROVE FALSE
    <3>1. Same(q)
      BY <1>0, <1>3, <2>3, RequestTypes DEF RequestStep, Accept, Same
    <3>2. request[q].pc = "member" /\ Email(q) = Email(r)
      BY <2>3, <3>1 DEF Same, Email, Mine
    <3> QED
      BY <1>0, <1>3, <3>2, AdmittedUser
  <2> QED
    BY <2>1, <2>2, <2>3
<1> QED
  BY <1>1, <1>2, <1>3

LEMMA AdmissionInvariance == Spec => []AdmissionInv
<1>1. Init => AdmissionInv
  <2> SUFFICES ASSUME Init PROVE AdmissionInv
    OBVIOUS
  <2>1. (\A r \in Requests : request[r].pc = "idle") /\ cut = {}
    BY IdleType DEF Init
  <2> QED
    BY <2>1, InvInit DEF AdmissionInv, Sole, LeftAreUsers
<1>2. AdmissionInv /\ [Next]_vars => AdmissionInv'
  BY InvStep, SoleStep, LeftStep DEF AdmissionInv
<1> QED
  BY <1>1, <1>2, PTL DEF Spec

\* What Admission sees.
Issued     == {i \in Invites : invite[i].state # "absent"}
Spent      == {i \in Invites : invite[i].state = "used"}
RoleOfUser == [e \in Emails |-> account[e].role]
Abandoned  == {e \in cut : ~account[e].member}
Members    == {e \in Emails : account[e].member}

SameInvites == Issued' = Issued /\ Spent' = Spent
SamePeople  == /\ RoleOfUser' = RoleOfUser /\ Joining' = Joining
               /\ Abandoned' = Abandoned /\ Members' = Members
SameTenant  == limit' = limit /\ grace' = grace

\* An accept becomes unsure when its view is outdated, or when it reads the limit
\* in the grace window.
LEMMA UnsureFrom ==
  ASSUME TInv, [Next]_vars, NEW q \in Requests, Unsure(q)'
  PROVE  /\ Email(q)' = Email(q) /\ Email(q) \in Emails
         /\ \/ Unsure(q)
            \/ q \in fresh /\ q \notin fresh'
            \/ ReadLimit(q) /\ grace > 0
<1>0. TypeOK
  BY DEF TInv
<1>1. /\ request'[q].pc \in {"count", "user", "member"} /\ RoleOf[Mine(q)'] = "LEARNER"
      /\ q \notin fresh' \/ request'[q].graced
  BY DEF Unsure
<1>2. CASE Same(q)
  BY <1>1, <1>2, MineType DEF Same, Mine, Email, Unsure, InviteFree
<1>3. CASE ReadLimit(q)
  <2>1. q \in fresh' /\ request'[q].graced
    BY <1>1, <1>3 DEF ReadLimit
  <2>2. grace > 0
    BY <1>0, <1>3, <2>1 DEF ReadLimit, TypeOK, Request
  <2>3. request'[q].invite = request[q].invite /\ request[q].pc = "limit"
    BY <1>3, ReadPc DEF ReadLimit
  <2> QED
    BY <1>3, <2>2, <2>3, MineType DEF Mine, Email, InviteFree
<1>4. CASE CountSeats(q)
  <2>1. request'[q].invite = request[q].invite /\ (request'[q].graced => request[q].graced)
    BY <1>1, <1>4, CountPc
  <2>2. request[q].pc = "count" /\ fresh' = fresh
    BY <1>4 DEF CountSeats, history
  <2> QED
    BY <1>1, <2>1, <2>2, MineType DEF Mine, Email, Unsure, InviteFree
<1>5. CASE CreateUser(q)
  <2>1. GoTo(q, "member")
    BY <1>1, <1>5, DonePc DEF CreateUser
  <2>2. request'[q].invite = request[q].invite /\ request'[q].graced = request[q].graced
    BY <1>0, <2>1 DEF GoTo, TypeOK, Request
  <2>3. request[q].pc = "user" /\ fresh' = fresh
    BY <1>5 DEF CreateUser, history
  <2> QED
    BY <1>1, <2>2, <2>3, MineType DEF Mine, Email, Unsure, InviteFree
<1>6. ASSUME NEW i \in Invites, FindInvitee(q, i) \/ FindInvite(q, i) PROVE FALSE
  BY <1>1, <1>6, FindPc DEF Mine
<1>7. ASSUME \/ Register(q) \/ CreateInvite(q) \/ SendMail(q) \/ CreateMembership(q)
             \/ UseInvite(q) \/ Dies(q)
      PROVE  FALSE
  BY <1>1, <1>7, GoToPc, DonePc DEF Register, FindName, CreateTenant, CreateAdmin,
     CreateAdminMembership, CreateInvite, SendMail, CreateMembership, UseInvite, Dies, Places
<1> QED
  BY <1>2, <1>3, <1>4, <1>5, <1>6, <1>7, Others DEF RequestStep, Accept

LEMMA ExcusedType ==
  ASSUME TInv, [Next]_vars
  PROVE  Excused' \in SUBSET Emails
BY UnsureFrom DEF Excused

LEMMA ExcusedShrinks ==
  ASSUME TInv, [Next]_vars, fresh \subseteq fresh',
         \A x \in Requests : Same(x) \/ request'[x].pc # "count" \/ ~(grace > 0)
  PROVE  Excused' \in SUBSET Excused
<1>1. ASSUME NEW x \in Requests, ReadLimit(x) PROVE request'[x].pc = "count" /\ ~Same(x)
  BY <1>1, ReadPc DEF ReadLimit, Same
<1> QED
  BY <1>1, UnsureFrom DEF Excused

\* Who is between the user and the membership.
LEMMA JoiningSame ==
  ASSUME \A x \in Requests : Same(x) \/ (request[x].pc # "member" /\ request'[x].pc # "member")
  PROVE  Joining' = Joining
<1>1. ASSUME NEW x \in Requests, request'[x].pc = "member" \/ request[x].pc = "member"
      PROVE  request'[x].pc = "member" /\ request[x].pc = "member" /\ Email(x)' = Email(x)
  BY <1>1 DEF Same, Email, Mine
<1> QED
  BY <1>1 DEF Joining

LEMMA PeopleSame ==
  ASSUME TInv, Joining' = Joining, cut' = cut,
         \A e \in Emails : /\ account'[e].role = account[e].role
                           /\ account'[e].member <=> account[e].member
  PROVE  SamePeople
<1>1. cut \subseteq Emails
  BY DEF TInv, TypeOK
<1> QED
  BY <1>1 DEF SamePeople, RoleOfUser, Abandoned, Members

LEMMA InvitesSame ==
  ASSUME \A i \in Invites : invite'[i].state = invite[i].state
  PROVE  SameInvites
BY DEF SameInvites, Issued, Spent

\* Steps that Admission does not see, but for those who leave the door.
LEMMA UnseenStep ==
  ASSUME Excused' \in SUBSET Excused, SameInvites, SamePeople, SameTenant, Seats' = Seats
  PROVE  Promise!Next
<1>1. Promise!Withdraw
  BY DEF Promise!Withdraw, Promise!Leave, Promise!people, Promise!tenant, SameInvites, SamePeople, SameTenant,
     Issued, Spent, RoleOfUser, Abandoned, Members
<1> QED
  BY <1>1 DEF Promise!Next

LEMMA PromiseInvite ==
  ASSUME NEW i \in Invites, Promise!Issue(i) \/ Promise!Enrol(i) \/ Promise!Spend(i)
  PROVE  Promise!Next
BY DEF Promise!Next

LEMMA PromiseEmail ==
  ASSUME NEW e \in Emails,
         Promise!Join(e) \/ Promise!Abandon(e) \/ Promise!Return(e) \/ Promise!Excuse(e)
  PROVE  Promise!Next
BY DEF Promise!Next

\* The instance has a cardinality of its own, defined the same way.
LEMMA PromiseCardinality ==
  ASSUME NEW S
  PROVE  Promise!Cardinality(S) = Cardinality(S)
BY Zenon DEF Promise!Cardinality, Cardinality

LEMMA IssueStep ==
  ASSUME AdmissionInv, [Next]_vars, NEW r \in Requests, CreateInvite(r)
  PROVE  Promise!Next
<1>0. TInv /\ TypeOK /\ Made
  BY DEF AdmissionInv, IInv, TInv
<1>1. PICK i \in Invites : i = Mine(r) /\ invite[i].state = "absent"
  BY <1>0, MineType DEF CreateInvite, Made, InviteFree
<1>2. /\ \A x \in Invites \ {i} : invite'[x] = invite[x]
      /\ invite'[i].state = "open"
  BY <1>0, <1>1 DEF CreateInvite, TypeOK
<1>3. i \notin Issued /\ Issued' = Issued \cup {i} /\ Spent' = Spent
  BY <1>1, <1>2 DEF Issued, Spent
<1>4. /\ request[r].pc = "invite" /\ request'[r].pc = "mail"
      /\ \A x \in Requests \ {r} : Same(x)
  BY <1>0, GoToPc, RequestTypes DEF CreateInvite, RequestStep, Places, Same
<1>5. SamePeople /\ SameTenant /\ Seats' = Seats /\ Excused' \in SUBSET Excused
  BY <1>0, <1>4, JoiningSame, PeopleSame, ExcusedShrinks
     DEF CreateInvite, history, tenant, SameTenant, Seats, Counts
<1>6. Promise!Issue(i)
  BY <1>3, <1>5 DEF Promise!Issue, Promise!Leave, Promise!people, Promise!tenant, SamePeople, SameTenant,
     Issued, Spent, RoleOfUser, Abandoned, Members
<1> QED
  BY <1>1, <1>6, PromiseInvite

\* A new user is being admitted.
LEMMA EnrolStep ==
  ASSUME AdmissionInv, [Next]_vars, NEW r \in Requests, CreateUser(r), request'[r].pc # "idle"
  PROVE  Promise!Next
<1>0. TInv /\ TypeOK /\ Made /\ NoStranger
  BY DEF AdmissionInv, IInv, TInv
<1>1. PICK i \in Invites, e \in Emails :
         /\ i = Mine(r) /\ e = Email(r) /\ e = EmailOf[i]
         /\ RoleOf[i] \in Roles /\ i \in Issued
  BY <1>0, MineType DEF CreateUser, Made, InviteFree, Email, Issued
<1>2. /\ Email(r)' = e /\ request'[r].pc = "member" /\ request[r].pc = "user"
      /\ account[e].role = "none"
      /\ account' = [account EXCEPT ![e].role = RoleOf[i]]
      /\ UNCHANGED <<limit, grace, invite, fresh, cut>>
  <2>1. Email(r)' = Email(r)
    BY <1>0, CreateUserEffect DEF Email
  <2> QED
    BY <1>0, <1>1, <2>1, CreateUserEffect DEF CreateUser, tenant, history
<1>3. \A x \in Requests \ {r} : Same(x)
  BY <1>0, RequestTypes DEF RequestStep, Accept, Same
<1>4. SameInvites /\ Seats' = Seats /\ Excused' \in SUBSET Excused
  BY <1>0, <1>2, <1>3, InvitesSame, CreateUserSeats, ExcusedShrinks
<1>5. RoleOfUser' = [RoleOfUser EXCEPT ![e] = RoleOf[i]] /\ RoleOfUser[e] = "none"
  <2>1. \A x \in Emails : account'[x].role = IF x = e THEN RoleOf[i] ELSE account[x].role
    BY <1>0, <1>1, <1>2 DEF TypeOK, Account
  <2> QED
    BY <1>1, <1>2, <2>1 DEF RoleOfUser
<1>6. Members' = Members /\ Abandoned' = Abandoned
  <2>1. \A x \in Emails : account'[x].member <=> account[x].member
    BY <1>0, <1>1, <1>2 DEF TypeOK, Account
  <2>2. cut \subseteq Emails
    BY <1>0 DEF TypeOK
  <2> QED
    BY <1>2, <2>1, <2>2 DEF Members, Abandoned
<1>7. Joining' = Joining \cup {e}
  <2>1. \A x \in Requests \ {r} : /\ request'[x].pc = "member" <=> request[x].pc = "member"
                                  /\ Email(x)' = Email(x)
    BY <1>3 DEF Same, Email, Mine
  <2> QED
    BY <1>2, <2>1 DEF Joining
<1>8. Promise!Enrol(i)
  BY <1>1, <1>2, <1>4, <1>5, <1>6, <1>7 DEF Promise!Enrol, Promise!Leave, Promise!tenant, SameInvites,
     Issued, Spent, RoleOfUser, Abandoned, Members
<1> QED
  BY <1>1, <1>8, PromiseInvite

\* A step of the requests that changes no one's state.
LEMMA QuietStep ==
  ASSUME TInv, [Next]_vars, fresh \subseteq fresh', UNCHANGED <<limit, grace, account, cut>>,
         SameInvites,
         \A x \in Requests : \/ Same(x)
                             \/ /\ request[x].pc # "member" /\ request'[x].pc # "member"
                                /\ request'[x].pc # "count" \/ ~(grace > 0)
  PROVE  Promise!Next
<1>1. SamePeople /\ SameTenant /\ Seats' = Seats /\ Excused' \in SUBSET Excused
  BY JoiningSame, PeopleSame, ExcusedShrinks DEF SameTenant, Seats, Counts
<1> QED
  BY <1>1, UnseenStep

\* A user becomes a member, and a learner takes a seat.
LEMMA JoinStep ==
  ASSUME AdmissionInv, [Next]_vars, NEW r \in Requests, CreateMembership(r)
  PROVE  Promise!Next
<1>0. TInv /\ TypeOK /\ Known /\ NoStranger /\ FreshView /\ Sole
  BY DEF AdmissionInv, IInv, TInv
<1>1. PICK i \in Invites, e \in Emails : i = Mine(r) /\ e = Email(r)
  BY <1>0, MineType DEF CreateMembership, InviteFree
<1>2. /\ request[r].pc = "member" /\ request'[r].pc = "use"
      /\ account[e].role = RoleOf[i] /\ ~account[e].member /\ e \notin cut
      /\ \A q \in Requests : request[q].pc = "member" /\ Email(q) = e => q = r
      /\ UNCHANGED <<limit, grace, invite, cut>>
  BY <1>0, <1>1, CreateMembershipEffect DEF CreateMembership, Known, Sole, tenant
<1>3. \A x \in Requests \ {r} : Same(x)
  BY <1>0, RequestTypes DEF RequestStep, Accept, Same
<1>4. /\ account'[e].member /\ account'[e].role = account[e].role
      /\ account'[e].left = IF RoleOf[i] = "LEARNER" THEN Window ELSE 0
      /\ \A x \in Emails \ {e} : account'[x] = account[x]
  BY <1>0, <1>1 DEF CreateMembership, TypeOK, Account
<1>5. SameInvites
  BY <1>2, InvitesSame
<1>6. e \in Joining /\ Joining' = Joining \ {e}
  <2>1. \A x \in Requests \ {r} : /\ request'[x].pc = "member" <=> request[x].pc = "member"
                                  /\ Email(x)' = Email(x)
    BY <1>3 DEF Same, Email, Mine
  <2> QED
    BY <1>1, <1>2, <2>1 DEF Joining
<1>7. Members' = Members \cup {e} /\ Abandoned' = Abandoned /\ RoleOfUser' = RoleOfUser
  <2>1. cut \subseteq Emails /\ \A x \in Emails : account'[x].role = account[x].role
    BY <1>0, <1>4 DEF TypeOK
  <2> QED
    BY <1>1, <1>2, <1>4, <2>1 DEF Members, Abandoned, RoleOfUser
<1>8. RoleOfUser[e] = RoleOf[i]
  BY <1>2 DEF RoleOfUser
<1>9. CASE RoleOf[i] # "LEARNER"
  <2>1. Seats' = Seats
    BY <1>2, <1>4, <1>9 DEF Seats, Counts
  <2>2. fresh' = fresh
    BY <2>1 DEF CreateMembership, Outdated
  <2>3. Excused' \in SUBSET Excused
    BY <1>0, <1>2, <1>3, <2>2, ExcusedShrinks
  <2>4. Promise!Join(e)
    BY <1>2, <1>5, <1>6, <1>7, <1>8, <1>9, <2>1, <2>3 DEF Promise!Join, Promise!Leave, Promise!tenant,
       SameInvites, Issued, Spent, RoleOfUser, Abandoned, Members
  <2> QED
    BY <2>4, PromiseEmail
<1>10. CASE RoleOf[i] = "LEARNER"
  <2>1. Seats' = Seats \cup {e}
    BY <1>2, <1>4, <1>10, TimesAssumption DEF Seats, Counts
  <2>2. e \in Excused \/ Cardinality(Seats') <= limit
    <3>1. CASE r \in fresh /\ ~request[r].graced
      BY <1>0, <1>1, <1>2, <1>10, <3>1, SeatTaken
    <3>2. CASE ~(r \in fresh /\ ~request[r].graced)
      BY <1>1, <1>2, <1>10, <3>2 DEF Excused, Unsure
    <3> QED
      BY <3>1, <3>2
  <2>3. Excused' \in SUBSET Emails
    BY <1>0, ExcusedType
  <2>4. e \in Excused \/ Promise!Cardinality(Seats') <= limit
    BY <2>2, PromiseCardinality
  <2>5. Promise!Join(e)
    BY <1>2, <1>5, <1>6, <1>7, <1>8, <1>10, <2>1, <2>3, <2>4 DEF Promise!Join, Promise!TakeSeat,
       Promise!tenant, SameInvites, Issued, Spent, RoleOfUser, Abandoned, Members
  <2> QED
    BY <2>5, PromiseEmail
<1> QED
  BY <1>9, <1>10

\* A user whose accept dies before the membership stays a user.
LEMMA AbandonStep ==
  ASSUME AdmissionInv, [Next]_vars, NEW r \in Requests, Dies(r), request[r].pc = "member"
  PROVE  Promise!Next
<1>0. TInv /\ TypeOK /\ Sole
  BY DEF AdmissionInv, IInv, TInv
<1>1. PICK e \in Emails : e = Email(r)
  BY <1>0, MineType DEF InviteFree
<1>2. /\ request'[r].pc = "idle" /\ ~account[e].member /\ cut' = cut \cup {e}
      /\ \A q \in Requests : request[q].pc = "member" /\ Email(q) = e => q = r
      /\ UNCHANGED <<limit, grace, account, invite, fresh>>
  BY <1>0, <1>1, DonePc DEF Dies, Sole, tenant
<1>3. \A x \in Requests \ {r} : Same(x)
  BY <1>0, RequestTypes DEF RequestStep, Same
<1>4. SameInvites /\ Seats' = Seats /\ Excused' \in SUBSET Excused
  BY <1>0, <1>2, <1>3, InvitesSame, ExcusedShrinks DEF Seats, Counts
<1>5. e \in Joining /\ Joining' = Joining \ {e}
  <2>1. \A x \in Requests \ {r} : /\ request'[x].pc = "member" <=> request[x].pc = "member"
                                  /\ Email(x)' = Email(x)
    BY <1>3 DEF Same, Email, Mine
  <2> QED
    BY <1>1, <1>2, <2>1 DEF Joining
<1>6. Abandoned' = Abandoned \cup {e} /\ Members' = Members /\ RoleOfUser' = RoleOfUser
  BY <1>2 DEF Abandoned, Members, RoleOfUser
<1>7. Promise!Abandon(e)
  BY <1>2, <1>4, <1>5, <1>6 DEF Promise!Abandon, Promise!Leave, Promise!tenant, SameInvites,
     Issued, Spent, RoleOfUser, Abandoned, Members
<1> QED
  BY <1>7, PromiseEmail

\* An invite is spent for a member.
LEMMA SpendStep ==
  ASSUME AdmissionInv, [Next]_vars, NEW r \in Requests, UseInvite(r),
         invite[Mine(r)].state # "deleted"
  PROVE  Promise!Next
<1>0. TInv /\ TypeOK /\ Known /\ Made
  BY DEF AdmissionInv, IInv, TInv
<1>1. PICK i \in Invites : i = Mine(r)
  BY <1>0, MineType DEF UseInvite, InviteFree
<1>2. /\ request[r].pc = "use" /\ request'[r].pc = "idle"
      /\ i \in Issued /\ EmailOf[i] \in Members /\ RoleOfUser[EmailOf[i]] = RoleOf[i]
      /\ UNCHANGED <<limit, grace, account, cut, fresh>>
  BY <1>0, <1>1, DonePc, InvitesAssumption
     DEF UseInvite, Made, Known, Email, Issued, Members, RoleOfUser, tenant, history
<1>3. \A x \in Requests \ {r} : Same(x)
  BY <1>0, RequestTypes DEF RequestStep, Accept, Same
<1>4. Issued' = Issued /\ Spent' = Spent \cup {i}
  <2>1. invite'[i].state = "used" /\ \A x \in Invites \ {i} : invite'[x] = invite[x]
    BY <1>0, <1>1 DEF UseInvite, TypeOK, Invite
  <2> QED
    BY <1>2, <2>1 DEF Issued, Spent
<1>5. SamePeople /\ Seats' = Seats /\ Excused' \in SUBSET Excused
  BY <1>0, <1>2, <1>3, JoiningSame, PeopleSame, ExcusedShrinks DEF Seats, Counts
<1>6. Promise!Spend(i)
  BY <1>2, <1>4, <1>5 DEF Promise!Spend, Promise!Leave, Promise!people, Promise!tenant, SamePeople,
     Issued, Spent, RoleOfUser, Abandoned, Members
<1> QED
  BY <1>6, PromiseInvite

\* Whoever reads the limit in the grace window may be excused.
LEMMA ExcuseStep ==
  ASSUME AdmissionInv, [Next]_vars, NEW r \in Requests, ReadLimit(r), grace > 0
  PROVE  Promise!Next
<1>0. TInv /\ TypeOK
  BY DEF AdmissionInv, IInv, TInv
<1>1. PICK e \in Emails : e = Email(r)
  BY <1>0, MineType DEF ReadLimit, InviteFree
<1>2. /\ request[r].pc = "limit" /\ request'[r].pc = "count" /\ fresh \subseteq fresh'
      /\ UNCHANGED <<limit, grace, account, invite, cut>>
  BY <1>0, ReadPc DEF ReadLimit, tenant
<1>3. \A x \in Requests \ {r} : Same(x)
  BY <1>0, RequestTypes DEF RequestStep, Accept, Same
<1>4. SameInvites /\ SamePeople /\ Seats' = Seats
  BY <1>0, <1>2, <1>3, InvitesSame, JoiningSame, PeopleSame DEF Seats, Counts
<1>5. Excused' \in SUBSET (Excused \cup {e})
  <2>1. ASSUME NEW x \in Requests, ReadLimit(x) PROVE x = r
    <3>1. request[x].pc = "limit" /\ request'[x].pc = "count"
      BY <1>0, <2>1, ReadPc DEF ReadLimit
    <3> QED
      BY <1>3, <3>1 DEF Same
  <2> QED
    BY <1>0, <1>1, <1>2, <2>1, UnsureFrom DEF Excused
<1>6. Promise!Excuse(e)
  BY <1>2, <1>4, <1>5 DEF Promise!Excuse, Promise!people, Promise!tenant, SameInvites, SamePeople,
     Issued, Spent, RoleOfUser, Abandoned, Members
<1> QED
  BY <1>6, PromiseEmail

\* A learner who was away takes a seat again; any other login is not seen.
LEMMA ReturnStep ==
  ASSUME AdmissionInv, [Next]_vars, NEW e \in Emails, Login(e)
  PROVE  Promise!Next
<1>0. TInv /\ TypeOK
  BY DEF AdmissionInv, IInv, TInv
<1>1. /\ account'[e].left = IF Counts(e) THEN Window ELSE 0
      /\ \A x \in Emails : /\ account'[x].role = account[x].role
                           /\ account'[x].member = account[x].member
      /\ \A x \in Emails \ {e} : account'[x] = account[x]
      /\ UNCHANGED <<limit, grace, invite, request, cut>>
  BY <1>0 DEF Login, TypeOK, Account, tenant
<1>2. \A x \in Requests : Same(x)
  BY <1>1 DEF Same
<1>3. SameInvites /\ SamePeople /\ SameTenant
  BY <1>0, <1>1, <1>2, InvitesSame, JoiningSame, PeopleSame DEF SameTenant
<1>4. CASE Counts(e)
  <2>1. Seats' = Seats \cup {e}
    BY <1>1, <1>4, TimesAssumption DEF Seats, Counts
  <2>2. Excused' \in SUBSET Emails
    BY <1>0, ExcusedType
  <2>3. e \in Members /\ RoleOfUser[e] = "LEARNER"
    BY <1>4 DEF Counts, Members, RoleOfUser
  <2>4. Promise!Return(e)
    BY <1>3, <2>1, <2>2, <2>3 DEF Promise!Return, Promise!TakeSeat, Promise!people, Promise!tenant,
       SameInvites, SamePeople, SameTenant, Issued, Spent, RoleOfUser, Abandoned, Members
  <2> QED
    BY <2>4, PromiseEmail
<1>5. CASE ~Counts(e)
  <2>1. Seats' = Seats
    BY <1>1, <1>5 DEF Seats, Counts
  <2>2. fresh' = fresh
    BY <2>1 DEF Login, Outdated
  <2>3. Excused' \in SUBSET Excused
    BY <1>0, <1>2, <2>2, ExcusedShrinks
  <2> QED
    BY <1>3, <2>1, <2>3, UnseenStep
<1> QED
  BY <1>4, <1>5

\* The webhook may change the limit and open the grace window.
LEMMA OfferStep ==
  ASSUME AdmissionInv, [Next]_vars, NEW l \in Limits, NEW subscribed \in BOOLEAN,
         SyncTenant(l, subscribed)
  PROVE  Promise!Next
<1>0. TInv /\ TypeOK
  BY DEF AdmissionInv, IInv, TInv
<1>1. limit' \in Limits /\ UNCHANGED <<account, invite, request, cut>>
  BY DEF SyncTenant
<1>2. \A x \in Requests : Same(x)
  BY <1>1 DEF Same
<1>3. SameInvites /\ SamePeople /\ Seats' = Seats
  BY <1>0, <1>1, <1>2, InvitesSame, JoiningSame, PeopleSame DEF Seats, Counts
<1>4. Excused' \in SUBSET Emails
  BY <1>0, ExcusedType
<1>5. (grace > 0)' \in BOOLEAN
  OBVIOUS
<1>6. Promise!Offer
  BY <1>1, <1>3, <1>4, <1>5 DEF Promise!Offer, Promise!people, SameInvites, SamePeople,
     Issued, Spent, RoleOfUser, Abandoned, Members
<1> QED
  BY <1>6 DEF Promise!Next

\* Time ends the grace window and takes learners out of the seat window.
LEMMA TimeStep ==
  ASSUME AdmissionInv, [Next]_vars, Tick
  PROVE  Promise!Next
<1>0. TInv /\ TypeOK
  BY DEF AdmissionInv, IInv, TInv
<1>1. /\ UNCHANGED <<limit, request, cut, fresh>> /\ grace' = Sooner(grace)
      /\ \A i \in Invites : invite'[i].state = invite[i].state
  BY <1>0 DEF Tick, TypeOK, Invite, history
<1>2. \A x \in Requests : Same(x)
  BY <1>1 DEF Same
<1>3. SameInvites /\ SamePeople /\ Seats' \in SUBSET Seats
  BY <1>0, <1>1, <1>2, TickSeats, InvitesSame, JoiningSame, PeopleSame
<1>4. Excused' \in SUBSET Excused
  BY <1>0, <1>1, <1>2, ExcusedShrinks
<1>5. (grace > 0)' => grace > 0
  BY <1>0, <1>1, TimesAssumption DEF Sooner, TypeOK
<1>6. Promise!TimePasses
  BY <1>1, <1>3, <1>4, <1>5 DEF Promise!TimePasses, Promise!Leave, Promise!people, SameInvites,
     SamePeople, Issued, Spent, RoleOfUser, Abandoned, Members
<1> QED
  BY <1>6 DEF Promise!Next

LEMMA CleanupStep ==
  ASSUME AdmissionInv, [Next]_vars, Cleanup
  PROVE  Promise!Next
<1>0. TInv /\ TypeOK
  BY DEF AdmissionInv, IInv, TInv
<1>1. SameInvites
  <2>1. \A i \in Invites : \/ invite'[i].state = invite[i].state
                           \/ invite'[i].state = "deleted" /\ invite[i].state = "open"
    BY <1>0 DEF Cleanup, Expired, TypeOK, Invite
  <2> QED
    BY <2>1 DEF SameInvites, Issued, Spent
<1>2. UNCHANGED <<limit, grace, account, request, cut, fresh>>
  BY DEF Cleanup, tenant, history
<1>3. \A x \in Requests : Same(x)
  BY <1>2 DEF Same
<1> QED
  BY <1>0, <1>1, <1>2, <1>3, QuietStep

\* A request that dies elsewhere leaves nothing behind that is not whole.
LEMMA DeathStep ==
  ASSUME AdmissionInv, [Next]_vars, NEW r \in Requests, Dies(r), request[r].pc # "member"
  PROVE  Promise!Next
<1>0. TInv /\ TypeOK /\ Known
  BY DEF AdmissionInv, IInv, TInv
<1>1. request'[r].pc = "idle" /\ UNCHANGED <<limit, grace, account, invite, fresh>>
  BY <1>0, DonePc DEF Dies, tenant
<1>2. \A x \in Requests \ {r} : Same(x)
  BY <1>0, RequestTypes DEF RequestStep, Same
<1>3. SameInvites /\ SameTenant /\ Seats' = Seats
  BY <1>1, InvitesSame DEF Seats, Counts, SameTenant
<1>4. Joining' = Joining /\ Excused' \in SUBSET Excused
  BY <1>0, <1>1, <1>2, JoiningSame, ExcusedShrinks
<1>5. Abandoned' = Abandoned
  <2>1. CASE request[r].pc = "use"
    BY <1>0, <1>1, <2>1 DEF Dies, Abandoned, Known
  <2>2. CASE request[r].pc # "use"
    BY <1>1, <2>2 DEF Dies, Abandoned
  <2> QED
    BY <2>1, <2>2
<1>6. SamePeople
  BY <1>1, <1>4, <1>5 DEF SamePeople, RoleOfUser, Members
<1> QED
  BY <1>3, <1>4, <1>6, UnseenStep

LEMMA RequestPromise ==
  ASSUME AdmissionInv, [Next]_vars, NEW r \in Requests, RequestStep(r)
  PROVE  Promise!Next
<1>0. TInv /\ TypeOK
  BY DEF AdmissionInv, IInv, TInv
<1>1. \A x \in Requests \ {r} : Same(x)
  BY <1>0, RequestTypes DEF Same
<1>2. ASSUME fresh \subseteq fresh', UNCHANGED <<limit, grace, account, cut>>, SameInvites,
             request[r].pc # "member", request'[r].pc # "member",
             request'[r].pc # "count" \/ ~(grace > 0)
      PROVE  Promise!Next
  BY <1>0, <1>1, <1>2, QuietStep
<1>3. ASSUME UNCHANGED invite PROVE SameInvites
  BY <1>3, InvitesSame
<1>4. CASE Register(r)
  <2>1. request[r].pc \in InviteFree /\ request'[r].pc \in InviteFree
    BY <1>0, <1>4, GoToPc, DonePc DEF Register, FindName, CreateTenant, CreateAdmin,
       CreateAdminMembership, Places, InviteFree
  <2>2. UNCHANGED <<limit, grace, account, cut, fresh, invite>>
    BY <1>4 DEF Register, FindName, CreateTenant, CreateAdmin, CreateAdminMembership, tenant, history
  <2> QED
    BY <1>2, <1>3, <2>1, <2>2 DEF InviteFree
<1>5. CASE CreateInvite(r)
  BY <1>5, IssueStep
<1>6. CASE SendMail(r)
  BY <1>0, <1>2, <1>3, <1>6, DonePc DEF SendMail, tenant, history
<1>7. ASSUME NEW i \in Invites, FindInvitee(r, i) \/ FindInvite(r, i) PROVE Promise!Next
  <2>1. request[r].pc = "idle" /\ request'[r].pc \in {"invite", "limit", "user"}
    BY <1>0, <1>7, FindPc
  <2>2. UNCHANGED <<limit, grace, account, cut, fresh, invite>>
    BY <1>7 DEF FindInvitee, FindInvite, tenant, history
  <2> QED
    BY <1>2, <1>3, <2>1, <2>2
<1>8. CASE ReadLimit(r)
  <2>1. CASE grace > 0
    BY <1>8, <2>1, ExcuseStep
  <2>2. CASE ~(grace > 0)
    BY <1>0, <1>2, <1>3, <1>8, <2>2, ReadPc DEF ReadLimit, tenant
  <2> QED
    BY <2>1, <2>2
<1>9. CASE CountSeats(r)
  <2>1. request[r].pc = "count" /\ request'[r].pc \in {"user", "idle"}
    BY <1>0, <1>9, CountPc DEF CountSeats
  <2>2. UNCHANGED <<limit, grace, account, cut, fresh, invite>>
    BY <1>9 DEF CountSeats, tenant, history
  <2> QED
    BY <1>2, <1>3, <2>1, <2>2
<1>10. CASE CreateUser(r)
  <2>1. CASE request'[r].pc = "idle"
    <3>1. UNCHANGED account
      BY <1>0, <1>10, <2>1, GoToPc DEF CreateUser, Places
    <3> QED
      BY <1>2, <1>3, <1>10, <2>1, <3>1 DEF CreateUser, tenant, history
  <2>2. CASE request'[r].pc # "idle"
    BY <1>10, <2>2, EnrolStep
  <2> QED
    BY <2>1, <2>2
<1>11. CASE CreateMembership(r)
  BY <1>11, JoinStep
<1>12. CASE UseInvite(r)
  <2>1. CASE invite[Mine(r)].state = "deleted"
    <3>1. Mine(r) \in Invites
      BY <1>0, <1>12, MineType DEF UseInvite, InviteFree
    <3>2. \A i \in Invites : invite'[i].state = invite[i].state
      BY <1>0, <1>12, <2>1, <3>1 DEF UseInvite, TypeOK, Invite
    <3> QED
      BY <1>0, <1>2, <1>12, <3>2, InvitesSame, DonePc DEF UseInvite, tenant, history
  <2>2. CASE invite[Mine(r)].state # "deleted"
    BY <1>12, <2>2, SpendStep
  <2> QED
    BY <2>1, <2>2
<1>13. CASE Dies(r)
  BY <1>13, AbandonStep, DeathStep
<1> QED
  BY <1>4, <1>5, <1>6, <1>7, <1>8, <1>9, <1>10, <1>11, <1>12, <1>13 DEF RequestStep, Accept

LEMMA AdmissionStep == AdmissionInv /\ [Next]_vars => Promise!Next
<1> SUFFICES ASSUME AdmissionInv, [Next]_vars PROVE Promise!Next
  OBVIOUS
<1>1. CASE UNCHANGED vars
  <2>1. UNCHANGED <<limit, grace, account, cut, fresh, invite, request>>
    BY <1>1 DEF vars, tenant, history
  <2>2. SameInvites /\ TInv
    BY <2>1, InvitesSame DEF AdmissionInv, IInv
  <2> QED
    BY <2>1, <2>2, QuietStep DEF Same
<1> QED
  BY <1>1, RequestPromise, ReturnStep, OfferStep, CleanupStep, TimeStep DEF Next

LEMMA PromiseInit == Init => Promise!Init
<1> SUFFICES ASSUME Init PROVE Promise!Init
  OBVIOUS
<1>1. (\A r \in Requests : request[r].pc = "idle") /\ limit \in Limits
  BY IdleType, LimitsAssumption DEF Init
<1>2. \A e \in Emails : account[e].role = "none" /\ ~account[e].member
  BY DEF Init, NoAccount
<1>3. Joining = {} /\ Excused = {} /\ Seats = {}
  BY <1>1, <1>2 DEF Joining, Excused, Unsure, Seats, Counts
<1>4. Issued = {} /\ Spent = {} /\ cut = {} /\ ~(grace > 0)
  BY DEF Init, Issued, Spent
<1> QED
  BY <1>1, <1>2, <1>3, <1>4 DEF Promise!Init, Issued, Spent

\* However accepts overlap, stop or die, and whatever the webhook, the clean-up and
\* the clock do meanwhile: whoever gets in was invited, is admitted whole or given up
\* for good, and takes a seat within the limit, unless excused.
THEOREM AdmissionKept == Spec => ImplementsAdmission
<1>1. AdmissionInv /\ [Next]_vars => [Promise!Next]_(Promise!vars)
  BY AdmissionStep
<1> QED
  BY <1>1, PromiseInit, AdmissionInvariance, PTL DEF Spec, ImplementsAdmission, Promise!Spec

=============================================================================
