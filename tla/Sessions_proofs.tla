-------------------------- MODULE Sessions_proofs --------------------------
(***************************************************************************)
(* Proofs about Sessions, for any tokens, users and overlapping requests,  *)
(* and any lifetimes.                                                      *)
(***************************************************************************)
EXTENDS Sessions, TLAPS

LEMMA NoTokenIsNone == NoToken \notin Tokens
BY DEF NoToken, Tokens

-----------------------------------------------------------------------------
(* Type correctness.  A request under way holds a token.                   *)

Holding == \A r \in Requests : request[r].pc # "idle" => request[r].token \in Tokens

TInv == TypeOK /\ Holding

LEMMA RowTypes ==
  ASSUME NEW x \in Row
  PROVE  /\ [x EXCEPT !.state = "revoked", !.since = 0] \in Row
         /\ [x EXCEPT !.state = "deleted"] \in Row
<1>1. 0 \in 0..(Keep + 1)
  BY TimesAssumption
<1> QED
  BY <1>1 DEF Row, States

LEMMA CreatedRow ==
  ASSUME TypeOK, NEW t \in Tokens, Created(t)
  PROVE  /\ row[t].state = "absent" /\ row' \in [Tokens -> Row]
         /\ row'[t].state = "live"
         /\ \A x \in Tokens \ {t} : row'[x] = row[x]
<1> DEFINE new == [state |-> "live", left |-> Ttl, since |-> 0]
<1>1. new \in Row /\ new.state = "live"
  BY TimesAssumption DEF Row, States
<1>2. row' = [row EXCEPT ![t] = new] /\ row[t].state = "absent"
  BY DEF Created, Fresh
<1> HIDE DEF new
<1> QED
  BY <1>1, <1>2 DEF TypeOK

LEMMA TickRow ==
  ASSUME TypeOK, Tick
  PROVE  /\ row' \in [Tokens -> Row]
         /\ \A t \in Tokens : row'[t].state = row[t].state /\ (row'[t].left > 0 => row[t].left > 0)
<1> SUFFICES ASSUME NEW t \in Tokens
             PROVE  /\ row'[t] \in Row /\ row'[t].state = row[t].state
                    /\ (row'[t].left > 0 => row[t].left > 0)
  BY DEF Tick
<1>1. row[t].left \in 0..Ttl /\ row[t].since \in 0..(Keep + 1) /\ row[t] \in Row
  BY DEF TypeOK, Row
<1> DEFINE l == IF row[t].left = 0 THEN 0 ELSE row[t].left - 1
           s == IF row[t].state = "revoked" /\ row[t].since <= Keep THEN row[t].since + 1
                ELSE row[t].since
<1>2. l \in 0..Ttl /\ (l > 0 => row[t].left > 0)
  BY <1>1, TimesAssumption
<1>3. s \in 0..(Keep + 1)
  BY <1>1, TimesAssumption
<1>4. row'[t] = [row[t] EXCEPT !.left = l, !.since = s]
  BY DEF Tick
<1> HIDE DEF l, s
<1> QED
  BY <1>1, <1>2, <1>3, <1>4 DEF Row

LEMMA HoldRequest ==
  ASSUME TypeOK, NEW r \in Requests, NEW t \in Tokens, NEW pc \in {"revoke", "logout"},
         Hold(r, t, pc)
  PROVE  /\ request[r].pc = "idle" /\ request' \in [Requests -> RequestState]
         /\ request'[r].pc = pc /\ request'[r].token = t
         /\ \A x \in Requests \ {r} : request'[x] = request[x]
BY DEF Hold, TypeOK, RequestState

LEMMA DoneRequest ==
  ASSUME TypeOK, NEW r \in Requests, Done(r)
  PROVE  /\ request' \in [Requests -> RequestState] /\ request'[r].pc = "idle"
         /\ \A x \in Requests \ {r} : request'[x] = request[x]
BY DEF Done, Idle, TypeOK, RequestState

LEMMA ToMintRequest ==
  ASSUME TypeOK, NEW r \in Requests, request' = [request EXCEPT ![r].pc = "mint"]
  PROVE  /\ request' \in [Requests -> RequestState] /\ request'[r].pc = "mint"
         /\ request'[r].token = request[r].token
         /\ \A x \in Requests \ {r} : request'[x] = request[x]
BY DEF TypeOK, RequestState

LEMMA TypeStep == TInv /\ [Next]_vars => TInv'
<1> SUFFICES ASSUME TInv, [Next]_vars PROVE TInv'
  OBVIOUS
<1>0. TypeOK /\ Holding
  BY DEF TInv
<1>1. ASSUME NEW t \in Tokens, Login(t) PROVE TInv'
  <2>1. row' \in [Tokens -> Row]
    BY <1>0, <1>1, CreatedRow DEF Login
  <2> QED
    BY <1>0, <1>1, <2>1 DEF Login, TInv, TypeOK, Holding, history
<1>2. ASSUME NEW r \in Requests, NEW t \in Tokens, FindForRefresh(r, t) \/ FindForLogout(r, t)
      PROVE  TInv'
  <2>1. PICK pc \in {"revoke", "logout"} : Hold(r, t, pc)
    BY <1>2 DEF FindForRefresh, FindForLogout
  <2>2. /\ request' \in [Requests -> RequestState] /\ request'[r].token = t
        /\ \A x \in Requests \ {r} : request'[x] = request[x]
    BY <1>0, <2>1, HoldRequest
  <2>3. UNCHANGED <<row, parent, ended, lost, faults>> /\ contested' \subseteq Tokens
    BY <1>0, <2>1 DEF Hold, TypeOK
  <2> QED
    BY <1>0, <2>2, <2>3 DEF TInv, TypeOK, Holding
<1>3. ASSUME NEW r \in Requests, RevokeForRefresh(r) PROVE TInv'
  <2>1. request[r].token \in Tokens
    BY <1>0, <1>3 DEF RevokeForRefresh, Holding
  <2>2. row' \in [Tokens -> Row]
    <3>1. Revoked(request[r].token) \in Row
      BY <1>0, <2>1, RowTypes DEF Revoked, TypeOK
    <3> QED
      BY <1>0, <1>3, <3>1 DEF RevokeForRefresh, TypeOK
  <2>3. /\ request' \in [Requests -> RequestState]
        /\ request'[r].pc # "idle" => request'[r].token \in Tokens
        /\ \A x \in Requests \ {r} : request'[x] = request[x]
    BY <1>0, <1>3, <2>1, DoneRequest, ToMintRequest DEF RevokeForRefresh
  <2> QED
    BY <1>0, <1>3, <2>2, <2>3 DEF RevokeForRefresh, TInv, TypeOK, Holding, history
<1>4. ASSUME NEW r \in Requests, NEW t \in Tokens, Mint(r, t) PROVE TInv'
  <2>1. request[r].token \in Tokens /\ Created(t) /\ Done(r)
    BY <1>0, <1>4 DEF Mint, Holding
  <2>2. row' \in [Tokens -> Row] /\ parent' \in [Tokens -> Tokens \cup {NoToken}]
    BY <1>0, <1>4, <2>1, CreatedRow DEF Mint, TypeOK
  <2>3. /\ request' \in [Requests -> RequestState] /\ request'[r].pc = "idle"
        /\ \A x \in Requests \ {r} : request'[x] = request[x]
    BY <1>0, <2>1, DoneRequest
  <2> QED
    BY <1>0, <1>4, <2>2, <2>3 DEF Mint, TInv, TypeOK, Holding
<1>5. ASSUME NEW r \in Requests, RevokeForLogout(r) PROVE TInv'
  <2>1. request[r].token \in Tokens /\ Done(r)
    BY <1>0, <1>5 DEF RevokeForLogout, Holding
  <2>2. row' \in [Tokens -> Row]
    BY <1>0, <1>5, <2>1, RowTypes DEF RevokeForLogout, Revoked, TypeOK
  <2>3. /\ request' \in [Requests -> RequestState] /\ request'[r].pc = "idle"
        /\ \A x \in Requests \ {r} : request'[x] = request[x]
    BY <1>0, <2>1, DoneRequest
  <2>4. ended' \subseteq Tokens /\ UNCHANGED <<parent, contested, lost, faults>>
    BY <1>0, <1>5, <2>1 DEF RevokeForLogout, TypeOK
  <2> QED
    BY <1>0, <2>2, <2>3, <2>4 DEF TInv, TypeOK, Holding
<1>6. ASSUME NEW r \in Requests, Dies(r) PROVE TInv'
  <2>1. request[r].token \in Tokens /\ Done(r)
    BY <1>0, <1>6 DEF Dies, Holding
  <2>2. /\ request' \in [Requests -> RequestState] /\ request'[r].pc = "idle"
        /\ \A x \in Requests \ {r} : request'[x] = request[x]
    BY <1>0, <2>1, DoneRequest
  <2>3. faults' \in 0..MaxFaults
    BY <1>0, <1>6, BoundAssumption DEF Dies, TypeOK
  <2>4. lost' \subseteq Tokens /\ UNCHANGED <<row, parent, ended, contested>>
    BY <1>0, <1>6, <2>1 DEF Dies, TypeOK
  <2> QED
    BY <1>0, <2>2, <2>3, <2>4 DEF TInv, TypeOK, Holding
<1>7. ASSUME NEW u \in Users, LogoutAll(u) PROVE TInv'
  <2>1. row' \in [Tokens -> Row]
    BY <1>0, <1>7, RowTypes DEF LogoutAll, Revoked, TypeOK
  <2>2. ended' \subseteq Tokens /\ contested' \subseteq Tokens
    BY <1>0, <1>7 DEF LogoutAll, TypeOK
  <2> QED
    BY <1>0, <1>7, <2>1, <2>2 DEF LogoutAll, TInv, TypeOK, Holding
<1>8. CASE Cleanup
  <2>1. row' \in [Tokens -> Row]
    BY <1>0, <1>8, RowTypes DEF Cleanup, TypeOK
  <2> QED
    BY <1>0, <1>8, <2>1 DEF Cleanup, TInv, TypeOK, Holding, history
<1>9. CASE Tick
  <2>1. row' \in [Tokens -> Row]
    BY <1>0, <1>9, TickRow
  <2> QED
    BY <1>0, <1>9, <2>1 DEF Tick, TInv, TypeOK, Holding, history
<1>10. CASE UNCHANGED vars
  BY <1>0, <1>10 DEF vars, TInv, TypeOK, Holding, history
<1> QED
  BY <1>1, <1>2, <1>3, <1>4, <1>5, <1>6, <1>7, <1>8, <1>9, <1>10 DEF Next, RequestStep

LEMMA TInit == Init => TInv
<1> SUFFICES ASSUME Init PROVE TInv
  OBVIOUS
<1>1. Absent \in Row /\ faults \in 0..MaxFaults
  BY TimesAssumption, BoundAssumption DEF Init, Absent, Row, States
<1>2. Idle \in RequestState /\ Idle.pc = "idle"
  BY DEF Idle, RequestState
<1> QED
  BY <1>1, <1>2 DEF Init, TInv, TypeOK, Holding

\* The rows and the requests' locals keep their types, however requests overlap.
THEOREM TypeCorrect == Spec => []TypeOK
<1>1. TInv => TypeOK
  BY DEF TInv
<1> QED
  BY TInit, TypeStep, <1>1, PTL DEF Spec

-----------------------------------------------------------------------------
(* A row is created once, and one that is gone does not come back.         *)

Gone == {"revoked", "deleted"}

LEMMA RowsMove ==
  ASSUME TInv, [Next]_vars, NEW t \in Tokens
  PROVE  /\ row[t].state # "absent" => row'[t].state # "absent"
         /\ row[t].state \in Gone => row'[t].state \in Gone
<1>0. TypeOK /\ Holding /\ row[t] \in Row
  BY DEF TInv, TypeOK
<1> DEFINE G == /\ row[t].state # "absent" => row'[t].state # "absent"
                /\ row[t].state \in Gone => row'[t].state \in Gone
<1>1. ASSUME NEW x \in Tokens, Created(x) PROVE G
  BY <1>0, <1>1, CreatedRow DEF Gone
<1>2. \A x \in Tokens : Revoked(x).state = "revoked"
  BY <1>0 DEF TypeOK, Row, Revoked
<1>3. ASSUME NEW r \in Requests, RevokeForRefresh(r) \/ RevokeForLogout(r) PROVE G
  BY <1>0, <1>2, <1>3 DEF RevokeForRefresh, RevokeForLogout, TypeOK, Gone
<1>4. ASSUME NEW u \in Users, LogoutAll(u) PROVE G
  BY <1>0, <1>2, <1>4 DEF LogoutAll, TypeOK, Gone
<1>5. ASSUME Cleanup PROVE G
  <2>1. [row[t] EXCEPT !.state = "deleted"].state = "deleted"
    BY <1>0 DEF Row
  <2> QED
    BY <1>0, <1>5, <2>1 DEF Cleanup, TypeOK, Gone
<1>6. ASSUME Tick PROVE G
  BY <1>0, <1>6, TickRow
<1>7. ASSUME UNCHANGED row PROVE G
  BY <1>7
<1> HIDE DEF G
<1>8. ASSUME NEW r \in Requests, RequestStep(r) PROVE G
  <2>1. CASE RevokeForRefresh(r) \/ RevokeForLogout(r)
    BY <1>3, <2>1
  <2>2. CASE Dies(r)
    BY <1>7, <2>2 DEF Dies
  <2>3. ASSUME NEW x \in Tokens, FindForRefresh(r, x) \/ FindForLogout(r, x) PROVE G
    BY <1>7, <2>3 DEF FindForRefresh, FindForLogout, Hold
  <2>4. ASSUME NEW x \in Tokens, Mint(r, x) PROVE G
    BY <1>1, <2>4 DEF Mint
  <2> QED
    BY <1>8, <2>1, <2>2, <2>3, <2>4 DEF RequestStep
<1>9. ASSUME NEW x \in Tokens, Login(x) PROVE G
  BY <1>1, <1>9 DEF Login
<1>10. ASSUME UNCHANGED vars PROVE G
  BY <1>7, <1>10 DEF vars
<1>11. G
  BY <1>4, <1>5, <1>6, <1>8, <1>9, <1>10 DEF Next
<1> QED
  BY <1>11 DEF G

-----------------------------------------------------------------------------
(* The tokens that have been given up, and by whom.                        *)

Lineage ==
    \A t \in Tokens : parent[t] # NoToken =>
        /\ row[parent[t]].state \in Gone
        /\ row[t].state # "absent"
        /\ UserOf[t] = UserOf[parent[t]]

HeldRows ==
    \A r \in Requests :
        /\ request[r].pc # "idle" => row[request[r].token].state # "absent"
        /\ request[r].pc = "mint" => row[request[r].token].state \in Gone

EndedGone == \A t \in ended : row[t].state \in Gone

\* A request that is alone with its token: the token has no successor yet and
\* nobody has ended it.
Alone ==
    \A r \in Requests : request[r].pc # "idle" /\ request[r].token \notin contested =>
        /\ \A x \in Requests \ {r} :
              request[x].pc # "idle" => request[x].token # request[r].token
        /\ \A t \in Tokens : parent[t] # request[r].token
        /\ request[r].token \notin ended

GoneInv == TInv /\ Lineage /\ HeldRows /\ EndedGone

\* What a step on one request does to it: it is done, or holds what it held.
Keeps(r) ==
    /\ \A x \in Requests \ {r} : request'[x] = request[x]
    /\ \/ request'[r].pc = "idle"
       \/ /\ request[r].pc # "idle" /\ request'[r].token = request[r].token
          /\ request'[r].pc = "mint" => request[r].pc = "mint"

LEMMA GoneStep == GoneInv /\ [Next]_vars => Lineage' /\ HeldRows' /\ EndedGone'
<1> SUFFICES ASSUME GoneInv, [Next]_vars PROVE Lineage' /\ HeldRows' /\ EndedGone'
  OBVIOUS
<1>0. TInv /\ TypeOK /\ Holding /\ Lineage /\ HeldRows /\ EndedGone
  BY DEF GoneInv, TInv
<1>1. \A t \in Tokens : /\ row[t].state # "absent" => row'[t].state # "absent"
                        /\ row[t].state \in Gone => row'[t].state \in Gone
  BY <1>0, RowsMove
<1>2. ASSUME UNCHANGED parent PROVE Lineage'
  BY <1>0, <1>1, <1>2 DEF Lineage, TypeOK
<1>3. ASSUME UNCHANGED ended PROVE EndedGone'
  BY <1>0, <1>1, <1>3 DEF EndedGone, TypeOK
<1>4. ASSUME NEW r \in Requests, Keeps(r) PROVE HeldRows'
  BY <1>0, <1>1, <1>4 DEF HeldRows, Holding, Keeps
<1>5. ASSUME UNCHANGED request PROVE HeldRows'
  BY <1>0, <1>1, <1>5 DEF HeldRows, Holding
<1>6. ASSUME NEW t \in Tokens, Login(t) PROVE Lineage' /\ HeldRows' /\ EndedGone'
  BY <1>2, <1>3, <1>5, <1>6 DEF Login, history
<1>7. ASSUME NEW r \in Requests, NEW t \in Tokens, FindForRefresh(r, t) \/ FindForLogout(r, t)
      PROVE  Lineage' /\ HeldRows' /\ EndedGone'
  <2>1. PICK pc \in {"revoke", "logout"} : Hold(r, t, pc)
    BY <1>7 DEF FindForRefresh, FindForLogout
  <2>2. UNCHANGED <<parent, ended, row>> /\ row[t].state = "live"
    BY <1>7, <2>1 DEF Hold, FindForRefresh, FindForLogout, Usable
  <2>3. /\ request'[r].pc # "mint" /\ request'[r].token = t
        /\ \A x \in Requests \ {r} : request'[x] = request[x]
    BY <1>0, <2>1, HoldRequest
  <2>4. HeldRows'
    BY <1>0, <2>2, <2>3 DEF HeldRows
  <2> QED
    BY <1>2, <1>3, <2>2, <2>4
<1>8. ASSUME NEW r \in Requests, RevokeForRefresh(r)
      PROVE  Lineage' /\ HeldRows' /\ EndedGone'
  <2>1. request[r].token \in Tokens /\ UNCHANGED <<parent, ended>>
    BY <1>0, <1>8 DEF RevokeForRefresh, Holding, history
  <2>2. CASE row[request[r].token].state = "deleted"
    <3>1. Keeps(r)
      BY <1>0, <1>8, <2>2, DoneRequest DEF RevokeForRefresh, Keeps
    <3> QED
      BY <1>2, <1>3, <1>4, <2>1, <3>1
  <2>3. CASE row[request[r].token].state # "deleted"
    <3>1. Revoked(request[r].token).state = "revoked"
      BY <1>0, <2>1 DEF TypeOK, Row, Revoked
    <3>2. row'[request[r].token].state \in Gone
      BY <1>0, <1>8, <2>1, <2>3, <3>1 DEF RevokeForRefresh, TypeOK, Gone
    <3>3. /\ request'[r].token = request[r].token
          /\ \A x \in Requests \ {r} : request'[x] = request[x]
      BY <1>0, <1>8, <2>3, ToMintRequest DEF RevokeForRefresh
    <3>4. HeldRows'
      BY <1>0, <1>1, <3>2, <3>3 DEF HeldRows, Holding, Gone
    <3> QED
      BY <1>2, <1>3, <2>1, <3>4
  <2> QED
    BY <2>2, <2>3
<1>9. ASSUME NEW r \in Requests, NEW t \in Tokens, Mint(r, t)
      PROVE  Lineage' /\ HeldRows' /\ EndedGone'
  <2>1. /\ request[r].token \in Tokens /\ row[request[r].token].state \in Gone
        /\ UserOf[t] = UserOf[request[r].token]
    BY <1>0, <1>9 DEF Mint, Holding, HeldRows
  <2>2. row'[t].state = "live"
    BY <1>0, <1>9, CreatedRow DEF Mint
  <2>3. Lineage'
    BY <1>0, <1>1, <1>9, <2>1, <2>2 DEF Mint, Lineage, TypeOK
  <2>4. Keeps(r) /\ UNCHANGED ended
    BY <1>0, <1>9, DoneRequest DEF Mint, Keeps
  <2> QED
    BY <1>3, <1>4, <2>3, <2>4
<1>10. ASSUME NEW r \in Requests, RevokeForLogout(r)
       PROVE  Lineage' /\ HeldRows' /\ EndedGone'
  <2>1. request[r].token \in Tokens /\ UNCHANGED parent /\ ended' = ended \cup {request[r].token}
    BY <1>0, <1>10 DEF RevokeForLogout, Holding
  <2>2. Revoked(request[r].token).state = "revoked"
    BY <1>0, <2>1 DEF TypeOK, Row, Revoked
  <2>3. row'[request[r].token].state \in Gone
    BY <1>0, <1>10, <2>1, <2>2 DEF RevokeForLogout, TypeOK, Gone
  <2>4. EndedGone'
    BY <1>0, <1>1, <2>1, <2>3 DEF EndedGone, TypeOK
  <2>5. Keeps(r)
    BY <1>0, <1>10, DoneRequest DEF RevokeForLogout, Keeps
  <2> QED
    BY <1>2, <1>4, <2>1, <2>4, <2>5
<1>11. ASSUME NEW r \in Requests, Dies(r) PROVE Lineage' /\ HeldRows' /\ EndedGone'
  <2>1. Keeps(r) /\ UNCHANGED <<parent, ended>>
    BY <1>0, <1>11, DoneRequest DEF Dies, Keeps
  <2> QED
    BY <1>2, <1>3, <1>4, <2>1
<1>12. ASSUME NEW u \in Users, LogoutAll(u) PROVE Lineage' /\ HeldRows' /\ EndedGone'
  <2>1. \A x \in Tokens : Revoked(x).state = "revoked" /\ row[x].state \in States
    BY <1>0 DEF TypeOK, Row, Revoked
  <2>2. EndedGone'
    <3> SUFFICES ASSUME NEW t \in ended' PROVE row'[t].state \in Gone
      BY DEF EndedGone
    <3>1. CASE t \in ended
      BY <1>0, <1>1, <3>1 DEF EndedGone, TypeOK
    <3>2. CASE t \notin ended
      BY <1>0, <1>12, <2>1, <3>2 DEF LogoutAll, Gone, States
    <3> QED
      BY <3>1, <3>2
  <2> QED
    BY <1>2, <1>5, <1>12, <2>2 DEF LogoutAll
<1>13. CASE Cleanup \/ Tick \/ UNCHANGED vars
  BY <1>2, <1>3, <1>5, <1>13 DEF Cleanup, Tick, vars, history
<1> QED
  BY <1>6, <1>7, <1>8, <1>9, <1>10, <1>11, <1>12, <1>13 DEF Next, RequestStep

LEMMA GoneInit == Init => GoneInv
<1> SUFFICES ASSUME Init PROVE GoneInv
  OBVIOUS
<1>1. Lineage /\ EndedGone
  BY DEF Init, Lineage, EndedGone
<1>2. HeldRows
  BY DEF Init, HeldRows, Idle
<1> QED
  BY <1>1, <1>2, TInit DEF GoneInv

\* A token that was exchanged is never usable again, however requests overlap:
\* the refresh has revoked it before it creates the next.
THEOREM RotationSafe == Spec => []RotationRetires
<1>1. GoneInv /\ [Next]_vars => GoneInv'
  BY TypeStep, GoneStep DEF GoneInv
<1>2. GoneInv => RotationRetires
  BY DEF GoneInv, Lineage, RotationRetires, Usable, Gone
<1> QED
  BY GoneInit, <1>1, <1>2, PTL DEF Spec

-----------------------------------------------------------------------------
(* Requests that are alone with their token.                               *)

RaceInv == GoneInv /\ Alone

LEMMA AloneStep == RaceInv /\ [Next]_vars => Alone'
<1> SUFFICES ASSUME RaceInv, [Next]_vars PROVE Alone'
  OBVIOUS
<1>0. GoneInv /\ TInv /\ TypeOK /\ Holding /\ Lineage /\ HeldRows /\ EndedGone /\ Alone
  BY DEF RaceInv, GoneInv, TInv
<1>1. ASSUME NEW r \in Requests, Keeps(r), UNCHANGED <<contested, parent, ended>> PROVE Alone'
  BY <1>1, <1>0 DEF Alone, Keeps
<1>2. ASSUME UNCHANGED <<request, contested, parent, ended>> PROVE Alone'
  BY <1>2, <1>0 DEF Alone
<1>3. ASSUME NEW r \in Requests, NEW t \in Tokens, FindForRefresh(r, t) \/ FindForLogout(r, t)
      PROVE  Alone'
  <2>1. PICK pc \in {"revoke", "logout"} : Hold(r, t, pc)
    BY <1>3 DEF FindForRefresh, FindForLogout
  <2>2. row[t].state = "live" /\ UNCHANGED <<parent, ended>>
    BY <1>3, <2>1 DEF Hold, FindForRefresh, FindForLogout, Usable
  <2>3. /\ request'[r].token = t
        /\ \A x \in Requests \ {r} : request'[x] = request[x]
    BY <1>0, <2>1, HoldRequest
  <2>4. t \notin ended /\ \A n \in Tokens : parent[n] # t
    BY <1>0, <2>2, NoTokenIsNone DEF EndedGone, Lineage, Gone
  <2>5. contested \subseteq contested' /\ (Holders(t) # {} => t \in contested')
    BY <2>1 DEF Hold
  <2>6. \A x \in Requests \ {r} : t \notin contested' => x \notin Holders(t)
    BY <2>5
  <2>7. \A x \in Requests \ {r} :
           request[x].pc # "idle" /\ t \notin contested' => request[x].token # t
    BY <2>6 DEF Holders
  <2> QED
    BY <1>0, <2>2, <2>3, <2>4, <2>5, <2>7 DEF Alone
<1>4. ASSUME NEW r \in Requests, RevokeForRefresh(r) PROVE Alone'
  <2>1. UNCHANGED <<contested, parent, ended>>
    BY <1>4 DEF RevokeForRefresh, history
  <2>2. /\ \A x \in Requests \ {r} : request'[x] = request[x]
        /\ request[r].pc # "idle"
        /\ request'[r].pc = "idle" \/ request'[r].token = request[r].token
    BY <1>0, <1>4, DoneRequest, ToMintRequest DEF RevokeForRefresh
  <2> QED
    BY <1>0, <2>1, <2>2 DEF Alone
<1>5. ASSUME NEW r \in Requests, NEW t \in Tokens, Mint(r, t) PROVE Alone'
  <2>1. /\ request[r].pc # "idle" /\ request[r].token \in Tokens
        /\ UNCHANGED <<contested, ended>>
        /\ parent' = [parent EXCEPT ![t] = request[r].token]
    BY <1>0, <1>5 DEF Mint, Holding
  <2>2. /\ request'[r].pc = "idle"
        /\ \A x \in Requests \ {r} : request'[x] = request[x]
    BY <1>0, <1>5, DoneRequest DEF Mint
  <2>3. \A x \in Requests \ {r} :
           request[x].pc # "idle" /\ request[x].token \notin contested
               => request[x].token # request[r].token
    BY <1>0, <2>1 DEF Alone
  <2>4. \A n \in Tokens : parent'[n] \in {parent[n], request[r].token}
    BY <1>0, <2>1 DEF TypeOK
  <2> QED
    BY <1>0, <2>1, <2>2, <2>3, <2>4 DEF Alone
<1>6. ASSUME NEW r \in Requests, RevokeForLogout(r) PROVE Alone'
  <2>1. /\ request[r].pc # "idle" /\ UNCHANGED <<contested, parent>>
        /\ ended' = ended \cup {request[r].token}
    BY <1>6 DEF RevokeForLogout
  <2>2. /\ request'[r].pc = "idle"
        /\ \A x \in Requests \ {r} : request'[x] = request[x]
    BY <1>0, <1>6, DoneRequest DEF RevokeForLogout
  <2>3. \A x \in Requests \ {r} :
           request[x].pc # "idle" /\ request[x].token \notin contested
               => request[x].token # request[r].token
    BY <1>0, <2>1 DEF Alone
  <2> QED
    BY <1>0, <2>1, <2>2, <2>3 DEF Alone
<1>7. ASSUME NEW r \in Requests, Dies(r) PROVE Alone'
  <2>1. Keeps(r) /\ UNCHANGED <<contested, parent, ended>>
    BY <1>0, <1>7, DoneRequest DEF Dies, Keeps
  <2> QED
    BY <1>1, <2>1
<1>8. ASSUME NEW u \in Users, LogoutAll(u) PROVE Alone'
  <2> DEFINE mine == {t \in Tokens : UserOf[t] = u /\ row[t].state # "absent"}
  <2>1. /\ UNCHANGED <<request, parent>> /\ ended' = ended \cup mine
        /\ contested' = contested \cup {t \in mine : Holders(t) # {}}
    BY <1>8 DEF LogoutAll
  <2>2. \A r \in Requests : request[r].pc # "idle" => r \in Holders(request[r].token)
    BY DEF Holders
  <2>3. \A r \in Requests : request[r].pc # "idle" /\ request[r].token \in mine
                              => request[r].token \in contested'
    BY <2>1, <2>2
  <2> HIDE DEF mine
  <2> QED
    BY <1>0, <2>1, <2>3 DEF Alone
<1>9. ASSUME NEW t \in Tokens, Login(t) PROVE Alone'
  BY <1>2, <1>9 DEF Login, history
<1>10. CASE Cleanup \/ Tick \/ UNCHANGED vars
  BY <1>2, <1>10 DEF Cleanup, Tick, vars, history
<1> QED
  BY <1>3, <1>4, <1>5, <1>6, <1>7, <1>8, <1>9, <1>10 DEF Next, RequestStep

LEMMA RaceStep == RaceInv /\ [Next]_vars => RaceInv'
BY TypeStep, GoneStep, AloneStep DEF RaceInv, GoneInv

LEMMA RaceInit == Init => RaceInv
<1> SUFFICES ASSUME Init PROVE RaceInv
  OBVIOUS
<1>1. Alone
  BY DEF Init, Alone, Idle
<1> QED
  BY <1>1, GoneInit DEF RaceInv

\* What a step does to the history: successors come from Mint, and only a logout ends tokens.
LEMMA HistoryStep ==
  ASSUME TInv, [Next]_vars
  PROVE  /\ contested \subseteq contested'
         /\ \/ UNCHANGED <<parent, ended>>
            \/ \E r \in Requests, t \in Tokens : Mint(r, t)
            \/ \E r \in Requests : RevokeForLogout(r)
            \/ \E u \in Users : LogoutAll(u)
<1>1. ASSUME NEW r \in Requests, RequestStep(r)
      PROVE  /\ contested \subseteq contested'
             /\ \/ UNCHANGED <<parent, ended>>
                \/ \E t \in Tokens : Mint(r, t)
                \/ RevokeForLogout(r)
  BY <1>1 DEF RequestStep, FindForRefresh, FindForLogout, Hold, Mint, Dies,
              RevokeForRefresh, RevokeForLogout, history
<1>2. ASSUME NEW u \in Users, LogoutAll(u) PROVE contested \subseteq contested'
  BY <1>2 DEF LogoutAll
<1> QED
  BY <1>1, <1>2 DEF Next, Login, Cleanup, Tick, vars, history

\* A token is exchanged once, unless two requests held it at the same time.
THEOREM RotatesOnceSafe == Spec => []RotatesOnce
<1>1. RaceInv /\ RotatesOnce /\ [Next]_vars => RotatesOnce'
  <2> SUFFICES ASSUME RaceInv, RotatesOnce, [Next]_vars PROVE RotatesOnce'
    OBVIOUS
  <2>0. TInv /\ TypeOK /\ Holding /\ Alone
    BY DEF RaceInv, GoneInv, TInv
  <2>1. contested \subseteq contested'
    BY <2>0, HistoryStep
  <2>2. CASE UNCHANGED parent
    BY <2>1, <2>2 DEF RotatesOnce
  <2>3. ASSUME NEW r \in Requests, NEW t \in Tokens, Mint(r, t) PROVE RotatesOnce'
    <3>1. /\ request[r].pc # "idle" /\ parent' = [parent EXCEPT ![t] = request[r].token]
      BY <2>3 DEF Mint
    <3>2. request[r].token \in contested \/ \A n \in Tokens : parent[n] # request[r].token
      BY <2>0, <3>1 DEF Alone
    <3>3. /\ parent'[t] = request[r].token
          /\ \A n \in Tokens \ {t} : parent'[n] = parent[n]
      BY <2>0, <3>1 DEF TypeOK
    <3> QED
      BY <2>1, <3>2, <3>3 DEF RotatesOnce
  <2>4. UNCHANGED parent \/ \E r \in Requests, t \in Tokens : Mint(r, t)
    BY <2>0, HistoryStep DEF RevokeForLogout, LogoutAll
  <2> QED
    BY <2>2, <2>3, <2>4
<1>2. Init => RotatesOnce
  BY DEF Init, RotatesOnce
<1> QED
  BY RaceInit, RaceStep, <1>1, <1>2, PTL DEF Spec

\* A token that logout or logout-all has ended cannot be used, and nothing newer
\* comes from it, unless a request held it when it was ended.
THEOREM LogoutSafe == Spec => []LogoutEndsSession
<1> DEFINE Family == \A t \in Tokens : parent[t] \in ended \ contested => t \in ended
<1>1. RaceInv /\ Family /\ [Next]_vars => Family'
  <2> SUFFICES ASSUME RaceInv, Family, [Next]_vars PROVE Family'
    OBVIOUS
  <2>0. TInv /\ TypeOK /\ Holding /\ Alone /\ Lineage
    BY DEF RaceInv, GoneInv, TInv
  <2>1. contested \subseteq contested'
    BY <2>0, HistoryStep
  <2>2. ASSUME UNCHANGED <<parent, ended>> PROVE Family'
    BY <2>1, <2>2
  <2>3. ASSUME NEW r \in Requests, NEW t \in Tokens, Mint(r, t) PROVE Family'
    <3>1. /\ request[r].pc # "idle" /\ parent' = [parent EXCEPT ![t] = request[r].token]
          /\ UNCHANGED ended
      BY <2>3 DEF Mint
    <3>2. request[r].token \notin ended \ contested
      BY <2>0, <3>1 DEF Alone
    <3>3. /\ parent'[t] = request[r].token
          /\ \A n \in Tokens \ {t} : parent'[n] = parent[n]
      BY <2>0, <3>1 DEF TypeOK
    <3> QED
      BY <2>1, <3>1, <3>2, <3>3
  <2>4. ASSUME NEW r \in Requests, RevokeForLogout(r) PROVE Family'
    <3>1. /\ request[r].pc # "idle" /\ ended' = ended \cup {request[r].token}
          /\ UNCHANGED parent
      BY <2>4 DEF RevokeForLogout
    <3>2. request[r].token \in contested \/ \A n \in Tokens : parent[n] # request[r].token
      BY <2>0, <3>1 DEF Alone
    <3> QED
      BY <2>1, <3>1, <3>2
  <2>5. ASSUME NEW u \in Users, LogoutAll(u) PROVE Family'
    <3> DEFINE mine == {t \in Tokens : UserOf[t] = u /\ row[t].state # "absent"}
    <3>1. UNCHANGED parent /\ ended' = ended \cup mine
      BY <2>5 DEF LogoutAll
    <3>2. \A t \in Tokens : parent[t] \in mine => t \in mine
      BY <2>0, NoTokenIsNone DEF Lineage
    <3> HIDE DEF mine
    <3> QED
      BY <2>1, <3>1, <3>2
  <2> HIDE DEF Family
  <2> QED
    BY <2>0, <2>2, <2>3, <2>4, <2>5, HistoryStep
<1>2. Init => Family
  BY DEF Init
<1>3. RaceInv /\ Family => LogoutEndsSession
  BY DEF RaceInv, GoneInv, EndedGone, Gone, Usable, LogoutEndsSession
<1> HIDE DEF Family
<1> QED
  BY RaceInit, RaceStep, <1>1, <1>2, <1>3, PTL DEF Spec

-----------------------------------------------------------------------------
(* Why a token is gone.                                                    *)

Accounted(t) ==
    \/ t \in ended \cup lost
    \/ \E n \in Tokens : parent[n] = t
    \/ \E r \in Holders(t) : request[r].pc = "mint"

\* A request that is about to create the successor does so, or dies and is counted.
LEMMA AccountedStays ==
  ASSUME RaceInv, [Next]_vars, NEW t \in Tokens, Accounted(t)
  PROVE  Accounted(t)'
<1>0. TInv /\ TypeOK /\ Holding /\ Lineage
  BY DEF RaceInv, GoneInv, TInv
<1>1. ended \subseteq ended' /\ lost \subseteq lost'
  <2>1. ASSUME NEW r \in Requests, RequestStep(r) PROVE ended \subseteq ended' /\ lost \subseteq lost'
    BY <2>1 DEF RequestStep, FindForRefresh, FindForLogout, Hold, Mint, Dies,
                RevokeForRefresh, RevokeForLogout, history
  <2>2. ASSUME NEW u \in Users, LogoutAll(u) PROVE ended \subseteq ended' /\ lost \subseteq lost'
    BY <2>2 DEF LogoutAll
  <2> QED
    BY <2>1, <2>2 DEF Next, Login, Cleanup, Tick, vars, history
<1>2. \A n \in Tokens : parent[n] = t => parent'[n] = t
  <2>1. ASSUME NEW r \in Requests, NEW x \in Tokens, Mint(r, x)
        PROVE  \A n \in Tokens : parent[n] = t => parent'[n] = t
    <3>1. row[x].state = "absent"
      BY <1>0, <2>1, CreatedRow DEF Mint
    <3>2. parent[x] # t
      BY <1>0, <3>1, NoTokenIsNone DEF Lineage
    <3> QED
      BY <1>0, <2>1, <3>2 DEF Mint, TypeOK
  <2> QED
    BY <1>0, <2>1, HistoryStep DEF RevokeForLogout, LogoutAll
<1>3. ASSUME NEW r \in Holders(t), request[r].pc = "mint"
      PROVE  Accounted(t)'
  <2>1. r \in Requests /\ request[r].token = t
    BY DEF Holders
  <2>2. CASE request'[r] = request[r]
    BY <1>3, <2>1, <2>2 DEF Accounted, Holders
  <2>3. ASSUME NEW q \in Requests, RequestStep(q), request'[r] # request[r] PROVE Accounted(t)'
    <3>1. q = r
      <4> SUFFICES ASSUME q # r PROVE request'[r] = request[r]
        BY <2>3
      <4> QED
        BY <2>1, <2>3, <1>0 DEF RequestStep, FindForRefresh, FindForLogout, Hold, Mint, Dies,
                RevokeForRefresh, RevokeForLogout, Done, TypeOK
    <3>2. Dies(r) \/ \E x \in Tokens : Mint(r, x)
      BY <1>3, <2>3, <3>1 DEF RequestStep, FindForRefresh, FindForLogout, Hold,
                               RevokeForRefresh, RevokeForLogout
    <3>3. CASE Dies(r)
      BY <1>3, <2>1, <3>3 DEF Dies, Accounted
    <3>4. ASSUME NEW x \in Tokens, Mint(r, x) PROVE Accounted(t)'
      <4>1. parent'[x] = t
        BY <1>0, <2>1, <3>4 DEF Mint, TypeOK
      <4> QED
        BY <4>1 DEF Accounted
    <3> QED
      BY <3>2, <3>3, <3>4
  <2>4. request'[r] = request[r] \/ \E q \in Requests : RequestStep(q)
    BY DEF Next, Login, LogoutAll, Cleanup, Tick, vars
  <2> QED
    BY <2>2, <2>3, <2>4
<1>4. CASE t \in ended \cup lost
  BY <1>1, <1>4 DEF Accounted
<1>5. CASE \E n \in Tokens : parent[n] = t
  BY <1>2, <1>5 DEF Accounted
<1> QED
  BY <1>3, <1>4, <1>5 DEF Accounted

\* Nothing but a logout, an exchange, a refresh under way or one that died takes
\* a token before it expires; the clean-up job never does.
THEOREM SignedInSafe == Spec => []SignedInUntilEnded
<1>1. RaceInv /\ SignedInUntilEnded /\ [Next]_vars => SignedInUntilEnded'
  <2> SUFFICES ASSUME RaceInv, SignedInUntilEnded, [Next]_vars,
                      NEW t \in Tokens, row'[t].state \in Gone, row'[t].left > 0
               PROVE  Accounted(t)'
    BY DEF SignedInUntilEnded, Accounted, Gone
  <2>0. TInv /\ TypeOK /\ Holding
    BY DEF RaceInv, GoneInv, TInv
  <2>1. ASSUME row[t].state \in Gone, row[t].left > 0 PROVE Accounted(t)'
    <3>1. Accounted(t)
      BY <2>1 DEF SignedInUntilEnded, Accounted, Gone
    <3> QED
      BY <3>1, AccountedStays
  <2>2. CASE row'[t] = row[t]
    BY <2>1, <2>2
  <2>3. ASSUME NEW r \in Requests, RevokeForRefresh(r), row'[t] # row[t] PROVE Accounted(t)'
    <3>1. request[r].token = t /\ row[t].state # "deleted"
      BY <2>0, <2>3 DEF RevokeForRefresh, Holding, TypeOK
    <3>2. request'[r].pc = "mint" /\ request'[r].token = t
      BY <2>0, <2>3, <3>1, ToMintRequest DEF RevokeForRefresh
    <3> QED
      BY <3>2 DEF Accounted, Holders
  <2>4. ASSUME NEW r \in Requests, RevokeForLogout(r), row'[t] # row[t] PROVE Accounted(t)'
    <3>1. request[r].token = t
      BY <2>0, <2>4 DEF RevokeForLogout, Holding, TypeOK
    <3> QED
      BY <2>4, <3>1 DEF RevokeForLogout, Accounted
  <2>5. ASSUME NEW x \in Tokens, Created(x), row'[t] # row[t] PROVE FALSE
    BY <2>0, <2>5, CreatedRow DEF Gone
  <2>6. ASSUME NEW u \in Users, LogoutAll(u), row'[t] # row[t] PROVE Accounted(t)'
    <3>1. t \in ended'
      BY <2>6 DEF LogoutAll
    <3> QED
      BY <3>1 DEF Accounted
  <2>7. ASSUME Cleanup, row'[t] # row[t] PROVE Accounted(t)'
    <3>1. /\ Stale(t) /\ row[t].state \in {"live", "revoked"}
          /\ row'[t] = [row[t] EXCEPT !.state = "deleted"]
      BY <2>7 DEF Cleanup
    <3>2. row'[t].left = row[t].left /\ row[t].left \in Nat
      BY <2>0, <3>1, TimesAssumption DEF TypeOK, Row
    <3>3. row[t].left > 0 /\ row[t].state = "revoked"
      BY <3>1, <3>2 DEF Stale
    <3> QED
      BY <2>1, <3>3 DEF Gone
  <2>8. ASSUME Tick PROVE Accounted(t)'
    BY <2>0, <2>1, <2>8, TickRow
  <2>9. ASSUME NEW r \in Requests, RequestStep(r) PROVE Accounted(t)'
    <3>1. ASSUME NEW x \in Tokens, FindForRefresh(r, x) \/ FindForLogout(r, x) PROVE Accounted(t)'
      BY <2>2, <3>1 DEF FindForRefresh, FindForLogout, Hold
    <3>2. CASE Dies(r)
      BY <2>2, <3>2 DEF Dies
    <3> QED
      BY <2>2, <2>3, <2>4, <2>5, <2>9, <3>1, <3>2 DEF RequestStep, Mint
  <2> QED
    BY <2>2, <2>5, <2>6, <2>7, <2>8, <2>9 DEF Next, Login, vars
<1>2. Init => SignedInUntilEnded
  BY DEF Init, Absent, SignedInUntilEnded
<1> QED
  BY RaceInit, RaceStep, <1>1, <1>2, PTL DEF Spec

-----------------------------------------------------------------------------
(* Every step is one of SessionChain, or invisible to it.                  *)

Issued      == {t \in Tokens : row[t].state # "absent"}
UsableToken == {t \in Tokens : Usable(t)}

LEMMA ChainInit == Init => Promise!Init
BY DEF Init, Promise!Init, Absent, Usable

\* What steps that leave the history alone look like to SessionChain.
LEMMA LapseStep ==
  ASSUME Issued' = Issued, UsableToken' \subseteq UsableToken, UNCHANGED <<parent, ended, contested>>
  PROVE  Promise!Next
<1>1. Promise!Lapse
  BY DEF Promise!Lapse, Issued, UsableToken
<1> QED
  BY <1>1 DEF Promise!Next

LEMMA IssueStep ==
  ASSUME TInv, NEW t \in Tokens, Created(t)
  PROVE  /\ t \notin Issued
         /\ Issued' = Issued \cup {t}
         /\ UsableToken' = UsableToken \cup {t}
<1>0. TypeOK
  BY DEF TInv
<1>1. /\ row[t].state = "absent" /\ row'[t].state = "live"
      /\ \A x \in Tokens \ {t} : row'[x] = row[x]
  BY <1>0, CreatedRow
<1>2. row'[t].left > 0
  BY <1>0, TimesAssumption DEF Created, TypeOK
<1>3. \A x \in Tokens \ {t} : (Usable(x))' <=> Usable(x)
  BY <1>1 DEF Usable
<1>4. ~ Usable(t) /\ (Usable(t))'
  BY <1>1, <1>2 DEF Usable
<1> QED
  BY <1>1, <1>3, <1>4 DEF Issued, UsableToken

\* A token that is not usable any more can be exchanged.
LEMMA RotateStep ==
  ASSUME RaceInv, NEW r \in Requests, NEW t \in Tokens, Mint(r, t)
  PROVE  Promise!Next
<1>0. TInv /\ TypeOK /\ Holding /\ HeldRows /\ Alone
  BY DEF RaceInv, GoneInv, TInv
<1> DEFINE old == request[r].token
<1>1. /\ old \in Tokens /\ request[r].pc = "mint" /\ Created(t)
      /\ UserOf[t] = UserOf[old]
      /\ parent' = [parent EXCEPT ![t] = old]
      /\ UNCHANGED <<ended, contested>>
  BY <1>0 DEF Mint, Holding
<1>2. old \in Issued \ UsableToken
  BY <1>0, <1>1 DEF HeldRows, Gone, Issued, UsableToken, Usable
<1>3. old \notin contested => old \notin ended /\ \A x \in Tokens : parent[x] # old
  BY <1>0, <1>1 DEF Alone
<1>4. /\ t \notin Issued /\ Issued' = Issued \cup {t}
      /\ UsableToken' = UsableToken \cup {t}
  BY <1>0, <1>1, IssueStep
<1> HIDE DEF old
<1>5. Promise!Rotate(old, t)
  BY <1>1, <1>2, <1>3, <1>4 DEF Promise!Rotate, Promise!Issue, Issued, UsableToken
<1> QED
  BY <1>1, <1>5 DEF Promise!Next

LEMMA ChainStep ==
  ASSUME RaceInv, [Next]_vars
  PROVE  [Promise!Next]_(Promise!vars)
<1> DEFINE Goal == [Promise!Next]_(Promise!vars)
<1>0. TInv /\ TypeOK /\ Holding /\ HeldRows
  BY DEF RaceInv, GoneInv, TInv
<1>1. ASSUME UNCHANGED <<row, parent, ended, contested>> PROVE Goal
  BY <1>1 DEF Promise!vars, Usable
<1>2. ASSUME NEW t \in Tokens, Login(t) PROVE Goal
  <2>1. /\ t \notin Issued /\ Issued' = Issued \cup {t}
        /\ UsableToken' = UsableToken \cup {t}
    BY <1>0, <1>2, IssueStep DEF Login
  <2>2. Promise!Open(t)
    BY <1>2, <2>1 DEF Login, history, Promise!Open, Promise!Issue, Issued, UsableToken
  <2> QED
    BY <2>2 DEF Promise!Next
<1>3. ASSUME NEW r \in Requests, NEW t \in Tokens, FindForRefresh(r, t) \/ FindForLogout(r, t)
      PROVE  Goal
  <2>1. PICK pc \in {"revoke", "logout"} : Hold(r, t, pc)
    BY <1>3 DEF FindForRefresh, FindForLogout
  <2>2. row[t].state = "live"
    BY <1>3 DEF FindForRefresh, FindForLogout, Usable
  <2>3. CASE contested' = contested
    BY <1>1, <2>1, <2>3 DEF Hold
  <2>4. CASE contested' = contested \cup {t}
    <3>1. t \in Issued
      BY <2>2 DEF Issued
    <3>2. Promise!Contest(t)
      BY <2>1, <2>4, <3>1 DEF Hold, Promise!Contest, Issued, Usable
    <3> QED
      BY <3>1, <3>2 DEF Promise!Next, Issued
  <2> QED
    BY <2>1, <2>3, <2>4 DEF Hold
<1>4. ASSUME NEW r \in Requests, RevokeForRefresh(r) PROVE Goal
  <2> DEFINE t == request[r].token
  <2>1. t \in Tokens /\ row[t].state # "absent" /\ UNCHANGED <<parent, ended, contested>>
    BY <1>0, <1>4 DEF RevokeForRefresh, Holding, HeldRows, history
  <2>2. CASE row[t].state = "deleted"
    BY <1>1, <1>4, <2>1, <2>2 DEF RevokeForRefresh
  <2>3. CASE row[t].state # "deleted"
    <3>1. row' = [row EXCEPT ![t] = Revoked(t)]
      BY <1>4, <2>3 DEF RevokeForRefresh
    <3>2. Revoked(t).state = "revoked"
      BY <1>0, <2>1 DEF TypeOK, Row, Revoked
    <3> HIDE DEF t
    <3>3. /\ row'[t].state = "revoked"
          /\ \A x \in Tokens \ {t} : row'[x] = row[x]
      BY <1>0, <2>1, <3>1, <3>2 DEF TypeOK
    <3>4. Issued' = Issued /\ UsableToken' \subseteq UsableToken
      BY <2>1, <3>3 DEF Issued, UsableToken, Usable
    <3> QED
      BY <2>1, <3>4, LapseStep
  <2> QED
    BY <2>2, <2>3
<1>5. ASSUME NEW r \in Requests, RevokeForLogout(r) PROVE Goal
  <2> DEFINE t == request[r].token
  <2>1. /\ t \in Tokens /\ row[t].state # "absent" /\ UNCHANGED <<parent, contested>>
        /\ ended' = ended \cup {t}
    BY <1>0, <1>5 DEF RevokeForLogout, Holding, HeldRows
  <2>2. Revoked(t).state = "revoked"
    BY <1>0, <2>1 DEF TypeOK, Row, Revoked
  <2>3. /\ row'[t].state \in Gone
        /\ \A x \in Tokens \ {t} : row'[x] = row[x]
    BY <1>0, <1>5, <2>1, <2>2 DEF RevokeForLogout, TypeOK, Gone
  <2> HIDE DEF t
  <2>4. Issued' = Issued /\ UsableToken' = UsableToken \ {t} /\ t \in Issued
    BY <2>1, <2>3 DEF Issued, UsableToken, Usable, Gone
  <2>5. \E presented \in SUBSET {t} : contested' = contested \cup presented
    <3>1. {} \in SUBSET {t} /\ contested' = contested \cup {}
      BY <2>1
    <3> QED
      BY <3>1, Zenon
  <2>6. Promise!End({t})
    BY <2>1, <2>4, <2>5 DEF Promise!End, Issued, UsableToken
  <2> QED
    BY <2>4, <2>6 DEF Promise!Next, Issued
<1>6. ASSUME NEW u \in Users, LogoutAll(u) PROVE Goal
  <2> DEFINE mine == {t \in Issued : UserOf[t] = u}
  <2>1. /\ \A t \in Tokens : row'[t] = IF t \in mine /\ row[t].state = "live"
                                       THEN Revoked(t) ELSE row[t]
        /\ ended' = ended \cup mine
        /\ contested' = contested \cup {t \in mine : Holders(t) # {}}
        /\ UNCHANGED parent
    BY <1>6, Zenon DEF LogoutAll, Issued
  <2>2. \A t \in Tokens : Revoked(t).state = "revoked"
    BY <1>0 DEF TypeOK, Row, Revoked
  <2>3. Issued' = Issued /\ UsableToken' = UsableToken \ mine
    BY <2>1, <2>2 DEF Issued, UsableToken, Usable
  <2>4. {t \in mine : Holders(t) # {}} \in SUBSET mine
    OBVIOUS
  <2> HIDE DEF mine
  <2>5. Promise!End(mine)
    BY <2>1, <2>3, <2>4 DEF Promise!End, Issued, UsableToken
  <2> QED
    BY <2>5 DEF Promise!Next, mine, Issued
<1>7. ASSUME Cleanup PROVE Goal
  <2>1. \A t \in Tokens : \/ row'[t] = row[t]
                          \/ /\ row'[t].state = "deleted"
                             /\ row[t].state # "absent"
    BY <1>0, <1>7 DEF Cleanup, TypeOK, Row
  <2>2. Issued' = Issued /\ UsableToken' \subseteq UsableToken
    BY <2>1 DEF Issued, UsableToken, Usable
  <2> QED
    BY <1>7, <2>2, LapseStep DEF Cleanup, history
<1>8. ASSUME Tick PROVE Goal
  <2>1. \A t \in Tokens : row'[t].state = row[t].state /\ (row'[t].left > 0 => row[t].left > 0)
    BY <1>0, <1>8, TickRow
  <2>2. Issued' = Issued /\ UsableToken' \subseteq UsableToken
    BY <2>1 DEF Issued, UsableToken, Usable
  <2>3. UNCHANGED <<parent, ended, contested>>
    BY <1>8 DEF Tick, history
  <2> QED
    BY <2>2, <2>3, LapseStep
<1>9. ASSUME NEW r \in Requests, Dies(r) PROVE Goal
  BY <1>1, <1>9 DEF Dies
<1>10. ASSUME NEW r \in Requests, NEW t \in Tokens, Mint(r, t) PROVE Goal
  BY <1>10, RotateStep
<1>11. ASSUME UNCHANGED vars PROVE Goal
  BY <1>1, <1>11 DEF vars, history
<1> HIDE DEF Goal
<1>12. Goal
  BY <1>2, <1>3, <1>4, <1>5, <1>6, <1>7, <1>8, <1>9, <1>10, <1>11 DEF Next, RequestStep
<1> QED
  BY <1>12 DEF Goal

\* Requests that overlap, stop or die, and the clean-up, keep the promise about
\* tokens: each is used until it lapses, and exchanged once, unless it is contested.
THEOREM ChainKept == Spec => ImplementsChain
<1>1. RaceInv /\ [Next]_vars => [Promise!Next]_(Promise!vars)
  BY ChainStep
<1> QED
  BY <1>1, ChainInit, RaceInit, RaceStep, PTL DEF Spec, ImplementsChain, Promise!Spec

=============================================================================
