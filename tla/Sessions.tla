------------------------------ MODULE Sessions ------------------------------
(***************************************************************************)
(* Refresh tokens in auth-org-service (auth-org-service.service.ts): login *)
(* creates a row of RefreshToken, a refresh revokes the row it was given   *)
(* and creates the next one, logout and logout-all revoke, and a daily job *)
(* deletes rows that have expired or were revoked long ago.                *)
(*                                                                         *)
(* A refresh and a logout read the row, and write by its id afterwards:    *)
(* other requests and the job run in between.  Dates are relative: left is *)
(* the time until expiresAt, since the time since revokedAt.               *)
(***************************************************************************)
EXTENDS Integers

CONSTANTS
    MaxTokens,  \* bound: the rows that are ever created
    Users,
    UserOf,     \* the user (of a tenant) each row is for
    Requests,   \* refresh and logout requests that may be under way at once
    Ttl,        \* refreshTtlMs(), in time units
    Keep,       \* 14 days, in time units
    MaxFaults   \* bound: requests that throw or die

\* Rows are numbered as they are created; NoToken is the one before a login.
Tokens  == 1..MaxTokens
NoToken == 0

ASSUME TokensAssumption == MaxTokens \in Nat /\ UserOf \in [Tokens -> Users]
ASSUME TimesAssumption  == Ttl \in Nat \ {0} /\ Keep \in Nat
ASSUME BoundAssumption  == MaxFaults \in Nat

VARIABLES
    row,        \* RefreshToken
    request,    \* the locals of each request
    parent,     \* history: the token that was given for this one
    ended,      \* history: tokens that a logout or logout-all has ended
    contested,  \* history: tokens two requests held at the same time
    lost,       \* history: tokens whose refresh died with the token revoked
    faults

history == <<parent, ended, contested, lost>>
vars == <<row, request, history, faults>>

States == {"absent", "live", "revoked", "deleted"}
Row    == [state : States, left : 0..Ttl, since : 0..(Keep + 1)]

Idle   == [pc |-> "idle", token |-> NoToken]
Absent == [state |-> "absent", left |-> 0, since |-> 0]

RequestState == [pc : {"idle", "revoke", "mint", "logout"}, token : Tokens \cup {NoToken}]

TypeOK ==
    /\ row       \in [Tokens -> Row]
    /\ request   \in [Requests -> RequestState]
    /\ parent    \in [Tokens -> Tokens \cup {NoToken}]
    /\ ended     \subseteq Tokens
    /\ contested \subseteq Tokens
    /\ lost      \subseteq Tokens
    /\ faults    \in 0..MaxFaults

Init ==
    /\ row       = [t \in Tokens |-> Absent]
    /\ request   = [r \in Requests |-> Idle]
    /\ parent    = [t \in Tokens |-> NoToken]
    /\ ended     = {}
    /\ contested = {}
    /\ lost      = {}
    /\ faults    = 0

-----------------------------------------------------------------------------
Usable(t)  == row[t].state = "live" /\ row[t].left > 0
Holders(t) == {r \in Requests : request[r].pc # "idle" /\ request[r].token = t}

Fresh(t) ==
    /\ row[t].state = "absent"
    /\ \A s \in Tokens : s < t /\ UserOf[s] = UserOf[t] => row[s].state # "absent"

\* refreshToken.create: a new random token, so a row that never existed.
Created(t) ==
    /\ Fresh(t)
    /\ row' = [row EXCEPT ![t] = [state |-> "live", left |-> Ttl, since |-> 0]]

Revoked(t) == [row[t] EXCEPT !.state = "revoked", !.since = 0]

\* login, past the checks of the password.
Login(t) ==
    /\ Created(t)
    /\ UNCHANGED <<request, history, faults>>

Hold(r, t, pc) ==
    /\ request[r].pc = "idle"
    /\ request' = [request EXCEPT ![r] = [pc |-> pc, token |-> t]]
    /\ contested' = IF Holders(t) = {} THEN contested ELSE contested \cup {t}
    /\ UNCHANGED <<row, parent, ended, lost, faults>>

Done(r) == request' = [request EXCEPT ![r] = Idle]

\* Mutant: the row is found whether or not it is revoked.
FindEvenRevoked(r, t) ==
    /\ row[t].state \in {"live", "revoked"} /\ row[t].left > 0
    /\ Hold(r, t, "revoke")

\* refreshSession, findFirst: any other token is answered 401.
FindForRefresh(r, t) == Usable(t) /\ Hold(r, t, "revoke")

\* Mutant: the old token is left as it is.
RevokeForgotten(r) ==
    /\ request[r].pc = "revoke"
    /\ request' = [request EXCEPT ![r].pc = "mint"]
    /\ UNCHANGED <<row, history, faults>>

\* The update goes by id and overwrites revokedAt, whoever has set it in the
\* meantime; if the job has deleted the row it throws.
RevokeForRefresh(r) ==
    LET t == request[r].token
    IN  /\ request[r].pc = "revoke"
        /\ \/ /\ row[t].state # "deleted"
              /\ row' = [row EXCEPT ![t] = Revoked(t)]
              /\ request' = [request EXCEPT ![r].pc = "mint"]
           \/ /\ row[t].state = "deleted"
              /\ UNCHANGED row
              /\ Done(r)
        /\ UNCHANGED <<history, faults>>

Mint(r, t) ==
    /\ request[r].pc = "mint"
    /\ UserOf[t] = UserOf[request[r].token]
    /\ Created(t)
    /\ parent' = [parent EXCEPT ![t] = request[r].token]
    /\ Done(r)
    /\ UNCHANGED <<ended, contested, lost, faults>>

\* logoutSession, findFirst: it does not look at expiresAt.
FindForLogout(r, t) == row[t].state = "live" /\ Hold(r, t, "logout")

RevokeForLogout(r) ==
    LET t == request[r].token
    IN  /\ request[r].pc = "logout"
        /\ row'   = IF row[t].state = "deleted" THEN row ELSE [row EXCEPT ![t] = Revoked(t)]
        /\ ended' = ended \cup {t}
        /\ Done(r)
        /\ UNCHANGED <<parent, contested, lost, faults>>

\* One updateMany over the user's rows that are not revoked.
LogoutAll(u) ==
    LET mine == {t \in Tokens : UserOf[t] = u /\ row[t].state # "absent"}
    IN  /\ row' = [t \in Tokens |-> IF t \in mine /\ row[t].state = "live"
                                    THEN Revoked(t) ELSE row[t]]
        /\ ended'     = ended \cup mine
        /\ contested' = contested \cup {t \in mine : Holders(t) # {}}
        /\ UNCHANGED <<request, parent, lost, faults>>

\* A call throws or the process stops: the request is gone where it is.
Dies(r) ==
    /\ request[r].pc # "idle"
    /\ faults < MaxFaults
    /\ faults' = faults + 1
    /\ lost'   = IF request[r].pc = "mint" THEN lost \cup {request[r].token} ELSE lost
    /\ Done(r)
    /\ UNCHANGED <<row, parent, ended, contested>>

\* Mutant: tokens go one unit before they expire.
StaleEarly(t) == row[t].left <= 1 \/ (row[t].state = "revoked" /\ row[t].since > Keep)

Stale(t) == row[t].left = 0 \/ (row[t].state = "revoked" /\ row[t].since > Keep)

\* cleanupStaleRefreshTokens
Cleanup ==
    LET stale == {t \in Tokens : row[t].state \in {"live", "revoked"} /\ Stale(t)}
    IN  /\ stale # {}
        /\ row' = [t \in Tokens |-> IF t \in stale THEN [row[t] EXCEPT !.state = "deleted"]
                                                   ELSE row[t]]
        /\ UNCHANGED <<request, history, faults>>

Tick ==
    /\ row' = [t \in Tokens |->
          [row[t] EXCEPT !.left  = IF @ = 0 THEN 0 ELSE @ - 1,
                         !.since = IF row[t].state = "revoked" /\ @ <= Keep THEN @ + 1 ELSE @]]
    /\ UNCHANGED <<request, history, faults>>

-----------------------------------------------------------------------------
RequestStep(r) ==
    \/ RevokeForRefresh(r) \/ RevokeForLogout(r) \/ Dies(r)
    \/ \E t \in Tokens : FindForRefresh(r, t) \/ Mint(r, t) \/ FindForLogout(r, t)

Next ==
    \/ \E t \in Tokens : Login(t)
    \/ \E r \in Requests : RequestStep(r)
    \/ \E u \in Users : LogoutAll(u)
    \/ Cleanup \/ Tick

Spec == Init /\ [][Next]_vars

-----------------------------------------------------------------------------
(* Properties, for requests that overlap in any way.                       *)

\* "Refresh rotation" (README.md:24): once a token was exchanged for a new one it
\* can never be used again; the two are not usable side by side.
RotationRetires == \A t \in Tokens : parent[t] # NoToken => ~Usable(parent[t])

\* A token is exchanged once.  It can have two successors only if two requests
\* held it at the same time, before either had revoked it.
RotatesOnce ==
    \A t1, t2 \in Tokens :
        t1 # t2 /\ parent[t1] = parent[t2] /\ parent[t1] # NoToken => parent[t1] \in contested

\* "Logout and logout-all session invalidation" (README.md:25): a token that was
\* ended cannot be used, and no newer token comes from it, unless a request held
\* the token when it was ended.
LogoutEndsSession ==
    /\ \A t \in ended : ~Usable(t)
    /\ \A t \in Tokens : parent[t] \in ended \ contested => t \in ended

\* Nothing else signs a user out: a token that is gone before its time was ended,
\* exchanged, or is in the hands of a refresh, or of one that died.
SignedInUntilEnded ==
    \A t \in Tokens : row[t].state \in {"revoked", "deleted"} /\ row[t].left > 0 =>
        \/ t \in ended \cup lost
        \/ \E n \in Tokens : parent[n] = t
        \/ \E r \in Holders(t) : request[r].pc = "mint"

-----------------------------------------------------------------------------
(* The promise of the service, and what its requests do for it.            *)

Promise == INSTANCE SessionChain WITH
             issued <- {t \in Tokens : row[t].state # "absent"},
             usable <- {t \in Tokens : Usable(t)}

\* Refreshes, logouts and the clean-up, however they overlap, stop or die, do
\* nothing to the tokens but what SessionChain allows: none becomes usable again,
\* and none is exchanged twice, or after its end, that one request holds alone.
ImplementsChain == Promise!Spec

=============================================================================
