---------------------------- MODULE SessionChain ----------------------------
(***************************************************************************)
(* What auth-org-service promises about refresh tokens, without its rows,  *)
(* its requests and its clock: a token is usable from when it is issued    *)
(* until it lapses, and never again; a login issues one that comes from no *)
(* other, a rotation one that comes from a token that has lapsed before,   *)
(* and each token is exchanged at most once, and never after it was ended. *)
(*                                                                         *)
(* The promise about the exchange holds for a token that two requests did  *)
(* not present at the same time.  For one that is contested what is left   *)
(* is that it has lapsed.                                                  *)
(***************************************************************************)
CONSTANTS Tokens, NoToken, Users, UserOf

VARIABLES
    issued,
    usable,
    parent,     \* the token that was exchanged for this one
    ended,      \* tokens that were logged out
    contested   \* tokens that two requests presented at the same time

vars == <<issued, usable, parent, ended, contested>>

Init ==
    /\ issued    = {}
    /\ usable    = {}
    /\ parent    = [t \in Tokens |-> NoToken]
    /\ ended     = {}
    /\ contested = {}

Issue(t) ==
    /\ t \notin issued
    /\ issued' = issued \cup {t}
    /\ usable' = usable \cup {t}

Open(t) ==
    /\ Issue(t)
    /\ UNCHANGED <<parent, ended, contested>>

Rotate(old, new) ==
    /\ old \in issued \ usable
    /\ old \notin contested => old \notin ended /\ \A t \in Tokens : parent[t] # old
    /\ UserOf[new] = UserOf[old]
    /\ Issue(new)
    /\ parent' = [parent EXCEPT ![new] = old]
    /\ UNCHANGED <<ended, contested>>

\* They were revoked, or their time is over.
Lapse ==
    /\ usable' \in SUBSET usable
    /\ UNCHANGED <<issued, parent, ended, contested>>

Contest(t) ==
    /\ t \in issued
    /\ contested' = contested \cup {t}
    /\ UNCHANGED <<issued, usable, parent, ended>>

\* One session, or all of a user's, whether or not their tokens are presented just then.
End(tokens) ==
    /\ usable' = usable \ tokens
    /\ ended'  = ended \cup tokens
    /\ \E presented \in SUBSET tokens : contested' = contested \cup presented
    /\ UNCHANGED <<issued, parent>>

Next ==
    \/ \E t \in Tokens : Open(t)
    \/ \E old, new \in Tokens : Rotate(old, new)
    \/ Lapse
    \/ \E t \in issued : Contest(t) \/ End({t})
    \/ \E u \in Users : End({t \in issued : UserOf[t] = u})

Spec == Init /\ [][Next]_vars

=============================================================================
