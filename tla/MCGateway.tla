----------------------------- MODULE MCGateway -----------------------------
(* An instance of GatewayHealth for TLC and, in states of their own that   *)
(* have no successor, every input of the pure functions of Access,         *)
(* Entitlements and Paging.                                                *)
EXTENDS GatewayHealth, Access, Entitlements, Paging, TLC

CONSTANTS authOrg, course, r1, r2, t1, t2, p1, p2

VARIABLE input

NoInput == [kind |-> "none"]

Inputs ==
         [kind : {"request"}, request : Inbound]
    \cup [kind : {"items"}, catalog : Catalogs, lines : Lines]
    \cup [kind : {"seat"}, seat : Seat, now : 0..MaxTime, window : 0..MaxWindow]
    \cup [kind : {"listing"}, rows : 0..MaxRows, limit : 0..MaxLimit]

MCInit == Init /\ input \in Inputs \cup {NoInput}
MCNext == input = NoInput /\ Next /\ UNCHANGED input
MCSpec == MCInit /\ [][MCNext]_<<vars, input>> /\ Fairness

-----------------------------------------------------------------------------
(* The properties of Access, Entitlements and Paging for every input.      *)

\* A request that is admitted acts for its own tenant ("tenant isolation",
\* README.md:28).
RequestsActForOwnTenant == input.kind = "request" => ActsForOwnTenant(input.request)

\* The routes are open to whom they are meant for, and to nobody else: the two
\* ends of the scale, no token and the lowest role.
RoutesOpenAsMeant ==
    input.kind = "request" => PublicIsOpen(input.request) /\ LearnersConfined(input.request)

\* What a subscription is resolved to is what the catalog's comments and the
\* checkout promise, for every catalog and every order of the items.
CatalogHonoured ==
    input.kind = "items" => /\ HighestTierWins(input.catalog, input.lines)
                            /\ SeatsOfThatTier(input.catalog, input.lines)
                            /\ BoughtIsGranted(input.catalog)

\* The two definitions of an active learner seat agree (seat-policy.ts:20).
SeatsAgree == input.kind = "seat" => SeatDefinitionsAgree(input.seat, input.now, input.window)

\* A client that follows nextCursor sees every row that was no cursor, once.
ListingsSkipOnlyCursors ==
    input.kind = "listing" => OnlyCursorsAreSkipped(input.rows, input.limit)

=============================================================================
