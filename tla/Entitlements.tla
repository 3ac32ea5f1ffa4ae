---------------------------- MODULE Entitlements ----------------------------
(***************************************************************************)
(* What a tenant's Stripe subscription entitles it to (stripe-catalog.ts)  *)
(* and the two definitions of an active learner seat (seat-policy.ts and   *)
(* the query of auth-org-service).  Pure functions, each checked against   *)
(* what its comment promises.                                              *)
(***************************************************************************)
EXTENDS Integers, Sequences, FiniteSetsExt, SequencesExt

CONSTANTS
    Prices,       \* Stripe price ids
    MaxLines,     \* bound: items of a subscription
    MaxQuantity,  \* bound
    MaxTime,      \* bound: milliseconds
    MaxWindow     \* bound: of the window of activity

ASSUME LinesAssumption == {MaxLines, MaxQuantity} \subseteq Nat
ASSUME TimesAssumption == {MaxTime, MaxWindow} \subseteq Nat

CatalogTiers == {"FREE", "PRO", "ENTERPRISE"}

TIER_RANK == [FREE |-> 0, PRO |-> 1, ENTERPRISE |-> 2]

DEFAULT_INCLUDED_SEATS == [FREE |-> 3, PRO |-> 10, ENTERPRISE |-> 100]

\* null
NoSeats == -1

\* parseStripeBillingCatalogFromEnv: a price id for each of the two paid tiers
\* that is configured, in this order; the two may be the same.
Definition(price, tier) ==
    [price |-> price, tier |-> tier, seats |-> DEFAULT_INCLUDED_SEATS[tier]]

Catalogs ==
    {pro \o enterprise :
       pro        \in {<<>>} \cup {<<Definition(p, "PRO")>> : p \in Prices},
       enterprise \in {<<>>} \cup {<<Definition(p, "ENTERPRISE")>> : p \in Prices}}

\* A quantity that is no finite number
NotFinite == -1

Lines == BoundedSeq([price : Prices, quantity : 0..MaxQuantity \cup {NotFinite}], MaxLines)

\* The last definition of a price, as a Map keeps it.
Matching(catalog, price) == {i \in DOMAIN catalog : catalog[i].price = price}
TierDef(catalog, price)  == catalog[Max(Matching(catalog, price))]

Quantity(line) == IF line.quantity = NotFinite THEN 1 ELSE Max({1, line.quantity})

\* Mutant: the first tier found stays.
AddLineFirst(found, def, quantity) ==
    LET seats == def.seats * quantity IN
    IF found.tier = "FREE" THEN [tier |-> def.tier, seats |-> seats, saw |-> TRUE]
    ELSE IF def.tier = found.tier THEN [found EXCEPT !.seats = @ + seats, !.saw = TRUE]
    ELSE [found EXCEPT !.saw = TRUE]

\* One turn of the loop of resolveSubscriptionEntitlements.
AddLine(found, def, quantity) ==
    LET seats == def.seats * quantity IN
    IF TIER_RANK[def.tier] > TIER_RANK[found.tier]
    THEN [tier |-> def.tier, seats |-> seats, saw |-> TRUE]
    ELSE IF def.tier = found.tier THEN [found EXCEPT !.seats = @ + seats, !.saw = TRUE]
    ELSE [found EXCEPT !.saw = TRUE]

\* An item whose price is of no tier is passed over.
Turn(catalog, found, line) ==
    IF Matching(catalog, line.price) = {} THEN found
    ELSE AddLine(found, TierDef(catalog, line.price), Quantity(line))

NothingFound == [tier |-> "FREE", seats |-> 0, saw |-> FALSE]

Resolve(lines, catalog) ==
    LET found == FoldLeft(LAMBDA sofar, line : Turn(catalog, sofar, line), NothingFound, lines)
    IN IF found.saw THEN [tier |-> found.tier, seats |-> Max({1, found.seats})]
       ELSE [tier |-> "FREE", seats |-> NoSeats]

\* createCheckoutSession: the first definition of the tier.
CheckoutPrice(catalog, tier) ==
    catalog[Min({i \in DOMAIN catalog : catalog[i].tier = tier})].price

-----------------------------------------------------------------------------
\* seat-policy.ts, isActiveLearnerSeat; active is the time of the last qualifying
\* activity, in milliseconds, or null.
Seat == [role : {"LEARNER", "INSTRUCTOR"}, member : BOOLEAN, counts : BOOLEAN,
         active : 0..MaxTime]

IsActiveLearnerSeat(seat, now, window) ==
    /\ seat.role = "LEARNER" /\ seat.member /\ seat.counts
    /\ seat.active # 0
    /\ now - seat.active <= window

\* Mutant: gt for gte.
CountedAfter(seat, now, window) ==
    /\ seat.role = "LEARNER" /\ seat.member /\ seat.counts
    /\ seat.active # 0 /\ seat.active > now - window

\* The where of the query that enforces the limit; a null is in no range.
Counted(seat, now, window) ==
    /\ seat.role = "LEARNER" /\ seat.member /\ seat.counts
    /\ seat.active # 0 /\ seat.active >= now - window

-----------------------------------------------------------------------------
(* Properties.                                                             *)

\* The item is of the tier.
PaysFor(catalog, line, tier) ==
    Matching(catalog, line.price) # {} /\ TierDef(catalog, line.price).tier = tier

\* The quantity of all the items of a tier.
PaidFor(catalog, lines, tier) ==
    FoldLeft(LAMBDA sum, line : IF PaysFor(catalog, line, tier) THEN sum + Quantity(line) ELSE sum,
             0, lines)

\* "Chooses the highest tier among matched tier prices" (stripe-catalog.ts:62),
\* whatever the order of the items.
HighestTierWins(catalog, lines) ==
    LET tiers  == {tier \in CatalogTiers : \E i \in DOMAIN lines : PaysFor(catalog, lines[i], tier)}
        result == Resolve(lines, catalog)
    IN IF tiers = {} THEN result = [tier |-> "FREE", seats |-> NoSeats]
       ELSE result.tier \in tiers /\ \A t \in tiers : TIER_RANK[t] <= TIER_RANK[result.tier]

\* "Bundled seats: sum of includedLearnerSeats for lines matching that tier"
\* (stripe-catalog.ts:63), whatever items of other tiers stand between them.
SeatsOfThatTier(catalog, lines) ==
    LET result == Resolve(lines, catalog) IN
    result.tier # "FREE" =>
        result.seats = DEFAULT_INCLUDED_SEATS[result.tier] * PaidFor(catalog, lines, result.tier)

\* What createCheckoutSession sells for a tier is what the webhook grants, unless
\* both tiers are configured with one price.
BoughtIsGranted(catalog) ==
    \A i \in DOMAIN catalog :
        LET price == CheckoutPrice(catalog, catalog[i].tier) IN
        Matching(catalog, price) = {i} =>
            Resolve(<<[price |-> price, quantity |-> 1]>>, catalog)
              = [tier |-> catalog[i].tier, seats |-> DEFAULT_INCLUDED_SEATS[catalog[i].tier]]

\* The seat policy that billing is documented with and the count that the limit is
\* enforced with agree on every membership, the last millisecond of the window
\* included.
SeatDefinitionsAgree(seat, now, window) ==
    seat.active <= now => (Counted(seat, now, window) <=> IsActiveLearnerSeat(seat, now, window))

=============================================================================
