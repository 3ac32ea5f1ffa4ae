--------------------------- MODULE Gateway_proofs ---------------------------
(***************************************************************************)
(* The properties of Access, Entitlements and Paging, for any tenants,     *)
(* prices, items and rows.                                                 *)
(*                                                                         *)
(* What a loop or a recursive function computes is proved without an       *)
(* induction theorem: a set of numbers that contains 0, and with a number  *)
(* the next one, contains all of them (InductUpTo), since otherwise there  *)
(* would be a least one that it lacks (Least).                             *)
(***************************************************************************)
EXTENDS MCGateway, TLAPS, WellFoundedInduction

-----------------------------------------------------------------------------
(* Numbers, the greatest of a set, and folds.                              *)

LEMMA Least ==
  ASSUME NEW T, T \subseteq Nat, T # {}
  PROVE  \E m \in T : \A n \in T : m <= n
<1>1. \E m \in T : \A n \in T : ~ (<<n, m>> \in OpToRel(<, Nat))
  BY NatLessThanWellFounded, WFMin
<1>2. ASSUME NEW m \in T, NEW n \in T, ~ (<<n, m>> \in OpToRel(<, Nat)) PROVE m <= n
  <2>1. n \in Nat /\ m \in Nat
    OBVIOUS
  <2>2. ~ (n < m)
    BY <1>2, <2>1 DEF OpToRel
  <2> QED
    BY <2>1, <2>2
<1>3. PICK m \in T : \A n \in T : ~ (<<n, m>> \in OpToRel(<, Nat))
  BY <1>1
<1>4. \A n \in T : m <= n
  BY <1>2, <1>3
<1> QED
  BY <1>4

LEMMA InductUpTo ==
  ASSUME NEW m \in Nat, NEW S, 0 \in S, \A n \in 0..(m - 1) : n \in S => n + 1 \in S
  PROVE  0..m \subseteq S
<1> DEFINE T == {n \in 0..m : n \notin S}
<1>1. SUFFICES ASSUME T # {} PROVE FALSE
  OBVIOUS
<1>2. PICK k \in T : \A n \in T : k <= n
  <2>1. T \subseteq Nat
    OBVIOUS
  <2> HIDE DEF T
  <2> QED BY <1>1, <2>1, Least
<1>3. k # 0 /\ k - 1 \in 0..(m - 1)
  OBVIOUS
<1>4. k - 1 \in S
  BY <1>2, <1>3
<1> QED
  BY <1>3, <1>4

LEMMA MaxOf ==
  ASSUME NEW m \in Nat, NEW s \in SUBSET (1..m), s # {}
  PROVE  Max(s) \in s /\ \A x \in s : Max(s) >= x
<1> DEFINE U == {b \in Nat : \A x \in s : x <= b}
<1>1. PICK b \in U : \A c \in U : b <= c
  <2>1. m \in U
    OBVIOUS
  <2>2. U \subseteq Nat /\ U # {}
    BY <2>1
  <2> HIDE DEF U
  <2> QED
    BY <2>2, Least
<1>2. b \in s
  <2>1. SUFFICES ASSUME b \notin s PROVE FALSE
    OBVIOUS
  <2>2. \A x \in s : x <= b - 1 /\ x \in 1..m
    BY <1>1, <2>1
  <2>3. b - 1 \in Nat
    <3>1. PICK x \in s : TRUE
      OBVIOUS
    <3> QED
      BY <2>2, <3>1
  <2>4. b - 1 \in U
    BY <2>2, <2>3
  <2> QED
    BY <1>1, <2>4
<1>3. \E x \in s : \A y \in s : x >= y
  BY <1>1, <1>2
<1> QED
  BY <1>3 DEF Max

LEMMA MaxOfPrefix ==
  ASSUME NEW n \in Nat \ {0}
  PROVE  Max(1..n) = n
<1>1. n \in 1..n /\ 1..n \in SUBSET (1..n)
  OBVIOUS
<1>2. Max(1..n) \in 1..n /\ \A x \in 1..n : Max(1..n) >= x
  BY <1>1, MaxOf
<1> QED
  BY <1>1, <1>2

IsFold(iter, m, base, step) ==
  iter = [s \in SUBSET (1..m) |->
            IF s = {} THEN base ELSE step[<<iter[s \ {Max(s)}], Max(s)>>]]

LEMMA FoldExists ==
  ASSUME NEW m \in Nat, NEW V, NEW base \in V, NEW step \in [V \X (1..m) -> V]
  PROVE  \E iter \in [SUBSET (1..m) -> V] : IsFold(iter, m, base, step)
<1> DEFINE S == {n \in Nat : \E iter \in [SUBSET (1..n) -> V] : IsFold(iter, n, base, step)}
<1>1. 0 \in S
  <2> DEFINE iter == [s \in SUBSET (1..0) |-> base]
  <2>1. \A s \in SUBSET (1..0) : s = {}
    OBVIOUS
  <2>2. iter \in [SUBSET (1..0) -> V] /\ IsFold(iter, 0, base, step)
    BY <2>1 DEF IsFold
  <2> QED
    BY <2>2
<1>2. ASSUME NEW n \in 0..(m - 1), n \in S
      PROVE  n + 1 \in S
  <2>1. PICK iter \in [SUBSET (1..n) -> V] : IsFold(iter, n, base, step)
    BY <1>2
  <2> DEFINE nxt == [s \in SUBSET (1..(n + 1)) |->
                       IF n + 1 \in s THEN step[<<iter[s \ {n + 1}], n + 1>>] ELSE iter[s]]
  <2>2. \A s \in SUBSET (1..(n + 1)) : /\ n + 1 \in s => s \ {n + 1} \in SUBSET (1..n)
                                      /\ n + 1 \notin s => s \in SUBSET (1..n)
    OBVIOUS
  <2>3. n + 1 \in 1..m
    OBVIOUS
  <2>4. nxt \in [SUBSET (1..(n + 1)) -> V]
    <3>1. ASSUME NEW s \in SUBSET (1..(n + 1)), n + 1 \in s
          PROVE  step[<<iter[s \ {n + 1}], n + 1>>] \in V
      BY <2>2, <2>3, <3>1
    <3>2. ASSUME NEW s \in SUBSET (1..(n + 1)), n + 1 \notin s
          PROVE  iter[s] \in V
      BY <2>2, <3>2
    <3> QED
      BY <3>1, <3>2
  <2>5. ASSUME NEW s \in SUBSET (1..(n + 1))
        PROVE  nxt[s] = IF s = {} THEN base ELSE step[<<nxt[s \ {Max(s)}], Max(s)>>]
    <3>1. CASE n + 1 \in s
      <4>1. Max(s) = n + 1
        <5>1. s # {} /\ s \in SUBSET (1..(n + 1)) /\ n + 1 \in Nat
          BY <3>1
        <5>2. Max(s) \in s /\ \A x \in s : Max(s) >= x
          BY <5>1, MaxOf
        <5>3. Max(s) \in 1..(n + 1)
          BY <5>1, <5>2
        <5> QED
          BY <3>1, <5>2, <5>3
      <4>2. s \ {n + 1} \in SUBSET (1..(n + 1)) /\ nxt[s \ {n + 1}] = iter[s \ {n + 1}]
        BY <2>2
      <4> QED
        BY <3>1, <4>1, <4>2
    <3>2. CASE n + 1 \notin s
      <4>1. s \in SUBSET (1..n)
        BY <2>2, <3>2
      <4>2. s \ {Max(s)} \in SUBSET (1..n) /\ n + 1 \notin s \ {Max(s)}
        BY <4>1, <3>2
      <4>3. s \ {Max(s)} \in SUBSET (1..(n + 1)) /\ nxt[s \ {Max(s)}] = iter[s \ {Max(s)}]
        BY <4>2
      <4>4. iter[s] = IF s = {} THEN base ELSE step[<<iter[s \ {Max(s)}], Max(s)>>]
        BY <2>1, <4>1 DEF IsFold
      <4> QED
        BY <3>2, <4>3, <4>4
    <3> QED
      BY <3>1, <3>2
  <2>6. IsFold(nxt, n + 1, base, step)
    BY <2>5 DEF IsFold
  <2> HIDE DEF nxt
  <2> QED
    BY <2>4, <2>6
<1>3. 0..m \subseteq S
  <2> HIDE DEF S
  <2> QED
    BY <1>1, <1>2, InductUpTo
<1> HIDE DEF S
<1>4. m \in S
  BY <1>3
<1> QED
  BY <1>4 DEF S

-----------------------------------------------------------------------------
(* The loop of resolveSubscriptionEntitlements.                            *)

Line  == [price : Prices, quantity : Nat \cup {NotFinite}]
Found == [tier : CatalogTiers, seats : Nat, saw : BOOLEAN]

LEMMA LinesShape ==
  ASSUME NEW lines \in Lines
  PROVE  \E m \in Nat : lines \in [1..m -> Line]
  BY LinesAssumption DEF Lines, BoundedSeq, SeqOf, Line

LEMMA CatalogShape ==
  ASSUME NEW catalog \in Catalogs
  PROVE  \E n \in Nat :
           /\ DOMAIN catalog = 1..n
           /\ \A i \in 1..n : /\ catalog[i].tier \in {"PRO", "ENTERPRISE"}
                              /\ catalog[i].seats = DEFAULT_INCLUDED_SEATS[catalog[i].tier]
                              /\ catalog[i].price \in Prices
<1>1. PICK pro \in {<<>>} \cup {<<Definition(p, "PRO")>> : p \in Prices},
           enterprise \in {<<>>} \cup {<<Definition(p, "ENTERPRISE")>> : p \in Prices} :
             catalog = pro \o enterprise
  BY DEF Catalogs
<1>2. CASE pro = <<>> /\ enterprise = <<>>
  <2>1. DOMAIN catalog = 1..0
    BY <1>1, <1>2
  <2> QED
    BY <2>1
<1>3. ASSUME NEW p \in Prices, pro = <<>>, enterprise = <<Definition(p, "ENTERPRISE")>>
      PROVE  \E n \in Nat :
           /\ DOMAIN catalog = 1..n
           /\ \A i \in 1..n : /\ catalog[i].tier \in {"PRO", "ENTERPRISE"}
                              /\ catalog[i].seats = DEFAULT_INCLUDED_SEATS[catalog[i].tier]
                              /\ catalog[i].price \in Prices
  <2>1. catalog = <<Definition(p, "ENTERPRISE")>>
    BY <1>1, <1>3
  <2>2. DOMAIN catalog = 1..1 /\ catalog[1] = Definition(p, "ENTERPRISE")
    BY <2>1
  <2> QED
    BY <2>2 DEF Definition
<1>4. ASSUME NEW p \in Prices, pro = <<Definition(p, "PRO")>>, enterprise = <<>>
      PROVE  \E n \in Nat :
           /\ DOMAIN catalog = 1..n
           /\ \A i \in 1..n : /\ catalog[i].tier \in {"PRO", "ENTERPRISE"}
                              /\ catalog[i].seats = DEFAULT_INCLUDED_SEATS[catalog[i].tier]
                              /\ catalog[i].price \in Prices
  <2>1. catalog = <<Definition(p, "PRO")>>
    BY <1>1, <1>4
  <2>2. DOMAIN catalog = 1..1 /\ catalog[1] = Definition(p, "PRO")
    BY <2>1
  <2> QED
    BY <2>2 DEF Definition
<1>5. ASSUME NEW p \in Prices, NEW q \in Prices,
             pro = <<Definition(p, "PRO")>>, enterprise = <<Definition(q, "ENTERPRISE")>>
      PROVE  \E n \in Nat :
           /\ DOMAIN catalog = 1..n
           /\ \A i \in 1..n : /\ catalog[i].tier \in {"PRO", "ENTERPRISE"}
                              /\ catalog[i].seats = DEFAULT_INCLUDED_SEATS[catalog[i].tier]
                              /\ catalog[i].price \in Prices
  <2>1. /\ DOMAIN catalog = 1..2
        /\ catalog[1] = Definition(p, "PRO") /\ catalog[2] = Definition(q, "ENTERPRISE")
    BY <1>1, <1>5
  <2> QED
    BY <2>1 DEF Definition
<1> QED
  BY <1>2, <1>3, <1>4, <1>5

LEMMA LineShape ==
  ASSUME NEW catalog \in Catalogs, NEW line \in Line
  PROVE  /\ Quantity(line) \in Nat /\ Quantity(line) >= 1
         /\ Matching(catalog, line.price) # {} =>
              /\ TierDef(catalog, line.price).tier \in {"PRO", "ENTERPRISE"}
              /\ TierDef(catalog, line.price).seats
                   = DEFAULT_INCLUDED_SEATS[TierDef(catalog, line.price).tier]
<1>1. line.quantity \in Nat \cup {NotFinite}
  BY DEF Line
<1>2. \E x \in {1, line.quantity} : \A y \in {1, line.quantity} : x >= y
  BY <1>1 DEF NotFinite
<1>3. Quantity(line) \in Nat /\ Quantity(line) >= 1
  <2>1. CASE line.quantity = NotFinite
    BY <2>1 DEF Quantity
  <2>2. CASE line.quantity \in Nat
    <3>1. line.quantity # NotFinite
      BY <2>2 DEF NotFinite
    <3>2. Max({1, line.quantity}) \in {1, line.quantity} /\ Max({1, line.quantity}) >= 1
      BY <1>2 DEF Max
    <3> QED
      BY <2>2, <3>1, <3>2 DEF Quantity
  <2> QED
    BY <1>1, <2>1, <2>2
<1>4. PICK n \in Nat :
           /\ DOMAIN catalog = 1..n
           /\ \A i \in 1..n : /\ catalog[i].tier \in {"PRO", "ENTERPRISE"}
                              /\ catalog[i].seats = DEFAULT_INCLUDED_SEATS[catalog[i].tier]
                              /\ catalog[i].price \in Prices
  BY CatalogShape
<1>5. Matching(catalog, line.price) \in SUBSET (1..n)
  BY <1>4 DEF Matching
<1>6. Matching(catalog, line.price) # {} => Max(Matching(catalog, line.price)) \in 1..n
  BY <1>5, MaxOf
<1> QED
  BY <1>1, <1>3, <1>4, <1>6 DEF TierDef

LEMMA TurnType ==
  ASSUME NEW catalog \in Catalogs, NEW line \in Line, NEW found \in Found
  PROVE  Turn(catalog, found, line) \in Found
<1>1. CASE Matching(catalog, line.price) = {}
  BY <1>1 DEF Turn
<1>2. CASE Matching(catalog, line.price) # {}
  <2> DEFINE def == TierDef(catalog, line.price)
             q   == Quantity(line)
  <2>1. q \in Nat /\ def.tier \in CatalogTiers /\ def.seats \in {10, 100}
    BY <1>2, LineShape DEF CatalogTiers, DEFAULT_INCLUDED_SEATS
  <2>2. Turn(catalog, found, line) = AddLine(found, def, q)
    BY <1>2 DEF Turn
  <2> HIDE DEF def, q
  <2>3. def.seats * q \in Nat
    BY <2>1
  <2>4. PICK more \in Nat : more = def.seats * q
    BY <2>3
  <2>5. AddLine(found, def, q) \in
          {[tier |-> def.tier, seats |-> more, saw |-> TRUE],
           [found EXCEPT !.seats = @ + more, !.saw = TRUE],
           [found EXCEPT !.saw = TRUE]}
    BY <2>4 DEF AddLine
  <2>6. AddLine(found, def, q) \in Found
    <3>1. [tier |-> def.tier, seats |-> more, saw |-> TRUE] \in Found
      BY <2>1 DEF Found
    <3>2. [found EXCEPT !.seats = @ + more, !.saw = TRUE] \in Found
      <4>1. found.seats + more \in Nat
        BY DEF Found
      <4> QED
        BY <4>1 DEF Found
    <3>3. [found EXCEPT !.saw = TRUE] \in Found
      BY DEF Found
    <3> QED
      BY <2>5, <3>1, <3>2, <3>3
  <2> QED
    BY <2>2, <2>6
<1> QED
  BY <1>1, <1>2

LEMMA ResolveLoop ==
  ASSUME NEW catalog \in Catalogs, NEW m \in Nat, NEW lines \in [1..m -> Line]
  PROVE  \E found \in [0..m -> Found] :
           /\ found[0] = NothingFound
           /\ \A n \in 1..m : found[n] = Turn(catalog, found[n - 1], lines[n])
           /\ Resolve(lines, catalog)
                = IF found[m].saw THEN [tier |-> found[m].tier, seats |-> Max({1, found[m].seats})]
                  ELSE [tier |-> "FREE", seats |-> NoSeats]
<1> DEFINE step == [x \in Found \X (1..m) |-> Turn(catalog, x[1], lines[x[2]])]
           iter == CHOOSE i : i = [s \in SUBSET DOMAIN lines |->
                     IF s = {} THEN NothingFound
                     ELSE Turn(catalog, i[s \ {Max(s)}], lines[Max(s)])]
           found == [n \in 0..m |-> iter[1..n]]
<1>1. NothingFound \in Found /\ step \in [Found \X (1..m) -> Found]
  <2>1. NothingFound \in Found
    BY DEF NothingFound, Found, CatalogTiers
  <2>2. \A x \in Found \X (1..m) : Turn(catalog, x[1], lines[x[2]]) \in Found
    BY TurnType
  <2> QED
    BY <2>1, <2>2
<1>2. PICK it \in [SUBSET (1..m) -> Found] : IsFold(it, m, NothingFound, step)
  <2> HIDE DEF step
  <2> QED
    BY <1>1, FoldExists
<1>3. it = [s \in SUBSET DOMAIN lines |->
              IF s = {} THEN NothingFound ELSE Turn(catalog, it[s \ {Max(s)}], lines[Max(s)])]
  <2>1. DOMAIN lines = 1..m
    OBVIOUS
  <2>2. ASSUME NEW s \in SUBSET (1..m), s # {}
        PROVE  step[<<it[s \ {Max(s)}], Max(s)>>] = Turn(catalog, it[s \ {Max(s)}], lines[Max(s)])
    <3>1. Max(s) \in 1..m
      BY <2>2, MaxOf
    <3>2. it[s \ {Max(s)}] \in Found
      OBVIOUS
    <3> QED
      BY <3>1, <3>2
  <2> HIDE DEF step
  <2> QED
    BY <1>2, <2>1, <2>2 DEF IsFold
<1>4. iter = [s \in SUBSET DOMAIN lines |->
                IF s = {} THEN NothingFound ELSE Turn(catalog, iter[s \ {Max(s)}], lines[Max(s)])]
  BY <1>3
<1>5. Resolve(lines, catalog)
        = IF iter[DOMAIN lines].saw
          THEN [tier |-> iter[DOMAIN lines].tier, seats |-> Max({1, iter[DOMAIN lines].seats})]
          ELSE [tier |-> "FREE", seats |-> NoSeats]
  BY DEF Resolve, FoldLeft, MapThenFoldSet
<1> HIDE DEF iter
<1>6. found[0] = NothingFound
  <2>1. 1..0 = {} /\ {} \in SUBSET DOMAIN lines
    OBVIOUS
  <2> QED
    BY <1>4, <2>1
<1>7. ASSUME NEW n \in 1..m
      PROVE  found[n] = Turn(catalog, found[n - 1], lines[n])
  <2>1. Max(1..n) = n
    BY MaxOfPrefix
  <2>2. (1..n) \ {n} = 1..(n - 1) /\ 1..n # {} /\ 1..n \in SUBSET DOMAIN lines
    OBVIOUS
  <2>3. iter[1..n] = Turn(catalog, iter[1..(n - 1)], lines[n])
    BY <1>4, <2>1, <2>2
  <2>4. n \in 0..m /\ n - 1 \in 0..m
    OBVIOUS
  <2> QED
    BY <2>3, <2>4
<1>8. found \in [0..m -> Found]
  <2> DEFINE S == {n \in 0..m : found[n] \in Found}
  <2> HIDE DEF found
  <2>1. 0 \in S
    BY <1>1, <1>6
  <2>2. ASSUME NEW n \in 0..(m - 1), n \in S
        PROVE  n + 1 \in S
    <3>1. n + 1 \in 1..m /\ (n + 1) - 1 = n /\ lines[n + 1] \in Line /\ n + 1 \in 0..m
      OBVIOUS
    <3>2. found[n + 1] = Turn(catalog, found[n], lines[n + 1])
      BY <1>7, <3>1
    <3> QED
      BY <2>2, <3>1, <3>2, TurnType
  <2>3. 0..m \subseteq S
    <3> HIDE DEF S
    <3> QED
      BY <2>1, <2>2, InductUpTo
  <2> QED
    BY <2>3 DEF found
<1>9. found[m] = iter[DOMAIN lines]
  <2>1. DOMAIN lines = 1..m /\ m \in 0..m
    OBVIOUS
  <2> QED
    BY <2>1
<1> HIDE DEF found
<1> QED
  BY <1>5, <1>6, <1>7, <1>8, <1>9

-----------------------------------------------------------------------------
(* Which tier the loop has found after each item.                          *)

IsLoop(found, catalog, lines, m) ==
  /\ found \in [0..m -> Found]
  /\ found[0] = NothingFound
  /\ \A n \in 1..m : found[n] = Turn(catalog, found[n - 1], lines[n])

SawIsPaid(found) == found.saw <=> found.tier # "FREE"

LEMMA TurnChooses ==
  ASSUME NEW catalog \in Catalogs, NEW line \in Line, NEW found \in Found, SawIsPaid(found)
  PROVE  LET next == Turn(catalog, found, line) IN
         /\ SawIsPaid(next)
         /\ TIER_RANK[found.tier] <= TIER_RANK[next.tier]
         /\ next.tier = found.tier \/ PaysFor(catalog, line, next.tier)
         /\ \A t \in CatalogTiers :
              PaysFor(catalog, line, t) => t # "FREE" /\ TIER_RANK[t] <= TIER_RANK[next.tier]
<1>1. CASE Matching(catalog, line.price) = {}
  BY <1>1 DEF Turn, PaysFor, Found, CatalogTiers, TIER_RANK
<1>2. CASE Matching(catalog, line.price) # {}
  <2> DEFINE def == TierDef(catalog, line.price)
             q   == Quantity(line)
             next == Turn(catalog, found, line)
  <2>1. def.tier \in {"PRO", "ENTERPRISE"}
    BY <1>2, LineShape
  <2>2. next = AddLine(found, def, q)
    BY <1>2 DEF Turn
  <2>3. \A t : PaysFor(catalog, line, t) <=> t = def.tier
    BY <1>2 DEF PaysFor
  <2> HIDE DEF def, q, next
  <2>4. /\ next.saw
        /\ next.tier = IF TIER_RANK[def.tier] > TIER_RANK[found.tier] THEN def.tier ELSE found.tier
    BY <2>2 DEF AddLine, Found
  <2>5. found.tier \in CatalogTiers
    BY DEF Found
  <2>6. /\ SawIsPaid(next)
        /\ TIER_RANK[found.tier] <= TIER_RANK[next.tier]
        /\ TIER_RANK[def.tier] <= TIER_RANK[next.tier]
        /\ next.tier \in {found.tier, def.tier}
    BY <2>1, <2>4, <2>5 DEF SawIsPaid, TIER_RANK, CatalogTiers
  <2> QED
    BY <2>1, <2>3, <2>6 DEF next
<1> QED
  BY <1>1, <1>2

LEMMA LoopChooses ==
  ASSUME NEW catalog \in Catalogs, NEW m \in Nat, NEW lines \in [1..m -> Line],
         NEW found, IsLoop(found, catalog, lines, m)
  PROVE  /\ SawIsPaid(found[m])
         /\ found[m].tier = "FREE" \/ \E i \in 1..m : PaysFor(catalog, lines[i], found[m].tier)
         /\ \A i \in 1..m, t \in CatalogTiers :
              PaysFor(catalog, lines[i], t) => t # "FREE" /\ TIER_RANK[t] <= TIER_RANK[found[m].tier]
<1> DEFINE Upto(n) ==
             /\ SawIsPaid(found[n])
             /\ found[n].tier = "FREE" \/ \E i \in 1..n : PaysFor(catalog, lines[i], found[n].tier)
             /\ \A i \in 1..n, t \in CatalogTiers :
                  PaysFor(catalog, lines[i], t) => t # "FREE" /\ TIER_RANK[t] <= TIER_RANK[found[n].tier]
           S == {n \in 0..m : Upto(n)}
<1>1. 0 \in S
  BY DEF IsLoop, NothingFound, SawIsPaid
<1>2. ASSUME NEW n \in 0..(m - 1), n \in S
      PROVE  n + 1 \in S
  <2>1. n + 1 \in 1..m /\ (n + 1) - 1 = n /\ n \in 0..m
    OBVIOUS
  <2>2. lines[n + 1] \in Line /\ found[n] \in Found /\ found[n + 1] \in Found
    BY <2>1 DEF IsLoop
  <2>3. found[n + 1] = Turn(catalog, found[n], lines[n + 1])
    BY <2>1 DEF IsLoop
  <2>4. /\ SawIsPaid(found[n + 1])
        /\ TIER_RANK[found[n].tier] <= TIER_RANK[found[n + 1].tier]
        /\ found[n + 1].tier = found[n].tier \/ PaysFor(catalog, lines[n + 1], found[n + 1].tier)
        /\ \A t \in CatalogTiers :
             PaysFor(catalog, lines[n + 1], t)
               => t # "FREE" /\ TIER_RANK[t] <= TIER_RANK[found[n + 1].tier]
    BY <1>2, <2>2, <2>3, TurnChooses
  <2>5. \A i \in 1..(n + 1) : i \in 1..n \/ i = n + 1
    OBVIOUS
  <2>6. \A t \in CatalogTiers : TIER_RANK[t] \in Nat
    BY DEF CatalogTiers, TIER_RANK
  <2>7. found[n].tier \in CatalogTiers /\ found[n + 1].tier \in CatalogTiers
    BY <2>2 DEF Found
  <2>8. \A i \in 1..(n + 1), t \in CatalogTiers :
          PaysFor(catalog, lines[i], t) => t # "FREE" /\ TIER_RANK[t] <= TIER_RANK[found[n + 1].tier]
    BY <1>2, <2>4, <2>5, <2>6, <2>7
  <2>9. found[n + 1].tier = "FREE" \/ \E i \in 1..(n + 1) : PaysFor(catalog, lines[i], found[n + 1].tier)
    BY <1>2, <2>4
  <2>10. n + 1 \in 0..m
    OBVIOUS
  <2> QED
    BY <2>4, <2>8, <2>9, <2>10
<1>3. 0..m \subseteq S
  <2> HIDE DEF S
  <2> QED
    BY <1>1, <1>2, InductUpTo
<1>4. m \in 0..m
  OBVIOUS
<1> QED
  BY <1>3, <1>4

\* The highest tier wins, for any number of prices and items.
THEOREM HighestSafe ==
  ASSUME NEW catalog \in Catalogs, NEW lines \in Lines
  PROVE  HighestTierWins(catalog, lines)
<1>1. PICK m \in Nat : lines \in [1..m -> Line]
  BY LinesShape
<1>2. PICK found \in [0..m -> Found] :
           /\ IsLoop(found, catalog, lines, m)
           /\ Resolve(lines, catalog)
                = IF found[m].saw THEN [tier |-> found[m].tier, seats |-> Max({1, found[m].seats})]
                  ELSE [tier |-> "FREE", seats |-> NoSeats]
  BY <1>1, ResolveLoop DEF IsLoop
<1>3. /\ SawIsPaid(found[m])
      /\ found[m].tier = "FREE" \/ \E i \in 1..m : PaysFor(catalog, lines[i], found[m].tier)
      /\ \A i \in 1..m, t \in CatalogTiers :
           PaysFor(catalog, lines[i], t) => t # "FREE" /\ TIER_RANK[t] <= TIER_RANK[found[m].tier]
  BY <1>1, <1>2, LoopChooses
<1>4. DOMAIN lines = 1..m /\ found[m].tier \in CatalogTiers
  <2>1. m \in 0..m
    OBVIOUS
  <2> QED
    BY <1>1, <1>2, <2>1 DEF Found
<1> DEFINE tiers == {tier \in CatalogTiers : \E i \in DOMAIN lines : PaysFor(catalog, lines[i], tier)}
<1>5. CASE tiers = {}
  <2>1. found[m].tier = "FREE"
    BY <1>3, <1>4, <1>5
  <2>2. Resolve(lines, catalog) = [tier |-> "FREE", seats |-> NoSeats]
    BY <1>2, <1>3, <2>1 DEF SawIsPaid
  <2> QED
    BY <1>5, <2>2 DEF HighestTierWins
<1>6. CASE tiers # {}
  <2>1. PICK t \in CatalogTiers, i \in 1..m : PaysFor(catalog, lines[i], t)
    BY <1>4, <1>6
  <2>2. found[m].tier # "FREE"
    BY <1>3, <1>4, <2>1 DEF CatalogTiers, TIER_RANK
  <2>3. Resolve(lines, catalog).tier = found[m].tier
    BY <1>2, <1>3, <2>2 DEF SawIsPaid
  <2>4. found[m].tier \in tiers /\ \A u \in tiers : TIER_RANK[u] <= TIER_RANK[found[m].tier]
    BY <1>3, <1>4, <2>2
  <2> QED
    BY <1>6, <2>3, <2>4 DEF HighestTierWins
<1> QED
  BY <1>5, <1>6

-----------------------------------------------------------------------------
(* How many seats it has found.                                            *)

LEMMA MaxOfOne ==
  ASSUME NEW k \in Nat, k >= 1
  PROVE  Max({1, k}) = k
<1>1. \E x \in {1, k} : \A y \in {1, k} : x >= y
  OBVIOUS
<1>2. Max({1, k}) \in {1, k} /\ Max({1, k}) >= k
  BY <1>1 DEF Max
<1> QED
  BY <1>2

\* The fold on the right of SeatsOfThatTier.
LEMMA SumLoop ==
  ASSUME NEW catalog \in Catalogs, NEW tier, NEW m \in Nat, NEW lines \in [1..m -> Line]
  PROVE  \E sum \in [0..m -> Nat] :
           /\ sum[0] = 0
           /\ \A n \in 1..m : sum[n] = IF PaysFor(catalog, lines[n], tier)
                                       THEN sum[n - 1] + Quantity(lines[n]) ELSE sum[n - 1]
           /\ PaidFor(catalog, lines, tier) = sum[m]
<1> DEFINE add(k, line) == IF PaysFor(catalog, line, tier) THEN k + Quantity(line) ELSE k
           step == [x \in Nat \X (1..m) |-> add(x[1], lines[x[2]])]
           iter == CHOOSE i : i = [s \in SUBSET DOMAIN lines |->
                     IF s = {} THEN 0 ELSE add(i[s \ {Max(s)}], lines[Max(s)])]
           sum  == [n \in 0..m |-> iter[1..n]]
<1>0. ASSUME NEW k \in Nat, NEW line \in Line
      PROVE  add(k, line) \in Nat
  BY LineShape
<1>1. step \in [Nat \X (1..m) -> Nat]
  <2> HIDE DEF add
  <2>1. \A x \in Nat \X (1..m) : add(x[1], lines[x[2]]) \in Nat
    BY <1>0
  <2> QED
    BY <2>1
<1>2. PICK it \in [SUBSET (1..m) -> Nat] : IsFold(it, m, 0, step)
  <2>1. 0 \in Nat
    OBVIOUS
  <2> HIDE DEF step
  <2> QED
    BY <1>1, <2>1, FoldExists
<1>3. it = [s \in SUBSET DOMAIN lines |->
              IF s = {} THEN 0 ELSE add(it[s \ {Max(s)}], lines[Max(s)])]
  <2>1. DOMAIN lines = 1..m
    OBVIOUS
  <2>2. ASSUME NEW s \in SUBSET (1..m), s # {}
        PROVE  step[<<it[s \ {Max(s)}], Max(s)>>] = add(it[s \ {Max(s)}], lines[Max(s)])
    <3>1. Max(s) \in 1..m
      BY <2>2, MaxOf
    <3>2. it[s \ {Max(s)}] \in Nat
      OBVIOUS
    <3> HIDE DEF add
    <3> QED
      BY <3>1, <3>2
  <2> HIDE DEF step, add
  <2> QED
    BY <1>2, <2>1, <2>2 DEF IsFold
<1>4. iter = [s \in SUBSET DOMAIN lines |->
                IF s = {} THEN 0 ELSE add(iter[s \ {Max(s)}], lines[Max(s)])]
  <2> HIDE DEF add
  <2> QED
    BY <1>3
<1>5. PaidFor(catalog, lines, tier) = iter[DOMAIN lines]
  BY DEF PaidFor, FoldLeft, MapThenFoldSet
<1> HIDE DEF iter
<1>6. sum[0] = 0
  <2>1. 1..0 = {} /\ {} \in SUBSET DOMAIN lines
    OBVIOUS
  <2> QED
    BY <1>4, <2>1
<1>7. ASSUME NEW n \in 1..m
      PROVE  sum[n] = add(sum[n - 1], lines[n])
  <2>1. Max(1..n) = n
    BY MaxOfPrefix
  <2>2. (1..n) \ {n} = 1..(n - 1) /\ 1..n # {} /\ 1..n \in SUBSET DOMAIN lines
    <3>1. DOMAIN lines = 1..m
      OBVIOUS
    <3>2. (1..n) \ {n} = 1..(n - 1)
      OBVIOUS
    <3>3. n \in 1..n /\ 1..n \subseteq 1..m
      OBVIOUS
    <3> QED
      BY <3>1, <3>2, <3>3
  <2> HIDE DEF add
  <2>3. iter[1..n] = add(iter[1..(n - 1)], lines[n])
    BY <1>4, <2>1, <2>2
  <2>4. n \in 0..m /\ n - 1 \in 0..m
    OBVIOUS
  <2> QED
    BY <2>3, <2>4
<1>8. sum \in [0..m -> Nat]
  <2> DEFINE S == {n \in 0..m : sum[n] \in Nat}
  <2> HIDE DEF sum, add
  <2>1. 0 \in S
    BY <1>6
  <2>2. ASSUME NEW n \in 0..(m - 1), n \in S
        PROVE  n + 1 \in S
    <3>1. n + 1 \in 1..m /\ (n + 1) - 1 = n /\ lines[n + 1] \in Line /\ n + 1 \in 0..m
      OBVIOUS
    <3>2. sum[n + 1] = add(sum[n], lines[n + 1])
      BY <1>7, <3>1
    <3> QED
      BY <2>2, <3>1, <3>2, <1>0
  <2>3. 0..m \subseteq S
    <3> HIDE DEF S
    <3> QED
      BY <2>1, <2>2, InductUpTo
  <2> QED
    BY <2>3 DEF sum
<1>9. sum[m] = iter[DOMAIN lines]
  <2>1. DOMAIN lines = 1..m /\ m \in 0..m
    OBVIOUS
  <2> QED
    BY <2>1
<1> HIDE DEF sum
<1> QED
  BY <1>5, <1>6, <1>7, <1>8, <1>9

\* The seats are those of the tier found, and no item before the first of a tier
\* is of it.
Counts(found, sum, tier) ==
  /\ TIER_RANK[found.tier] < TIER_RANK[tier] => sum = 0
  /\ found.tier = tier => sum >= 1 /\ found.seats = DEFAULT_INCLUDED_SEATS[tier] * sum

LEMMA TurnCounts ==
  ASSUME NEW catalog \in Catalogs, NEW line \in Line, NEW found \in Found, NEW sum \in Nat,
         NEW tier \in {"PRO", "ENTERPRISE"}, Counts(found, sum, tier)
  PROVE  Counts(Turn(catalog, found, line),
                IF PaysFor(catalog, line, tier) THEN sum + Quantity(line) ELSE sum, tier)
<1>1. CASE Matching(catalog, line.price) = {}
  BY <1>1 DEF Turn, PaysFor
<1>2. CASE Matching(catalog, line.price) # {}
  <2> DEFINE def  == TierDef(catalog, line.price)
             q    == Quantity(line)
             next == Turn(catalog, found, line)
  <2>1. /\ def.tier \in {"PRO", "ENTERPRISE"} /\ def.seats = DEFAULT_INCLUDED_SEATS[def.tier]
        /\ q \in Nat /\ q >= 1
    BY <1>2, LineShape
  <2>2. next = AddLine(found, def, q)
    BY <1>2 DEF Turn
  <2>3. PaysFor(catalog, line, tier) <=> def.tier = tier
    BY <1>2 DEF PaysFor
  <2>4. found.tier \in CatalogTiers /\ found.seats \in Nat
    BY DEF Found
  <2> HIDE DEF def, q, next
  <2>5. CASE TIER_RANK[def.tier] > TIER_RANK[found.tier]
    <3>1. next.tier = def.tier /\ next.seats = def.seats * q
      BY <2>2, <2>5 DEF AddLine
    <3>2. CASE def.tier = tier
      <4>1. sum = 0
        BY <2>1, <2>4, <2>5, <3>2 DEF Counts, TIER_RANK, CatalogTiers
      <4>2. sum + q = q
        BY <2>1, <4>1
      <4> QED
        BY <2>1, <2>3, <3>1, <3>2, <4>2 DEF Counts, TIER_RANK, def, q, next
    <3>3. CASE def.tier # tier
      BY <2>1, <2>3, <2>4, <2>5, <3>1, <3>3 DEF Counts, TIER_RANK, CatalogTiers, def, q, next
    <3> QED
      BY <3>2, <3>3
  <2>6. CASE ~ (TIER_RANK[def.tier] > TIER_RANK[found.tier]) /\ def.tier = found.tier
    <3>1. next.tier = found.tier /\ next.seats = found.seats + def.seats * q
      BY <2>2, <2>6 DEF AddLine, Found
    <3>2. CASE def.tier = tier
      <4>1. sum >= 1 /\ found.seats = DEFAULT_INCLUDED_SEATS[tier] * sum
        BY <2>6, <3>2 DEF Counts
      <4>2. next.seats = DEFAULT_INCLUDED_SEATS[tier] * (sum + q)
        BY <2>1, <3>1, <3>2, <4>1 DEF DEFAULT_INCLUDED_SEATS
      <4>3. sum + q >= 1 /\ next.tier = tier
        BY <2>1, <2>6, <3>1, <3>2
      <4> QED
        BY <2>3, <3>2, <4>2, <4>3 DEF Counts, q, next, TIER_RANK
    <3>3. CASE def.tier # tier
      BY <2>3, <2>6, <3>1, <3>3 DEF Counts, def, q, next
    <3> QED
      BY <3>2, <3>3
  <2>7. CASE ~ (TIER_RANK[def.tier] > TIER_RANK[found.tier]) /\ def.tier # found.tier
    <3>1. next.tier = found.tier /\ next.seats = found.seats
      BY <2>2, <2>7 DEF AddLine, Found
    <3>2. CASE def.tier = tier
      <4>1. next.tier # tier /\ ~ (TIER_RANK[next.tier] < TIER_RANK[tier])
        BY <2>1, <2>4, <2>7, <3>1, <3>2 DEF TIER_RANK, CatalogTiers
      <4> QED
        BY <4>1 DEF Counts, next
    <3>3. CASE def.tier # tier
      BY <2>3, <2>7, <3>1, <3>3 DEF Counts, def, q, next
    <3> QED
      BY <3>2, <3>3
  <2> QED
    BY <2>5, <2>6, <2>7
<1> QED
  BY <1>1, <1>2

\* The seats are those of all the items of the tier, for any number of prices and
\* items, in any order.
THEOREM SeatsOfTierSafe ==
  ASSUME NEW catalog \in Catalogs, NEW lines \in Lines
  PROVE  SeatsOfThatTier(catalog, lines)
<1> DEFINE tier == Resolve(lines, catalog).tier
<1>1. SUFFICES ASSUME tier # "FREE"
               PROVE  Resolve(lines, catalog).seats
                        = DEFAULT_INCLUDED_SEATS[tier] * PaidFor(catalog, lines, tier)
  BY DEF SeatsOfThatTier
<1>2. PICK m \in Nat : lines \in [1..m -> Line]
  BY LinesShape
<1>3. PICK found \in [0..m -> Found] :
           /\ IsLoop(found, catalog, lines, m)
           /\ Resolve(lines, catalog)
                = IF found[m].saw THEN [tier |-> found[m].tier, seats |-> Max({1, found[m].seats})]
                  ELSE [tier |-> "FREE", seats |-> NoSeats]
  BY <1>2, ResolveLoop DEF IsLoop
<1>4. Resolve(lines, catalog) = [tier |-> found[m].tier, seats |-> Max({1, found[m].seats})]
  BY <1>1, <1>3
<1>5. found[m] \in Found
  <2>1. m \in 0..m
    OBVIOUS
  <2> QED
    BY <2>1
<1>6. tier = found[m].tier /\ tier \in {"PRO", "ENTERPRISE"}
  BY <1>1, <1>4, <1>5 DEF Found, CatalogTiers
<1> HIDE DEF tier
<1>7. PICK sum \in [0..m -> Nat] :
           /\ sum[0] = 0
           /\ \A n \in 1..m : sum[n] = IF PaysFor(catalog, lines[n], tier)
                                       THEN sum[n - 1] + Quantity(lines[n]) ELSE sum[n - 1]
           /\ PaidFor(catalog, lines, tier) = sum[m]
  BY <1>2, SumLoop
<1>8. Counts(found[m], sum[m], tier)
  <2> DEFINE S == {n \in 0..m : Counts(found[n], sum[n], tier)}
  <2>1. 0 \in S
    <3>1. found[0] = NothingFound /\ sum[0] = 0 /\ 0 \in 0..m
      BY <1>3, <1>7 DEF IsLoop
    <3>2. Counts(NothingFound, 0, tier)
      BY <1>6 DEF NothingFound, Counts
    <3> QED
      BY <3>1, <3>2
  <2>2. ASSUME NEW n \in 0..(m - 1), n \in S
        PROVE  n + 1 \in S
    <3>1. n + 1 \in 1..m /\ (n + 1) - 1 = n /\ n \in 0..m /\ n + 1 \in 0..m
      OBVIOUS
    <3>2. found[n + 1] = Turn(catalog, found[n], lines[n + 1])
      BY <1>3, <3>1 DEF IsLoop
    <3>3. sum[n + 1] = IF PaysFor(catalog, lines[n + 1], tier)
                       THEN sum[n] + Quantity(lines[n + 1]) ELSE sum[n]
      BY <1>7, <3>1
    <3>4. found[n] \in Found /\ sum[n] \in Nat /\ lines[n + 1] \in Line
      BY <1>2, <3>1
    <3>5. Counts(found[n + 1], sum[n + 1], tier)
      BY <1>6, <2>2, <3>2, <3>3, <3>4, TurnCounts
    <3> QED
      BY <3>1, <3>5
  <2>3. 0..m \subseteq S
    <3> HIDE DEF S
    <3> QED
      BY <2>1, <2>2, InductUpTo
  <2>4. m \in 0..m
    OBVIOUS
  <2> QED
    BY <2>3, <2>4
<1>9. found[m].seats = DEFAULT_INCLUDED_SEATS[tier] * sum[m] /\ sum[m] >= 1
  BY <1>6, <1>8 DEF Counts
<1>10. Max({1, found[m].seats}) = found[m].seats
  <2>1. sum[m] \in Nat
    <3>1. m \in 0..m
      OBVIOUS
    <3> QED
      BY <3>1
  <2>2. found[m].seats \in Nat /\ found[m].seats >= 1
    BY <1>6, <1>9, <2>1 DEF DEFAULT_INCLUDED_SEATS
  <2> QED
    BY <2>2, MaxOfOne
<1>11. Resolve(lines, catalog).seats = DEFAULT_INCLUDED_SEATS[tier] * sum[m]
  BY <1>4, <1>9, <1>10
<1> QED
  BY <1>7, <1>11

\* A tenant gets the tier and the seats it was sold.
THEOREM BoughtSafe ==
  ASSUME NEW catalog \in Catalogs
  PROVE  BoughtIsGranted(catalog)
<1> SUFFICES ASSUME NEW i \in DOMAIN catalog,
                    Matching(catalog, CheckoutPrice(catalog, catalog[i].tier)) = {i}
             PROVE  Resolve(<<[price    |-> CheckoutPrice(catalog, catalog[i].tier),
                               quantity |-> 1]>>, catalog)
                      = [tier  |-> catalog[i].tier,
                         seats |-> DEFAULT_INCLUDED_SEATS[catalog[i].tier]]
  BY DEF BoughtIsGranted
<1> DEFINE price == CheckoutPrice(catalog, catalog[i].tier)
           line  == [price |-> price, quantity |-> 1]
           lines == <<line>>
<1>1. /\ catalog[i].tier \in {"PRO", "ENTERPRISE"}
      /\ catalog[i].seats = DEFAULT_INCLUDED_SEATS[catalog[i].tier]
      /\ catalog[i].price \in Prices /\ i \in Nat
  BY CatalogShape
<1>2. catalog[i].price = price
  BY DEF Matching
<1> HIDE DEF price
<1>3. line \in Line /\ lines \in [1..1 -> Line]
  <2>1. line \in Line
    BY <1>1, <1>2 DEF Line
  <2> HIDE DEF line
  <2> QED
    BY <2>1
<1>4. PICK found \in [0..1 -> Found] :
           /\ found[0] = NothingFound
           /\ \A n \in 1..1 : found[n] = Turn(catalog, found[n - 1], lines[n])
           /\ Resolve(lines, catalog)
                = IF found[1].saw THEN [tier |-> found[1].tier, seats |-> Max({1, found[1].seats})]
                  ELSE [tier |-> "FREE", seats |-> NoSeats]
  <2>1. 1 \in Nat
    OBVIOUS
  <2> HIDE DEF lines
  <2> QED
    BY <1>3, <2>1, ResolveLoop
<1>5. Matching(catalog, line.price) = {i}
  BY DEF price
<1>6. TierDef(catalog, line.price) = catalog[i]
  <2>1. Max({i}) = i
    <3>1. \E x \in {i} : \A y \in {i} : x >= y
      BY <1>1
    <3> QED
      BY <3>1 DEF Max
  <2> QED
    BY <1>5, <2>1 DEF TierDef
<1>7. Quantity(line) = 1
  <2>1. Max({1, 1}) = 1
    BY MaxOfOne
  <2> QED
    BY <2>1 DEF Quantity, NotFinite
<1>8. found[1] = AddLine(NothingFound, catalog[i], 1)
  <2>1. 1 \in 1..1 /\ 1 - 1 = 0 /\ lines[1] = line
    OBVIOUS
  <2>2. found[1] = Turn(catalog, NothingFound, line)
    BY <1>4, <2>1
  <2> QED
    BY <1>5, <1>6, <1>7, <2>2 DEF Turn
<1>9. found[1] = [tier |-> catalog[i].tier, seats |-> catalog[i].seats, saw |-> TRUE]
  <2>1. catalog[i].seats * 1 = catalog[i].seats
    BY <1>1 DEF DEFAULT_INCLUDED_SEATS
  <2>2. TIER_RANK[catalog[i].tier] > TIER_RANK[NothingFound.tier]
    BY <1>1 DEF NothingFound, TIER_RANK
  <2> QED
    BY <1>8, <2>1, <2>2 DEF AddLine
<1>10. Max({1, catalog[i].seats}) = catalog[i].seats
  <2>1. catalog[i].seats \in Nat /\ catalog[i].seats >= 1
    BY <1>1 DEF DEFAULT_INCLUDED_SEATS
  <2> QED
    BY <2>1, MaxOfOne
<1> QED
  BY <1>1, <1>4, <1>9, <1>10 DEF price

-----------------------------------------------------------------------------
(* The pages of listEvents and listDeadLetters.                            *)

LEMMA PageSizeType ==
  ASSUME NEW limit \in Nat
  PROVE  PageSize(limit) \in Nat /\ PageSize(limit) >= 1
<1>1. \E x \in {1, limit} : \A y \in {1, limit} : x >= y
  OBVIOUS
<1>2. Max({1, limit}) \in Nat /\ Max({1, limit}) >= 1
  BY <1>1 DEF Max
<1> DEFINE k == Max({1, limit})
<1> HIDE DEF k
<1>3. \E x \in {3, k} : \A y \in {3, k} : x =< y
  BY <1>2 DEF k
<1>4. Min({3, k}) \in {3, k}
  BY <1>3 DEF Min
<1> QED
  BY <1>2, <1>4 DEF PageSize, k

\* A page is followed by the row below it, if there is one.
LEMMA NextPage ==
  ASSUME NEW limit \in Nat, NEW c \in Nat \ {0}
  PROVE  LET p == PageSize(limit) IN
         /\ Items(c, limit) = {row \in 1..(c - 1) : row >= c - p}
         /\ NextCursor(c, limit) = IF c - 1 <= p THEN 0 ELSE c - p - 1
<1> DEFINE p == PageSize(limit)
<1>1. p \in Nat /\ p >= 1
  BY PageSizeType
<1> HIDE DEF p
<1>2. Items(c, limit) = {row \in 1..(c - 1) : row >= c - p}
  BY <1>1 DEF Items, Fetched, p
<1>3. Fetched(c, limit) = {row \in 1..(c - 1) : row >= c - p - 1}
  BY <1>1 DEF Fetched, p
<1>4. CASE c - 1 <= p
  <2>1. Fetched(c, limit) = Items(c, limit)
    BY <1>1, <1>2, <1>3, <1>4
  <2> QED
    BY <1>2, <1>4, <2>1 DEF NextCursor, p
<1>5. CASE c - 1 > p
  <2>1. c - p - 1 \in Fetched(c, limit) /\ c - p - 1 \notin Items(c, limit)
    BY <1>1, <1>2, <1>3, <1>5
  <2>2. \A y \in Fetched(c, limit) : c - p - 1 =< y /\ y \in Nat
    BY <1>1, <1>3
  <2>3. Min(Fetched(c, limit)) = c - p - 1
    <3>1. /\ Min(Fetched(c, limit)) \in Fetched(c, limit)
          /\ \A y \in Fetched(c, limit) : Min(Fetched(c, limit)) =< y
      BY <2>1, <2>2 DEF Min
    <3> QED
      BY <1>1, <2>1, <2>2, <3>1
  <2>4. NextCursor(c, limit) = c - p - 1
    BY <2>1, <2>3 DEF NextCursor
  <2>5. ~ (c - 1 <= p)
    BY <1>1, <1>5
  <2> QED
    BY <1>2, <2>4, <2>5 DEF p
<1> QED
  BY <1>1, <1>4, <1>5

\* One page of a walk, and a walk from every cursor up to n.
Page(w, c, rows, limit) ==
  LET next == NextCursor(c, limit) IN
  IF next = 0 THEN [times |-> Shown(rows, c, limit, NoTimes(rows)), cursors |-> {}]
  ELSE [times   |-> Shown(rows, c, limit, w[next].times),
        cursors |-> {next} \cup w[next].cursors]

IsWalk(w, n, rows, limit) == w = [c \in 1..n |-> Page(w, c, rows, limit)]

LEMMA WalkExists ==
  ASSUME NEW rows, NEW limit \in Nat, NEW m \in Nat
  PROVE  \E w : IsWalk(w, m, rows, limit)
<1> DEFINE S == {n \in 0..m : \E w : IsWalk(w, n, rows, limit)}
<1>1. 0 \in S
  <2> DEFINE w == [c \in 1..0 |-> 0]
  <2>1. w = [c \in 1..0 |-> Page(w, c, rows, limit)]
    <3>1. 1..0 = {}
      OBVIOUS
    <3> QED
      BY <3>1
  <2>2. IsWalk(w, 0, rows, limit)
    BY <2>1 DEF IsWalk
  <2>3. 0 \in 0..m
    OBVIOUS
  <2> HIDE DEF w
  <2> QED
    BY <2>2, <2>3
<1>2. ASSUME NEW n \in 0..(m - 1), n \in S
      PROVE  n + 1 \in S
  <2>1. PICK w : IsWalk(w, n, rows, limit)
    BY <1>2
  <2> DEFINE longer == [c \in 1..(n + 1) |-> Page(w, c, rows, limit)]
  <2>2. ASSUME NEW c \in 1..(n + 1)
        PROVE  Page(longer, c, rows, limit) = Page(w, c, rows, limit)
    <3>1. c \in Nat \ {0}
      OBVIOUS
    <3>2. NextCursor(c, limit) = 0 \/ NextCursor(c, limit) \in 1..n
      <4>1. PageSize(limit) \in Nat /\ PageSize(limit) >= 1
        BY PageSizeType
      <4>2. NextCursor(c, limit) = IF c - 1 <= PageSize(limit) THEN 0 ELSE c - PageSize(limit) - 1
        BY <3>1, NextPage
      <4> QED
        BY <4>1, <4>2
    <3>3. ASSUME NEW d \in 1..n
          PROVE  longer[d] = w[d]
      <4>1. d \in 1..(n + 1)
        OBVIOUS
      <4>2. w[d] = Page(w, d, rows, limit)
        BY <2>1 DEF IsWalk
      <4> QED
        BY <4>1, <4>2
    <3> HIDE DEF longer
    <3> QED
      BY <3>2, <3>3 DEF Page
  <2>3. IsWalk(longer, n + 1, rows, limit)
    <3>1. longer = [c \in 1..(n + 1) |-> Page(longer, c, rows, limit)]
      BY <2>2
    <3> QED
      BY <3>1 DEF IsWalk
  <2> HIDE DEF longer
  <2>4. n + 1 \in 0..m
    OBVIOUS
  <2> QED
    BY <2>3, <2>4
<1>3. 0..m \subseteq S
  <2> HIDE DEF S
  <2> QED
    BY <1>1, <1>2, InductUpTo
<1>4. m \in 0..m
  OBVIOUS
<1> QED
  BY <1>3, <1>4

\* The walk from a cursor shows every row below it once, or has it as a cursor.
LEMMA WalkSkips ==
  ASSUME NEW rows \in Nat, NEW limit \in Nat, NEW m \in 0..(rows + 1), NEW w,
         IsWalk(w, m, rows, limit)
  PROVE  \A c \in 1..m :
           /\ w[c].cursors \subseteq 1..(c - 1)
           /\ \A row \in 1..rows :
                w[c].times[row] = IF row < c /\ row \notin w[c].cursors THEN 1 ELSE 0
<1> DEFINE Skips(c) ==
             /\ w[c].cursors \subseteq 1..(c - 1)
             /\ \A row \in 1..rows :
                  w[c].times[row] = IF row < c /\ row \notin w[c].cursors THEN 1 ELSE 0
           S == {n \in 0..m : \A c \in 1..n : Skips(c)}
<1>1. 0 \in S
  <2>1. 1..0 = {} /\ 0 \in 0..m
    OBVIOUS
  <2> QED
    BY <2>1
<1>2. ASSUME NEW n \in 0..(m - 1), n \in S
      PROVE  n + 1 \in S
  <2> DEFINE c == n + 1
             p == PageSize(limit)
             next == NextCursor(c, limit)
  <2>1. p \in Nat /\ p >= 1
    BY PageSizeType
  <2>2. /\ Items(c, limit) = {row \in 1..(c - 1) : row >= c - p}
        /\ next = IF c - 1 <= p THEN 0 ELSE c - p - 1
    <3>1. c \in Nat \ {0}
      OBVIOUS
    <3> HIDE DEF c
    <3> QED
      BY <3>1, NextPage
  <2>3. w[c] = Page(w, c, rows, limit)
    <3>1. c \in 1..m
      OBVIOUS
    <3> HIDE DEF c
    <3> QED
      BY <3>1 DEF IsWalk
  <2>4. c \in Nat /\ c >= 1 /\ n = c - 1
    OBVIOUS
  <2>5. Skips(c)
    <3> HIDE DEF c, p, next
    <3>1. CASE next = 0
      <4>1. w[c].times = Shown(rows, c, limit, NoTimes(rows)) /\ w[c].cursors = {}
        BY <2>3, <3>1 DEF Page, next
      <4>2. Items(c, limit) = 1..(c - 1)
        BY <2>1, <2>2, <2>4, <3>1
      <4>3. ASSUME NEW row \in 1..rows
            PROVE  w[c].times[row] = IF row < c THEN 1 ELSE 0
        <5>1. row \in 1..(c - 1) <=> row < c
          BY <2>4
        <5> QED
          BY <4>1, <4>2, <5>1 DEF Shown, NoTimes
      <4> QED
        BY <4>1, <4>3
    <3>2. CASE next # 0
      <4>1. /\ w[c].times = Shown(rows, c, limit, w[next].times)
            /\ w[c].cursors = {next} \cup w[next].cursors
        BY <2>3, <3>2 DEF Page, next
      <4>2. next = c - p - 1 /\ next >= 1 /\ next \in 1..n
        BY <2>1, <2>2, <2>4, <3>2
      <4>3. Skips(next)
        BY <1>2, <4>2
      <4>4. w[c].cursors \subseteq 1..(c - 1)
        BY <2>1, <2>4, <4>1, <4>2, <4>3
      <4>5. ASSUME NEW row \in 1..rows
            PROVE  w[c].times[row] = IF row < c /\ row \notin w[c].cursors THEN 1 ELSE 0
        <5>1. w[c].times[row]
                = IF row \in Items(c, limit) THEN w[next].times[row] + 1 ELSE w[next].times[row]
          BY <4>1 DEF Shown
        <5>2. w[next].times[row] = IF row < next /\ row \notin w[next].cursors THEN 1 ELSE 0
          BY <4>3
        <5>3. row \in Items(c, limit) <=> next < row /\ row < c
          BY <2>1, <2>2, <2>4, <4>2
        <5>4. row \in w[c].cursors <=> row = next \/ row \in w[next].cursors
          BY <4>1
        <5>5. row \in w[next].cursors => row < next
          BY <4>2, <4>3
        <5>6. next < c
          BY <2>1, <2>4, <4>2
        <5>7. next \in Nat /\ c \in Nat /\ row \in Nat
          BY <2>4, <4>2
        <5> QED
          BY <5>1, <5>2, <5>3, <5>4, <5>5, <5>6, <5>7
      <4> QED
        BY <4>4, <4>5
    <3> QED
      BY <3>1, <3>2
  <2>6. \A d \in 1..(n + 1) : Skips(d)
    <3>1. \A d \in 1..(n + 1) : d \in 1..n \/ d = c
      OBVIOUS
    <3> HIDE DEF c
    <3> QED
      BY <1>2, <2>5, <3>1
  <2>7. n + 1 \in 0..m
    OBVIOUS
  <2> QED
    BY <2>6, <2>7
<1>3. 0..m \subseteq S
  <2> HIDE DEF S
  <2> QED
    BY <1>1, <1>2, InductUpTo
<1>4. m \in 0..m
  OBVIOUS
<1> QED
  BY <1>3, <1>4

\* A walk shows every row that was no cursor, once, for any number of rows and any limit.
THEOREM WalkSafe ==
  ASSUME NEW rows \in Nat, NEW limit \in Nat
  PROVE  OnlyCursorsAreSkipped(rows, limit)
<1> DEFINE w == CHOOSE walk : walk = [c \in 1..(rows + 1) |->
                  LET next == NextCursor(c, limit) IN
                  IF next = 0 THEN [times |-> Shown(rows, c, limit, NoTimes(rows)), cursors |-> {}]
                  ELSE [times   |-> Shown(rows, c, limit, walk[next].times),
                        cursors |-> {next} \cup walk[next].cursors]]
<1>1. Walk(rows, limit) = w[rows + 1]
  BY DEF Walk
<1>2. \E v : v = [c \in 1..(rows + 1) |->
                  LET next == NextCursor(c, limit) IN
                  IF next = 0 THEN [times |-> Shown(rows, c, limit, NoTimes(rows)), cursors |-> {}]
                  ELSE [times   |-> Shown(rows, c, limit, v[next].times),
                        cursors |-> {next} \cup v[next].cursors]]
  <2>1. rows + 1 \in Nat
    OBVIOUS
  <2>2. \E v : IsWalk(v, rows + 1, rows, limit)
    BY <2>1, WalkExists
  <2> QED
    BY <2>2 DEF IsWalk, Page
<1>3. IsWalk(w, rows + 1, rows, limit)
  BY <1>2 DEF IsWalk, Page
<1> HIDE DEF w
<1>4. \A row \in 1..rows :
        w[rows + 1].times[row] = IF row < rows + 1 /\ row \notin w[rows + 1].cursors THEN 1 ELSE 0
  <2>1. rows + 1 \in 0..(rows + 1) /\ rows + 1 \in 1..(rows + 1)
    OBVIOUS
  <2> QED
    BY <1>3, <2>1, WalkSkips
<1>5. \A row \in 1..rows : row < rows + 1
  OBVIOUS
<1> QED
  BY <1>1, <1>4, <1>5 DEF OnlyCursorsAreSkipped

-----------------------------------------------------------------------------
(* What a request may do.                                                  *)

\* An admitted request acts for the tenant of its token, whatever its query and its body
\* name: the header passes two guards, and each leaves a case to the other.
THEOREM OwnTenantSafe == \A q \in Inbound : ActsForOwnTenant(q)
<1> SUFFICES ASSUME NEW q \in Inbound, Admitted(q), TakesTenant(q.route)
             PROVE  /\ HandlerTenant(q) = q.token.tenant
                    /\ HandlerTenant(q) \in Tenants
  BY DEF ActsForOwnTenant
<1>1. q.route \notin Public
  BY DEF TakesTenant
<1>2. ~TenantOptional(q.route)
  BY <1>1 DEF TenantOptional, Public, PublicOps, PublicAuth
<1>3. q.header # Nobody /\ q.header \in Tenants
  BY <1>2 DEF Admitted, TenantPresent, Inbound, Somebody
<1>4. q.header = q.token.tenant
  BY <1>1, <1>3 DEF Admitted, Authenticated, Valid
<1> QED
  BY <1>3, <1>4 DEF HandlerTenant

\* The routes without a token are those that are meant to be, and no others.
THEOREM PublicSafe == \A q \in Inbound : PublicIsOpen(q)
<1> SUFFICES ASSUME NEW q \in Inbound, q.token = Nobody, q.header = Nobody
             PROVE  Admitted(q) <=> q.route \in Public
  BY DEF PublicIsOpen
<1>1. ASSUME q.route \in Public PROVE Admitted(q)
  <2>1. TenantOptional(q.route)
    BY <1>1 DEF TenantOptional, Public, PublicOps, PublicAuth
  <2>2. Required(q.route) = {}
    BY <1>1 DEF Required, Public, PublicOps, PublicAuth, SuperRoutes, AnalyticsRoutes, InviteRoutes,
                TeacherRoutes, CourseRoutes, UnenrollRoutes, LearnerRoutes
  <2> QED
    BY <1>1, <2>1, <2>2 DEF Admitted, TenantPresent, Authenticated, RoleAllowed, InScope
<1>2. ASSUME Admitted(q) PROVE q.route \in Public
  BY <1>2 DEF Admitted, Authenticated, Valid
<1> QED
  BY <1>1, <1>2

\* A learner's token opens no route of the staff.
THEOREM LearnerSafe == \A q \in Inbound : LearnersConfined(q)
<1> SUFFICES ASSUME NEW q \in Inbound, Admitted(q), q.route \notin Public,
                    q.token.role = "LEARNER"
             PROVE  q.route \in LearnerRoutes \cup SessionRoutes \cup EchoRoutes
  BY DEF LearnersConfined
<1>1. Required(q.route) = {} \/ "LEARNER" \in Required(q.route)
  BY DEF Admitted, RoleAllowed
<1>2. "LEARNER" \notin Admins /\ "LEARNER" \notin Teachers /\ "LEARNER" \notin {"SUPER_ADMIN"}
  BY DEF Admins, Teachers
<1>3. q.route \in SuperRoutes \cup AnalyticsRoutes \cup InviteRoutes \cup TeacherRoutes =>
        Required(q.route) \in {{"SUPER_ADMIN"}, Admins, Teachers}
  <2>1. q.route \in SuperRoutes =>
          q.route \notin AnalyticsRoutes \cup InviteRoutes \cup TeacherRoutes \cup LearnerRoutes
    BY DEF SuperRoutes, AnalyticsRoutes, InviteRoutes, TeacherRoutes, CourseRoutes, UnenrollRoutes,
           LearnerRoutes
  <2>2. q.route \in AnalyticsRoutes \cup InviteRoutes =>
          q.route \notin TeacherRoutes \cup LearnerRoutes
    BY DEF AnalyticsRoutes, InviteRoutes, TeacherRoutes, CourseRoutes, UnenrollRoutes, LearnerRoutes
  <2>3. q.route \in TeacherRoutes => q.route \notin LearnerRoutes
    BY DEF TeacherRoutes, CourseRoutes, UnenrollRoutes, LearnerRoutes
  <2> QED
    BY <2>1, <2>2, <2>3, Zenon DEF Required
<1>4. {"SUPER_ADMIN"} # {} /\ Admins # {} /\ Teachers # {}
  BY DEF Admins, Teachers
<1>5. q.route \notin SuperRoutes \cup AnalyticsRoutes \cup InviteRoutes \cup TeacherRoutes
  BY <1>1, <1>2, <1>3, <1>4
<1>6. q.route \in Routes
  BY DEF Inbound
<1> QED
  BY <1>5, <1>6 DEF Routes

-----------------------------------------------------------------------------
(* The invariants of the run: the input stays what it was at first.        *)

LEMMA SeatCountsAgree ==
  ASSUME NEW seat, seat.active \in Nat, NEW now \in Nat, NEW window \in Nat
  PROVE  SeatDefinitionsAgree(seat, now, window)
<1>1. now - seat.active <= window <=> seat.active >= now - window
  OBVIOUS
<1> QED
  BY <1>1 DEF SeatDefinitionsAgree, Counted, IsActiveLearnerSeat

LEMMA InputCases ==
  ASSUME NEW i \in Inputs \cup {NoInput}
  PROVE  /\ i.kind = "request" => i.request \in Inbound
         /\ i.kind = "items"   => i.catalog \in Catalogs /\ i.lines \in Lines
         /\ i.kind = "seat"    => i.seat.active \in Nat /\ i.now \in Nat /\ i.window \in Nat
         /\ i.kind = "listing" => i.rows \in Nat /\ i.limit \in Nat
<1>1. CASE i \in [kind : {"request"}, request : Inbound]
  BY <1>1
<1>2. CASE i \in [kind : {"items"}, catalog : Catalogs, lines : Lines]
  BY <1>2
<1>3. CASE i \in [kind : {"seat"}, seat : Seat, now : 0..MaxTime, window : 0..MaxWindow]
  BY <1>3, TimesAssumption DEF Seat
<1>4. CASE i \in [kind : {"listing"}, rows : 0..MaxRows, limit : 0..MaxLimit]
  BY <1>4, ListingsAssumption
<1>5. CASE i = NoInput
  BY <1>5 DEF NoInput
<1> QED
  BY <1>1, <1>2, <1>3, <1>4, <1>5 DEF Inputs

LEMMA InputStays == MCSpec => [](input \in Inputs \cup {NoInput})
<1> DEFINE I == input \in Inputs \cup {NoInput}
<1>1. MCInit => I
  BY DEF MCInit
<1>2. I /\ [MCNext]_<<vars, input>> => I'
  BY DEF MCNext
<1> QED
  BY <1>1, <1>2, PTL DEF MCSpec

\* For any set of tenants, an admitted request acts for the tenant of its token
\* (tenant.middleware.ts, auth/index.ts).
THEOREM TenantSafe == MCSpec => []RequestsActForOwnTenant
<1>1. input \in Inputs \cup {NoInput} => RequestsActForOwnTenant
  BY InputCases, OwnTenantSafe DEF RequestsActForOwnTenant
<1> QED
  BY <1>1, InputStays, PTL

\* For any set of tenants, the routes are open to whom they are meant for.
THEOREM RoutesSafe == MCSpec => []RoutesOpenAsMeant
<1>1. input \in Inputs \cup {NoInput} => RoutesOpenAsMeant
  BY InputCases, PublicSafe, LearnerSafe DEF RoutesOpenAsMeant
<1> QED
  BY <1>1, InputStays, PTL

\* For any prices and any items in any order, a subscription is resolved as the
\* catalog says.
THEOREM CatalogSafe == MCSpec => []CatalogHonoured
<1>1. input \in Inputs \cup {NoInput} => CatalogHonoured
  BY InputCases, HighestSafe, SeatsOfTierSafe, BoughtSafe DEF CatalogHonoured
<1> QED
  BY <1>1, InputStays, PTL

\* The two definitions of an active seat agree, whatever bounds time and window.
THEOREM SeatsAgreeSafe == MCSpec => []SeatsAgree
<1>1. input \in Inputs \cup {NoInput} => SeatsAgree
  BY InputCases, SeatCountsAgree DEF SeatsAgree
<1> QED
  BY <1>1, InputStays, PTL

\* For any number of rows and any limit, a listing skips its cursors only, and shows
\* nothing twice.
THEOREM ListingsSafe == MCSpec => []ListingsSkipOnlyCursors
<1>1. input \in Inputs \cup {NoInput} => ListingsSkipOnlyCursors
  BY InputCases, WalkSafe DEF ListingsSkipOnlyCursors
<1> QED
  BY <1>1, InputStays, PTL

=============================================================================
