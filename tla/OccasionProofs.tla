--------------------------- MODULE OccasionProofs ---------------------------
(***************************************************************************)
(* Proofs about Schedule's operators, and about Occasion, for any days,    *)
(* leads, actions the user touches, corrected dates, and bounds.           *)
(***************************************************************************)
EXTENDS Occasion, FiniteSetTheorems, SequenceTheorems, TLAPS

-----------------------------------------------------------------------------
(* Induction: a set of numbers has a least one.                            *)

Less == {ss \in Nat \X Nat : ss[1] < ss[2]}

\* A set of numbers has a least.
LEMMA LeastNumber ==
  ASSUME NEW T \in SUBSET Nat, T # {}
  PROVE \E m \in T : \A n \in T : m <= n
<1>1. IsWellFoundedOn(Less, Nat)
  BY NatLessThanWellFounded DEF OpToRel, Less
<1>2. PICK m \in T : \A n \in T : <<n, m>> \notin Less
  BY <1>1, WFMin
<1>3. \A n \in T : ~(n < m)
  BY <1>2 DEF Less
<1> QED
  BY <1>3

\* What holds of 0 and of the successor of what it holds of holds of all.
LEMMA Induct ==
  ASSUME NEW S, 0 \in S, \A n \in Nat : n \in S => n + 1 \in S
  PROVE Nat \subseteq S
<1> SUFFICES ASSUME Nat \ S # {} PROVE FALSE
  OBVIOUS
<1>1. PICK m \in Nat \ S : \A n \in Nat \ S : m <= n
  BY LeastNumber
<1>2. m - 1 \in Nat
  BY <1>1
<1> QED
  BY <1>1, <1>2

\* A finite set of integers has a greatest.
LEMMA Greatest ==
  ASSUME NEW T \in SUBSET Int, IsFiniteSet(T), T # {}
  PROVE Max(T) \in T /\ \A x \in T : Max(T) >= x
<1> DEFINE Tops(U) == \E m \in U : \A x \in U : m >= x
           S == {n \in Nat : \A U \in SUBSET Int :
                    IsFiniteSet(U) /\ Cardinality(U) = n /\ U # {} => Tops(U)}
<1>1. 0 \in S
  BY FS_EmptySet
<1>2. ASSUME NEW n \in Nat, n \in S PROVE n + 1 \in S
  <2> SUFFICES ASSUME NEW U \in SUBSET Int, IsFiniteSet(U), Cardinality(U) = n + 1, U # {}
               PROVE Tops(U)
    OBVIOUS
  <2>1. PICK u \in U : TRUE
    OBVIOUS
  <2>2. IsFiniteSet(U \ {u}) /\ Cardinality(U \ {u}) = n
    <3>1. IsFiniteSet(U \ {u}) /\ Cardinality(U \ {u}) = Cardinality(U) - 1
      BY FS_RemoveElement
    <3> QED
      BY <3>1
  <2>3. CASE U \ {u} = {}
    BY <2>3
  <2>4. CASE U \ {u} # {}
    <3>1. PICK m \in U \ {u} : \A x \in U \ {u} : m >= x
      BY <1>2, <2>2, <2>4
    <3>2. CASE m >= u
      BY <3>1, <3>2
    <3>3. CASE ~(m >= u)
      <4>1. \A x \in U : u >= x
        BY <3>1, <3>3
      <4> QED
        BY <4>1
    <3> QED
      BY <3>2, <3>3
  <2> QED
    BY <2>3, <2>4
<1>3. Nat \subseteq S
  <2> HIDE DEF S
  <2> QED
    BY <1>1, <1>2, Induct
<1>4. Tops(T)
  BY <1>3, FS_CardinalityType
<1> QED
  BY <1>4 DEF Max

\* Max and Min of two.
LEMMA GreaterOfTwo ==
  ASSUME NEW a \in Int, NEW b \in Int
  PROVE Max({a, b}) = IF a >= b THEN a ELSE b
<1>1. IsFiniteSet({a, b})
  <2>1. IsFiniteSet({a} \cup {b})
    BY FS_Singleton, FS_AddElement
  <2>2. {a} \cup {b} = {a, b}
    OBVIOUS
  <2> QED
    BY <2>1, <2>2
<1>2. Max({a, b}) \in {a, b} /\ \A x \in {a, b} : Max({a, b}) >= x
  BY <1>1, Greatest
<1> QED
  BY <1>2

LEMMA LesserOfTwo ==
  ASSUME NEW a \in Int, NEW b \in Int
  PROVE Min({a, b}) = IF a <= b THEN a ELSE b
<1>1. \E x \in {a, b} : \A y \in {a, b} : x =< y
  OBVIOUS
<1>2. Min({a, b}) \in {a, b} /\ \A y \in {a, b} : Min({a, b}) =< y
  BY <1>1 DEF Min
<1> QED
  BY <1>2

-----------------------------------------------------------------------------
(* The registry.                                                           *)

\* The registry.
LEMMA ActionsAre ==
  Action = {"wish", "get:gift", "get:card", "send:card", "send:gift",
            "give:card", "give:gift", "visit:resting-place", "remember",
            "arrange:party", "arrange:meal", "other", "plan"}
BY DEF Action, Actions, Range

\* No two actions are listed at one place.
LEMMA ListedApart ==
  /\ \A a \in Action : Listed(a) \in Int
  /\ \A a, b \in Action : Listed(a) = Listed(b) => a = b
<1>1. DOMAIN Actions \subseteq Int
  BY DEF Actions
<1>2. \A a \in Action : \E i \in DOMAIN Actions : Actions[i] = a
  BY DEF Action, Range
<1>3. \A a \in Action : Listed(a) \in DOMAIN Actions /\ Actions[Listed(a)] = a
  BY <1>2 DEF Listed
<1> QED
  BY <1>1, <1>3

LEMMA RunUpType == \A a \in Action : RunUp(a) \in Nat
BY DEF RunUp

\* How late an errand can be done is no further ahead than it is due; further
\* than a day only for a party.
LEMMA LatestIs ==
  ASSUME NEW a, NEW lead \in Nat
  PROVE /\ Latest(a, lead) \in Nat /\ Latest(a, lead) <= lead
        /\ a # "arrange:party" /\ Latest(a, lead) # lead => Latest(a, lead) = 1
        /\ a \notin {"get:gift", "get:card", "arrange:meal", "arrange:party"}
           => Latest(a, lead) = lead
BY LesserOfTwo DEF Latest

\* A deadline slides between the lead and the latest, and only when chosen late.
LEMMA SlidIs ==
  ASSUME NEW a, NEW lead \in Nat, NEW learned \in Int
  PROVE /\ Slid(a, lead, learned) \in Nat
        /\ Latest(a, lead) <= Slid(a, lead, learned)
        /\ Slid(a, lead, learned) <= lead
        /\ Slid(a, lead, learned) \in {lead, Latest(a, lead)}
        /\ Slid(a, lead, learned) # lead => learned >= 0 /\ learned - lead < OfferNotice
BY LatestIs DEF Slid, OfferNotice

-----------------------------------------------------------------------------
(* A schedule's rules, furthest first.                                     *)

\* At most one rule to an action.
OnePer(rules) ==
    /\ rules \subseteq Rules
    /\ \A r, s \in rules : r.action = s.action => r = s

LEMMA ActionsFinite == IsFiniteSet(Action)
<1>1. Actions \in Surjection(1 .. 13, Action)
  BY DEF Actions, Action, Range, Surjection
<1> QED
  BY <1>1, FS_NatSurjection DEF ExistsSurjection

\* A schedule is finite.
LEMMA RulesFinite ==
  ASSUME NEW rules, OnePer(rules)
  PROVE IsFiniteSet(rules)
<1>1. [r \in rules |-> r.action] \in Injection(rules, Action)
  BY DEF OnePer, Rules, Injection, IsInjective
<1> QED
  BY <1>1, ActionsFinite, FS_Injection

\* Of two rules one comes before the other.
LEMMA BeforeOrders ==
  ASSUME NEW rules, OnePer(rules)
  PROVE /\ \A r \in rules : ~Before(r, r)
        /\ \A r, s \in rules : r # s => Before(r, s) \/ Before(s, r)
        /\ \A r, s \in rules : ~(Before(r, s) /\ Before(s, r))
        /\ \A r, s, t \in rules : Before(r, s) /\ Before(s, t) => Before(r, t)
<1>1. \A r \in rules : r.lead \in Nat /\ r.action \in Action /\ Listed(r.action) \in Int
  BY ListedApart DEF OnePer, Rules
<1>2. \A r, s \in rules : r # s => Listed(r.action) # Listed(s.action)
  BY ListedApart, <1>1 DEF OnePer
<1>3. \A r, s \in rules : r # s => Before(r, s) \/ Before(s, r)
  BY <1>1, <1>2 DEF Before
<1>4. /\ \A r \in rules : ~Before(r, r)
      /\ \A r, s \in rules : ~(Before(r, s) /\ Before(s, r))
  BY <1>1 DEF Before
<1>5. \A r, s, t \in rules : Before(r, s) /\ Before(s, t) => Before(r, t)
  BY <1>1 DEF Before
<1> QED
  BY <1>3, <1>4, <1>5

\* How many come before a rule.
Place(rules, r) == Cardinality({s \in rules : Before(s, r)})

\* Each rule has a place of its own, and Before agrees with the places.
LEMMA PlaceIs ==
  ASSUME NEW rules, OnePer(rules)
  PROVE /\ Cardinality(rules) \in Nat
        /\ \A r \in rules : Place(rules, r) \in 0 .. Cardinality(rules) - 1
        /\ \A r, s \in rules : Before(r, s) => Place(rules, r) < Place(rules, s)
        /\ \A r, s \in rules : Place(rules, r) = Place(rules, s) => r = s
<1> DEFINE Ahead(r) == {q \in rules : Before(q, r)}
<1>1. IsFiniteSet(rules) /\ Cardinality(rules) \in Nat
  BY RulesFinite, FS_CardinalityType
<1>2. ASSUME NEW r \in rules
      PROVE /\ IsFiniteSet(Ahead(r)) /\ Cardinality(Ahead(r)) \in Nat
            /\ Cardinality(Ahead(r)) < Cardinality(rules)
  <2>1. Ahead(r) \in SUBSET rules /\ Ahead(r) # rules
    BY BeforeOrders
  <2> HIDE DEF Ahead
  <2>2. /\ IsFiniteSet(Ahead(r)) /\ Cardinality(Ahead(r)) <= Cardinality(rules)
        /\ Cardinality(rules) # Cardinality(Ahead(r))
    BY <1>1, <2>1, FS_Subset
  <2>3. Cardinality(Ahead(r)) \in Nat
    BY <2>2, FS_CardinalityType
  <2> QED
    BY <1>1, <2>2, <2>3
<1>3. ASSUME NEW r \in rules, NEW s \in rules, Before(r, s)
      PROVE Cardinality(Ahead(r)) < Cardinality(Ahead(s))
  <2>1. Ahead(r) \in SUBSET Ahead(s) /\ Ahead(r) # Ahead(s)
    BY <1>3, BeforeOrders
  <2> HIDE DEF Ahead
  <2>2. Cardinality(Ahead(r)) <= Cardinality(Ahead(s))
        /\ Cardinality(Ahead(s)) # Cardinality(Ahead(r))
    BY <1>2, <2>1, FS_Subset
  <2> QED
    BY <1>2, <2>2
<1>4. \A r \in rules : Place(rules, r) = Cardinality(Ahead(r))
  BY DEF Place
<1> HIDE DEF Ahead
<1>5. \A r \in rules : Place(rules, r) \in 0 .. Cardinality(rules) - 1
  BY <1>1, <1>2, <1>4
<1>6. \A r, s \in rules : Before(r, s) => Place(rules, r) < Place(rules, s)
  BY <1>3, <1>4
<1>7. \A r, s \in rules : Place(rules, r) = Place(rules, s) => r = s
  BY <1>5, <1>6, BeforeOrders
<1> QED
  BY <1>1, <1>5, <1>6, <1>7

\* furthestFirst lists every rule, each before the ones it comes before.
LEMMA FurthestFirstOrders ==
  ASSUME NEW rules, OnePer(rules)
  PROVE /\ Cardinality(rules) \in Nat
        /\ FurthestFirst(rules) \in [1 .. Cardinality(rules) -> rules]
        /\ \A r \in rules : \E i \in 1 .. Cardinality(rules) : FurthestFirst(rules)[i] = r
        /\ \A i, j \in 1 .. Cardinality(rules) :
              i < j => Before(FurthestFirst(rules)[i], FurthestFirst(rules)[j])
<1> DEFINE n == Cardinality(rules)
           place == [r \in rules |-> Place(rules, r)]
<1>1. n \in Nat /\ IsFiniteSet(rules)
  BY PlaceIs, RulesFinite
<1>2. place \in Injection(rules, 0 .. n - 1)
  BY PlaceIs DEF Injection, IsInjective
<1>3. IsFiniteSet(0 .. n - 1) /\ Cardinality(0 .. n - 1) = n
  BY <1>1, FS_Interval
<1>4. place \in Surjection(rules, 0 .. n - 1)
  <2> HIDE DEF place
  <2> QED
    BY <1>2, <1>3, FS_Injection
<1>5. \A k \in 0 .. n - 1 : \E r \in rules : Place(rules, r) = k
  BY <1>4 DEF Surjection
<1>6. \A i \in 1 .. n : i - 1 \in 0 .. n - 1
  BY <1>1
<1>7. ASSUME NEW i \in 1 .. n
      PROVE FurthestFirst(rules)[i] \in rules /\ Place(rules, FurthestFirst(rules)[i]) = i - 1
  BY <1>5, <1>6 DEF FurthestFirst, Place
<1>8. FurthestFirst(rules) \in [1 .. n -> rules]
  BY <1>7 DEF FurthestFirst
<1>9. ASSUME NEW r \in rules PROVE \E i \in 1 .. n : FurthestFirst(rules)[i] = r
  <2>1. Place(rules, r) + 1 \in 1 .. n
    BY <1>1, PlaceIs
  <2> QED
    BY <2>1, <1>7, PlaceIs
<1>10. ASSUME NEW i \in 1 .. n, NEW j \in 1 .. n, i < j
       PROVE Before(FurthestFirst(rules)[i], FurthestFirst(rules)[j])
  <2> DEFINE r == FurthestFirst(rules)[i]
             s == FurthestFirst(rules)[j]
  <2>1. r \in rules /\ s \in rules /\ Place(rules, r) < Place(rules, s)
    BY <1>7, <1>10
  <2> HIDE DEF r, s
  <2>2. Before(r, s)
    BY <2>1, PlaceIs, BeforeOrders
  <2> QED
    BY <2>2 DEF r, s
<1> QED
  BY <1>1, <1>8, <1>9, <1>10

-----------------------------------------------------------------------------
(* The walk back from the last deadline.                                   *)

\* A walk back from 0: at each step lo, or hi where lo is below the last.
WalkBack(f, lo, hi, n, i) ==
    f[i] = IF i > n THEN 0 ELSE IF lo[i] < f[i + 1] THEN hi[i] ELSE lo[i]

\* Such a walk exists.
LEMMA WalkExists ==
  ASSUME NEW n \in Nat, NEW lo \in [1 .. n -> Nat], NEW hi \in [1 .. n -> Nat]
  PROVE \E f \in [1 .. n + 1 -> Nat] : \A i \in 1 .. n + 1 : WalkBack(f, lo, hi, n, i)
<1> DEFINE From(m) == (n + 1 - m) .. (n + 1)
           S == {m \in Nat : m <= n => \E f \in [From(m) -> Nat] :
                                       \A i \in From(m) : WalkBack(f, lo, hi, n, i)}
<1>1. 0 \in S
  <2>1. [i \in From(0) |-> 0] \in [From(0) -> Nat]
    OBVIOUS
  <2>2. \A i \in From(0) : WalkBack([j \in From(0) |-> 0], lo, hi, n, i)
    BY DEF WalkBack
  <2> QED
    BY <2>1, <2>2
<1>2. ASSUME NEW m \in Nat, m \in S PROVE m + 1 \in S
  <2> SUFFICES ASSUME m + 1 <= n
               PROVE \E f \in [From(m + 1) -> Nat] :
                        \A i \in From(m + 1) : WalkBack(f, lo, hi, n, i)
    OBVIOUS
  <2>1. PICK f \in [From(m) -> Nat] : \A i \in From(m) : WalkBack(f, lo, hi, n, i)
    <3>1. m <= n
      OBVIOUS
    <3> HIDE DEF From
    <3> QED
      BY <1>2, <3>1
  <2> DEFINE k == n - m
             v == IF lo[k] < f[k + 1] THEN hi[k] ELSE lo[k]
             g == [i \in From(m + 1) |-> IF i = k THEN v ELSE f[i]]
  <2>2. k \in 1 .. n /\ From(m + 1) = From(m) \cup {k} /\ k \notin From(m)
        /\ k + 1 \in From(m)
    OBVIOUS
  <2>3. v \in Nat
    BY <2>2
  <2>4. g \in [From(m + 1) -> Nat]
    BY <2>2, <2>3
  <2>5. g[k] = v /\ g[k + 1] = f[k + 1] /\ \A i \in From(m) : g[i] = f[i]
    BY <2>2
  <2>6. \A i \in From(m) : i + 1 \in From(m) \/ i > n
    OBVIOUS
  <2>7. ASSUME NEW i \in From(m) PROVE WalkBack(g, lo, hi, n, i)
    <3> HIDE DEF g, v, k
    <3>1. CASE i > n
      BY <3>1, <2>1, <2>5 DEF WalkBack
    <3>2. CASE ~(i > n)
      <4>1. i + 1 \in From(m)
        BY <2>6, <3>2
      <4> HIDE DEF From
      <4> QED
        BY <4>1, <2>1, <2>5 DEF WalkBack
    <3> QED
      BY <3>1, <3>2
  <2>8. WalkBack(g, lo, hi, n, k)
    <3>1. ~(k > n)
      BY <2>2
    <3> HIDE DEF g, k
    <3> QED
      BY <3>1, <2>5 DEF WalkBack
  <2> HIDE DEF g
  <2> QED
    BY <2>2, <2>4, <2>7, <2>8
<1>3. Nat \subseteq S
  <2> HIDE DEF S
  <2> QED
    BY <1>1, <1>2, Induct
<1>4. n \in S
  BY <1>3
<1>5. From(n) = 1 .. n + 1
  OBVIOUS
<1> QED
  BY <1>4, <1>5

\* Where a rule slides to.
SlidOf(r, learned) == Slid(r.action, r.lead, learned)

\* F is the walk's floor.
Floored(F, timed, learned, n) ==
    /\ DOMAIN timed = 1 .. n
    /\ F \in [1 .. n + 1 -> Nat]
    /\ F[n + 1] = 0
    /\ \A i \in 1 .. n :
          F[i] = IF SlidOf(timed[i], learned) < F[i + 1]
                 THEN timed[i].lead ELSE SlidOf(timed[i], learned)

\* Floors computes it.
LEMMA FloorsWalk ==
  ASSUME NEW rules, OnePer(rules), NEW n \in Nat, NEW timed \in [1 .. n -> rules],
         NEW learned \in Int
  PROVE Floored(Floors(timed, learned), timed, learned, n)
<1> DEFINE lo == [i \in 1 .. n |-> Slid(timed[i].action, timed[i].lead, learned)]
           hi == [i \in 1 .. n |-> timed[i].lead]
           F == Floors(timed, learned)
<1>1. Len(timed) = n /\ DOMAIN timed = 1 .. n
  <2>1. timed \in Seq(rules)
    BY SeqDef
  <2>2. Len(timed) \in Nat /\ DOMAIN timed = 1 .. Len(timed)
    BY <2>1, LenProperties
  <2>3. DOMAIN timed = 1 .. n
    OBVIOUS
  <2> QED
    BY <2>2, <2>3
<1>2. \A i \in 1 .. n : timed[i].lead \in Nat
  BY DEF OnePer, Rules
<1>3. \A i \in 1 .. n : Slid(timed[i].action, timed[i].lead, learned) \in Nat
  BY <1>2, SlidIs
<1>4. hi \in [1 .. n -> Nat] /\ lo \in [1 .. n -> Nat]
  BY <1>2, <1>3
<1>5. PICK f \in [1 .. n + 1 -> Nat] : \A i \in 1 .. n + 1 : WalkBack(f, lo, hi, n, i)
  <2> HIDE DEF lo, hi
  <2> QED
    BY <1>4, WalkExists
<1>6. f = [i \in 1 .. Len(timed) + 1 |->
              IF i > Len(timed) THEN 0
              ELSE IF Slid(timed[i].action, timed[i].lead, learned) < f[i + 1]
                   THEN timed[i].lead
                   ELSE Slid(timed[i].action, timed[i].lead, learned)]
  <2>1. \A i \in 1 .. n + 1 : f[i] = IF i > n THEN 0
              ELSE IF Slid(timed[i].action, timed[i].lead, learned) < f[i + 1]
                   THEN timed[i].lead
                   ELSE Slid(timed[i].action, timed[i].lead, learned)
    <3> SUFFICES ASSUME NEW i \in 1 .. n + 1
                 PROVE f[i] = IF i > n THEN 0
                              ELSE IF Slid(timed[i].action, timed[i].lead, learned) < f[i + 1]
                                   THEN timed[i].lead
                                   ELSE Slid(timed[i].action, timed[i].lead, learned)
      OBVIOUS
    <3>1. CASE i > n
      BY <1>5, <3>1 DEF WalkBack
    <3>2. CASE ~(i > n)
      <4>1. i \in 1 .. n
        BY <3>2
      <4>2. lo[i] = Slid(timed[i].action, timed[i].lead, learned) /\ hi[i] = timed[i].lead
        BY <4>1
      <4> HIDE DEF lo, hi
      <4> QED
        BY <1>5, <3>2, <4>2 DEF WalkBack
    <3> QED
      BY <3>1, <3>2
  <2> QED
    BY <1>1, <2>1
<1>7. F = [i \in 1 .. Len(timed) + 1 |->
              IF i > Len(timed) THEN 0
              ELSE IF Slid(timed[i].action, timed[i].lead, learned) < F[i + 1]
                   THEN timed[i].lead
                   ELSE Slid(timed[i].action, timed[i].lead, learned)]
  BY <1>6 DEF Floors
<1> HIDE DEF F
<1>8. \A i \in 1 .. n + 1 : WalkBack(F, lo, hi, n, i)
  BY <1>1, <1>7 DEF WalkBack
<1>9. /\ F[n + 1] = 0
      /\ \A i \in 1 .. n :
            F[i] = IF lo[i] < F[i + 1] THEN hi[i] ELSE lo[i]
  <2>1. /\ n + 1 \in 1 .. n + 1 /\ n + 1 > n
        /\ \A i \in 1 .. n : i \in 1 .. n + 1 /\ ~(i > n)
    OBVIOUS
  <2> HIDE DEF lo, hi
  <2> QED
    BY <1>8, <2>1 DEF WalkBack
<1>10. F \in [1 .. n + 1 -> Nat]
  <2>1. DOMAIN F = 1 .. n + 1 /\ F = [i \in 1 .. n + 1 |-> F[i]]
    BY <1>1, <1>7
  <2>2. \A i \in 1 .. n + 1 : F[i] \in Nat
    <3>1. \A i \in 1 .. n : F[i] \in Nat
      <4> HIDE DEF hi, lo
      <4> QED
        BY <1>4, <1>9
    <3> QED
      BY <1>9, <3>1
  <2> QED
    BY <2>1, <2>2
<1> QED
  BY <1>1, <1>9, <1>10 DEF F, SlidOf, Floored

\* Going back no deadline is nearer than one after it.
LEMMA FloorsFall ==
  ASSUME NEW rules, OnePer(rules), NEW n \in Nat, NEW timed \in [1 .. n -> rules],
         NEW learned \in Int,
         \A i, j \in 1 .. n : i < j => Before(timed[i], timed[j])
  PROVE \A i, j \in 1 .. n + 1 :
            i <= j => Floors(timed, learned)[i] >= Floors(timed, learned)[j]
<1> DEFINE F == Floors(timed, learned)
           lo(i) == SlidOf(timed[i], learned)
<1>1. /\ F \in [1 .. n + 1 -> Nat] /\ F[n + 1] = 0
      /\ \A i \in 1 .. n : F[i] = IF lo(i) < F[i + 1] THEN timed[i].lead ELSE lo(i)
  <2>1. Floored(F, timed, learned, n)
    BY FloorsWalk
  <2> QED
    BY <2>1 DEF Floored
<1>2. \A i \in 1 .. n : /\ timed[i].lead \in Nat /\ lo(i) \in Nat
                        /\ lo(i) <= timed[i].lead
  <2>1. \A i \in 1 .. n : timed[i].lead \in Nat
    BY DEF OnePer, Rules
  <2> QED
    BY <2>1, SlidIs DEF SlidOf
<1>3. ASSUME NEW i \in 1 .. n, NEW j \in 1 .. n, i < j
      PROVE timed[i].lead >= timed[j].lead
  <2>1. Before(timed[i], timed[j]) /\ timed[i].lead \in Nat /\ timed[j].lead \in Nat
    BY <1>2, <1>3
  <2> QED
    BY <2>1 DEF Before
<1> HIDE DEF F, lo
<1>4. \A i \in 1 .. n : F[i] \in Nat /\ F[i] <= timed[i].lead /\ F[i + 1] \in Nat
  BY <1>1, <1>2
<1>5. ASSUME NEW i \in 1 .. n PROVE F[i] >= F[i + 1]
  <2>1. CASE i = n
    <3>1. F[i + 1] = 0
      BY <1>1, <2>1
    <3> QED
      BY <1>4, <3>1
  <2>2. CASE i # n
    <3>1. i + 1 \in 1 .. n /\ i < i + 1
      BY <2>2
    <3>2. F[i + 1] <= timed[i].lead
      <4>1. timed[i].lead >= timed[i + 1].lead
        BY <1>3, <3>1
      <4>2. F[i + 1] <= timed[i + 1].lead /\ F[i + 1] \in Nat
        BY <1>4, <3>1
      <4> QED
        BY <1>2, <3>1, <4>1, <4>2
    <3> QED
      BY <1>1, <1>2, <1>4, <3>2
  <2> QED
    BY <2>1, <2>2
<1> DEFINE S == {d \in Nat : \A i \in 1 .. n + 1 : i + d <= n + 1 => F[i] >= F[i + d]}
<1>6. 0 \in S
  BY <1>1
<1>7. ASSUME NEW d \in Nat, d \in S PROVE d + 1 \in S
  <2> SUFFICES ASSUME NEW i \in 1 .. n + 1, i + (d + 1) <= n + 1
               PROVE F[i] >= F[i + (d + 1)]
    OBVIOUS
  <2>1. i + d \in 1 .. n /\ i + (d + 1) = (i + d) + 1 /\ i + d <= n + 1
    OBVIOUS
  <2>2. F[i] >= F[i + d]
    BY <1>7, <2>1
  <2>3. F[i + d] >= F[(i + d) + 1]
    BY <1>5, <2>1
  <2>4. F[i] \in Nat /\ F[i + d] \in Nat /\ F[(i + d) + 1] \in Nat
    BY <1>1, <2>1
  <2> QED
    BY <2>1, <2>2, <2>3, <2>4
<1>8. Nat \subseteq S
  <2> HIDE DEF S
  <2> QED
    BY <1>6, <1>7, Induct
<1>9. ASSUME NEW i \in 1 .. n + 1, NEW j \in 1 .. n + 1, i <= j PROVE F[i] >= F[j]
  <2>1. j - i \in Nat /\ i + (j - i) = j /\ i + (j - i) <= n + 1
    BY <1>9
  <2>2. j - i \in S
    BY <1>8, <2>1
  <2> QED
    BY <2>1, <2>2
<1> QED
  BY <1>9 DEF F

\* D is the deadline of each rule: where it slides to, unless that is past one that
\* is to follow it, and then its lead.
Walked(D, rules, learned) ==
    /\ D \in [rules -> Nat]
    /\ Deadlines(rules, learned) = {[action |-> r.action, due |-> D[r]] : r \in rules}
    /\ \A r \in rules :
          D[r] = IF \E q \in rules : Before(r, q) /\ D[q] > SlidOf(r, learned)
                 THEN r.lead ELSE SlidOf(r, learned)
    /\ \A r, q \in rules : Before(r, q) => D[r] >= D[q]

\* Deadlines computes them: effectiveOffsets, without the walk.
LEMMA DeadlinesWalk ==
  ASSUME NEW rules, OnePer(rules), NEW learned \in Int
  PROVE \E D : Walked(D, rules, learned)
<1> DEFINE n == Cardinality(rules)
           timed == FurthestFirst(rules)
           F == Floors(timed, learned)
           lo(i) == SlidOf(timed[i], learned)
<1>1. /\ n \in Nat /\ timed \in [1 .. n -> rules]
      /\ \A r \in rules : \E i \in 1 .. n : timed[i] = r
      /\ \A i, j \in 1 .. n : i < j => Before(timed[i], timed[j])
  BY FurthestFirstOrders
<1>2. Deadlines(rules, learned) =
        {[action |-> timed[i].action, due |-> F[i]] : i \in DOMAIN timed}
  BY DEF Deadlines
<1> HIDE DEF n, timed
<1>3. /\ DOMAIN timed = 1 .. n
      /\ F \in [1 .. n + 1 -> Nat] /\ F[n + 1] = 0
      /\ \A i \in 1 .. n : F[i] = IF lo(i) < F[i + 1] THEN timed[i].lead ELSE lo(i)
  <2>1. Floored(F, timed, learned, n)
    BY <1>1, FloorsWalk
  <2> QED
    BY <2>1 DEF Floored
<1>4. \A i, j \in 1 .. n + 1 : i <= j => F[i] >= F[j]
  BY <1>1, FloorsFall
<1> HIDE DEF F
<1> DEFINE at(r) == CHOOSE i \in 1 .. n : timed[i] = r
           D == [r \in rules |-> F[at(r)]]
<1>5. \A i, j \in 1 .. n : Before(timed[i], timed[j]) <=> i < j
  <2> SUFFICES ASSUME NEW i \in 1 .. n, NEW j \in 1 .. n, Before(timed[i], timed[j])
               PROVE i < j
    BY <1>1
  <2>1. ~(j < i)
    BY <1>1, BeforeOrders
  <2>2. i # j
    BY <1>1, BeforeOrders
  <2> QED
    BY <1>1, <2>1, <2>2
<1>6. \A r \in rules : at(r) \in 1 .. n /\ timed[at(r)] = r
  BY <1>1
<1>7. \A i \in 1 .. n : at(timed[i]) = i
  <2> SUFFICES ASSUME NEW i \in 1 .. n PROVE at(timed[i]) = i
    OBVIOUS
  <2>1. at(timed[i]) \in 1 .. n /\ timed[at(timed[i])] = timed[i]
    BY <1>1, <1>6
  <2> HIDE DEF at
  <2>2. ~(at(timed[i]) < i) /\ ~(i < at(timed[i]))
    BY <1>1, <1>5, <2>1, BeforeOrders
  <2> QED
    BY <1>1, <2>1, <2>2
<1> HIDE DEF at
<1>8. D \in [rules -> Nat]
  <2>1. \A r \in rules : at(r) \in 1 .. n + 1
    BY <1>1, <1>6
  <2>2. F \in [1 .. n + 1 -> Nat]
    BY <1>3
  <2>3. \A r \in rules : F[at(r)] \in Nat
    BY <2>1, <2>2
  <2> QED
    BY <2>3
<1>9. \A i \in 1 .. n : D[timed[i]] = F[i]
  BY <1>1, <1>7
<1>10. Deadlines(rules, learned) = {[action |-> r.action, due |-> D[r]] : r \in rules}
  <2>1. \A i \in 1 .. n : [action |-> timed[i].action, due |-> F[i]] =
                          [action |-> timed[i].action, due |-> D[timed[i]]]
    BY <1>9
  <2> HIDE DEF D
  <2>2. \A x : x \in Deadlines(rules, learned) <=>
               \E i \in 1 .. n : x = [action |-> timed[i].action, due |-> F[i]]
    BY <1>2, <1>3
  <2>3. \A x : x \in Deadlines(rules, learned) <=>
               \E r \in rules : x = [action |-> r.action, due |-> D[r]]
    <3>1. ASSUME NEW i \in 1 .. n
          PROVE /\ timed[i] \in rules
                /\ [action |-> timed[i].action, due |-> F[i]] =
                      [action |-> timed[i].action, due |-> D[timed[i]]]
      BY <1>1, <2>1
    <3>2. ASSUME NEW q \in rules
          PROVE \E i \in 1 .. n : [action |-> timed[i].action, due |-> F[i]] =
                                  [action |-> q.action, due |-> D[q]]
      <4>1. PICK i \in 1 .. n : timed[i] = q
        BY <1>1
      <4> QED
        BY <2>1, <4>1
    <3> QED
      <4>1. ASSUME NEW x, x \in Deadlines(rules, learned)
            PROVE \E r \in rules : x = [action |-> r.action, due |-> D[r]]
        <5>1. PICK i \in 1 .. n : x = [action |-> timed[i].action, due |-> F[i]]
          BY <2>2, <4>1
        <5> QED
          BY <3>1, <5>1
      <4>2. ASSUME NEW q \in rules
            PROVE [action |-> q.action, due |-> D[q]] \in Deadlines(rules, learned)
        BY <2>2, <3>2
      <4> QED
        BY <4>1, <4>2
  <2> QED
    BY <2>3
<1>11. \A r, q \in rules : Before(r, q) => at(r) < at(q)
  BY <1>5, <1>6
<1>12. \A r, q \in rules : Before(r, q) => D[r] >= D[q]
  <2> SUFFICES ASSUME NEW r \in rules, NEW q \in rules, Before(r, q)
               PROVE F[at(r)] >= F[at(q)]
    OBVIOUS
  <2>1. at(r) \in 1 .. n /\ at(q) \in 1 .. n /\ at(r) < at(q)
    BY <1>6, <1>11
  <2> QED
    BY <1>1, <1>4, <2>1
<1>13. ASSUME NEW r \in rules
       PROVE D[r] = IF \E q \in rules : Before(r, q) /\ D[q] > SlidOf(r, learned)
                    THEN r.lead ELSE SlidOf(r, learned)
  <2> DEFINE i == at(r)
  <2>1. i \in 1 .. n /\ timed[i] = r /\ D[r] = F[i] /\ lo(i) = SlidOf(r, learned)
    BY <1>6
  <2>2. SlidOf(r, learned) \in Nat
    BY SlidIs DEF SlidOf, OnePer, Rules
  <2> HIDE DEF i, D
  <2>3. F[i] = IF SlidOf(r, learned) < F[i + 1] THEN r.lead ELSE SlidOf(r, learned)
    BY <1>3, <2>1
  <2>4. ASSUME SlidOf(r, learned) < F[i + 1]
        PROVE \E q \in rules : Before(r, q) /\ D[q] > SlidOf(r, learned)
    <3>1. i # n
      BY <1>3, <2>2, <2>4
    <3>2. i + 1 \in 1 .. n
      BY <1>1, <2>1, <3>1
    <3>3. Before(r, timed[i + 1]) /\ D[timed[i + 1]] = F[i + 1] /\ timed[i + 1] \in rules
      BY <1>1, <1>9, <2>1, <3>2
    <3>4. F[i + 1] \in Nat
      BY <1>1, <1>3, <3>2
    <3> QED
      BY <2>2, <2>4, <3>3, <3>4
  <2>5. ASSUME NEW q \in rules, Before(r, q), D[q] > SlidOf(r, learned)
        PROVE SlidOf(r, learned) < F[i + 1]
    <3>1. at(q) \in 1 .. n /\ timed[at(q)] = q
      BY <1>6
    <3>2. i < at(q)
      BY <1>11, <2>5 DEF i
    <3>3. F[i + 1] >= F[at(q)] /\ F[i + 1] \in Nat
      <4>1. i + 1 \in 1 .. n + 1 /\ at(q) \in 1 .. n + 1 /\ i + 1 <= at(q)
        BY <1>1, <2>1, <3>1, <3>2
      <4> QED
        BY <1>3, <1>4, <4>1
    <3>4. D[q] = F[at(q)] /\ F[at(q)] \in Nat
      <4>1. at(q) \in 1 .. n + 1
        BY <1>1, <3>1
      <4>2. D[timed[at(q)]] = F[at(q)]
        BY <1>9, <3>1
      <4> QED
        BY <1>3, <3>1, <4>1, <4>2
    <3> QED
      BY <2>2, <2>5, <3>3, <3>4
  <2> QED
    BY <2>1, <2>3, <2>4, <2>5
<1>14. Walked(D, rules, learned)
  <2> HIDE DEF D
  <2> QED
    BY <1>8, <1>10, <1>12, <1>13 DEF Walked
<1> QED
  BY <1>14

-----------------------------------------------------------------------------
(* What the schedules are made of.                                         *)

\* The leads nobody edits: what is posted, and what is handed over.
Standard(rules) ==
    \A r \in rules : /\ Posts(r.action) => r.lead = 7
                     /\ r.action \in {"give:gift", "give:card"} => r.lead = 0

\* A schedule of a milestone with these defaults.
Made(rules, defaults) ==
    /\ OnePer(rules) /\ Standard(rules)
    /\ Named(rules) \subseteq Named(defaults) \cup {"other"}

Audiences == {"theirs", "own", "memorial"}

\* The rules of the default schedules.
LEMMA OffIs ==
  ASSUME NEW as, NEW lead
  PROVE \A r : r \in Off(as, lead) <=>
               \E a \in as : r = [action |-> a, lead |-> lead, on |-> FALSE]
BY DEF Off, Rule

LEMMA OffRule ==
  ASSUME NEW as, NEW lead, NEW r \in Off(as, lead)
  PROVE /\ r.action \in as /\ r.lead = lead /\ r.on = FALSE
        /\ r = [action |-> r.action, lead |-> r.lead, on |-> r.on]
<1>1. PICK a \in as : r = [action |-> a, lead |-> lead, on |-> FALSE]
  BY OffIs
<1> QED
  BY <1>1

LEMMA RuleIs ==
  ASSUME NEW a, NEW lead, NEW on
  PROVE /\ Rule(a, lead, on).action = a /\ Rule(a, lead, on).lead = lead
        /\ Rule(a, lead, on).on = on
        /\ Rule(a, lead, on) = [action |-> a, lead |-> lead, on |-> on]
BY DEF Rule

\* The rules of a birthday.
LEMMA BirthdayRule ==
  ASSUME NEW r \in Birthday
  PROVE /\ r.on = FALSE /\ r = [action |-> r.action, lead |-> r.lead, on |-> r.on]
        /\ \/ r.action \in {"get:gift", "get:card"} /\ r.lead = 12
           \/ r.action \in {"send:card", "send:gift"} /\ r.lead = 7
           \/ r.action \in {"give:card", "give:gift"} /\ r.lead = 0
<1>1. CASE r \in Off({"get:gift", "get:card"}, 12)
  BY <1>1 DEF Off, Rule
<1>2. CASE r \in Off({"send:card", "send:gift"}, 7)
  BY <1>2 DEF Off, Rule
<1>3. CASE r \in Off({"give:card", "give:gift"}, 0)
  BY <1>3 DEF Off, Rule
<1> QED
  BY <1>1, <1>2, <1>3 DEF Birthday

\* The defaults, rule by rule.
LeadOf(a) ==
    CASE a \in {"get:gift", "get:card"} -> 12
      [] a \in {"send:card", "send:gift", "arrange:meal"} -> 7
      [] a = "arrange:party" -> 21
      [] OTHER -> 0
\* What tells the default rules apart.
OwnBirthday(k, audience) == k = "birthday" /\ audience = "own"
OnByDefault(k, audience, a) ==
    IF audience = "memorial" THEN a = "remember" ELSE a = "wish" /\ k = "birthday"

\* A default rule.
DefaultRule(r, k, audience) ==
    /\ r = [action |-> r.action, lead |-> r.lead, on |-> r.on]
    /\ r.action \in Action \ {"plan", "other"}
    /\ r.lead = LeadOf(r.action)
    /\ OnByDefault(k, audience, r.action) => r.on = TRUE
    /\ ~OnByDefault(k, audience, r.action) => r.on = FALSE
    /\ Posts(r.action) => audience # "memorial" /\ ~OwnBirthday(k, audience)
    /\ r.action = "arrange:party" => audience # "memorial" /\ OwnBirthday(k, audience)

LEMMA DefaultRules ==
  ASSUME NEW k, NEW audience, NEW r \in KindDefaults(k, audience)
  PROVE DefaultRule(r, k, audience)
<1> USE DEF DefaultRule, LeadOf, OnByDefault, OwnBirthday, Posts
<1>1. CASE audience = "memorial"
  <2>1. r = Rule("remember", 0, TRUE) \/ r \in Off({"visit:resting-place"}, 0)
    BY <1>1 DEF KindDefaults
  <2>2. CASE r = Rule("remember", 0, TRUE)
    <3>1. /\ r.action = "remember" /\ r.lead = 0 /\ r.on = TRUE
          /\ r = [action |-> r.action, lead |-> r.lead, on |-> r.on]
      BY <2>2 DEF Rule
    <3> QED
      BY <1>1, <3>1, ActionsAre
  <2>3. CASE r \in Off({"visit:resting-place"}, 0)
    BY <1>1, <2>3, ActionsAre DEF Off, Rule
  <2> QED
    BY <2>1, <2>2, <2>3
<1>2. CASE audience # "memorial" /\ OwnBirthday(k, audience)
  <2>1. r = Rule("arrange:party", 21, FALSE) \/ r = Rule("wish", 0, TRUE)
    BY <1>2 DEF KindDefaults
  <2>2. CASE r = Rule("arrange:party", 21, FALSE)
    <3>1. /\ r.action = "arrange:party" /\ r.lead = 21 /\ r.on = FALSE
          /\ r = [action |-> r.action, lead |-> r.lead, on |-> r.on]
      BY <2>2 DEF Rule
    <3> QED
      BY <1>2, <3>1, ActionsAre
  <2>3. CASE r = Rule("wish", 0, TRUE)
    <3>1. /\ r.action = "wish" /\ r.lead = 0 /\ r.on = TRUE
          /\ r = [action |-> r.action, lead |-> r.lead, on |-> r.on]
      BY <2>3 DEF Rule
    <3> QED
      BY <1>2, <3>1, ActionsAre
  <2> QED
    BY <2>1, <2>2, <2>3
<1>3. CASE audience # "memorial" /\ ~OwnBirthday(k, audience) /\ k = "birthday"
  <2>1. r \in Birthday \/ r = Rule("wish", 0, TRUE)
    BY <1>3 DEF KindDefaults
  <2>2. CASE r \in Birthday
    BY <1>3, <2>2, BirthdayRule, ActionsAre
  <2>3. CASE r = Rule("wish", 0, TRUE)
    BY <1>3, <2>3, ActionsAre DEF Rule
  <2> QED
    BY <2>1, <2>2, <2>3
<1>4. CASE audience # "memorial" /\ k # "birthday"
  <2>1. \/ r \in Birthday
        \/ r \in Off({"arrange:meal"}, 7)
        \/ r \in Off({"wish"}, 0)
        \/ r \in Off({"get:card"}, 12)
        \/ r \in Off({"send:card"}, 7)
        \/ r \in Off({"give:card", "wish"}, 0)
        \/ r \in Off({"remember"}, 0)
    BY <1>4 DEF KindDefaults
  <2>2. CASE r \in Birthday
    BY <1>4, <2>2, BirthdayRule, ActionsAre
  <2>3. CASE r \in Off({"arrange:meal"}, 7)
    BY <1>4, <2>3, ActionsAre DEF Off, Rule
  <2>4. CASE r \in Off({"wish"}, 0)
    BY <1>4, <2>4, ActionsAre DEF Off, Rule
  <2>5. CASE r \in Off({"get:card"}, 12)
    BY <1>4, <2>5, ActionsAre DEF Off, Rule
  <2>6. CASE r \in Off({"send:card"}, 7)
    BY <1>4, <2>6, ActionsAre DEF Off, Rule
  <2>7. CASE r \in Off({"give:card", "wish"}, 0)
    BY <1>4, <2>7, ActionsAre DEF Off, Rule
  <2>8. CASE r \in Off({"remember"}, 0)
    BY <1>4, <2>8, ActionsAre DEF Off, Rule
  <2> QED
    BY <2>1, <2>2, <2>3, <2>4, <2>5, <2>6, <2>7, <2>8
<1> QED
  BY <1>1, <1>2, <1>3, <1>4

\* The defaults are a schedule, with neither the question nor "other" in it.
LEMMA DefaultsMade ==
  ASSUME NEW k, NEW audience
  PROVE /\ Made(KindDefaults(k, audience), KindDefaults(k, audience))
        /\ Named(KindDefaults(k, audience)) \cap {"plan", "other"} = {}
<1> DEFINE D == KindDefaults(k, audience)
<1>1. D \subseteq Rules /\ Standard(D)
  <2>1. Standard(D)
    BY DefaultRules DEF Standard, Posts, DefaultRule, LeadOf
  <2>2. ASSUME NEW r \in D PROVE r \in Rules
    <3> HIDE DEF D
    <3>0. DefaultRule(r, k, audience)
      BY DefaultRules DEF D
    <3>1. r.action \in Action /\ r.lead = LeadOf(r.action)
          /\ r = [action |-> r.action, lead |-> r.lead, on |-> r.on]
      BY <3>0 DEF DefaultRule
    <3>3. r.lead \in Nat
      BY <3>1 DEF LeadOf
    <3>2. r.on \in BOOLEAN
      BY <3>0, Zenon DEF DefaultRule
    <3> QED
      BY <3>1, <3>2, <3>3 DEF Rules
  <2> QED
    BY <2>1, <2>2
<1>2. Named(D) \cap {"plan", "other"} = {}
  BY DefaultRules DEF Named, DefaultRule
<1>3. ASSUME NEW r \in D, NEW q \in D, r.action = q.action
      PROVE r.on = q.on /\ r.lead = q.lead
  <2>1. DefaultRule(r, k, audience) /\ DefaultRule(q, k, audience)
    BY DefaultRules
  <2> HIDE DEF D
  <2> QED
    BY <1>3, <2>1, Zenon DEF DefaultRule
<1>4. ASSUME NEW r \in D, NEW q \in D, r.action = q.action PROVE r = q
  <2>1. r.on = q.on /\ r.lead = q.lead
    BY <1>3, <1>4
  <2>2. /\ r = [action |-> r.action, lead |-> r.lead, on |-> r.on]
        /\ q = [action |-> q.action, lead |-> q.lead, on |-> q.on]
    BY DefaultRules DEF DefaultRule
  <2> HIDE DEF D
  <2> QED
    BY <1>4, <2>1, <2>2
<1> QED
  BY <1>1, <1>2, <1>4 DEF Made, OnePer

\* Where something is posted, it may be handed over instead; and nobody throws a
\* party there.
LEMMA DefaultsPost ==
  ASSUME NEW k, NEW audience, NEW send \in Named(KindDefaults(k, audience)), Posts(send)
  PROVE /\ HandsOver(send) \in Named(KindDefaults(k, audience))
        /\ "arrange:party" \notin Named(KindDefaults(k, audience))
<1> DEFINE D == KindDefaults(k, audience)
<1>1. PICK r \in D : r.action = send
  BY DEF Named
<1>2. audience # "memorial" /\ ~OwnBirthday(k, audience)
  BY <1>1, DefaultRules DEF DefaultRule
<1>3. "arrange:party" \notin Named(D)
  <2> SUFFICES ASSUME NEW q \in D, q.action = "arrange:party" PROVE FALSE
    BY DEF Named
  <2> QED
    BY <1>2, DefaultRules DEF DefaultRule
<1>4. HandsOver(send) \in Named(D)
  <2>1. CASE Birthday \subseteq D
    <3>1. \A a \in {"give:card", "give:gift"} :
            [action |-> a, lead |-> 0, on |-> FALSE] \in Off({"give:card", "give:gift"}, 0)
      BY OffIs
    <3>2. \A a \in {"give:card", "give:gift"} : [action |-> a, lead |-> 0, on |-> FALSE] \in D
      BY <2>1, <3>1 DEF Birthday
    <3>3. HandsOver(send) \in {"give:card", "give:gift"}
      BY DEF HandsOver
    <3> HIDE DEF D
    <3>4. [action |-> HandsOver(send), lead |-> 0, on |-> FALSE] \in D
      BY <3>2, <3>3
    <3>5. [action |-> HandsOver(send), lead |-> 0, on |-> FALSE].action = HandsOver(send)
      OBVIOUS
    <3> QED
      BY <3>4, <3>5 DEF Named
  <2>2. CASE ~(Birthday \subseteq D)
    <3>1. k = "first-date" /\ audience # "own"
      <4>1. /\ ~(audience = "own" /\ k # "death")
            /\ k # "birthday" /\ k # "wedding"
        BY <1>2, <2>2 DEF KindDefaults, OwnBirthday
      <4>2. ASSUME k # "first-date" PROVE D = Off({"remember"}, 0)
        BY <1>2, <4>1, <4>2, Zenon DEF KindDefaults
      <4>3. r \notin Off({"remember"}, 0)
        BY <1>1 DEF Off, Rule, Posts
      <4> QED
        BY <1>1, <4>1, <4>2, <4>3
    <3>2. D = Off({"get:card"}, 12) \cup Off({"send:card"}, 7) \cup Off({"give:card", "wish"}, 0)
      BY <1>2, <3>1 DEF KindDefaults
    <3>3. send = "send:card"
      BY <1>1, <3>2, OffIs DEF Posts
    <3>4. [action |-> "give:card", lead |-> 0, on |-> FALSE] \in D
      BY <3>2, OffIs
    <3> QED
      BY <3>3, <3>4 DEF Named, HandsOver
  <2> QED
    BY <2>1, <2>2
<1> QED
  BY <1>3, <1>4

\* A part of a schedule is one.
LEMMA MadeSubset ==
  ASSUME NEW rules, NEW defaults, Made(rules, defaults), NEW part \in SUBSET rules
  PROVE Made(part, defaults)
BY DEF Made, OnePer, Standard, Named

\* Two schedules that name nothing in common are one.
LEMMA MadeUnion ==
  ASSUME NEW r1, NEW r2, NEW defaults, Made(r1, defaults), Made(r2, defaults),
         \A r \in r1, q \in r2 : r.action # q.action
  PROVE Made(r1 \cup r2, defaults)
<1>1. OnePer(r1 \cup r2)
  BY DEF Made, OnePer
<1>2. Standard(r1 \cup r2)
  BY DEF Made, Standard
<1>3. Named(r1 \cup r2) \subseteq Named(defaults) \cup {"other"}
  BY DEF Made, Named
<1> QED
  BY <1>1, <1>2, <1>3 DEF Made

\* One rule is a schedule.
LEMMA MadeOne ==
  ASSUME NEW r \in Rules, NEW defaults, r.action \in Named(defaults) \cup {"other"},
         Standard({r})
  PROVE Made({r}, defaults)
BY DEF Made, OnePer, Named

\* Rule makes a rule.
LEMMA RuleTyped ==
  ASSUME NEW a \in Action, NEW lead \in Nat, NEW on \in BOOLEAN
  PROVE Rule(a, lead, on) \in Rules /\ Rule(a, lead, on).action = a
        /\ Rule(a, lead, on).lead = lead /\ Rule(a, lead, on).on = on
BY DEF Rule, Rules

\* A schedule whose rules are switched.
LEMMA MadeSwitched ==
  ASSUME NEW rules, NEW defaults, Made(rules, defaults), NEW on \in [rules -> BOOLEAN]
  PROVE /\ Made({[r EXCEPT !.on = on[r]] : r \in rules}, defaults)
        /\ Named({[r EXCEPT !.on = on[r]] : r \in rules}) = Named(rules)
<1> DEFINE T == {[r EXCEPT !.on = on[r]] : r \in rules}
<1>1. ASSUME NEW r \in rules
      PROVE /\ [r EXCEPT !.on = on[r]] \in Rules
            /\ [r EXCEPT !.on = on[r]].action = r.action
            /\ [r EXCEPT !.on = on[r]].lead = r.lead
  BY DEF Made, OnePer, Rules
<1>2. ASSUME NEW x \in T
      PROVE \E r \in rules : /\ x = [r EXCEPT !.on = on[r]] /\ x \in Rules
                             /\ x.action = r.action /\ x.lead = r.lead
  BY <1>1
<1> HIDE DEF T
<1>3. OnePer(T)
  <2>1. T \subseteq Rules
    BY <1>2
  <2>2. ASSUME NEW x \in T, NEW y \in T, x.action = y.action PROVE x = y
    <3>1. PICK r \in rules : x = [r EXCEPT !.on = on[r]] /\ x.action = r.action
      BY <1>2
    <3>2. PICK q \in rules : y = [q EXCEPT !.on = on[q]] /\ y.action = q.action
      BY <1>2
    <3>3. r = q
      BY <2>2, <3>1, <3>2 DEF Made, OnePer
    <3> QED
      BY <3>1, <3>2, <3>3
  <2> QED
    BY <2>1, <2>2 DEF OnePer
<1>4. Standard(T)
  BY <1>2 DEF Made, Standard
<1>5. Named(T) = Named(rules)
  <2>1. ASSUME NEW r \in rules PROVE r.action \in Named(T)
    BY <1>1 DEF T, Named
  <2>2. ASSUME NEW x \in T PROVE x.action \in Named(rules)
    BY <1>2 DEF Named
  <2> QED
    BY <2>1, <2>2 DEF Named
<1> QED
  BY <1>3, <1>4, <1>5 DEF Made, T

\* What fits fits earlier on, and nothing fits after the day.
LEMMA FitsEarlier ==
  ASSUME NEW a, NEW lead \in Nat, NEW day \in Int, NEW earlier \in Int,
         day <= earlier, FitsAt(a, lead, day)
  PROVE FitsAt(a, lead, earlier) /\ day >= 0
BY LatestIs DEF FitsAt, OfferNotice

\* What is offered is a schedule, and fits.
LEMMA OffersMade ==
  ASSUME NEW defaults, Made(defaults, defaults), NEW stored, Made(stored, defaults),
         NEW day
  PROVE /\ Made(Offers(defaults, stored, day), defaults)
        /\ \A r \in Offers(defaults, stored, day) : FitsAt(r.action, r.lead, day)
<1> DEFINE extra == {d \in defaults : d.action \notin Named(stored)}
<1>1. Made(extra, defaults)
  <2>1. extra \in SUBSET defaults
    OBVIOUS
  <2> QED
    BY <2>1, MadeSubset
<1>2. \A r \in stored, q \in extra : r.action # q.action
  BY DEF Named
<1>3. Made(stored \cup extra, defaults)
  <2> HIDE DEF extra
  <2> QED
    BY <1>1, <1>2, MadeUnion
<1>4. /\ Offers(defaults, stored, day) \in SUBSET (stored \cup extra)
      /\ \A r \in Offers(defaults, stored, day) : FitsAt(r.action, r.lead, day)
  BY DEF Offers
<1> QED
  BY <1>3, <1>4, MadeSubset

\* The nearer the day, the less is on offer.
LEMMA OffersShrink ==
  ASSUME NEW defaults, Made(defaults, defaults), NEW stored, Made(stored, defaults),
         NEW day \in Int, NEW earlier \in Int, day <= earlier
  PROVE Offers(defaults, stored, day) \subseteq Offers(defaults, stored, earlier)
<1> DEFINE drawn == stored \cup {d \in defaults : d.action \notin Named(stored)}
           fits(x) == {r \in drawn : FitsAt(r.action, r.lead, x)}
           goods(x) == Named(fits(x)) \cup {None}
<1>1. \A r \in drawn : r.lead \in Nat
  BY DEF Made, OnePer, Rules
<1>2. fits(day) \subseteq fits(earlier)
  <2> HIDE DEF drawn
  <2> QED
    BY <1>1, FitsEarlier
<1>3. goods(day) \subseteq goods(earlier)
  <2> HIDE DEF fits
  <2> QED
    BY <1>2 DEF Named
<1>4. \A x : Offers(defaults, stored, x) = {r \in fits(x) : DeliveryOf(r.action) \in goods(x)}
  BY DEF Offers
<1> HIDE DEF fits, goods
<1> QED
  BY <1>2, <1>3, <1>4

\* An answer names what was offered.
LEMMA AnsweredMade ==
  ASSUME NEW offers, NEW defaults, Made(offers, defaults), NEW ticked
  PROVE /\ Made(Answered(offers, ticked), defaults)
        /\ Named(Answered(offers, ticked)) = Named(offers)
<1> DEFINE delivers(r) == DeliveryOf(r.action) # None
                          /\ DeliveryOf(r.action) \in Named(offers)
           was(item) == item \in Named(Enabled(offers))
           on(r) == IF ~delivers(r) THEN r.action \in ticked
                    ELSE /\ DeliveryOf(r.action) \in ticked
                         /\ IF was(DeliveryOf(r.action)) THEN r.on
                            ELSE Posts(r.action)
                                 <=> Posting(offers, DeliveryOf(r.action)) # {}
           f == [r \in offers |-> on(r)]
<1>1. \A r \in offers : r.on \in BOOLEAN
  BY DEF Made, OnePer, Rules
<1>2. \A r \in offers : on(r) \in BOOLEAN
  <2> SUFFICES ASSUME NEW r \in offers PROVE on(r) \in BOOLEAN
    OBVIOUS
  <2>1. r.on \in BOOLEAN
    BY <1>1
  <2> HIDE DEF delivers, was
  <2>2. CASE ~delivers(r)
    BY <2>2
  <2>3. CASE delivers(r) /\ was(DeliveryOf(r.action))
    BY <2>1, <2>3
  <2>4. CASE delivers(r) /\ ~was(DeliveryOf(r.action))
    BY <2>4
  <2> QED
    BY <2>2, <2>3, <2>4
<1>3. Answered(offers, ticked) = {[r EXCEPT !.on = on(r)] : r \in offers}
  BY DEF Answered
<1> HIDE DEF on
<1>4. f \in [offers -> BOOLEAN] /\ \A r \in offers : f[r] = on(r)
  BY <1>2
<1>5. Answered(offers, ticked) = {[r EXCEPT !.on = f[r]] : r \in offers}
  BY <1>3, <1>4
<1>6. PICK g \in [offers -> BOOLEAN] :
        Answered(offers, ticked) = {[r EXCEPT !.on = g[r]] : r \in offers}
  BY <1>4, <1>5
<1>7. /\ Made({[r EXCEPT !.on = g[r]] : r \in offers}, defaults)
      /\ Named({[r EXCEPT !.on = g[r]] : r \in offers}) = Named(offers)
  BY MadeSwitched
<1> QED
  BY <1>6, <1>7, Zenon

\* A schedule answered is one.
LEMMA WithAnswerMade ==
  ASSUME NEW schedule, NEW answer, NEW defaults, Made(schedule, defaults),
         Made(answer, defaults)
  PROVE Made(WithAnswer(schedule, answer), defaults)
<1> DEFINE kept == {r \in schedule : r.action \notin Named(answer)}
<1>1. Made(kept, defaults)
  <2>1. kept \in SUBSET schedule
    OBVIOUS
  <2> QED
    BY <2>1, MadeSubset
<1>2. \A r \in answer, q \in kept : r.action # q.action
  BY DEF Named
<1> HIDE DEF kept
<1>3. Made(answer \cup kept, defaults)
  BY <1>1, <1>2, MadeUnion
<1> QED
  BY <1>3 DEF WithAnswer, kept

\* One rule replaced.
LEMMA MadeReplaced ==
  ASSUME NEW rules, NEW defaults, Made(rules, defaults), NEW r, Made({r}, defaults)
  PROVE Made({s \in rules : s.action # r.action} \cup {r}, defaults)
<1> DEFINE others == {s \in rules : s.action # r.action}
<1>1. Made(others, defaults)
  <2>1. others \in SUBSET rules
    OBVIOUS
  <2> QED
    BY <2>1, MadeSubset
<1>2. \A s \in others, q \in {r} : s.action # q.action
  OBVIOUS
<1> HIDE DEF others
<1>3. Made(others \cup {r}, defaults)
  BY <1>1, <1>2, MadeUnion
<1> QED
  BY <1>3 DEF others

\* Handing over in person switches the posting off, and the handing over on.
LEMMA InPersonMade ==
  ASSUME NEW rules, NEW defaults, Made(rules, defaults), NEW send, Posts(send),
         HandsOver(send) \in Named(defaults)
  PROVE /\ Made(InPerson(rules, send), defaults)
        /\ InPerson(rules, send) # {}
        /\ \A r : r \in Enabled(InPerson(rules, send)) <=>
              \/ r \in Enabled(rules) /\ r.action \notin {send, HandsOver(send)}
              \/ r = Rule(HandsOver(send), 0, TRUE)
<1> DEFINE give == HandsOver(send)
           off == Switched(rules, {send}, FALSE)
           kept == {r \in off : r.action # give}
           new == Rule(give, 0, TRUE)
           on == [r \in rules |-> IF r.action \in {send} THEN FALSE ELSE r.on]
<1>1. \A r \in rules : r \in Rules /\ r.on \in BOOLEAN
  BY DEF Made, OnePer, Rules
<1>2. on \in [rules -> BOOLEAN]
  BY <1>1
<1>3. ASSUME NEW r \in rules
      PROVE (IF r.action \in {send} THEN [r EXCEPT !.on = FALSE] ELSE r)
              = [r EXCEPT !.on = on[r]]
  <2>1. CASE r.action \in {send}
    BY <2>1
  <2>2. CASE r.action \notin {send}
    <3>1. on[r] = r.on
      BY <2>2
    <3>2. r = [r EXCEPT !.on = r.on]
      BY <1>1 DEF Rules
    <3> QED
      BY <2>2, <3>1, <3>2
  <2> QED
    BY <2>1, <2>2
<1>4. off = {[r EXCEPT !.on = on[r]] : r \in rules}
  <2> HIDE DEF on
  <2> QED
    BY <1>3 DEF Switched
<1>5. Made(off, defaults)
  <2>1. PICK g \in [rules -> BOOLEAN] : off = {[r EXCEPT !.on = g[r]] : r \in rules}
    <3> HIDE DEF on, off
    <3> QED
      BY <1>2, <1>4
  <2>2. Made({[r EXCEPT !.on = g[r]] : r \in rules}, defaults)
    BY MadeSwitched
  <2> HIDE DEF off
  <2> QED
    BY <2>1, <2>2
<1>6. give \in {"give:gift", "give:card"} /\ give # send
  BY DEF HandsOver, Posts
<1>7. new \in Rules /\ new.action = give /\ new.lead = 0 /\ new.on = TRUE
  <2>1. give \in Action
    BY <1>6, ActionsAre
  <2> HIDE DEF give
  <2> QED
    BY <2>1, RuleTyped
<1>8. Made({new}, defaults)
  <2>1. Standard({new})
    <3> HIDE DEF new, give
    <3> QED
      BY <1>6, <1>7 DEF Standard, Posts
  <2>2. new.action \in Named(defaults)
    BY <1>7
  <2> HIDE DEF new
  <2> QED
    BY <1>7, <2>1, <2>2, MadeOne
<1>9. InPerson(rules, send) = {s \in off : s.action # new.action} \cup {new}
  BY <1>7 DEF InPerson
<1>10. Made(InPerson(rules, send), defaults)
  <2> HIDE DEF off, new
  <2> QED
    BY <1>5, <1>8, <1>9, MadeReplaced
<1>11. ASSUME NEW x
       PROVE x \in off /\ x.on <=> x \in Enabled(rules) /\ x.action # send
  <2>1. ASSUME x \in off, x.on PROVE x \in Enabled(rules) /\ x.action # send
    <3>1. PICK r \in rules : x = IF r.action \in {send} THEN [r EXCEPT !.on = FALSE] ELSE r
      BY <2>1 DEF Switched
    <3>2. r.action # send
      <4> SUFFICES ASSUME r.action = send PROVE FALSE
        OBVIOUS
      <4>1. x = [r EXCEPT !.on = FALSE]
        BY <3>1
      <4>2. x.on = FALSE
        BY <1>1, <4>1 DEF Rules
      <4> QED
        BY <2>1, <4>2
    <3> QED
      BY <2>1, <3>1, <3>2 DEF Enabled
  <2>2. ASSUME x \in Enabled(rules), x.action # send PROVE x \in off /\ x.on
    BY <2>2 DEF Enabled, Switched
  <2> QED
    BY <2>1, <2>2
<1>12. ASSUME NEW x
       PROVE x \in Enabled(InPerson(rules, send)) <=>
              \/ x \in Enabled(rules) /\ x.action \notin {send, give}
              \/ x = new
  <2> HIDE DEF off, new, give
  <2>1. x \in Enabled(InPerson(rules, send)) <=>
          \/ x \in off /\ x.on /\ x.action # give
          \/ x = new
    BY <1>7, <1>9 DEF Enabled
  <2> QED
    BY <1>11, <2>1
<1>13. InPerson(rules, send) # {}
  BY <1>9
<1> QED
  BY <1>10, <1>12, <1>13

\* The image of a finite set.
LEMMA ImageFinite ==
  ASSUME NEW S, IsFiniteSet(S), NEW T, NEW f \in [S -> T]
  PROVE IsFiniteSet({f[x] : x \in S})
<1> DEFINE U == {f[x] : x \in S}
<1>1. f \in [S -> U]
  OBVIOUS
<1>2. f \in Surjection(S, U)
  BY <1>1 DEF Surjection
<1> QED
  BY <1>2, FS_Surjection

\* The greatest of none is 0.
LEMMA MostOrNone ==
  ASSUME NEW T \in SUBSET Int, IsFiniteSet(T)
  PROVE Max({0} \cup T) \in Nat
<1>1. IsFiniteSet({0} \cup T)
  BY FS_Singleton, FS_Union
<1>2. {0} \cup T \in SUBSET Int /\ {0} \cup T # {}
  OBVIOUS
<1>3. Max({0} \cup T) \in {0} \cup T /\ Max({0} \cup T) >= 0
  BY <1>1, <1>2, Greatest
<1> DEFINE most == Max({0} \cup T)
<1>4. most \in {0} \cup T /\ most >= 0
  BY <1>3
<1> HIDE DEF most
<1>5. most \in Nat
  BY <1>4
<1> QED
  BY <1>5 DEF most

-----------------------------------------------------------------------------
(* The question, and what is wanted of the list.                           *)

\* A milestone as the app stores it.
OccOK(o) ==
    /\ o \in [learned : Int, imported : BOOLEAN, asks : BOOLEAN,
              audience : Audiences,
              rules : SUBSET Rules, written : Int,
              yearly : SUBSET Rules, yearlyWritten : Int]
    /\ Made(o.rules, Defaults(o)) /\ Made(o.yearly, Defaults(o))

\* The schedules drawn from it are schedules.
LEMMA OccRules ==
  ASSUME NEW o, OccOK(o)
  PROVE /\ Made(Defaults(o), Defaults(o)) /\ Made(Resolved(o), Defaults(o))
        /\ Made(YearRules(o), Defaults(o))
        /\ OnePer(Enabled(YearRules(o)))
        /\ \A r \in YearRules(o) : r.action \in Action \ {"plan"}
        /\ o.learned \in Int /\ YearWritten(o) \in Int
<1>1. Made(Defaults(o), Defaults(o)) /\ Named(Defaults(o)) \cap {"plan", "other"} = {}
  BY DefaultsMade DEF Defaults
<1>2. Made(Resolved(o), Defaults(o)) /\ Made(YearRules(o), Defaults(o))
  BY <1>1 DEF OccOK, Resolved, YearRules
<1>3. Made(Enabled(YearRules(o)), Defaults(o))
  <2>1. Enabled(YearRules(o)) \in SUBSET YearRules(o)
    BY DEF Enabled
  <2> QED
    BY <1>2, <2>1, MadeSubset
<1>4. \A r \in YearRules(o) : r.action \in Action \ {"plan"}
  BY <1>1, <1>2 DEF Made, OnePer, Rules, Named
<1>5. o.learned \in Int /\ YearWritten(o) \in Int
  BY DEF OccOK, YearWritten, Written
<1> QED
  BY <1>1, <1>2, <1>3, <1>4, <1>5 DEF Made

\* When the question comes due; late or not depends on the defaults only.
LEMMA TimingType ==
  ASSUME NEW defaults, NEW stored, NEW learned \in Int, Made(defaults, defaults),
         Made(stored, defaults)
  PROVE /\ PromptOffset(defaults) \in Nat
        /\ Timing(defaults, stored, learned).due \in Nat
        /\ Timing(defaults, stored, learned).late \in BOOLEAN
        /\ Timing(defaults, stored, learned).late
              <=> learned - PromptOffset(defaults) < OfferNotice
        /\ ~Timing(defaults, stored, learned).late
              => Timing(defaults, stored, learned).due = PromptOffset(defaults)
<1> DEFINE ahead == [r \in defaults |-> r.lead + RunUp(r.action)]
           all == Offers(defaults, stored, learned)
           lasting == {o \in all : Latest(o.action, o.lead) > 0}
           last == [r \in lasting |-> Latest(r.action, r.lead) + OfferNotice]
           lasts == {Latest(r.action, r.lead) + OfferNotice : r \in lasting}
           most == Max({0} \cup {l \in lasts : l < learned})
<1>1. PromptOffset(defaults) \in Nat
  <2>1. \A r \in defaults : r.lead + RunUp(r.action) \in Int
    BY RunUpType DEF Made, OnePer, Rules
  <2>2. ahead \in [defaults -> Int]
    BY <2>1
  <2>3. IsFiniteSet({ahead[r] : r \in defaults})
    <3> HIDE DEF ahead
    <3> QED
      BY <2>2, ImageFinite, RulesFinite DEF Made
  <2>4. {ahead[r] : r \in defaults} = {r.lead + RunUp(r.action) : r \in defaults}
    OBVIOUS
  <2>5. {ahead[r] : r \in defaults} \in SUBSET Int
    BY <2>2
  <2> HIDE DEF ahead
  <2> QED
    BY <2>3, <2>4, <2>5, MostOrNone DEF PromptOffset
<1>2. most \in Nat
  <2>1. Made(all, defaults)
    BY OffersMade
  <2>2. OnePer(lasting)
    BY <2>1 DEF Made, OnePer
  <2>3. \A r \in lasting : Latest(r.action, r.lead) + OfferNotice \in Int
    <3> HIDE DEF all
    <3> QED
      BY <2>1, LatestIs DEF Made, OnePer, Rules, OfferNotice
  <2> HIDE DEF lasting
  <2>4. last \in [lasting -> Int]
    BY <2>3
  <2>5. {last[r] : r \in lasting} = lasts
    OBVIOUS
  <2>6. IsFiniteSet(lasts)
    <3> HIDE DEF last, lasts
    <3> QED
      BY <2>2, <2>4, <2>5, ImageFinite, RulesFinite
  <2>7. lasts \in SUBSET Int
    BY <2>3
  <2> HIDE DEF lasts
  <2>8. {l \in lasts : l < learned} \in SUBSET lasts
    OBVIOUS
  <2>9. IsFiniteSet({l \in lasts : l < learned})
    BY <2>6, <2>8, FS_Subset
  <2> QED
    BY <2>7, <2>9, MostOrNone
<1>3. Timing(defaults, stored, learned)
        = IF learned - PromptOffset(defaults) >= OfferNotice
          THEN [due |-> PromptOffset(defaults), late |-> FALSE]
          ELSE [due |-> most, late |-> TRUE]
  BY DEF Timing
<1> HIDE DEF most
<1>4. CASE learned - PromptOffset(defaults) >= OfferNotice
  <2>1. Timing(defaults, stored, learned) = [due |-> PromptOffset(defaults), late |-> FALSE]
    BY <1>3, <1>4
  <2> QED
    BY <1>1, <1>4, <2>1 DEF OfferNotice
<1>5. CASE ~(learned - PromptOffset(defaults) >= OfferNotice)
  <2>1. Timing(defaults, stored, learned) = [due |-> most, late |-> TRUE]
    BY <1>3, <1>5
  <2>2. learned - PromptOffset(defaults) < OfferNotice
    BY <1>1, <1>5 DEF OfferNotice
  <2> QED
    BY <1>1, <1>2, <2>1, <2>2
<1> QED
  BY <1>4, <1>5

\* The question, learned late, is on display from the start.
LEMMA QuestionType ==
  ASSUME NEW o, OccOK(o)
  PROVE /\ Question(o).action = "plan" /\ Question(o).due \in Nat
        /\ Question(o).runUp \in Nat
        /\ Question(o).due = QuestionTiming(o).due
        /\ QuestionTiming(o).late => Question(o).runUp >= o.learned - Question(o).due
        /\ ~QuestionTiming(o).late => Question(o).runUp = RunUp("plan")
<1> DEFINE timing == QuestionTiming(o)
<1>1. timing.due \in Nat
  BY OccRules, TimingType DEF QuestionTiming
<1>2. RunUp("plan") \in Nat
  BY RunUpType, ActionsAre
<1>3. o.learned - timing.due \in Int
  BY <1>1, OccRules
<1> HIDE DEF timing
<1>4. /\ Max({RunUp("plan"), o.learned - timing.due}) \in Nat
      /\ Max({RunUp("plan"), o.learned - timing.due}) >= o.learned - timing.due
  <2> DEFINE n == RunUp("plan")
             m == o.learned - timing.due
  <2>1. n \in Nat /\ m \in Int
    BY <1>2, <1>3
  <2> HIDE DEF n, m
  <2>2. Max({n, m}) = IF n >= m THEN n ELSE m
    BY <2>1, GreaterOfTwo
  <2>3. Max({n, m}) \in Nat /\ Max({n, m}) >= m
    BY <2>1, <2>2
  <2> QED
    BY <2>3 DEF n, m
<1>5. Question(o) = [action |-> "plan", due |-> timing.due,
                     runUp |-> IF timing.late
                               THEN Max({RunUp("plan"), o.learned - timing.due})
                               ELSE RunUp("plan")]
  BY DEF Question, timing
<1> QED
  BY <1>1, <1>2, <1>4, <1>5 DEF timing

-----------------------------------------------------------------------------
(* What may come on the list: each errand with its deadline, and the       *)
(* question.                                                               *)

\* The year's errands, the entries of its list, and what is to be on it by a day.
Errands(o) ==
    {[action |-> d.action, due |-> d.due, runUp |-> RunUp(d.action)] :
        d \in Deadlines(Enabled(YearRules(o)), YearWritten(o))}
Entries(o) == Errands(o) \cup {Question(o)}
Wanted(o, day) == Named(Desired(o, day, 0))

\* The errands, by the deadlines D.
LEMMA ErrandsAre ==
  ASSUME NEW o, OccOK(o), NEW D, Walked(D, Enabled(YearRules(o)), YearWritten(o))
  PROVE \A t : t \in Errands(o) <=>
           \E r \in Enabled(YearRules(o)) :
              t = [action |-> r.action, due |-> D[r], runUp |-> RunUp(r.action)]
<1> DEFINE rules == Enabled(YearRules(o))
           dead == Deadlines(rules, YearWritten(o))
<1>1. dead = {[action |-> r.action, due |-> D[r]] : r \in rules}
  BY DEF Walked
<1>2. Errands(o) = {[action |-> d.action, due |-> d.due, runUp |-> RunUp(d.action)] :
                       d \in dead}
  BY DEF Errands
<1> HIDE DEF rules, dead
<1>3. ASSUME NEW t
      PROVE t \in Errands(o) <=>
              \E r \in rules :
                 t = [action |-> r.action, due |-> D[r], runUp |-> RunUp(r.action)]
  <2>1. t \in Errands(o) <=>
          \E d \in dead : t = [action |-> d.action, due |-> d.due, runUp |-> RunUp(d.action)]
    BY <1>2
  <2>2. \A d : d \in dead <=> \E r \in rules : d = [action |-> r.action, due |-> D[r]]
    BY <1>1
  <2>3. ASSUME t \in Errands(o)
        PROVE \E r \in rules :
                 t = [action |-> r.action, due |-> D[r], runUp |-> RunUp(r.action)]
    <3>1. PICK d \in dead : t = [action |-> d.action, due |-> d.due, runUp |-> RunUp(d.action)]
      BY <2>1, <2>3
    <3>2. PICK r \in rules : d = [action |-> r.action, due |-> D[r]]
      BY <2>2
    <3>3. d.action = r.action /\ d.due = D[r]
      BY <3>2
    <3> QED
      BY <3>1, <3>3
  <2>4. ASSUME NEW r \in rules,
               t = [action |-> r.action, due |-> D[r], runUp |-> RunUp(r.action)]
        PROVE t \in Errands(o)
    <3>1. [action |-> r.action, due |-> D[r]] \in dead
      BY <2>2
    <3> QED
      BY <2>1, <2>4, <3>1
  <2> QED
    BY <2>3, <2>4
<1> QED
  BY <1>3 DEF rules

\* One entry to an action.
LEMMA EntriesType ==
  ASSUME NEW o, OccOK(o)
  PROVE /\ \A t \in Entries(o) : /\ t.action \in Action /\ t.due \in Nat
                                 /\ t.runUp \in Nat
                                 /\ t.action = "plan" <=> t = Question(o)
        /\ \A t, u \in Entries(o) : t.action = u.action => t = u
<1> DEFINE rules == Enabled(YearRules(o))
<1>1. /\ OnePer(rules) /\ \A r \in rules : r.action \in Action \ {"plan"}
      /\ YearWritten(o) \in Int
  BY OccRules DEF Enabled
<1>2. PICK D : Walked(D, rules, YearWritten(o))
  BY <1>1, DeadlinesWalk
<1>3. \A t : t \in Errands(o) <=>
           \E r \in rules :
              t = [action |-> r.action, due |-> D[r], runUp |-> RunUp(r.action)]
  BY <1>2, ErrandsAre
<1>4. D \in [rules -> Nat]
  BY <1>2 DEF Walked
<1>5. /\ Question(o).action = "plan" /\ Question(o).due \in Nat
      /\ Question(o).runUp \in Nat
  BY QuestionType
<1>6. "plan" \in Action
  BY ActionsAre
<1>7. \A r, s \in rules : r.action = s.action => r = s
  BY <1>1 DEF OnePer
<1> HIDE DEF rules
<1>8. ASSUME NEW t \in Errands(o)
      PROVE /\ t.action \in Action \ {"plan"} /\ t.due \in Nat /\ t.runUp \in Nat
            /\ \A u \in Errands(o) : t.action = u.action => t = u
  BY <1>1, <1>3, <1>4, <1>7, RunUpType
<1>9. \A t \in Entries(o) : t \in Errands(o) \/ t = Question(o)
  BY DEF Entries
<1> QED
  BY <1>5, <1>6, <1>8, <1>9

\* What computeDesired yields of the entries.
LEMMA DesiredIs ==
  ASSUME NEW o, OccOK(o), NEW day \in Int, NEW horizon \in Nat
  PROVE \A t : t \in Desired(o, day, horizon) <=>
           /\ t \in Entries(o) /\ o.learned >= 0
           /\ t = Question(o) => Asked(o, day)
           /\ day >= -2
           /\ day - t.due <= t.runUp \/ day - t.due <= horizon
<1>1. ASSUME NEW t
      PROVE t \in Timed(o, day) <=>
              t \in Entries(o) /\ (t = Question(o) => Asked(o, day))
  <2>1. \A u \in Errands(o) : u # Question(o)
    <3>1. PICK D : Walked(D, Enabled(YearRules(o)), YearWritten(o))
      BY OccRules, DeadlinesWalk
    <3>2. ASSUME NEW u \in Errands(o) PROVE u.action # "plan"
      <4>1. PICK r \in Enabled(YearRules(o)) :
               u = [action |-> r.action, due |-> D[r], runUp |-> RunUp(r.action)]
        BY <3>1, ErrandsAre
      <4>2. r \in YearRules(o)
        BY <4>1 DEF Enabled
      <4> QED
        BY <4>1, <4>2, OccRules
    <3> QED
      BY <3>2, QuestionType
  <2> QED
    BY <2>1 DEF Timed, Entries, Errands
<1>2. ASSUME NEW t \in Entries(o)
      PROVE InWindow(day, t.due, Max({horizon, t.runUp})) <=>
              day >= -2 /\ (day - t.due <= t.runUp \/ day - t.due <= horizon)
  <2>1. t.due \in Nat /\ t.runUp \in Nat
    BY EntriesType
  <2>2. Max({horizon, t.runUp}) = IF horizon >= t.runUp THEN horizon ELSE t.runUp
    BY <2>1, GreaterOfTwo
  <2> QED
    BY <2>1, <2>2 DEF InWindow, BelatedDays
<1>3. ASSUME NEW t
      PROVE t \in Desired(o, day, horizon) <=>
              /\ ~(o.learned < 0) /\ t \in Timed(o, day)
              /\ InWindow(day, t.due, Max({horizon, t.runUp}))
  BY DEF Desired
<1>4. o.learned \in Int
  BY OccRules
<1>5. SUFFICES ASSUME NEW t
               PROVE t \in Desired(o, day, horizon) <=>
                       /\ t \in Entries(o) /\ o.learned >= 0
                       /\ t = Question(o) => Asked(o, day)
                       /\ day >= -2
                       /\ day - t.due <= t.runUp \/ day - t.due <= horizon
  OBVIOUS
<1>6. ~(o.learned < 0) <=> o.learned >= 0
  BY <1>4
<1>7. CASE t \in Entries(o)
  BY <1>1, <1>2, <1>3, <1>6, <1>7, Zenon
<1>8. CASE t \notin Entries(o)
  BY <1>1, <1>3, <1>8, Zenon
<1> QED
  BY <1>7, <1>8

\* The deadline of what is desired is its entry's.
LEMMA DueOfIs ==
  ASSUME NEW o, OccOK(o), NEW day \in Int, NEW horizon \in Nat,
         NEW t \in Desired(o, day, horizon)
  PROVE /\ t.action \in Named(Desired(o, day, horizon)) /\ t.action \in Action
        /\ DueOf(Desired(o, day, horizon), t.action) = t.due /\ t.due \in Nat
<1>1. \A u \in Desired(o, day, horizon) : u \in Entries(o)
  BY DesiredIs
<1> QED
  BY <1>1, EntriesType DEF DueOf, Named

LEMMA DueOfType ==
  ASSUME NEW o, OccOK(o), NEW day \in Int, NEW horizon \in Nat,
         NEW a \in Named(Desired(o, day, horizon))
  PROVE a \in Action /\ DueOf(Desired(o, day, horizon), a) \in Nat
<1>1. PICK t \in Desired(o, day, horizon) : t.action = a
  BY DEF Named
<1> QED
  BY <1>1, DueOfIs

-----------------------------------------------------------------------------
(* The question stays once asked, until it is answered.                    *)

\* What is offered is finite, and there is nothing on offer after the day.
LEMMA OffersFinite ==
  ASSUME NEW o, OccOK(o), NEW day \in Int
  PROVE /\ IsFiniteSet(Offers(Defaults(o), Resolved(o), day))
        /\ Cardinality(Offers(Defaults(o), Resolved(o), day)) \in Nat
        /\ Offers(Defaults(o), Resolved(o), day) # {} => day >= 0
<1> DEFINE offers == Offers(Defaults(o), Resolved(o), day)
<1>1. /\ Made(offers, Defaults(o))
      /\ \A r \in offers : FitsAt(r.action, r.lead, day)
  BY OccRules, OffersMade
<1>2. ASSUME NEW r \in offers PROVE day >= 0
  <2>1. r.lead \in Nat
    BY <1>1 DEF Made, OnePer, Rules
  <2> HIDE DEF offers
  <2> QED
    BY <1>1, <2>1, FitsEarlier
<1>3. IsFiniteSet(offers)
  BY <1>1, RulesFinite DEF Made
<1> HIDE DEF offers
<1>4. Cardinality(offers) \in Nat
  BY <1>3, FS_CardinalityType
<1> QED
  BY <1>2, <1>3, <1>4 DEF offers

\* What is asked was asked before.
LEMMA AskedEarlier ==
  ASSUME NEW o, OccOK(o), NEW day \in Int, NEW earlier \in Int, day <= earlier,
         Asked(o, day)
  PROVE Asked(o, earlier) /\ day >= 0
<1> DEFINE now == Offers(Defaults(o), Resolved(o), day)
           then == Offers(Defaults(o), Resolved(o), earlier)
<1>1. now \subseteq then
  BY OccRules, OffersShrink
<1>2. IsFiniteSet(now) /\ Cardinality(now) \in Nat /\ (now # {} => day >= 0)
  BY OffersFinite
<1>3. IsFiniteSet(then) /\ Cardinality(then) \in Nat
  BY OffersFinite
<1>4. Cardinality(now) >= 2
  BY DEF Asked
<1>5. Asked(o, earlier) <=> Cardinality(then) >= 2
  BY DEF Asked
<1> HIDE DEF now, then
<1>6. Cardinality(now) <= Cardinality(then)
  BY <1>1, <1>3, FS_Subset
<1>7. now # {}
  BY <1>4, FS_EmptySet
<1> QED
  BY <1>2, <1>3, <1>4, <1>5, <1>6, <1>7

\* a came on the list by day and no edit has taken it off; and it is off for good.
Opened(o, a, day) ==
    o.learned >= 0 /\ \E t \in Entries(o) : t.action = a /\ day - t.due <= t.runUp
Over(o, a, day) == \A d \in Int : d <= day => a \notin Wanted(o, d)

\* What is wanted has come on the list.
LEMMA WantedOpened ==
  ASSUME NEW o, OccOK(o), NEW day \in Int, NEW a \in Wanted(o, day)
  PROVE Opened(o, a, day) /\ a \in Action
<1>1. PICK t \in Desired(o, day, 0) : t.action = a
  BY DEF Wanted, Named
<1>2. /\ t \in Entries(o) /\ o.learned >= 0
      /\ day - t.due <= t.runUp \/ day - t.due <= 0
  BY <1>1, DesiredIs
<1>3. t.due \in Nat /\ t.runUp \in Nat /\ t.action \in Action
  BY <1>2, EntriesType
<1> QED
  BY <1>1, <1>2, <1>3 DEF Opened

\* What came on the list stays come.
LEMMA OpenedLater ==
  ASSUME NEW o, OccOK(o), NEW day \in Int, NEW later \in Int, later <= day,
         NEW a, Opened(o, a, day)
  PROVE Opened(o, a, later)
<1>1. PICK t \in Entries(o) : t.action = a /\ day - t.due <= t.runUp
  BY DEF Opened
<1>2. t.due \in Nat /\ t.runUp \in Nat
  BY EntriesType
<1>3. later - t.due <= t.runUp
  BY <1>1, <1>2
<1> QED
  BY <1>1, <1>3 DEF Opened

\* Once it came on the list, what is not wanted is over.
LEMMA OpenedOver ==
  ASSUME NEW o, OccOK(o), NEW day \in Int, NEW a, Opened(o, a, day),
         a \notin Wanted(o, day)
  PROVE Over(o, a, day)
<1>1. PICK t \in Entries(o) : t.action = a /\ day - t.due <= t.runUp
  BY DEF Opened
<1>2. t \notin Desired(o, day, 0)
  BY <1>1 DEF Wanted, Named
<1>3. day < -2 \/ (t = Question(o) /\ ~Asked(o, day))
  BY <1>1, <1>2, DesiredIs DEF Opened
<1>4. ASSUME NEW d \in Int, d <= day, a \in Wanted(o, d) PROVE FALSE
  <2>1. PICK u \in Desired(o, d, 0) : u.action = a
    BY <1>4 DEF Wanted, Named
  <2>2. u \in Entries(o) /\ d >= -2 /\ (u = Question(o) => Asked(o, d))
    BY <2>1, DesiredIs
  <2>3. u = t
    BY <1>1, <2>1, <2>2, EntriesType
  <2>4. t = Question(o) /\ ~Asked(o, day) /\ Asked(o, d)
    BY <1>3, <1>4, <2>2, <2>3
  <2> QED
    BY <1>4, <2>4, AskedEarlier
<1> QED
  BY <1>4 DEF Over

\* The rules an answer leaves: what was offered at its lead, and what was not.
AnswerOf(offers, ticks, typed) == Answered(offers, ticks) \cup typed
\* What the user typed beside the offers.
Typed(offers, typed) == typed = {} \/ (typed = {SomethingElse} /\ "other" \notin Named(offers))

\* An answer is a schedule, of no less than was offered.
LEMMA AnswerMade ==
  ASSUME NEW offers, NEW defaults, Made(offers, defaults), NEW ticks, NEW typed,
         Typed(offers, typed)
  PROVE /\ Made(AnswerOf(offers, ticks, typed), defaults)
        /\ \A r \in offers : \E q \in AnswerOf(offers, ticks, typed) :
              q.action = r.action /\ q.lead = r.lead
<1>1. /\ Made(Answered(offers, ticks), defaults)
      /\ Named(Answered(offers, ticks)) = Named(offers)
  BY AnsweredMade
<1>2. Made(typed, defaults) /\ \A r \in Answered(offers, ticks), q \in typed : r.action # q.action
  <2>1. CASE typed = {}
    BY <2>1 DEF Made, OnePer, Standard, Named
  <2>2. CASE typed = {SomethingElse} /\ "other" \notin Named(offers)
    <3>1. SomethingElse \in Rules /\ SomethingElse.action = "other"
      BY ActionsAre, RuleTyped DEF SomethingElse
    <3>2. Standard({SomethingElse})
      BY <3>1 DEF Standard, Posts
    <3>3. Made({SomethingElse}, defaults)
      BY <3>1, <3>2, MadeOne
    <3> QED
      BY <1>1, <2>2, <3>1, <3>3 DEF Named
  <2> QED
    BY <2>1, <2>2 DEF Typed
<1>3. Made(AnswerOf(offers, ticks, typed), defaults)
  BY <1>1, <1>2, MadeUnion DEF AnswerOf
<1>4. ASSUME NEW r \in offers
      PROVE \E q \in Answered(offers, ticks) : q.action = r.action /\ q.lead = r.lead
  <2>1. r \in Rules
    BY DEF Made, OnePer
  <2>2. PICK on : [r EXCEPT !.on = on] \in Answered(offers, ticks)
    BY DEF Answered
  <2>3. /\ [r EXCEPT !.on = on].action = r.action
        /\ [r EXCEPT !.on = on].lead = r.lead
    BY <2>1 DEF Rules
  <2> QED
    BY <2>2, <2>3
<1> QED
  BY <1>3, <1>4 DEF AnswerOf

\* An answer leaves no less to choose from.
LEMMA OffersKept ==
  ASSUME NEW defaults, NEW stored, NEW answer, NEW day \in Int,
         Made(defaults, defaults), Made(stored, defaults), Made(answer, defaults),
         \A r \in Offers(defaults, stored, day) :
            \E q \in answer : q.action = r.action /\ q.lead = r.lead
  PROVE Cardinality(Offers(defaults, stored, day))
          <= Cardinality(Offers(defaults, WithAnswer(stored, answer), day))
<1> DEFINE new == WithAnswer(stored, answer)
           drawn(s) == s \cup {d \in defaults : d.action \notin Named(s)}
           fits(s) == {r \in drawn(s) : FitsAt(r.action, r.lead, day)}
           goods(s) == Named(fits(s)) \cup {None}
           offers(s) == Offers(defaults, s, day)
<1>1. \A s : offers(s) = {r \in fits(s) : DeliveryOf(r.action) \in goods(s)}
  BY DEF Offers
<1>2. Made(new, defaults) /\ answer \subseteq new
  BY WithAnswerMade DEF WithAnswer
<1>3. /\ Made(offers(stored), defaults) /\ Made(offers(new), defaults)
      /\ \A r \in offers(stored) : FitsAt(r.action, r.lead, day)
  BY <1>2, OffersMade
<1>4. ASSUME NEW r \in offers(stored)
      PROVE \E q \in fits(new) : q.action = r.action
  <2>1. PICK q \in answer : q.action = r.action /\ q.lead = r.lead
    OBVIOUS
  <2>2. FitsAt(q.action, q.lead, day)
    BY <1>3, <2>1
  <2> QED
    BY <1>2, <2>1, <2>2
<1>5. ASSUME NEW r \in offers(stored)
      PROVE DeliveryOf(r.action) \in goods(new)
  <2>1. DeliveryOf(r.action) \in goods(stored)
    BY <1>1
  <2>2. CASE DeliveryOf(r.action) = None
    BY <2>2
  <2>3. CASE DeliveryOf(r.action) # None
    <3>1. PICK g \in fits(stored) : g.action = DeliveryOf(r.action)
      BY <2>1, <2>3 DEF Named
    <3>2. g.action \in {"get:gift", "get:card"}
      BY <2>3, <3>1 DEF DeliveryOf
    <3>3. DeliveryOf(g.action) = None
      BY <3>2 DEF DeliveryOf
    <3>4. g \in offers(stored)
      BY <1>1, <3>1, <3>3
    <3>5. PICK q \in fits(new) : q.action = g.action
      BY <1>4, <3>4
    <3> QED
      BY <3>1, <3>5 DEF Named
  <2> QED
    BY <2>2, <2>3
<1>6. \A r \in offers(stored) : \E q \in offers(new) : q.action = r.action
  <2> HIDE DEF fits, goods, offers
  <2> QED
    BY <1>1, <1>4, <1>5
<1> HIDE DEF offers, new
<1> DEFINE f == [r \in offers(stored) |-> CHOOSE q \in offers(new) : q.action = r.action]
<1>7. f \in [offers(stored) -> offers(new)] /\ \A r \in offers(stored) : f[r].action = r.action
  BY <1>6
<1>8. f \in Injection(offers(stored), offers(new))
  <2>1. \A r, s \in offers(stored) : r.action = s.action => r = s
    BY <1>3 DEF Made, OnePer
  <2> HIDE DEF f
  <2> QED
    BY <1>7, <2>1 DEF Injection, IsInjective
<1>9. IsFiniteSet(offers(new))
  BY <1>3, RulesFinite DEF Made
<1> HIDE DEF f
<1>10. Cardinality(offers(stored)) <= Cardinality(offers(new))
  BY <1>8, <1>9, FS_Injection
<1> QED
  BY <1>10 DEF offers, new

\* The question answered is there to be tombstoned: on a preview, if not on a row.
LEMMA AnsweredPreviewed ==
  ASSUME NEW o, OccOK(o), NEW day \in Int, day <= o.learned,
         "plan" \in Named(Desired(o, day, DisplayWindow)),
         NEW answer, Made(answer, Defaults(o)),
         \A r \in Offers(Defaults(o), Resolved(o), day) :
            \E q \in answer : q.action = r.action /\ q.lead = r.lead,
         NEW new, OccOK(new), new.learned = o.learned, new.imported = o.imported,
         new.asks = o.asks, new.audience = o.audience, new.yearly = {},
         new.rules = WithAnswer(Resolved(o), answer)
  PROVE "plan" \in Named(Desired(new, day, DisplayWindow))
<1> USE DEF DisplayWindow
<1>1. PICK t \in Desired(o, day, 30) : t.action = "plan"
  BY DEF Named
<1>2. /\ t \in Entries(o) /\ t = Question(o) /\ o.learned >= 0
      /\ Asked(o, day) /\ day >= -2
      /\ day - t.due <= t.runUp \/ day - t.due <= 30
  <2>1. /\ t \in Entries(o) /\ o.learned >= 0
        /\ t = Question(o) => Asked(o, day)
        /\ day >= -2
        /\ day - t.due <= t.runUp \/ day - t.due <= 30
    BY <1>1, DesiredIs
  <2>2. t = Question(o)
    BY <1>1, <2>1, EntriesType
  <2> QED
    BY <2>1, <2>2
<1>3. Defaults(new) = Defaults(o)
  BY DEF Defaults
<1>4. /\ Made(Defaults(o), Defaults(o)) /\ Made(Resolved(o), Defaults(o))
      /\ o.learned \in Int
  BY OccRules
<1>5. /\ QuestionTiming(new).late <=> QuestionTiming(o).late
      /\ ~QuestionTiming(o).late => QuestionTiming(new).due = QuestionTiming(o).due
  <2>1. Made(Defaults(new), Defaults(new)) /\ Made(Resolved(new), Defaults(new))
    BY OccRules
  <2> QED
    BY <1>3, <1>4, <2>1, TimingType DEF QuestionTiming
<1>6. Asked(new, day)
  <2> DEFINE offers == Offers(Defaults(o), Resolved(o), day)
  <2>1. Cardinality(offers) >= 2
    BY <1>2 DEF Asked
  <2>2. offers # {}
    <3> HIDE DEF offers
    <3> QED
      BY <2>1, FS_EmptySet
  <2>3. answer # {}
    BY <2>2
  <2>4. Resolved(new) = WithAnswer(Resolved(o), answer)
    BY <2>3 DEF Resolved, WithAnswer
  <2>5. Cardinality(offers) <= Cardinality(Offers(Defaults(o), WithAnswer(Resolved(o), answer), day))
    BY <1>4, OffersKept
  <2>6. Cardinality(Offers(Defaults(new), Resolved(new), day)) \in Nat
    BY OffersFinite
  <2>7. Cardinality(offers) \in Nat
    BY OffersFinite
  <2> HIDE DEF offers
  <2>8. Cardinality(Offers(Defaults(new), Resolved(new), day)) >= 2
    BY <1>3, <2>1, <2>4, <2>5, <2>6, <2>7
  <2> QED
    BY <1>2, <1>5, <2>8 DEF Asked
<1> DEFINE u == Question(new)
<1>7. /\ Question(o).due \in Nat /\ Question(o).runUp \in Nat
      /\ Question(o).due = QuestionTiming(o).due
      /\ ~QuestionTiming(o).late => Question(o).runUp = RunUp("plan")
  BY QuestionType
<1>8. /\ u.due \in Nat /\ u.runUp \in Nat /\ u.due = QuestionTiming(new).due
      /\ QuestionTiming(new).late => u.runUp >= new.learned - u.due
      /\ ~QuestionTiming(new).late => u.runUp = RunUp("plan")
      /\ u.action = "plan"
  BY QuestionType
<1> HIDE DEF u
<1>9. day - u.due <= u.runUp \/ day - u.due <= 30
  <2>1. CASE QuestionTiming(o).late
    BY <1>4, <1>5, <1>8, <2>1
  <2>2. CASE ~QuestionTiming(o).late
    BY <1>2, <1>5, <1>7, <1>8, <2>2
  <2> QED
    BY <2>1, <2>2
<1>10. u \in Entries(new)
  BY DEF Entries, u
<1>11. u \in Desired(new, day, 30)
  BY <1>2, <1>6, <1>9, <1>10, DesiredIs
<1> QED
  BY <1>8, <1>11 DEF Named

-----------------------------------------------------------------------------
(* What a reconcile leaves.                                                *)

\* The year's rows.
Rows == [Action -> [state : {"none", "live", "dead"}, due : Nat]]

\* A reconcile makes live what is wanted and kills what is not, once and for all.
LEMMA ReconciledIs ==
  ASSUME NEW o, OccOK(o), NEW day \in Int, NEW rows \in Rows
  PROVE LET new == Reconciled(rows, Desired(o, day, 0))
        IN  /\ new \in Rows
            /\ Reconciled(new, Desired(o, day, 0)) = new
            /\ \A a \in Action :
                  /\ new[a].state = "live"
                     => a \in Wanted(o, day) /\ new[a].due = DueOf(Desired(o, day, 0), a)
                  /\ new[a].state = "dead"
                     => \/ rows[a].state = "dead"
                        \/ rows[a].state = "live" /\ a \notin Wanted(o, day)
                  /\ rows[a].state = "dead" => new[a].state = "dead"
                  /\ a \in Wanted(o, day) => new[a].state # "none"
<1> DEFINE wants == Desired(o, day, 0)
           new == Reconciled(rows, wants)
<1>1. \A a \in Named(wants) : a \in Action /\ DueOf(wants, a) \in Nat
  BY DueOfType
<1>2. Wanted(o, day) = Named(wants)
  BY DEF Wanted
<1> HIDE DEF wants
<1>3. \A a \in Action : rows[a] \in [state : {"none", "live", "dead"}, due : Nat]
  BY DEF Rows
<1>4. \A a \in Action : new[a] =
        IF a \in Named(wants)
        THEN IF rows[a].state = "dead" THEN Dead ELSE Live(DueOf(wants, a))
        ELSE IF rows[a].state = "live" THEN Dead ELSE rows[a]
  BY DEF Reconciled
<1>5. /\ Dead \in [state : {"none", "live", "dead"}, due : Nat]
      /\ Dead.state = "dead"
      /\ \A n \in Nat : /\ Live(n) \in [state : {"none", "live", "dead"}, due : Nat]
                        /\ Live(n).state = "live" /\ Live(n).due = n
  BY DEF Dead, Live
<1>6. \A a \in Action : new[a] \in [state : {"none", "live", "dead"}, due : Nat]
  BY <1>1, <1>3, <1>4, <1>5
<1>7. new \in Rows
  BY <1>6 DEF Rows, Reconciled
<1>8. ASSUME NEW a \in Action
      PROVE /\ new[a].state = "live"
                 => a \in Named(wants) /\ new[a].due = DueOf(wants, a)
            /\ new[a].state = "dead"
                 => \/ rows[a].state = "dead"
                    \/ rows[a].state = "live" /\ a \notin Named(wants)
            /\ rows[a].state = "dead" => new[a].state = "dead"
            /\ a \in Named(wants) => new[a].state # "none"
            /\ (IF a \in Named(wants)
                THEN IF new[a].state = "dead" THEN Dead ELSE Live(DueOf(wants, a))
                ELSE IF new[a].state = "live" THEN Dead ELSE new[a]) = new[a]
  BY <1>1, <1>3, <1>4, <1>5
<1>9. Reconciled(new, wants) = new
  <2>1. Reconciled(new, wants) = [a \in Action |->
            IF a \in Named(wants)
            THEN IF new[a].state = "dead" THEN Dead ELSE Live(DueOf(wants, a))
            ELSE IF new[a].state = "live" THEN Dead ELSE new[a]]
    BY DEF Reconciled
  <2>2. new = [a \in Action |-> new[a]]
    BY DEF Reconciled
  <2> HIDE DEF new
  <2> QED
    BY <1>8, <2>1, <2>2
<1> QED
  BY <1>2, <1>7, <1>8, <1>9 DEF wants

-----------------------------------------------------------------------------
(* The inductive invariant.                                                *)

\* As a reconcile leaves it.
Settled(o, rows, day) == rows = Reconciled(rows, Desired(o, day, 0))

\* Since the last edit: what is live came on the list, or the user had it out
\* early; what is dead the user did away with, an edit took off, or is over.
Tracked(o, rows, day, off, gone) ==
    \A a \in Action :
        /\ rows[a].state = "live" => a \in off \/ Opened(o, a, day)
        /\ rows[a].state = "dead" => a \in off \cup gone \/ Over(o, a, day)

\* The inductive invariant: a reconciled list is as a reconcile leaves it, since an
\* edit every row is accounted for, and the question answered has its tombstone.
OccasionInv ==
    /\ TypeOK
    /\ OccOK(occ) /\ out <= occ.learned
    /\ since = "none" => Settled(occ, row, out)
    /\ since # "edit" => Tracked(occ, row, out, declined, moved)
    /\ answered => row["plan"].state = "dead"

\* What type correctness says of the state.
LEMMA TypeParts ==
  ASSUME TypeOK
  PROVE /\ out \in Int /\ row \in Rows
        /\ declined \subseteq Action /\ moved \subseteq Action
        /\ MaxActs \in Nat /\ MaxYears \in Nat
BY OccasionAssumption DEF TypeOK, Rows

\* A reconcile settles the rows, and tracks them anew.
LEMMA ReconcileSettles ==
  ASSUME NEW o, OccOK(o), NEW day \in Int, NEW rows \in Rows, NEW new,
         new = Reconciled(rows, Desired(o, day, 0)), NEW off, NEW gone,
         \/ Lost(new) \subseteq gone
         \/ Tracked(o, rows, day, off, gone)
  PROVE /\ new \in Rows /\ Settled(o, new, day) /\ Tracked(o, new, day, off, gone)
        /\ \A a \in Action : rows[a].state = "dead" => new[a].state = "dead"
<1>1. /\ new \in Rows
      /\ Reconciled(new, Desired(o, day, 0)) = new
      /\ \A a \in Action :
            /\ new[a].state = "live" => a \in Wanted(o, day)
            /\ new[a].state = "dead"
               => \/ rows[a].state = "dead"
                  \/ rows[a].state = "live" /\ a \notin Wanted(o, day)
            /\ rows[a].state = "dead" => new[a].state = "dead"
  BY ReconciledIs
<1>2. ASSUME NEW a \in Action, new[a].state = "live" PROVE Opened(o, a, day)
  BY <1>1, <1>2, WantedOpened
<1>3. ASSUME NEW a \in Action, new[a].state = "dead"
      PROVE a \in off \cup gone \/ Over(o, a, day)
  <2>1. CASE Lost(new) \subseteq gone
    BY <1>3, <2>1 DEF Lost
  <2>2. CASE Tracked(o, rows, day, off, gone)
    <3>1. CASE rows[a].state = "dead"
      BY <2>2, <3>1 DEF Tracked
    <3>2. CASE rows[a].state = "live" /\ a \notin Wanted(o, day)
      <4>1. a \in off \/ Opened(o, a, day)
        BY <2>2, <3>2 DEF Tracked
      <4>2. ASSUME Opened(o, a, day) PROVE Over(o, a, day)
        BY <3>2, <4>2, OpenedOver
      <4> QED
        BY <4>1, <4>2
    <3> QED
      BY <1>1, <1>3, <3>1, <3>2
  <2> QED
    BY <2>1, <2>2
<1> QED
  BY <1>1, <1>2, <1>3 DEF Settled, Tracked

\* The reconcile that ends an edit, or the crash before it.
LEMMA SettleKeeps ==
  ASSUME NEW o, OccOK(o), NEW day \in Int, NEW rows \in Rows, NEW off,
         moved \subseteq Action, Settle(rows, o, day)
  PROVE /\ row' \in Rows /\ moved' \subseteq Action /\ since' \in {"none", "edit"}
        /\ since' = "none" => Settled(o, row', day)
        /\ since' # "edit" => Tracked(o, row', day, off, moved')
        /\ \A a \in Action : rows[a].state = "dead" => row'[a].state = "dead"
<1>1. CASE /\ row' = Reconciled(rows, Desired(o, day, 0))
           /\ moved' = moved \cup Lost(row')
           /\ since' = "none"
  <2>1. Lost(row') \subseteq moved'
    BY <1>1
  <2>2. /\ row' \in Rows /\ Settled(o, row', day) /\ Tracked(o, row', day, off, moved')
        /\ \A a \in Action : rows[a].state = "dead" => row'[a].state = "dead"
    BY <1>1, <2>1, ReconcileSettles
  <2>3. moved' \subseteq Action
    BY <1>1 DEF Lost
  <2> QED
    BY <1>1, <2>2, <2>3
<1>2. CASE row' = rows /\ moved' = moved /\ since' = "edit"
  BY <1>2
<1> QED
  BY <1>1, <1>2 DEF Settle

\* A day on, the rows are tracked still.
LEMMA TrackedLater ==
  ASSUME NEW o, OccOK(o), NEW rows, NEW day \in Int, NEW later \in Int, later <= day,
         NEW off, NEW gone, Tracked(o, rows, day, off, gone)
  PROVE Tracked(o, rows, later, off, gone)
<1>1. ASSUME NEW a, Opened(o, a, day) PROVE Opened(o, a, later)
  BY <1>1, OpenedLater
<1>2. ASSUME NEW a, Over(o, a, day) PROVE Over(o, a, later)
  BY <1>2 DEF Over
<1> QED
  BY <1>1, <1>2 DEF Tracked

\* A row tombstoned leaves the others as they were reconciled.
Tombstoned(new, rows, a) == new = [rows EXCEPT ![a] = Dead]

LEMMA RetiredSettles ==
  ASSUME NEW o, OccOK(o), NEW day \in Int, NEW rows \in Rows, NEW a \in Action,
         NEW new, Tombstoned(new, rows, a)
  PROVE /\ new \in Rows /\ new[a].state = "dead"
        /\ \A b \in Action : rows[b].state = "dead" => new[b].state = "dead"
        /\ Settled(o, rows, day) => Settled(o, new, day)
        /\ \A off, gone : Tracked(o, rows, day, off, gone)
                          => Tracked(o, new, day, off \cup {a}, gone)
<1> DEFINE wants == Desired(o, day, 0)
<1>1. Dead \in [state : {"none", "live", "dead"}, due : Nat] /\ Dead.state = "dead"
  BY DEF Dead
<1>2. new \in Rows /\ new[a] = Dead /\ \A b \in Action : b # a => new[b] = rows[b]
  BY <1>1 DEF Rows, Tombstoned
<1>3. ASSUME Settled(o, rows, day) PROVE Settled(o, new, day)
  <2>1. \A b \in Action : rows[b] =
            IF b \in Named(wants)
            THEN IF rows[b].state = "dead" THEN Dead ELSE Live(DueOf(wants, b))
            ELSE IF rows[b].state = "live" THEN Dead ELSE rows[b]
    <3>1. rows = Reconciled(rows, wants)
      BY <1>3 DEF Settled
    <3> HIDE DEF wants
    <3>2. \A b \in Action : Reconciled(rows, wants)[b] =
            IF b \in Named(wants)
            THEN IF rows[b].state = "dead" THEN Dead ELSE Live(DueOf(wants, b))
            ELSE IF rows[b].state = "live" THEN Dead ELSE rows[b]
      BY DEF Reconciled
    <3> QED
      BY <3>1, <3>2
  <2> HIDE DEF wants
  <2>2. \A b \in Action : new[b] =
            IF b \in Named(wants)
            THEN IF new[b].state = "dead" THEN Dead ELSE Live(DueOf(wants, b))
            ELSE IF new[b].state = "live" THEN Dead ELSE new[b]
    BY <1>1, <1>2, <2>1
  <2>3. new = [b \in Action |-> new[b]]
    BY <1>2 DEF Rows
  <2>4. new = Reconciled(new, wants)
    BY <2>2, <2>3 DEF Reconciled
  <2> QED
    BY <2>4 DEF Settled, wants
<1>4. ASSUME NEW off, NEW gone, Tracked(o, rows, day, off, gone)
      PROVE Tracked(o, new, day, off \cup {a}, gone)
  BY <1>1, <1>2, <1>4 DEF Tracked
<1> QED
  BY <1>1, <1>2, <1>3, <1>4

-----------------------------------------------------------------------------
(* Every step keeps it.                                                    *)

\* A milestone just created.
LEMMA InitKeeps == Init => OccasionInv
<1> SUFFICES ASSUME Init PROVE OccasionInv
  OBVIOUS
<1> USE OccasionAssumption
<1>1. out \in Days /\ out \in Int
  BY DEF Init
<1>2. PICK imported \in BOOLEAN, audience \in {"theirs", "own"} :
         occ = [learned |-> out, imported |-> imported, asks |-> TRUE,
                audience |-> audience, rules |-> {}, written |-> 0,
                yearly |-> {}, yearlyWritten |-> 0]
  BY DEF Init
<1>3. OccOK(occ) /\ out <= occ.learned
  BY <1>1, <1>2 DEF OccOK, Audiences, Made, OnePer, Standard, Named
<1>4. TypeOK
  <2>1. occ \in [learned : Int, imported : BOOLEAN, asks : BOOLEAN,
                 audience : {"theirs", "own", "memorial"},
                 rules : SUBSET Rules, written : Int,
                 yearly : SUBSET Rules, yearlyWritten : Int]
    BY <1>3 DEF OccOK, Audiences
  <2>2. row \in [Action -> [state : {"none", "live", "dead"}, due : Nat]]
    BY DEF Init, NoRow
  <2>3. declined \subseteq Action /\ moved \subseteq Action
    BY DEF Init
  <2>4. answered \in BOOLEAN /\ since \in {"none", "day", "edit"}
    BY DEF Init
  <2>5. acts \in 0 .. MaxActs /\ years \in 0 .. MaxYears
    BY DEF Init
  <2> QED
    BY <1>1, <2>1, <2>2, <2>3, <2>4, <2>5 DEF TypeOK
<1> QED
  BY <1>3, <1>4 DEF Init, OccasionInv

\* regenerateSystem.
LEMMA RegenerateKeeps == OccasionInv /\ Regenerate => OccasionInv'
<1> SUFFICES ASSUME OccasionInv, Regenerate PROVE OccasionInv'
  OBVIOUS
<1>1. TypeOK /\ OccOK(occ) /\ out \in Int /\ row \in Rows /\ moved \subseteq Action
  BY TypeParts DEF OccasionInv
<1>2. /\ row' = Reconciled(row, Desired(occ, out, 0))
      /\ moved' = IF since = "edit" THEN moved \cup Lost(row') ELSE moved
      /\ since' = "none"
      /\ out' = out /\ occ' = occ /\ declined' = declined /\ answered' = answered
      /\ acts' = acts /\ years' = years
  BY DEF Regenerate
<1>3. \/ Lost(row') \subseteq moved'
      \/ Tracked(occ, row, out, declined, moved')
  BY <1>2 DEF OccasionInv
<1>4. /\ row' \in Rows /\ Settled(occ, row', out)
      /\ Tracked(occ, row', out, declined, moved')
      /\ \A a \in Action : row[a].state = "dead" => row'[a].state = "dead"
  BY <1>1, <1>2, <1>3, ReconcileSettles
<1>5. moved' \subseteq Action
  BY <1>1, <1>2 DEF Lost
<1>6. TypeOK'
  BY <1>1, <1>2, <1>4, <1>5 DEF TypeOK, Rows
<1>7. "plan" \in Action
  BY ActionsAre
<1> QED
  BY <1>2, <1>4, <1>6, <1>7 DEF OccasionInv

\* A day passes.
LEMMA NextDayKeeps == OccasionInv /\ NextDay => OccasionInv'
<1> SUFFICES ASSUME OccasionInv, NextDay PROVE OccasionInv'
  OBVIOUS
<1> DEFINE sooner == {d \in Days : d < out}
<1>1. TypeOK /\ OccOK(occ) /\ out \in Int /\ occ.learned \in Int
  BY TypeParts, OccRules DEF OccasionInv
<1>2. /\ out' = Max(sooner) /\ sooner # {}
      /\ since' = IF since = "edit" THEN "edit" ELSE "day"
      /\ occ' = occ /\ row' = row /\ declined' = declined /\ moved' = moved
      /\ answered' = answered /\ acts' = acts /\ years' = years
  BY DEF NextDay
<1>3. sooner \in SUBSET Int /\ IsFiniteSet(sooner) /\ sooner \subseteq Days
  <2>1. sooner \in SUBSET Days
    OBVIOUS
  <2> QED
    BY <2>1, OccasionAssumption, FS_Subset
<1>4. \A d \in sooner : d < out
  OBVIOUS
<1> HIDE DEF sooner
<1>5. out' \in sooner
  BY <1>2, <1>3, Greatest
<1>6. out' \in Days /\ out' \in Int /\ out' < out
  BY <1>3, <1>4, <1>5
<1>7. since # "edit" => Tracked(occ, row, out', declined, moved)
  BY <1>1, <1>6, TrackedLater DEF OccasionInv
<1>8. TypeOK'
  BY <1>1, <1>2, <1>6 DEF TypeOK
<1>9. since' # "none" /\ (since' # "edit" => since # "edit")
  BY <1>2
<1>10. out' <= occ.learned
  BY <1>1, <1>6 DEF OccasionInv
<1> QED
  BY <1>1, <1>2, <1>7, <1>8, <1>9, <1>10 DEF OccasionInv

\* A year passes.
LEMMA NextYearKeeps == OccasionInv /\ NextYear => OccasionInv'
<1> SUFFICES ASSUME OccasionInv, NextYear PROVE OccasionInv'
  OBVIOUS
<1>1. TypeOK /\ OccOK(occ) /\ out \in Days /\ out \in Int /\ occ.learned \in Int
      /\ out <= occ.learned
  BY TypeParts, OccRules DEF OccasionInv, TypeOK
<1>2. /\ years < MaxYears /\ years' = years + 1 /\ out' = Max(Days)
      /\ occ' = [occ EXCEPT !.learned = @ + 365,
                            !.written = IF occ.rules = {} THEN @ ELSE @ + 365,
                            !.yearly = {}, !.yearlyWritten = 0]
      /\ row' = [a \in Action |-> NoRow]
      /\ declined' = {} /\ moved' = {} /\ answered' = FALSE
      /\ since' = "edit" /\ acts' = acts
  BY DEF NextYear
<1>3. out' \in Days /\ out' \in Int
  BY <1>1, <1>2, OccasionAssumption, Greatest
<1>4. OccOK(occ') /\ occ'.learned = occ.learned + 365
  <2>1. occ' \in [learned : Int, imported : BOOLEAN, asks : BOOLEAN,
              audience : Audiences, rules : SUBSET Rules, written : Int,
              yearly : SUBSET Rules, yearlyWritten : Int]
    <3> DEFINE w == IF occ.rules = {} THEN occ.written ELSE occ.written + 365
    <3>1. w \in Int
      BY <1>1 DEF OccOK
    <3>2. occ' = [occ EXCEPT !.learned = occ.learned + 365, !.written = w,
                             !.yearly = {}, !.yearlyWritten = 0]
      BY <1>2
    <3> HIDE DEF w
    <3>3. occ' = [learned |-> occ.learned + 365, imported |-> occ.imported,
                  asks |-> occ.asks, audience |-> occ.audience, rules |-> occ.rules,
                  written |-> w, yearly |-> {}, yearlyWritten |-> 0]
      BY <1>1, <3>2 DEF OccOK
    <3> QED
      BY <1>1, <3>1, <3>3 DEF OccOK
  <2>2. /\ occ'.rules = occ.rules /\ occ'.yearly = {} /\ occ'.audience = occ.audience
        /\ occ'.learned = occ.learned + 365
    BY <1>1, <1>2 DEF OccOK
  <2>3. Made({}, Defaults(occ))
    BY DEF Made, OnePer, Standard, Named
  <2>4. Defaults(occ') = Defaults(occ)
    BY <2>2 DEF Defaults
  <2> QED
    BY <1>1, <2>1, <2>2, <2>3, <2>4 DEF OccOK
<1>5. out' <= occ'.learned
  BY <1>1, <1>3, <1>4, OccasionAssumption
<1>6. row' \in Rows
  BY <1>2 DEF Rows, NoRow
<1>7. TypeOK'
  <2>1. years' \in 0 .. MaxYears
    BY <1>1, <1>2, OccasionAssumption DEF TypeOK
  <2> QED
    BY <1>1, <1>2, <1>3, <1>4, <1>6, <2>1 DEF TypeOK, Rows, OccOK, Audiences
<1> QED
  BY <1>2, <1>4, <1>5, <1>7 DEF OccasionInv

\* What every edit keeps, whatever it makes of the occasion.
LEMMA EditKeeps ==
  ASSUME OccasionInv, Act, NEW o, OccOK(o), occ' = o, NEW day \in Days, out' = day,
         day <= o.learned, NEW rows \in Rows, Settle(rows, o, day),
         declined' \subseteq Action, answered' \in BOOLEAN,
         answered' => rows["plan"].state = "dead"
  PROVE OccasionInv'
<1>1. TypeOK /\ moved \subseteq Action /\ day \in Int
  BY TypeParts, OccasionAssumption DEF OccasionInv
<1>2. /\ row' \in Rows /\ moved' \subseteq Action /\ since' \in {"none", "edit"}
      /\ since' = "none" => Settled(o, row', day)
      /\ since' # "edit" => Tracked(o, row', day, declined', moved')
      /\ \A a \in Action : rows[a].state = "dead" => row'[a].state = "dead"
  BY <1>1, SettleKeeps
<1>3. acts' \in 0 .. MaxActs /\ years' \in 0 .. MaxYears
  BY <1>1, TypeParts DEF Act, TypeOK
<1>4. TypeOK'
  BY <1>2, <1>3 DEF TypeOK, Rows, OccOK, Audiences
<1>5. "plan" \in Action
  BY ActionsAre
<1> QED
  BY <1>2, <1>4, <1>5 DEF OccasionInv

\* The occasion before an edit, and the rows.
LEMMA BeforeEdit ==
  ASSUME OccasionInv
  PROVE /\ TypeOK /\ OccOK(occ) /\ out \in Days /\ out \in Int /\ out <= occ.learned
        /\ row \in Rows /\ declined \subseteq Action /\ answered \in BOOLEAN
        /\ answered => row["plan"].state = "dead"
        /\ "plan" \in Action
BY TypeParts, ActionsAre DEF OccasionInv, TypeOK

\* New rules for the year on, and the override dropped.
Renewed(o, rules) ==
    o = [occ EXCEPT !.rules = rules, !.written = out, !.yearly = {},
                    !.yearlyWritten = 0]

LEMMA NewRules ==
  ASSUME OccOK(occ), out \in Int, NEW rules, Made(rules, Defaults(occ)), NEW o,
         Renewed(o, rules)
  PROVE /\ OccOK(o) /\ o.learned = occ.learned /\ o.imported = occ.imported
        /\ o.asks = occ.asks /\ o.audience = occ.audience /\ o.yearly = {}
        /\ o.rules = rules
<1>1. o = [learned |-> occ.learned, imported |-> occ.imported, asks |-> occ.asks,
           audience |-> occ.audience, rules |-> rules, written |-> out,
           yearly |-> {}, yearlyWritten |-> 0]
  BY DEF OccOK, Renewed
<1>2. Made({}, Defaults(occ))
  BY DEF Made, OnePer, Standard, Named
<1>3. rules \in SUBSET Rules
  BY DEF Made, OnePer
<1>4. Defaults(o) = Defaults(occ)
  BY <1>1 DEF Defaults
<1> QED
  BY <1>1, <1>2, <1>3, <1>4 DEF OccOK

\* milestones.answerPlan, wherever it is cut short.
LEMMA AnswerKeeps ==
  ASSUME OccasionInv, NEW ticked, NEW extra, Answer(ticked, extra)
  PROVE OccasionInv'
<1> DEFINE offers == Offers(Defaults(occ), Resolved(occ), out)
           typed == IF ~extra THEN {}
                    ELSE IF "other" \in Named(offers) THEN {} ELSE {SomethingElse}
           ticks == IF extra THEN ticked \cup {"other"} ELSE ticked
           answer == AnswerOf(offers, ticks, typed)
           o == [occ EXCEPT !.rules = WithAnswer(Resolved(occ), answer),
                            !.written = out, !.yearly = {}, !.yearlyWritten = 0]
           off == declined \cup SwitchedOff(o)
<1>1. /\ TypeOK /\ OccOK(occ) /\ out \in Days /\ out \in Int /\ out <= occ.learned
      /\ row \in Rows /\ declined \subseteq Action /\ answered \in BOOLEAN
      /\ answered => row["plan"].state = "dead"
      /\ "plan" \in Action
  BY BeforeEdit
<1>2. /\ Act /\ row["plan"].state # "dead"
      /\ "plan" \in Named(Desired(occ, out, DisplayWindow))
      /\ occ' = o
      /\ \/ /\ row' = row /\ moved' = moved /\ since' = "edit"
            /\ declined' = off
            /\ answered' = answered
         \/ /\ Settle(Retired(row, o, "plan"), o, out)
            /\ declined' = off \cup {"plan"}
            /\ answered' = TRUE
      /\ out' = out
  BY DEF Answer, AnswerOf
<1>3. /\ Made(Resolved(occ), Defaults(occ)) /\ Made(Defaults(occ), Defaults(occ))
      /\ Made(offers, Defaults(occ))
  BY <1>1, OccRules, OffersMade
<1>4. Typed(offers, typed)
  BY DEF Typed
<1>5. /\ Made(answer, Defaults(occ))
      /\ \A r \in offers : \E q \in answer : q.action = r.action /\ q.lead = r.lead
  <2> HIDE DEF offers, typed, ticks
  <2> QED
    BY <1>3, <1>4, AnswerMade
<1> HIDE DEF answer
<1>6. Made(WithAnswer(Resolved(occ), answer), Defaults(occ))
  BY <1>3, <1>5, WithAnswerMade
<1> DEFINE rules == WithAnswer(Resolved(occ), answer)
<1>7. /\ OccOK(o) /\ o.learned = occ.learned /\ o.imported = occ.imported
      /\ o.asks = occ.asks /\ o.audience = occ.audience /\ o.yearly = {}
      /\ o.rules = rules
  <2> HIDE DEF rules
  <2>1. Renewed(o, rules)
    BY DEF rules, Renewed
  <2> HIDE DEF o
  <2>2. Made(rules, Defaults(occ))
    BY <1>6 DEF rules
  <2> QED
    BY <1>1, <2>1, <2>2, NewRules
<1> HIDE DEF o
<1>8. "plan" \in Named(Desired(o, out, DisplayWindow))
  BY <1>1, <1>2, <1>5, <1>7, AnsweredPreviewed
<1>9. off \subseteq Action
  BY <1>1 DEF SwitchedOff
<1> HIDE DEF off
<1>10. CASE /\ Settle(Retired(row, o, "plan"), o, out)
            /\ declined' = off \cup {"plan"}
            /\ answered' = TRUE
  <2>1. Tombstoned(Retired(row, o, "plan"), row, "plan")
    BY <1>8 DEF Retired, Tombstoned
  <2>2. Retired(row, o, "plan") \in Rows /\ Retired(row, o, "plan")["plan"].state = "dead"
    BY <1>1, <1>7, <2>1, RetiredSettles
  <2>3. declined' \subseteq Action /\ answered' \in BOOLEAN
    BY <1>1, <1>9, <1>10
  <2> QED
    BY <1>1, <1>2, <1>7, <1>10, <2>2, <2>3, EditKeeps
<1>11. CASE /\ row' = row /\ moved' = moved /\ since' = "edit"
            /\ declined' = off
            /\ answered' = answered
  <2>1. Settle(row, o, out)
    BY <1>11 DEF Settle
  <2>2. /\ declined' \subseteq Action /\ answered' \in BOOLEAN
        /\ answered' => row["plan"].state = "dead"
    BY <1>1, <1>9, <1>11
  <2>3. Act /\ occ' = o /\ out' = out
    BY <1>2
  <2>4. OccOK(o) /\ out <= o.learned
    BY <1>1, <1>7
  <2>5. row \in Rows /\ out \in Days
    BY <1>1
  <2> QED
    BY <2>1, <2>2, <2>3, <2>4, <2>5, EditKeeps
<1> QED
  BY <1>2, <1>10, <1>11

\* What the editor makes: a rule switched, or its lead set.
Switches ==
    {[r EXCEPT !.on = ~@] : r \in {q \in Resolved(occ) : q.action \in Picked}}
Releads ==
    {Rule(r.action, lead, TRUE) :
        r \in {s \in {q \in Resolved(occ) : q.action \in Picked} :
                 Latest(s.action, s.lead) < s.lead}, lead \in Leads}

\* milestones.update with a schedule: what the editor may set, Made allows.
LEMMA SaveKeeps ==
  ASSUME OccasionInv, NEW r \in Edited, Save(r)
  PROVE OccasionInv'
<1> DEFINE rules == {s \in Resolved(occ) : s.action # r.action} \cup {r}
           o == [occ EXCEPT !.rules = rules, !.written = out, !.yearly = {},
                            !.yearlyWritten = 0]
<1>1. /\ TypeOK /\ OccOK(occ) /\ out \in Days /\ out \in Int /\ out <= occ.learned
      /\ row \in Rows /\ declined \subseteq Action /\ answered \in BOOLEAN
      /\ answered => row["plan"].state = "dead"
      /\ "plan" \in Action
  BY BeforeEdit
<1>2. /\ Act /\ occ' = o /\ Settle(row, o, out)
      /\ declined' = declined \cup SwitchedOff(o)
      /\ out' = out /\ answered' = answered
  BY DEF Save
<1>3. Made(Resolved(occ), Defaults(occ))
  BY <1>1, OccRules
<1>4. Made({r}, Defaults(occ))
  <2>1. \A s \in Resolved(occ) : /\ s \in Rules
                                 /\ s.action \in Named(Defaults(occ)) \cup {"other"}
    BY <1>3 DEF Made, OnePer, Named
  <2>2. \A s \in Resolved(occ) : /\ Posts(s.action) => s.lead = 7
                                 /\ s.action \in {"give:gift", "give:card"} => s.lead = 0
    BY <1>3 DEF Made, Standard
  <2>3. CASE \E s \in Resolved(occ) : r = [s EXCEPT !.on = ~@]
    <3>1. PICK s \in Resolved(occ) : r = [s EXCEPT !.on = ~s.on]
      BY <2>3
    <3> DEFINE on == ~s.on
    <3>2. r = [action |-> s.action, lead |-> s.lead, on |-> on]
      <4> HIDE DEF on
      <4>1. r = [s EXCEPT !.on = on]
        BY <3>1 DEF on
      <4> QED
        BY <2>1, <4>1 DEF Rules
    <3>3. on \in BOOLEAN
      BY Zenon
    <3> HIDE DEF on
    <3>4. r \in Rules /\ r.action = s.action /\ r.lead = s.lead
      BY <2>1, <3>2, <3>3 DEF Rules
    <3>5. Standard({r})
      BY <2>2, <3>4 DEF Standard
    <3> QED
      BY <2>1, <3>4, <3>5, MadeOne
  <2>4. CASE \E s \in Resolved(occ), lead \in Leads :
                Latest(s.action, s.lead) < s.lead /\ r = Rule(s.action, lead, TRUE)
    <3>1. PICK s \in Resolved(occ), lead \in Leads :
             Latest(s.action, s.lead) < s.lead /\ r = Rule(s.action, lead, TRUE)
      BY <2>4
    <3>2. s.action \in Action /\ s.lead \in Nat /\ lead \in Nat
      BY <2>1, OccasionAssumption DEF Rules
    <3>3. r \in Rules /\ r.action = s.action
      BY <3>1, <3>2, RuleTyped
    <3>4. s.action \in {"get:gift", "get:card", "arrange:meal", "arrange:party"}
      BY <3>1, <3>2, LatestIs
    <3>5. Standard({r})
      BY <3>3, <3>4 DEF Standard, Posts
    <3> QED
      BY <2>1, <3>3, <3>5, MadeOne
  <2>5. Edited = Switches \cup Releads
    BY DEF Edited, Switches, Releads
  <2>6. CASE r \in Switches
    BY <2>3, <2>6, Zenon DEF Switches
  <2>7. CASE r \in Releads
    <3>1. \E s \in {q \in {p \in Resolved(occ) : p.action \in Picked} :
                       Latest(q.action, q.lead) < q.lead}, lead \in Leads :
             r = Rule(s.action, lead, TRUE)
      BY <2>7 DEF Releads, Rule
    <3> QED
      BY <2>4, <3>1
  <2> QED
    BY <2>5, <2>6, <2>7
<1>5. Made(rules, Defaults(occ))
  BY <1>3, <1>4, MadeReplaced
<1> HIDE DEF rules
<1>6. OccOK(o) /\ o.learned = occ.learned
  <2> DEFINE p == o
  <2>1. Renewed(p, rules)
    BY DEF Renewed
  <2> HIDE DEF p
  <2>2. OccOK(p) /\ p.learned = occ.learned
    BY <1>1, <1>5, <2>1, NewRules
  <2> QED
    BY <2>2 DEF p
<1> HIDE DEF o
<1>7. declined' \subseteq Action
  BY <1>1, <1>2 DEF SwitchedOff
<1> QED
  BY <1>1, <1>2, <1>6, <1>7, EditKeeps

\* A milestone is its fields.
LEMMA OccParts ==
  ASSUME NEW o, OccOK(o)
  PROVE o = [learned |-> o.learned, imported |-> o.imported, asks |-> o.asks,
             audience |-> o.audience, rules |-> o.rules, written |-> o.written,
             yearly |-> o.yearly, yearlyWritten |-> o.yearlyWritten]
BY DEF OccOK

\* milestones.update with a date.
LEMMA RedateKeeps ==
  ASSUME OccasionInv, NEW day \in Redates, Redate(day)
  PROVE OccasionInv'
<1> DEFINE shift == day - out
           w == IF occ.rules = {} THEN occ.written ELSE occ.written + shift
           y == IF occ.yearly = {} THEN occ.yearlyWritten ELSE occ.yearlyWritten + shift
           o == [occ EXCEPT !.learned = @ + shift, !.written = w, !.yearlyWritten = y]
<1>1. /\ TypeOK /\ OccOK(occ) /\ out \in Days /\ out \in Int /\ out <= occ.learned
      /\ row \in Rows /\ declined \subseteq Action /\ answered \in BOOLEAN
      /\ answered => row["plan"].state = "dead"
  BY BeforeEdit
<1>2. /\ Act /\ out' = day /\ occ' = o /\ Settle(row, o, day)
      /\ declined' = declined /\ answered' = answered
  BY DEF Redate
<1>3. day \in Days /\ day \in Int /\ shift \in Int
  BY <1>1, OccasionAssumption
<1>4. w \in Int /\ y \in Int /\ occ.learned \in Int
  BY <1>1, <1>3 DEF OccOK
<1>5. day <= occ.learned + shift
  BY <1>1, <1>3, <1>4
<1> HIDE DEF shift, w, y
<1>6. o = [learned |-> occ.learned + shift, imported |-> occ.imported,
           asks |-> occ.asks, audience |-> occ.audience, rules |-> occ.rules,
           written |-> w, yearly |-> occ.yearly, yearlyWritten |-> y]
  <2>1. occ = [learned |-> occ.learned, imported |-> occ.imported, asks |-> occ.asks,
               audience |-> occ.audience, rules |-> occ.rules, written |-> occ.written,
               yearly |-> occ.yearly, yearlyWritten |-> occ.yearlyWritten]
    BY <1>1, OccParts
  <2> DEFINE p == o
  <2>2. p = [occ EXCEPT !.learned = @ + shift, !.written = w, !.yearlyWritten = y]
    OBVIOUS
  <2> HIDE DEF p
  <2>3. p = [learned |-> occ.learned + shift, imported |-> occ.imported,
             asks |-> occ.asks, audience |-> occ.audience, rules |-> occ.rules,
             written |-> w, yearly |-> occ.yearly, yearlyWritten |-> y]
    BY <2>1, <2>2
  <2> QED
    BY <2>3 DEF p
<1>7. Defaults(o) = Defaults(occ)
  BY <1>6 DEF Defaults
<1>8. OccOK(o) /\ day <= o.learned
  BY <1>1, <1>3, <1>4, <1>5, <1>6, <1>7 DEF OccOK
<1> HIDE DEF o
<1> QED
  BY <1>1, <1>2, <1>3, <1>8, EditKeeps

\* The override a hand-over writes.
LEMMA InPersonKept ==
  ASSUME OccOK(occ), NEW send, Posts(send), NEW day \in Int, NEW horizon \in Nat,
         send \in Named(Desired(occ, day, horizon))
  PROVE /\ send \in Named(Enabled(YearRules(occ))) /\ send \in Named(Defaults(occ))
        /\ HandsOver(send) \in Named(Defaults(occ))
        /\ "arrange:party" \notin Named(YearRules(occ))
<1>1. PICK t \in Desired(occ, day, horizon) : t.action = send
  BY DEF Named
<1>2. t \in Entries(occ) /\ send # "plan"
  BY <1>1, DesiredIs DEF Posts
<1>3. t \in Errands(occ)
  BY <1>1, <1>2, QuestionType DEF Entries
<1>4. PICK D : Walked(D, Enabled(YearRules(occ)), YearWritten(occ))
  BY OccRules, DeadlinesWalk
<1>5. PICK r \in Enabled(YearRules(occ)) :
         t = [action |-> r.action, due |-> D[r], runUp |-> RunUp(r.action)]
  BY <1>3, <1>4, ErrandsAre
<1>6. r.action = send /\ r \in YearRules(occ)
  BY <1>1, <1>5 DEF Enabled
<1>7. /\ send \in Named(Enabled(YearRules(occ)))
      /\ send \in Named(YearRules(occ))
  BY <1>6 DEF Named
<1>8. Named(YearRules(occ)) \subseteq Named(Defaults(occ)) \cup {"other"}
  BY OccRules DEF Made
<1>9. send \in Named(Defaults(occ))
  BY <1>7, <1>8 DEF Posts
<1>10. /\ HandsOver(send) \in Named(Defaults(occ))
       /\ "arrange:party" \notin Named(Defaults(occ))
  BY <1>9, DefaultsPost DEF Defaults
<1> QED
  BY <1>7, <1>8, <1>9, <1>10

\* The override of milestones.answerInPerson.
Overridden(o, send) ==
    o = [occ EXCEPT !.yearly = InPerson(YearRules(occ), send),
                    !.yearlyWritten = YearWritten(occ)]

LEMMA InPersonOcc ==
  ASSUME OccOK(occ), NEW send, Posts(send), HandsOver(send) \in Named(Defaults(occ)),
         NEW o, Overridden(o, send)
  PROVE /\ OccOK(o) /\ o.learned = occ.learned
        /\ o.yearly = InPerson(YearRules(occ), send) /\ o.yearly # {}
        /\ YearRules(o) = InPerson(YearRules(occ), send)
        /\ YearWritten(o) = YearWritten(occ)
<1> DEFINE rules == InPerson(YearRules(occ), send)
<1>1. Made(rules, Defaults(occ)) /\ rules # {}
  BY OccRules, InPersonMade
<1>2. YearWritten(occ) \in Int
  BY OccRules
<1> HIDE DEF rules
<1>3. o = [learned |-> occ.learned, imported |-> occ.imported, asks |-> occ.asks,
           audience |-> occ.audience, rules |-> occ.rules, written |-> occ.written,
           yearly |-> rules, yearlyWritten |-> YearWritten(occ)]
  BY DEF OccOK, rules, Overridden
<1>4. rules \in SUBSET Rules
  BY <1>1 DEF Made, OnePer
<1>5. Defaults(o) = Defaults(occ)
  BY <1>3 DEF Defaults
<1>6. /\ o.learned = occ.learned /\ o.yearly = rules /\ o.rules = occ.rules
      /\ o.yearlyWritten = YearWritten(occ)
  BY <1>3
<1>7. OccOK(o)
  <2>1. o \in [learned : Int, imported : BOOLEAN, asks : BOOLEAN,
               audience : Audiences,
               rules : SUBSET Rules, written : Int,
               yearly : SUBSET Rules, yearlyWritten : Int]
    BY <1>2, <1>3, <1>4 DEF OccOK
  <2>2. Made(o.rules, Defaults(o))
    BY <1>5, <1>6 DEF OccOK
  <2> QED
    BY <1>1, <1>5, <1>6, <2>1, <2>2 DEF OccOK
<1>8. YearRules(o) = rules /\ YearWritten(o) = YearWritten(occ)
  BY <1>1, <1>6 DEF YearRules, YearWritten
<1> QED
  BY <1>1, <1>6, <1>7, <1>8 DEF rules

\* milestones.answerInPerson.
LEMMA AnswerInPersonKeeps ==
  ASSUME OccasionInv, NEW send \in {"send:card", "send:gift"}, AnswerInPerson(send)
  PROVE OccasionInv'
<1> DEFINE o == [occ EXCEPT !.yearly = InPerson(YearRules(occ), send),
                            !.yearlyWritten = YearWritten(occ)]
<1>1. /\ TypeOK /\ OccOK(occ) /\ out \in Days /\ out \in Int /\ out <= occ.learned
      /\ row \in Rows /\ declined \subseteq Action /\ answered \in BOOLEAN
      /\ answered => row["plan"].state = "dead"
      /\ "plan" \in Action
  BY BeforeEdit
<1>2. /\ Act /\ Posts(send) /\ send \in Named(Desired(occ, out, DisplayWindow))
      /\ occ' = o /\ Settle(row, o, out)
      /\ declined' = declined \cup SwitchedOff(o) \cup {"plan"}
      /\ out' = out /\ answered' = answered
  BY DEF AnswerInPerson
<1>3. HandsOver(send) \in Named(Defaults(occ))
  BY <1>1, <1>2, InPersonKept DEF DisplayWindow
<1>4. OccOK(o) /\ o.learned = occ.learned
  <2> DEFINE p == o
  <2>1. Overridden(p, send)
    BY DEF Overridden
  <2> HIDE DEF p
  <2>2. OccOK(p) /\ p.learned = occ.learned
    BY <1>1, <1>2, <1>3, <2>1, InPersonOcc
  <2> QED
    BY <2>2 DEF p
<1> HIDE DEF o
<1>5. declined' \subseteq Action
  BY <1>1, <1>2 DEF SwitchedOff
<1> QED
  BY <1>1, <1>2, <1>4, <1>5, EditKeeps

\* stop-asking and back.
LEMMA SetAsksKeeps ==
  ASSUME OccasionInv, NEW asks \in BOOLEAN, SetAsks(asks)
  PROVE OccasionInv'
<1> DEFINE o == [occ EXCEPT !.asks = asks]
<1>1. /\ TypeOK /\ OccOK(occ) /\ out \in Days /\ out \in Int /\ out <= occ.learned
      /\ row \in Rows /\ declined \subseteq Action /\ answered \in BOOLEAN
      /\ answered => row["plan"].state = "dead"
  BY BeforeEdit
<1>2. /\ Act /\ occ' = o /\ Settle(row, o, out) /\ declined' = declined
      /\ out' = out /\ answered' = answered
  BY DEF SetAsks
<1>3. o = [learned |-> occ.learned, imported |-> occ.imported,
           asks |-> asks, audience |-> occ.audience, rules |-> occ.rules,
           written |-> occ.written, yearly |-> occ.yearly,
           yearlyWritten |-> occ.yearlyWritten]
  BY <1>1 DEF OccOK
<1>4. Defaults(o) = Defaults(occ)
  BY <1>3 DEF Defaults
<1>5. OccOK(o) /\ o.learned = occ.learned
  BY <1>1, <1>3, <1>4 DEF OccOK
<1> HIDE DEF o
<1> QED
  BY <1>1, <1>2, <1>5, EditKeeps

\* The bearer's death.
LEMMA RecordDeathKeeps ==
  ASSUME OccasionInv, RecordDeath
  PROVE OccasionInv'
<1> DEFINE o == [occ EXCEPT !.audience = "memorial", !.rules = {}, !.written = 0,
                            !.yearly = {}, !.yearlyWritten = 0]
<1>1. /\ TypeOK /\ OccOK(occ) /\ out \in Days /\ out \in Int /\ out <= occ.learned
      /\ row \in Rows /\ declined \subseteq Action /\ answered \in BOOLEAN
      /\ answered => row["plan"].state = "dead"
      /\ "plan" \in Action
  BY BeforeEdit
<1>2. /\ Act /\ occ' = o /\ Settle(row, o, out)
      /\ declined' = declined \cup SwitchedOff(o)
      /\ out' = out /\ answered' = answered
  BY DEF RecordDeath
<1>3. o = [learned |-> occ.learned, imported |-> occ.imported, asks |-> occ.asks,
           audience |-> "memorial", rules |-> {}, written |-> 0,
           yearly |-> {}, yearlyWritten |-> 0]
  <2>1. occ = [learned |-> occ.learned, imported |-> occ.imported, asks |-> occ.asks,
               audience |-> occ.audience, rules |-> occ.rules, written |-> occ.written,
               yearly |-> occ.yearly, yearlyWritten |-> occ.yearlyWritten]
    BY <1>1, OccParts
  <2> DEFINE p == o
  <2>2. p = [occ EXCEPT !.audience = "memorial", !.rules = {}, !.written = 0,
                        !.yearly = {}, !.yearlyWritten = 0]
    OBVIOUS
  <2> HIDE DEF p
  <2>3. p = [learned |-> occ.learned, imported |-> occ.imported, asks |-> occ.asks,
             audience |-> "memorial", rules |-> {}, written |-> 0,
             yearly |-> {}, yearlyWritten |-> 0]
    BY <2>1, <2>2
  <2> QED
    BY <2>3 DEF p
<1>4. Made({}, Defaults(o))
  BY DEF Made, OnePer, Standard, Named
<1>5. OccOK(o) /\ o.learned = occ.learned
  BY <1>1, <1>3, <1>4 DEF OccOK, Audiences
<1> HIDE DEF o
<1>6. declined' \subseteq Action
  BY <1>1, <1>2 DEF SwitchedOff
<1> QED
  BY <1>1, <1>2, <1>5, <1>6, EditKeeps

\* setCompleted on a preview.
LEMMA TickEarlyKeeps ==
  ASSUME OccasionInv, NEW a \in Picked, TickEarly(a)
  PROVE OccasionInv'
<1> DEFINE due == DueOf(Desired(occ, out, DisplayWindow), a)
<1>1. /\ TypeOK /\ OccOK(occ) /\ out \in Int /\ out <= occ.learned
      /\ row \in Rows /\ declined \subseteq Action
      /\ answered => row["plan"].state = "dead"
      /\ "plan" \in Action
  BY BeforeEdit
<1>2. /\ Act /\ row[a].state = "none"
      /\ a \in Named(Desired(occ, out, DisplayWindow))
      /\ row' = [row EXCEPT ![a] = Live(due)]
      /\ declined' = declined \cup {a}
      /\ since' = IF since = "edit" THEN "edit" ELSE "day"
      /\ out' = out /\ occ' = occ /\ moved' = moved /\ answered' = answered
  BY DEF TickEarly
<1>3. a \in Action /\ due \in Nat
  BY <1>1, <1>2, DueOfType DEF DisplayWindow
<1> HIDE DEF due
<1>4. /\ Live(due) \in [state : {"none", "live", "dead"}, due : Nat]
      /\ Live(due).state = "live"
  BY <1>3 DEF Live
<1>5. /\ row' \in Rows /\ row'[a].state = "live"
      /\ \A b \in Action : b # a => row'[b] = row[b]
  BY <1>1, <1>2, <1>3, <1>4 DEF Rows
<1>6. acts' \in 0 .. MaxActs /\ years' \in 0 .. MaxYears
  BY <1>1, <1>2, TypeParts DEF Act, TypeOK
<1>7. TypeOK'
  BY <1>1, <1>2, <1>3, <1>5, <1>6 DEF TypeOK, Rows
<1>8. since' # "none" /\ (since' # "edit" => since # "edit")
  BY <1>2
<1>9. ASSUME since' # "edit" PROVE Tracked(occ', row', out', declined', moved')
  <2>1. Tracked(occ, row, out, declined, moved)
    BY <1>8, <1>9 DEF OccasionInv
  <2> QED
    BY <1>2, <1>5, <2>1 DEF Tracked
<1>10. answered' => row'["plan"].state = "dead"
  BY <1>1, <1>2, <1>5
<1> QED
  BY <1>1, <1>2, <1>7, <1>8, <1>9, <1>10 DEF OccasionInv

\* softDelete.
LEMMA DismissKeeps ==
  ASSUME OccasionInv, NEW a \in Picked, Dismiss(a)
  PROVE OccasionInv'
<1>1. /\ TypeOK /\ OccOK(occ) /\ out \in Int /\ out <= occ.learned
      /\ row \in Rows /\ declined \subseteq Action
      /\ answered => row["plan"].state = "dead"
      /\ "plan" \in Action
  BY BeforeEdit
<1>2. /\ Act /\ row' = [row EXCEPT ![a] = Dead]
      /\ declined' = declined \cup {a}
      /\ out' = out /\ occ' = occ /\ moved' = moved /\ answered' = answered
      /\ since' = since
  BY DEF Dismiss, Retired
<1>3. a \in Action
  BY OccasionAssumption
<1>4. /\ row' \in Rows /\ row'[a].state = "dead"
      /\ \A b \in Action : row[b].state = "dead" => row'[b].state = "dead"
      /\ Settled(occ, row, out) => Settled(occ, row', out)
      /\ Tracked(occ, row, out, declined, moved)
         => Tracked(occ, row', out, declined \cup {a}, moved)
  <2> DEFINE new == row'
  <2>1. Tombstoned(new, row, a)
    BY <1>2 DEF Tombstoned
  <2> HIDE DEF new
  <2>2. /\ new \in Rows /\ new[a].state = "dead"
        /\ \A b \in Action : row[b].state = "dead" => new[b].state = "dead"
        /\ Settled(occ, row, out) => Settled(occ, new, out)
        /\ \A off, gone : Tracked(occ, row, out, off, gone)
                          => Tracked(occ, new, out, off \cup {a}, gone)
    BY <1>1, <1>3, <2>1, RetiredSettles
  <2> QED
    BY <2>2 DEF new
<1>5. acts' \in 0 .. MaxActs /\ years' \in 0 .. MaxYears
  BY <1>1, <1>2, TypeParts DEF Act, TypeOK
<1>6. TypeOK'
  BY <1>1, <1>2, <1>3, <1>4, <1>5 DEF TypeOK, Rows
<1> QED
  BY <1>1, <1>2, <1>4, <1>6 DEF OccasionInv

\* Every step.
LEMMA NextKeeps == OccasionInv /\ [Next]_vars => OccasionInv'
<1> SUFFICES ASSUME OccasionInv, [Next]_vars PROVE OccasionInv'
  OBVIOUS
<1>1. CASE Regenerate
  BY <1>1, RegenerateKeeps
<1>2. CASE NextDay
  BY <1>2, NextDayKeeps
<1>3. CASE NextYear
  BY <1>3, NextYearKeeps
<1>4. ASSUME NEW ticked \in SUBSET (Items \cap Picked), NEW extra \in BOOLEAN,
             Answer(ticked, extra)
      PROVE OccasionInv'
  BY <1>4, AnswerKeeps
<1>5. ASSUME NEW r \in Edited, Save(r) PROVE OccasionInv'
  BY <1>5, SaveKeeps
<1>6. ASSUME NEW day \in Redates, Redate(day) PROVE OccasionInv'
  BY <1>6, RedateKeeps
<1>7. ASSUME NEW send \in {"send:card", "send:gift"}, AnswerInPerson(send)
      PROVE OccasionInv'
  BY <1>7, AnswerInPersonKeeps
<1>8. ASSUME NEW asks \in BOOLEAN, SetAsks(asks) PROVE OccasionInv'
  BY <1>8, SetAsksKeeps
<1>9. CASE RecordDeath
  BY <1>9, RecordDeathKeeps
<1>10. ASSUME NEW a \in Picked, TickEarly(a) \/ Dismiss(a) PROVE OccasionInv'
  BY <1>10, TickEarlyKeeps, DismissKeeps
<1>11. CASE UNCHANGED vars
  BY <1>11 DEF vars, OccasionInv, TypeOK
<1> QED
  BY <1>1, <1>2, <1>3, <1>4, <1>5, <1>6, <1>7, <1>8, <1>9, <1>10, <1>11 DEF Next

\* In every behaviour the invariant holds.
THEOREM OccasionInductive == Spec => []OccasionInv
BY InitKeeps, NextKeeps, PTL DEF Spec

\* Type correctness.
THEOREM OccasionTypeCorrect == Spec => []TypeOK
<1>1. OccasionInv => TypeOK
  BY DEF OccasionInv
<1> QED
  BY <1>1, OccasionInductive, PTL

-----------------------------------------------------------------------------
(* What the list shows once it is reconciled.                              *)

\* The reconciled list shows what is wanted with its deadline, and misses of it only
\* what the user or an edit did away with.
LEMMA Listing ==
  ASSUME OccasionInv, since = "none"
  PROVE /\ OccOK(occ) /\ out \in Int /\ row \in Rows
        /\ \A a \in Action :
              /\ Lives(a) => a \in Wanted(occ, out)
                             /\ row[a].due = DueOf(Desired(occ, out, 0), a)
              /\ a \in Wanted(occ, out) => Lives(a) \/ a \in declined \cup moved
<1>1. /\ OccOK(occ) /\ out \in Int /\ row \in Rows /\ Settled(occ, row, out)
      /\ Tracked(occ, row, out, declined, moved)
  BY TypeParts DEF OccasionInv
<1>2. row = Reconciled(row, Desired(occ, out, 0))
  BY <1>1 DEF Settled
<1>3. \A a \in Action :
        /\ row[a].state = "live"
           => a \in Wanted(occ, out) /\ row[a].due = DueOf(Desired(occ, out, 0), a)
        /\ a \in Wanted(occ, out) => row[a].state # "none"
  BY <1>1, <1>2, ReconciledIs
<1>4. ASSUME NEW a \in Action, a \in Wanted(occ, out), row[a].state = "dead"
      PROVE a \in declined \cup moved
  <2>1. a \in declined \cup moved \/ Over(occ, a, out)
    BY <1>1, <1>4 DEF Tracked
  <2>2. ~Over(occ, a, out)
    BY <1>1, <1>4 DEF Over
  <2> QED
    BY <2>1, <2>2
<1>5. \A a \in Action : row[a].state \in {"none", "live", "dead"}
  BY <1>1 DEF Rows
<1> QED
  BY <1>1, <1>3, <1>4, <1>5 DEF Lives

\* An errand on the list shows its deadline.
LEMMA ErrandDue ==
  ASSUME NEW o, OccOK(o), NEW day \in Int, NEW r \in Enabled(YearRules(o)),
         r.action \in Wanted(o, day),
         NEW D, Walked(D, Enabled(YearRules(o)), YearWritten(o))
  PROVE DueOf(Desired(o, day, 0), r.action) = D[r]
<1>1. PICK t \in Desired(o, day, 0) : t.action = r.action
  BY DEF Wanted, Named
<1>2. t \in Entries(o)
  BY <1>1, DesiredIs
<1> DEFINE u == [action |-> r.action, due |-> D[r], runUp |-> RunUp(r.action)]
<1>3. u \in Entries(o)
  BY ErrandsAre DEF Entries
<1>4. u.action = r.action /\ u.due = D[r]
  OBVIOUS
<1> HIDE DEF u
<1>5. t = u
  BY <1>1, <1>2, <1>3, <1>4, EntriesType
<1> QED
  BY <1>1, <1>4, <1>5, DueOfIs

\* An errand that is on is no question.
LEMMA EnabledType ==
  ASSUME NEW o, OccOK(o), NEW r \in Enabled(YearRules(o))
  PROVE r.action \in Action \ {"plan"} /\ r.lead \in Nat
<1>1. r \in YearRules(o)
  BY DEF Enabled
<1> QED
  BY <1>1, OccRules DEF Made, OnePer, Rules

-----------------------------------------------------------------------------
(* The promises.                                                           *)

\* Whatever the user and the clock do, in whatever order, and wherever an edit is
\* cut short, an errand that can still be done is on the reconciled list, unless
\* the user did away with it or an edit took it off (NothingLost).
THEOREM ErrandsAreNotLost == Spec => []NothingLost
<1>1. ASSUME OccasionInv PROVE NothingLost
  <2> SUFFICES ASSUME since = "none", occ.learned >= 0
               PROVE /\ \A r \in Enabled(YearRules(occ)) :
                           out \in -BelatedDays .. Latest(r.action, r.lead) + RunUp(r.action)
                           => Lives(r.action) \/ r.action \in declined \cup moved
                     /\ (Asked(occ, out) /\ out <= Question(occ).due + Question(occ).runUp)
                        => Lives("plan") \/ "plan" \in declined \cup moved
    BY DEF NothingLost, Fresh
  <2>1. /\ OccOK(occ) /\ out \in Int
        /\ \A a \in Action :
              a \in Wanted(occ, out) => Lives(a) \/ a \in declined \cup moved
    BY <1>1, Listing
  <2>2. ASSUME NEW r \in Enabled(YearRules(occ)),
               out \in -BelatedDays .. Latest(r.action, r.lead) + RunUp(r.action)
        PROVE Lives(r.action) \/ r.action \in declined \cup moved
    <3>1. r.action \in Action /\ r.lead \in Nat
      BY <2>1, EnabledType
    <3>2. Latest(r.action, r.lead) \in Nat /\ RunUp(r.action) \in Nat
      BY <3>1, LatestIs, RunUpType
    <3>3. YearWritten(occ) \in Int /\ OnePer(Enabled(YearRules(occ)))
      BY <2>1, OccRules
    <3>4. PICK D : Walked(D, Enabled(YearRules(occ)), YearWritten(occ))
      BY <3>3, DeadlinesWalk
    <3>5. D[r] \in Nat /\ D[r] >= Latest(r.action, r.lead)
      <4>1. /\ SlidOf(r, YearWritten(occ)) \in Nat
            /\ Latest(r.action, r.lead) <= SlidOf(r, YearWritten(occ))
            /\ Latest(r.action, r.lead) <= r.lead
        BY <3>1, <3>3, SlidIs, LatestIs DEF SlidOf
      <4>2. D[r] \in {r.lead, SlidOf(r, YearWritten(occ))}
        BY <3>4 DEF Walked
      <4> QED
        BY <3>1, <3>2, <4>1, <4>2
    <3> DEFINE u == [action |-> r.action, due |-> D[r], runUp |-> RunUp(r.action)]
    <3>6. u \in Entries(occ)
      BY <2>1, <3>4, ErrandsAre DEF Entries
    <3>7. u.action = r.action /\ u.due = D[r] /\ u.runUp = RunUp(r.action)
      OBVIOUS
    <3> HIDE DEF u
    <3>8. out >= -2 /\ out - u.due <= u.runUp
      BY <2>1, <2>2, <3>2, <3>5, <3>7 DEF BelatedDays
    <3>9. u # Question(occ)
      BY <2>1, <3>1, <3>7, QuestionType, EnabledType
    <3>10. u \in Desired(occ, out, 0)
      BY <2>1, <3>6, <3>8, <3>9, DesiredIs
    <3>11. r.action \in Wanted(occ, out)
      BY <3>7, <3>10 DEF Wanted, Named
    <3> QED
      BY <2>1, <3>1, <3>11
  <2>3. ASSUME Asked(occ, out), out <= Question(occ).due + Question(occ).runUp
        PROVE Lives("plan") \/ "plan" \in declined \cup moved
    <3>1. /\ Question(occ).action = "plan" /\ Question(occ).due \in Nat
          /\ Question(occ).runUp \in Nat
      BY <2>1, QuestionType
    <3>2. out >= 0
      BY <2>1, <2>3, AskedEarlier
    <3>3. out - Question(occ).due <= Question(occ).runUp
      BY <2>1, <2>3, <3>1
    <3>4. Question(occ) \in Desired(occ, out, 0)
      BY <2>1, <2>3, <3>2, <3>3, DesiredIs DEF Entries
    <3>5. "plan" \in Wanted(occ, out)
      BY <3>1, <3>4 DEF Wanted, Named
    <3> QED
      BY <2>1, <3>5, ActionsAre
  <2> QED
    BY <2>2, <2>3
<1> QED
  BY <1>1, OccasionInductive, PTL

\* However late the occasion was learned, no slide of a deadline puts an errand
\* authored further ahead after a nearer one (OrderKept).
THEOREM OrderIsKept == Spec => []OrderKept
<1>1. ASSUME OccasionInv PROVE OrderKept
  <2> SUFFICES ASSUME since = "none", NEW r \in Enabled(YearRules(occ)),
                      NEW s \in Enabled(YearRules(occ)),
                      Lives(r.action), Lives(s.action), r.lead > s.lead
               PROVE row[r.action].due >= row[s.action].due
    BY DEF OrderKept, Fresh
  <2>1. OccOK(occ) /\ out \in Int
    BY <1>1, Listing
  <2>2. PICK D : Walked(D, Enabled(YearRules(occ)), YearWritten(occ))
    BY <2>1, OccRules, DeadlinesWalk
  <2>3. \A q \in {r, s} : q.action \in Action /\ q \in Enabled(YearRules(occ))
    BY <2>1, EnabledType
  <2>4. \A q \in {r, s} : /\ q.action \in Wanted(occ, out)
                          /\ row[q.action].due = DueOf(Desired(occ, out, 0), q.action)
    BY <1>1, <2>3, Listing
  <2>5. row[r.action].due = D[r] /\ row[s.action].due = D[s]
    BY <2>1, <2>2, <2>4, ErrandDue
  <2>6. Before(r, s)
    BY DEF Before
  <2> QED
    BY <2>2, <2>5, <2>6 DEF Walked
<1> QED
  BY <1>1, OccasionInductive, PTL

\* What the question still offers is not overdue the day it is chosen, unless an
\* errand that waits on it comes first (NotBornLate).
THEOREM NothingIsBornLate == Spec => []NotBornLate
<1>1. ASSUME OccasionInv PROVE NotBornLate
  <2> SUFFICES ASSUME since = "none", YearWritten(occ) = out, out >= 0,
                      NEW r \in Enabled(YearRules(occ))
                                \cap Offers(Defaults(occ), Resolved(occ), out),
                      Lives(r.action)
               PROVE \/ row[r.action].due <= out
                     \/ \E s \in Enabled(YearRules(occ)) :
                           s # r /\ s.lead <= r.lead /\ s.lead > Latest(r.action, r.lead)
    BY DEF NotBornLate, Fresh
  <2>1. OccOK(occ) /\ out \in Int
    BY <1>1, Listing
  <2>2. PICK D : Walked(D, Enabled(YearRules(occ)), YearWritten(occ))
    BY <2>1, OccRules, DeadlinesWalk
  <2>3. r.action \in Action /\ r.lead \in Nat
    BY <2>1, EnabledType
  <2>4. row[r.action].due = D[r]
    <3>1. /\ r.action \in Wanted(occ, out)
          /\ row[r.action].due = DueOf(Desired(occ, out, 0), r.action)
      BY <1>1, <2>3, Listing
    <3> QED
      BY <2>1, <2>2, <3>1, ErrandDue
  <2>5. FitsAt(r.action, r.lead, out)
    BY <2>1, OccRules, OffersMade
  <2> DEFINE slid == SlidOf(r, out)
  <2>6. /\ Latest(r.action, r.lead) \in Nat /\ slid \in Nat
        /\ Latest(r.action, r.lead) <= slid /\ slid <= r.lead
    BY <2>1, <2>3, LatestIs, SlidIs DEF SlidOf
  <2>7. slid <= out
    <3>1. slid = IF out < 0 \/ out - r.lead >= OfferNotice THEN r.lead
                                                     ELSE Latest(r.action, r.lead)
      BY DEF SlidOf, Slid
    <3>2. IF Latest(r.action, r.lead) = 0 THEN out >= 0
          ELSE out - Latest(r.action, r.lead) >= OfferNotice
      BY <2>5 DEF FitsAt
    <3> HIDE DEF slid
    <3> QED
      BY <2>1, <2>3, <2>6, <3>1, <3>2 DEF OfferNotice
  <2>8. D[r] = IF \E q \in Enabled(YearRules(occ)) : Before(r, q) /\ D[q] > slid
               THEN r.lead ELSE slid
    BY <2>2 DEF Walked
  <2> HIDE DEF slid
  <2>9. CASE \E q \in Enabled(YearRules(occ)) : Before(r, q) /\ D[q] > slid
    <3>1. PICK q \in Enabled(YearRules(occ)) : Before(r, q) /\ D[q] > slid
      BY <2>9
    <3>2. q.action \in Action /\ q.lead \in Nat /\ D[q] \in Nat
      BY <2>1, <2>2, EnabledType DEF Walked
    <3>3. D[q] <= q.lead
      <4>1. SlidOf(q, YearWritten(occ)) \in Nat /\ SlidOf(q, YearWritten(occ)) <= q.lead
        BY <2>1, <3>2, SlidIs DEF SlidOf
      <4>2. D[q] \in {q.lead, SlidOf(q, YearWritten(occ))}
        BY <2>2 DEF Walked
      <4> QED
        BY <3>2, <4>1, <4>2
    <3>4. q.lead <= r.lead /\ q # r
      <4>1. ~Before(r, r)
        BY <2>1, OccRules, BeforeOrders
      <4>2. q.lead <= r.lead
        BY <2>3, <3>1, <3>2 DEF Before
      <4> QED
        BY <3>1, <4>1, <4>2
    <3>5. q.lead > Latest(r.action, r.lead)
      BY <2>6, <3>1, <3>2, <3>3
    <3> QED
      BY <3>4, <3>5
  <2>10. CASE ~\E q \in Enabled(YearRules(occ)) : Before(r, q) /\ D[q] > slid
    BY <2>4, <2>7, <2>8, <2>10
  <2> QED
    BY <2>9, <2>10
<1> QED
  BY <1>1, OccasionInductive, PTL

\* The question once answered does not come back that year: its tombstone is there
\* even where it had no row to tombstone (AnsweredStays).
THEOREM AnsweredStaysAway == Spec => []AnsweredStays
<1>1. ASSUME OccasionInv PROVE AnsweredStays
  BY <1>1 DEF OccasionInv, AnsweredStays, Lives
<1> QED
  BY <1>1, OccasionInductive, PTL

\* The fewer errands wait on an errand, the nearer to the day it may slide.
LEMMA FewerWait ==
  ASSUME NEW rules, OnePer(rules), NEW fewer, OnePer(fewer), NEW learned \in Int,
         NEW D, Walked(D, rules, learned), NEW E, Walked(E, fewer, learned),
         \A q \in fewer : q \in rules \/ q.lead = 0
  PROVE \A r \in rules \cap fewer : E[r] <= D[r]
<1> DEFINE bad == {r \in rules \cap fewer : ~(E[r] <= D[r])}
           n == Cardinality(rules)
           T == {k \in Nat : \E r \in bad : Place(rules, r) = n - k}
<1>1. /\ n \in Nat
      /\ \A r \in rules : Place(rules, r) \in 0 .. n - 1
      /\ \A r, s \in rules : Before(r, s) => Place(rules, r) < Place(rules, s)
  BY PlaceIs
<1>2. \A q \in rules \cup fewer : q.action \in Action /\ q.lead \in Nat
                                  /\ SlidOf(q, learned) \in Nat
                                  /\ SlidOf(q, learned) <= q.lead
  <2>1. \A q \in rules \cup fewer : q.action \in Action /\ q.lead \in Nat
    BY DEF OnePer, Rules
  <2> QED
    BY <2>1, SlidIs DEF SlidOf
<1>3. /\ \A r \in rules : D[r] \in Nat
      /\ \A r \in rules :
            D[r] = IF \E q \in rules : Before(r, q) /\ D[q] > SlidOf(r, learned)
                   THEN r.lead ELSE SlidOf(r, learned)
      /\ \A r \in fewer : E[r] \in Nat
      /\ \A r \in fewer :
            E[r] = IF \E q \in fewer : Before(r, q) /\ E[q] > SlidOf(r, learned)
                   THEN r.lead ELSE SlidOf(r, learned)
  BY DEF Walked
<1> SUFFICES ASSUME bad # {} PROVE FALSE
  OBVIOUS
<1>4. T # {}
  <2>1. PICK r \in bad : TRUE
    OBVIOUS
  <2>2. Place(rules, r) \in 0 .. n - 1
    BY <1>1, <2>1
  <2> HIDE DEF bad, n
  <2>3. n - Place(rules, r) \in Nat /\ Place(rules, r) = n - (n - Place(rules, r))
    BY <1>1, <2>2
  <2> QED
    BY <2>1, <2>3
<1>5. PICK k \in T : \A m \in T : k <= m
  <2>1. T \in SUBSET Nat
    OBVIOUS
  <2> HIDE DEF T
  <2> QED
    BY <1>4, <2>1, LeastNumber
<1>6. PICK r \in bad : Place(rules, r) = n - k
  BY <1>5
<1>7. ASSUME NEW q \in rules \cap fewer, Before(r, q) PROVE E[q] <= D[q]
  <2> SUFFICES ASSUME q \in bad PROVE FALSE
    OBVIOUS
  <2>1. Place(rules, q) > n - k /\ Place(rules, q) \in 0 .. n - 1
    BY <1>1, <1>6, <1>7
  <2>2. k \in Nat
    BY <1>5
  <2> HIDE DEF n, bad
  <2>3. /\ n - Place(rules, q) \in Nat /\ n - Place(rules, q) < k
        /\ Place(rules, q) = n - (n - Place(rules, q))
    BY <1>1, <2>1, <2>2
  <2>4. n - Place(rules, q) \in T
    BY <2>3
  <2> QED
    BY <1>5, <2>2, <2>3, <2>4
<1> HIDE DEF T, n
<1>8. r \in rules /\ r \in fewer /\ ~(E[r] <= D[r])
  BY <1>6
<1> HIDE DEF bad
<1>9. E[r] = r.lead /\ D[r] = SlidOf(r, learned)
  <2>1. E[r] \in {r.lead, SlidOf(r, learned)} /\ D[r] \in {r.lead, SlidOf(r, learned)}
    BY <1>3, <1>8
  <2> QED
    BY <1>2, <1>8, <2>1
<1>10. PICK q \in fewer : Before(r, q) /\ E[q] > SlidOf(r, learned)
  BY <1>2, <1>3, <1>8, <1>9
<1>11. q \in rules
  <2> SUFFICES ASSUME q.lead = 0 PROVE FALSE
    OBVIOUS
  <2>1. E[q] \in {q.lead, SlidOf(q, learned)}
    BY <1>3
  <2> QED
    BY <1>2, <1>3, <1>8, <1>10, <2>1
<1>12. D[q] > SlidOf(r, learned)
  BY <1>2, <1>3, <1>7, <1>8, <1>10, <1>11
<1>13. D[r] = r.lead
  BY <1>3, <1>8, <1>10, <1>11, <1>12
<1> QED
  BY <1>2, <1>8, <1>9, <1>13

\* What a hand-over leaves of the errands.
HandedOver(fewer, rules, send) ==
    \A r : r \in fewer <=> \/ r \in rules /\ r.action \notin {send, HandsOver(send)}
                         \/ r = Rule(HandsOver(send), 0, TRUE)

\* A hand-over changes the deadline of an errand chosen late only, and only where
\* the posting had kept it.
LEMMA StaysPut ==
  ASSUME OccOK(occ), NEW send, Posts(send), send \in Named(Enabled(YearRules(occ))),
         "arrange:party" \notin Named(YearRules(occ)),
         NEW o, OccOK(o), YearWritten(o) = YearWritten(occ),
         HandedOver(Enabled(YearRules(o)), Enabled(YearRules(occ)), send),
         NEW D, Walked(D, Enabled(YearRules(occ)), YearWritten(occ)),
         NEW E, Walked(E, Enabled(YearRules(o)), YearWritten(o)),
         NEW r \in Enabled(YearRules(occ)), NEW q \in Enabled(YearRules(o)),
         q.action = r.action, E[q] # D[r]
  PROVE /\ YearWritten(occ) - r.lead < OfferNotice
        /\ \E s \in Enabled(YearRules(occ)) : Posts(s.action) /\ s.lead > E[q]
<1> DEFINE rules == Enabled(YearRules(occ))
           fewer == Enabled(YearRules(o))
           learned == YearWritten(occ)
           give == HandsOver(send)
           new == Rule(give, 0, TRUE)
<1>1. OnePer(rules) /\ OnePer(fewer) /\ learned \in Int
  BY OccRules
<1>2. \A s \in rules \cup fewer : s.action \in Action /\ s.lead \in Nat
  BY EnabledType
<1>3. give \in {"give:gift", "give:card"} /\ send # give
  BY DEF HandsOver, Posts
<1>4. /\ \A s \in rules : s.action \in {"give:gift", "give:card"} => s.lead = 0
      /\ \A s \in rules : Posts(s.action) => s.lead = 7
  BY OccRules DEF Made, Standard, Enabled
<1>5. new.action = give /\ new.lead = 0
  BY DEF Rule
<1>6. /\ \A s \in rules : /\ D[s] \in Nat /\ D[s] \in {s.lead, SlidOf(s, learned)}
                          /\ SlidOf(s, learned) \in Nat /\ SlidOf(s, learned) <= s.lead
      /\ \A s \in fewer : /\ E[s] \in Nat /\ E[s] \in {s.lead, SlidOf(s, learned)}
                          /\ SlidOf(s, learned) \in Nat /\ SlidOf(s, learned) <= s.lead
  BY <1>1, <1>2, SlidIs DEF Walked, SlidOf
<1>7. \A s \in fewer : s = new \/ s \in rules
  BY DEF HandedOver
<1> HIDE DEF rules, fewer, learned, new, give
<1>8. q # new
  <2> SUFFICES ASSUME q = new PROVE FALSE
    OBVIOUS
  <2>1. r.lead = 0 /\ q.lead = 0
    BY <1>3, <1>4, <1>5 DEF rules
  <2>2. D[r] = 0 /\ E[q] = 0
    BY <1>6, <2>1 DEF rules, fewer
  <2> QED
    BY <2>2
<1>9. q = r
  <2>1. q \in rules
    BY <1>7, <1>8 DEF fewer
  <2> QED
    BY <1>1, <2>1 DEF OnePer, rules
<1>10. E[r] <= D[r]
  <2>1. \A s \in fewer : s \in rules \/ s.lead = 0
    BY <1>5, <1>7
  <2>2. r \in rules \cap fewer
    BY <1>9 DEF rules, fewer
  <2>3. Walked(D, rules, learned) /\ Walked(E, fewer, learned)
    BY DEF rules, fewer, learned
  <2> QED
    BY <1>1, <2>1, <2>2, <2>3, FewerWait
<1>11. /\ r \in rules /\ r \in fewer
  BY <1>9 DEF rules, fewer
<1>12. E[r] = SlidOf(r, learned) /\ SlidOf(r, learned) # r.lead
  BY <1>2, <1>6, <1>9, <1>10, <1>11
<1>13. learned - r.lead < OfferNotice /\ SlidOf(r, learned) = Latest(r.action, r.lead)
  BY <1>1, <1>2, <1>11, <1>12, SlidIs DEF SlidOf
<1>14. r.action # "arrange:party"
  BY <1>11 DEF rules, Enabled, Named
<1>15. E[r] = 1
  BY <1>2, <1>11, <1>12, <1>13, <1>14, LatestIs
<1>16. PICK s \in rules : s.action = send
  BY DEF Named, rules
<1>17. Posts(s.action) /\ s.lead > E[q]
  BY <1>4, <1>9, <1>15, <1>16
<1> QED
  BY <1>13, <1>16, <1>17 DEF rules, learned

\* The same of the rows.
LEMMA InPersonStep ==
  ASSUME OccasionInv, since = "none", NEW send \in {"send:card", "send:gift"},
         AnswerInPerson(send), NEW a \in Action, Lives(a), row'[a].state = "live",
         row'[a] # row[a]
  PROVE /\ \E r \in YearRules(occ) :
              r.action = a /\ YearWritten(occ) - r.lead < OfferNotice
        /\ \E s \in Enabled(YearRules(occ)) : Posts(s.action) /\ s.lead > row'[a].due
<1> DEFINE o == [occ EXCEPT !.yearly = InPerson(YearRules(occ), send),
                            !.yearlyWritten = YearWritten(occ)]
<1>1. /\ OccOK(occ) /\ out \in Int /\ row \in Rows
      /\ a \in Wanted(occ, out) /\ row[a].due = DueOf(Desired(occ, out, 0), a)
  BY Listing
<1>2. /\ Posts(send) /\ send \in Named(Desired(occ, out, DisplayWindow))
      /\ Settle(row, o, out)
  BY DEF AnswerInPerson
<1>3. /\ send \in Named(Enabled(YearRules(occ)))
      /\ HandsOver(send) \in Named(Defaults(occ))
      /\ "arrange:party" \notin Named(YearRules(occ))
  BY <1>1, <1>2, InPersonKept DEF DisplayWindow
<1>4. Overridden(o, send)
  BY DEF Overridden
<1> HIDE DEF o
<1>5. /\ OccOK(o) /\ o.yearly # {}
      /\ YearRules(o) = InPerson(YearRules(occ), send)
      /\ YearWritten(o) = YearWritten(occ)
  BY <1>1, <1>2, <1>3, <1>4, InPersonOcc
<1>6. HandedOver(Enabled(YearRules(o)), Enabled(YearRules(occ)), send)
  BY <1>1, <1>2, <1>3, <1>5, InPersonMade, OccRules DEF HandedOver
<1>7. row' = Reconciled(row, Desired(o, out, 0))
  BY <1>2 DEF Settle
<1>8. a \in Wanted(o, out) /\ row'[a].due = DueOf(Desired(o, out, 0), a)
  BY <1>1, <1>5, <1>7, ReconciledIs
<1>9. PICK D : Walked(D, Enabled(YearRules(occ)), YearWritten(occ))
  BY <1>1, OccRules, DeadlinesWalk
<1>10. PICK E : Walked(E, Enabled(YearRules(o)), YearWritten(o))
  BY <1>5, OccRules, DeadlinesWalk
<1>11. a # "plan"
  <2> SUFFICES ASSUME a = "plan" PROVE FALSE
    OBVIOUS
  <2>1. PICK t \in Desired(o, out, 0) : t.action = "plan"
    BY <1>8 DEF Wanted, Named
  <2>2. t \in Entries(o) /\ (t = Question(o) => Asked(o, out))
    BY <1>1, <1>5, <2>1, DesiredIs
  <2>3. Asked(o, out)
    BY <1>5, <2>1, <2>2, EntriesType
  <2> QED
    BY <1>5, <2>3 DEF Asked
<1>12. ASSUME NEW p, OccOK(p), a \in Wanted(p, out), NEW F,
              Walked(F, Enabled(YearRules(p)), YearWritten(p))
       PROVE \E r \in Enabled(YearRules(p)) : r.action = a /\ DueOf(Desired(p, out, 0), a) = F[r]
  <2>1. PICK t \in Desired(p, out, 0) : t.action = a
    BY <1>12 DEF Wanted, Named
  <2>2. t \in Entries(p)
    BY <1>1, <1>12, <2>1, DesiredIs
  <2>3. t \in Errands(p)
    BY <1>11, <1>12, <2>1, <2>2, QuestionType DEF Entries
  <2>4. PICK r \in Enabled(YearRules(p)) :
           t = [action |-> r.action, due |-> F[r], runUp |-> RunUp(r.action)]
    BY <1>12, <2>3, ErrandsAre
  <2>5. r.action = a
    BY <2>1, <2>4
  <2>6. DueOf(Desired(p, out, 0), a) = F[r]
    BY <1>1, <1>12, <2>5, ErrandDue
  <2> QED
    BY <2>5, <2>6
<1>13. PICK r \in Enabled(YearRules(occ)) : r.action = a /\ row[a].due = D[r]
  BY <1>1, <1>9, <1>12
<1>14. PICK q \in Enabled(YearRules(o)) : q.action = a /\ row'[a].due = E[q]
  BY <1>5, <1>8, <1>10, <1>12
<1>15. E[q] # D[r]
  <2>1. row' \in Rows
    BY <1>1, <1>5, <1>7, ReconciledIs
  <2>2. row[a] \in [state : {"none", "live", "dead"}, due : Nat]
        /\ row'[a] \in [state : {"none", "live", "dead"}, due : Nat]
    BY <1>1, <2>1 DEF Rows
  <2> QED
    BY <1>13, <1>14, <2>2 DEF Lives
<1>16. /\ YearWritten(occ) - r.lead < OfferNotice
       /\ \E s \in Enabled(YearRules(occ)) : Posts(s.action) /\ s.lead > E[q]
  BY <1>1, <1>2, <1>3, <1>5, <1>6, <1>9, <1>10, <1>13, <1>14, <1>15, StaysPut
<1>17. r \in YearRules(occ)
  BY DEF Enabled
<1> QED
  BY <1>13, <1>14, <1>16, <1>17

\* Handing a present over in person, from the posting's row, moves no deadline on
\* the list but that of an errand chosen late which only a posting kept from
\* sliding (InPersonStands).
THEOREM InPersonMovesNothing == Spec => InPersonStands
<1> DEFINE Stands ==
      occ'.yearly # occ.yearly /\ occ'.yearly # {} /\ since = "none" =>
          \A a \in Action :
             Lives(a) /\ row'[a].state = "live" =>
                \/ row'[a] = row[a]
                \/ /\ \E r \in YearRules(occ) :
                         r.action = a /\ YearWritten(occ) - r.lead < OfferNotice
                   /\ \E s \in Enabled(YearRules(occ)) :
                         Posts(s.action) /\ s.lead > row'[a].due
<1>1. ASSUME OccasionInv, [Next]_vars PROVE [Stands]_vars
  <2> SUFFICES ASSUME Next, occ'.yearly # occ.yearly, occ'.yearly # {}, since = "none",
                      NEW a \in Action, Lives(a), row'[a].state = "live",
                      row'[a] # row[a]
               PROVE /\ \E r \in YearRules(occ) :
                           r.action = a /\ YearWritten(occ) - r.lead < OfferNotice
                     /\ \E s \in Enabled(YearRules(occ)) :
                           Posts(s.action) /\ s.lead > row'[a].due
    BY <1>1
  <2>1. occ = [learned |-> occ.learned, imported |-> occ.imported, asks |-> occ.asks,
               audience |-> occ.audience, rules |-> occ.rules, written |-> occ.written,
               yearly |-> occ.yearly, yearlyWritten |-> occ.yearlyWritten]
    BY <1>1, OccParts DEF OccasionInv
  <2>2. ~(Regenerate \/ NextDay \/ \E b \in Picked : TickEarly(b) \/ Dismiss(b))
    BY DEF Regenerate, NextDay, TickEarly, Dismiss
  <2>3. ~NextYear
    BY <2>1 DEF NextYear
  <2>4. ~\E ticked \in SUBSET (Items \cap Picked), extra \in BOOLEAN : Answer(ticked, extra)
    <3> SUFFICES ASSUME NEW ticked, NEW extra, Answer(ticked, extra) PROVE FALSE
      OBVIOUS
    <3>1. \E rules : Renewed(occ', rules)
      BY DEF Answer, Renewed
    <3> QED
      BY <2>1, <3>1 DEF Renewed
  <2>5. ~\E r \in Edited : Save(r)
    <3> SUFFICES ASSUME NEW r, Save(r) PROVE FALSE
      OBVIOUS
    <3>1. \E rules : Renewed(occ', rules)
      BY DEF Save, Renewed
    <3> QED
      BY <2>1, <3>1 DEF Renewed
  <2>6. ~\E day \in Redates : Redate(day)
    BY <2>1 DEF Redate
  <2>7. ~\E asks \in BOOLEAN : SetAsks(asks)
    BY <2>1 DEF SetAsks
  <2>8. ~RecordDeath
    BY <2>1 DEF RecordDeath
  <2>9. PICK send \in {"send:card", "send:gift"} : AnswerInPerson(send)
    BY <2>2, <2>3, <2>4, <2>5, <2>6, <2>7, <2>8 DEF Next
  <2> QED
    BY <1>1, <2>9, InPersonStep
<1>2. Spec => [][Stands]_vars
  BY <1>1, OccasionInductive, PTL DEF Spec
<1> QED
  BY <1>2 DEF InPersonStands
=============================================================================
