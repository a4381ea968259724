---------------------------- MODULE DeviceProofs ----------------------------
(***************************************************************************)
(* What one device works out from the rows it holds.  Kinship's invariants *)
(* for any beings, offered roles and number of operations, and those of a  *)
(* phone's notifications for any reminders, times of delivery, window,     *)
(* budget and limit, and any number of runs and faults.                    *)
(***************************************************************************)
EXTENDS Kinship, Notifications, FiniteSetTheorems, WellFoundedInduction, TLAPS

-----------------------------------------------------------------------------
(* Kinship.                                                                *)

\* A tie between two beings whose roles are inverse.
Sound(t) ==
    \E a, b \in Being :
        /\ a # b
        /\ t \in [{a, b} -> Role]
        /\ t[a].base = InverseBase[t[b].base]
        /\ t[b].base = InverseBase[t[a].base]

LEMMA Constants == Offered \subseteq Role /\ MaxOps \in Nat
BY KinshipAssumption DEF KinshipAssumption

-----------------------------------------------------------------------------
(* Roles.                                                                  *)

\* Every base has an inverse, and is the inverse of its inverse.
LEMMA InverseInvolves ==
  \A r \in Base : InverseBase[r] \in Base /\ InverseBase[InverseBase[r]] = r
BY DEF Base, InverseBase

\* What composes to blood composes backwards to the inverse blood.
LEMMA BloodComposes ==
  ASSUME NEW x, NEW y, NEW r \in Blood, <<x, y, r>> \in Composition
  PROVE <<InverseBase[y], InverseBase[x], InverseBase[r]>> \in Composition
BY DEF Composition, Blood, InverseBase

\* What composes is a base.
LEMMA ComposedBase ==
  ASSUME NEW c \in Composition
  PROVE c[3] \in Base
BY DEF Composition, Base, InverseBase

\* A variant is a role of its base.
LEMMA VariantRole ==
  ASSUME NEW base \in Base, NEW g \in Gender
  PROVE Variant(base, g) \in Role /\ Variant(base, g).base = base
BY DEF Variant, Role, Gender

\* The inverse of a role is a role, of the inverse base.
LEMMA InverseRoleIs ==
  ASSUME NEW role \in Role
  PROVE /\ role.base \in Base /\ role.implies \in Gender
        /\ InverseRole(role) \in Role
        /\ InverseRole(role).base = InverseBase[role.base]
        /\ role.base = InverseBase[InverseRole(role).base]
<1>1. role.base \in Base /\ role.implies \in Gender
  BY DEF Role
<1>2. InverseBase[role.base] \in Base /\ InverseBase[InverseBase[role.base]] = role.base
  BY <1>1, InverseInvolves
<1>3. None \in Gender
  BY DEF Gender
<1> QED
  BY <1>1, <1>2, <1>3, VariantRole DEF InverseRole, Neutral

-----------------------------------------------------------------------------
(* Ties.                                                                   *)

\* A tie is sound exactly if it joins two beings in inverse roles.
LEMMA SoundTie ==
  ASSUME NEW t
  PROVE Sound(t)
          <=> /\ \E a, b \in Being : a # b /\ t \in [{a, b} -> Role]
              /\ \A a, b \in DOMAIN t : a # b => t[b].base = InverseBase[t[a].base]
<1>1. ASSUME Sound(t), NEW a \in DOMAIN t, NEW b \in DOMAIN t, a # b
      PROVE t[b].base = InverseBase[t[a].base]
  <2>1. PICK x, y \in Being : /\ t \in [{x, y} -> Role]
                              /\ t[x].base = InverseBase[t[y].base]
                              /\ t[y].base = InverseBase[t[x].base]
    BY <1>1 DEF Sound
  <2>2. DOMAIN t = {x, y}
    BY <2>1
  <2>3. (a = x /\ b = y) \/ (a = y /\ b = x)
    BY <1>1, <2>2
  <2> QED
    BY <2>1, <2>3
<1>2. ASSUME \E a, b \in Being : a # b /\ t \in [{a, b} -> Role],
             \A a, b \in DOMAIN t : a # b => t[b].base = InverseBase[t[a].base]
      PROVE Sound(t)
  BY <1>2 DEF Sound
<1> QED
  BY <1>1, <1>2 DEF Sound

\* A tie seen from one of its ends.
LEMMA TieFrom ==
  ASSUME NEW t, Sound(t), NEW b \in DOMAIN t
  PROVE /\ b \in Being /\ OtherEnd(t, b) \in Being /\ OtherEnd(t, b) # b
        /\ DOMAIN t = {b, OtherEnd(t, b)}
        /\ OtherEnd(t, OtherEnd(t, b)) = b
        /\ t[b] \in Role /\ t[OtherEnd(t, b)] \in Role
        /\ t[b].base = InverseBase[t[OtherEnd(t, b)].base]
        /\ t[OtherEnd(t, b)].base = InverseBase[t[b].base]
<1>1. PICK o \in Being : /\ o # b /\ b \in Being /\ t \in [{b, o} -> Role]
                         /\ t[b].base = InverseBase[t[o].base]
                         /\ t[o].base = InverseBase[t[b].base]
  <2>1. PICK x, y \in Being : /\ x # y /\ t \in [{x, y} -> Role]
                              /\ t[x].base = InverseBase[t[y].base]
                              /\ t[y].base = InverseBase[t[x].base]
    BY DEF Sound
  <2>2. b = x \/ b = y
    BY <2>1
  <2>3. {x, y} = {y, x}
    OBVIOUS
  <2>4. CASE b = x
    BY <2>1, <2>4
  <2>5. CASE b = y
    BY <2>1, <2>3, <2>5
  <2> QED
    BY <2>2, <2>4, <2>5
<1>2. DOMAIN t = {b, o}
  BY <1>1
<1>3. OtherEnd(t, b) = o /\ OtherEnd(t, o) = b
  BY <1>1, <1>2 DEF OtherEnd
<1> QED
  BY <1>1, <1>2, <1>3

\* A tie made of two inverse roles is sound, and joins the two it names.
LEMMA TieMade ==
  ASSUME NEW a \in Being, NEW b \in Being, a # b,
         NEW ra \in Role, NEW rb \in Role,
         ra.base = InverseBase[rb.base], rb.base = InverseBase[ra.base]
  PROVE Sound(Tie(a, ra, b, rb)) /\ DOMAIN Tie(a, ra, b, rb) = {a, b}
<1>1. /\ Tie(a, ra, b, rb) \in [{a, b} -> Role]
      /\ Tie(a, ra, b, rb)[a] = ra /\ Tie(a, ra, b, rb)[b] = rb
      /\ DOMAIN Tie(a, ra, b, rb) = {a, b}
  BY DEF Tie
<1> QED
  BY <1>1 DEF Sound

\* So is the tie a form makes.
LEMMA FormedSound ==
  ASSUME NEW s \in Being, NEW o \in Being, s # o, NEW role \in Role
  PROVE Sound(Formed(s, o, role))
BY InverseRoleIs, TieMade DEF Formed

-----------------------------------------------------------------------------
(* Derived edges.                                                          *)

\* A way of two ties: from b by s to a neighbour that is a route, and by t to
\* a published other.
Way(b, s, t, c) ==
    LET m == OtherEnd(s, b)
    IN  /\ s \in ties /\ b \in DOMAIN s /\ m \notin Inert(b)
        /\ t \in ties /\ m \in DOMAIN t
        /\ OtherEnd(t, m) = c.to /\ c.to # b /\ Published(c.to)
        /\ <<s[m].base, t[c.to].base, c.role>> \in Composition

\* A candidate is where a way leads.
LEMMA CandidateWay ==
  ASSUME NEW b, NEW c
  PROVE c \in Candidates(b)
          <=> \E s, t \in ties : Way(b, s, t, c) /\ c = [to |-> c.to, role |-> c.role]
<1>1. ASSUME NEW r, NEW q, NEW x
      PROVE x \in Composed(r, q) <=> <<r.base, q.base, x>> \in Composition
  <2>1. \A d \in Composition : d = <<d[1], d[2], d[3]>>
    BY DEF Composition
  <2>2. ASSUME <<r.base, q.base, x>> \in Composition
        PROVE x \in Composed(r, q)
    <3> DEFINE d == <<r.base, q.base, x>>
    <3>1. d[1] = r.base /\ d[2] = q.base /\ d[3] = x
      OBVIOUS
    <3>2. d \in Composition
      BY <2>2
    <3> HIDE DEF d
    <3> QED
      BY <3>1, <3>2 DEF Composed
  <2>3. ASSUME x \in Composed(r, q)
        PROVE <<r.base, q.base, x>> \in Composition
    <3>1. PICK d \in Composition : d[1] = r.base /\ d[2] = q.base /\ d[3] = x
      BY <2>3 DEF Composed
    <3> QED
      BY <2>1, <3>1
  <2> QED
    BY <2>2, <2>3
<1>2. ASSUME NEW m, NEW role
      PROVE c \in Through(m, role, b)
              <=> \E t \in Onward(m, b) :
                    \E r \in Composed(role, t[OtherEnd(t, m)]) :
                        c = [to |-> OtherEnd(t, m), role |-> r]
  BY DEF Through
<1>3. c \in Candidates(b)
        <=> \E s \in TiesOf(b) : /\ OtherEnd(s, b) \notin Inert(b)
                                 /\ c \in Through(OtherEnd(s, b), s[OtherEnd(s, b)], b)
  BY DEF Candidates
<1>4. ASSUME c \in Candidates(b)
      PROVE \E s, t \in ties : Way(b, s, t, c) /\ c = [to |-> c.to, role |-> c.role]
  <2>1. PICK s \in TiesOf(b) : /\ OtherEnd(s, b) \notin Inert(b)
                               /\ c \in Through(OtherEnd(s, b), s[OtherEnd(s, b)], b)
    BY <1>3, <1>4
  <2> DEFINE m == OtherEnd(s, b)
  <2>2. PICK t \in Onward(m, b) : \E r \in Composed(s[m], t[OtherEnd(t, m)]) :
                                      c = [to |-> OtherEnd(t, m), role |-> r]
    BY <1>2, <2>1
  <2>3. c.to = OtherEnd(t, m) /\ c.role \in Composed(s[m], t[OtherEnd(t, m)])
        /\ c = [to |-> c.to, role |-> c.role]
    BY <2>2
  <2> QED
    BY <1>1, <2>1, <2>2, <2>3 DEF Way, TiesOf, Onward
<1>5. ASSUME NEW s \in ties, NEW t \in ties, Way(b, s, t, c),
             c = [to |-> c.to, role |-> c.role]
      PROVE c \in Candidates(b)
  <2> DEFINE m == OtherEnd(s, b)
  <2>1. s \in TiesOf(b) /\ m \notin Inert(b) /\ t \in Onward(m, b)
        /\ OtherEnd(t, m) = c.to
    BY <1>5 DEF Way, TiesOf, Onward
  <2>2. c.role \in Composed(s[m], t[c.to])
    BY <1>1, <1>5 DEF Way
  <2>3. c \in Through(m, s[m], b)
    BY <1>2, <1>5, <2>1, <2>2
  <2> QED
    BY <1>3, <2>1, <2>3
<1> QED
  BY <1>4, <1>5

\* A derived edge joins two published beings, by a base.
LEMMA DerivedType ==
  ASSUME \A t \in ties : Sound(t), NEW b \in Being, NEW c \in Derived(b)
  PROVE /\ c \in Candidates(b) /\ c.to \in Being /\ c.to # b /\ c.role \in Base
        /\ Published(b) /\ Published(c.to) /\ c.to \notin Explicit(b)
        /\ <<b, c.to, c.role>> \notin dismissed
<1>1. /\ Published(b) /\ c \in Candidates(b) /\ c.to \notin Explicit(b)
      /\ <<b, c.to, c.role>> \notin dismissed
  BY DEF Derived, Undismissed
<1>2. PICK s \in ties, t \in ties : Way(b, s, t, c)
  BY <1>1, CandidateWay
<1>3. c.to \in Being
  <2>1. Sound(s) /\ Sound(t)
    OBVIOUS
  <2>2. OtherEnd(t, OtherEnd(s, b)) \in Being
    BY <1>2, <2>1, TieFrom DEF Way
  <2> QED
    BY <1>2, <2>2 DEF Way
<1>4. c.role \in Base
  BY <1>2, ComposedBase DEF Way
<1> QED
  BY <1>1, <1>2, <1>3, <1>4 DEF Way

\* A way of blood, between two with no tie of their own, goes back as well.
LEMMA WayBack ==
  ASSUME \A t \in ties : Sound(t), NEW b \in Being, NEW c \in Derived(b),
         c.role \in Blood
  PROVE [to |-> b, role |-> InverseBase[c.role]] \in Candidates(c.to)
<1> DEFINE o == c.to
           back == [to |-> b, role |-> InverseBase[c.role]]
<1>1. /\ o \in Being /\ o # b /\ Published(b) /\ Published(o)
      /\ o \notin Explicit(b) /\ c \in Candidates(b)
  BY DerivedType
<1>2. PICK s \in ties, t \in ties : Way(b, s, t, c)
  BY <1>1, CandidateWay
<1> DEFINE m == OtherEnd(s, b)
<1>0. /\ Sound(s) /\ Sound(t) /\ b \in DOMAIN s /\ m \in DOMAIN t
      /\ OtherEnd(t, m) = o
  BY <1>2 DEF Way
<1>3. /\ b \in DOMAIN s /\ m \in Being /\ m # b /\ DOMAIN s = {b, m}
      /\ OtherEnd(s, m) = b
      /\ s[m].base \in Base /\ s[b].base = InverseBase[s[m].base]
  BY <1>0, TieFrom DEF Role
<1>4. /\ m \in DOMAIN t /\ OtherEnd(t, m) = o /\ m # o /\ DOMAIN t = {m, o}
      /\ OtherEnd(t, o) = m
      /\ t[o].base \in Base /\ t[m].base = InverseBase[t[o].base]
  <2> HIDE DEF m, o
  <2>1. /\ OtherEnd(t, m) # m /\ DOMAIN t = {m, OtherEnd(t, m)}
        /\ OtherEnd(t, OtherEnd(t, m)) = m /\ t[OtherEnd(t, m)] \in Role
        /\ t[m].base = InverseBase[t[OtherEnd(t, m)].base]
    BY <1>0, TieFrom
  <2>2. t[o].base \in Base
    BY <1>0, <2>1 DEF Role
  <2> QED
    BY <1>0, <2>1, <2>2
<1>5. m \notin Inert(o)
  <2> SUFFICES ASSUME m \in Inert(o) PROVE FALSE
    OBVIOUS
  <2>1. Alive(m) /\ standing[m] # "draft" /\ ~Published(m)
    BY DEF Inert, Explicit
  <2>2. m \in Explicit(b)
    BY <1>2, <1>3, <2>1 DEF Explicit
  <2> QED
    BY <1>2, <2>1, <2>2 DEF Way, Inert
<1>6. <<t[m].base, s[b].base, InverseBase[c.role]>> \in Composition
  BY <1>2, <1>3, <1>4, BloodComposes DEF Way
<1>7. back.to = b /\ back.role = InverseBase[c.role]
      /\ back = [to |-> back.to, role |-> back.role]
  OBVIOUS
<1>8. Way(o, t, s, back)
  BY <1>1, <1>3, <1>4, <1>5, <1>6, <1>7 DEF Way
<1> HIDE DEF back
<1> QED
  BY <1>7, <1>8, CandidateWay DEF back

-----------------------------------------------------------------------------
(* The two properties, in any state of the invariant.                      *)

LEMMA KinMutual ==
  ASSUME \A t \in ties : Sound(t)
  PROVE MutualKin
<1> SUFFICES ASSUME NEW b \in Being, NEW c \in Derived(b), c.role \in Blood
             PROVE LET back == [to |-> b, role |-> InverseBase[c.role]]
                   IN  \/ back \in Derived(c.to)
                       \/ <<c.to, b, back.role>> \in dismissed
                       \/ \E d \in Undismissed(c.to) : d.to = b /\ d.role # back.role
  BY DEF MutualKin
<1> DEFINE back == [to |-> b, role |-> InverseBase[c.role]]
<1>1. back \in Candidates(c.to) /\ back.to = b
  BY WayBack
<1>2. /\ c.to \in Being /\ c.to # b /\ Published(b) /\ Published(c.to)
      /\ c.to \notin Explicit(b)
  BY DerivedType
<1>3. b \notin Explicit(c.to)
  <2> SUFFICES ASSUME b \in Explicit(c.to) PROVE FALSE
    OBVIOUS
  <2>1. PICK t \in ties : DOMAIN t = {c.to, b}
    BY DEF Explicit
  <2>2. Alive(c.to) /\ standing[c.to] # "draft" /\ DOMAIN t = {b, c.to}
    BY <1>2, <2>1 DEF Published, Alive
  <2> QED
    BY <1>2, <2>2 DEF Explicit
<1> HIDE DEF back
<1>4. CASE <<c.to, b, back.role>> \notin dismissed
  <2>1. back \in Undismissed(c.to)
    BY <1>1, <1>4 DEF Undismissed
  <2>2. CASE \A d \in Undismissed(c.to) : d.to = b => d.role = back.role
    BY <1>1, <1>2, <1>3, <2>1, <2>2 DEF Derived, back
  <2> QED
    BY <2>2 DEF back
<1> QED
  BY <1>4 DEF back

LEMMA DismissalKept ==
  ASSUME KInv
  PROVE DismissedStays
<1> SUFFICES ASSUME NEW r \in rejected, NEW c \in Derived(heir[r[1]]),
                    c.to = heir[r[2]], c.role = r[3]
             PROVE FALSE
  BY DEF DismissedStays
<1>1. \A t \in ties : Sound(t)
  BY SoundTie DEF KInv, TypeOK, Paired
<1>2. heir[r[1]] \in Being
  BY DEF KInv, TypeOK
<1>3. /\ c.to # heir[r[1]] /\ Published(heir[r[1]]) /\ Published(c.to)
      /\ <<heir[r[1]], c.to, c.role>> \notin dismissed
  BY <1>1, <1>2, DerivedType
<1> QED
  BY <1>3 DEF KInv, Recorded, Published
-----------------------------------------------------------------------------
(* The invariant holds at the start and after every operation.             *)

\* The invariant, with its ties one by one.
Typed ==
    /\ standing \in [Being -> {"absent", "draft", "unpublished", "published", "gone"}]
    /\ gender \in [Being -> Gender]
    /\ dismissed \subseteq Being \X Being \X Base
    /\ rejected \subseteq Being \X Being \X Base
    /\ heir \in [Being -> Being]
    /\ ops \in 0 .. MaxOps

LEMMA Parts == KInv <=> Typed /\ (\A t \in ties : Sound(t)) /\ Heirs /\ Recorded
BY SoundTie DEF KInv, TypeOK, Paired, Typed

LEMMA PartsNext ==
  ASSUME Typed', \A t \in ties' : Sound(t), Heirs', Recorded'
  PROVE KInv'
BY SoundTie DEF KInv, TypeOK, Paired, Typed

LEMMA KInit == Init => KInv
<1> SUFFICES ASSUME Init PROVE KInv
  OBVIOUS
<1>1. PICK absent, a, b, c \in Being, r, q \in Offered :
          /\ standing = [d \in Being |-> IF d = absent THEN "absent" ELSE "published"]
          /\ Fits(a, b, r) /\ Fits(b, c, q)
          /\ ties \in {{}, {Formed(a, b, r), Formed(b, c, q)}}
  BY DEF Init
<1>2. \A t \in ties : Sound(t)
  <2>1. Sound(Formed(a, b, r)) /\ Sound(Formed(b, c, q))
    BY <1>1, Constants, FormedSound DEF Fits
  <2> QED
    BY <1>1, <2>1
<1>3. Typed
  BY <1>1, Constants DEF Init, Typed, Gender
<1>4. Heirs /\ Recorded
  BY DEF Init, Heirs, Recorded
<1> QED
  BY <1>2, <1>3, <1>4, Parts

\* An operation that changes neither a dismissal nor a heir, and brings nobody
\* back from the dead, keeps the two histories.
LEMMA HistoriesKept ==
  ASSUME Heirs, Recorded, Typed, UNCHANGED <<dismissed, rejected, heir>>,
         \A b \in Being : standing[b] = "gone" => standing'[b] = "gone"
  PROVE Heirs' /\ Recorded'
<1>1. Heirs'
  BY DEF Heirs
<1>2. Recorded'
  <2> SUFFICES ASSUME NEW r \in rejected
               PROVE LET b == heir[r[1]]
                         o == heir[r[2]]
                     IN  \/ b = o \/ "gone" \in {standing'[b], standing'[o]}
                         \/ <<b, o, r[3]>> \in dismissed
    BY DEF Recorded
  <2>1. heir[r[1]] \in Being /\ heir[r[2]] \in Being
    BY DEF Typed
  <2> QED
    BY <2>1 DEF Recorded
<1> QED
  BY <1>1, <1>2

\* One more operation is counted.
LEMMA OpCounted ==
  ASSUME Typed, Op
  PROVE ops' \in 0 .. MaxOps
BY Constants DEF Typed, Op

\* A promotion keeps the standings typed and the dead dead.
LEMMA PromotedType ==
  ASSUME Typed, NEW bs, standing' = Promoted(bs)
  PROVE /\ standing' \in [Being -> {"absent", "draft", "unpublished", "published", "gone"}]
        /\ \A b \in Being : standing[b] = "gone" => standing'[b] = "gone"
BY DEF Typed, Promoted

\* Removing some leaves what the invariant says of the rest.
LEMMA RemovedKeeps ==
  ASSUME KInv, Op, NEW bs \in SUBSET Being, NEW record \in SUBSET ties,
         Removed(bs, record)
  PROVE KInv'
<1>1. Typed /\ (\A t \in ties : Sound(t)) /\ Heirs /\ Recorded
  BY Parts
<1>2. Typed'
  BY <1>1, OpCounted DEF Removed, Typed
<1>3. \A t \in ties' : Sound(t)
  BY <1>1 DEF Removed
<1>4. \A b \in Being : /\ standing[b] = "gone" => standing'[b] = "gone"
                       /\ b \in bs => standing'[b] = "gone"
  BY <1>1 DEF Removed, Typed
<1>5. Heirs'
  BY <1>1, <1>4 DEF Heirs, Removed
<1>6. Recorded'
  <2> SUFFICES ASSUME NEW r \in rejected
               PROVE LET b == heir[r[1]]
                         o == heir[r[2]]
                     IN  \/ b = o \/ "gone" \in {standing'[b], standing'[o]}
                         \/ <<b, o, r[3]>> \in dismissed'
    BY DEF Recorded, Removed
  <2> DEFINE b == heir[r[1]]
             o == heir[r[2]]
             d == <<b, o, r[3]>>
  <2>1. b \in Being /\ o \in Being /\ d[1] = b /\ d[2] = o
    BY <1>1 DEF Typed
  <2>2. b = o \/ "gone" \in {standing[b], standing[o]} \/ d \in dismissed
    BY <1>1 DEF Recorded
  <2> HIDE DEF b, o, d
  <2>3. CASE b \in bs \/ o \in bs
    BY <1>4, <2>1, <2>3 DEF b, o, d
  <2>4. CASE b \notin bs /\ o \notin bs
    <3>1. d \in dismissed => d \in dismissed'
      BY <2>1, <2>4 DEF Removed
    <3> QED
      BY <1>4, <2>1, <2>2, <3>1 DEF b, o, d
  <2> QED
    BY <2>3, <2>4
<1> QED
  BY <1>2, <1>3, <1>5, <1>6, PartsNext

LEMMA RelateNext ==
  ASSUME KInv, NEW s \in Being, NEW o \in Being, NEW role \in Offered,
         Relate(s, o, role) \/ RelateNew(s, o, role)
  PROVE KInv'
<1>1. Typed /\ (\A t \in ties : Sound(t)) /\ Heirs /\ Recorded
  BY Parts
<1>2. Sound(Formed(s, o, role))
  BY Constants, FormedSound DEF Relate, RelateNew, Fits
<1>3. \A t \in ties' : Sound(t)
  BY <1>1, <1>2 DEF Relate, RelateNew
<1>4. /\ standing' \in [Being -> {"absent", "draft", "unpublished", "published", "gone"}]
      /\ \A b \in Being : standing[b] = "gone" => standing'[b] = "gone"
  BY <1>1, PromotedType DEF Relate, RelateNew, Typed
<1>5. Typed'
  BY <1>1, <1>4, OpCounted DEF Relate, RelateNew, Typed
<1>6. Heirs' /\ Recorded'
  BY <1>1, <1>4, HistoriesKept DEF Relate, RelateNew
<1> QED
  BY <1>3, <1>5, <1>6, PartsNext

LEMMA EditRoleNext ==
  ASSUME KInv, NEW s \in Being, NEW t \in ties, NEW role \in Offered,
         EditRole(s, t, role)
  PROVE KInv'
<1>1. Typed /\ (\A u \in ties : Sound(u)) /\ Heirs /\ Recorded
  BY Parts
<1>2. Sound(Edited(t, s, role))
  <2> DEFINE mine == Variant(InverseBase[role.base], t[s].implies)
  <2>1. /\ OtherEnd(t, s) \in Being /\ OtherEnd(t, s) # s /\ t[s] \in Role
    BY <1>1, TieFrom DEF EditRole, TiesOf
  <2>2. role \in Role /\ role.base \in Base /\ t[s].implies \in Gender
    BY <2>1, Constants DEF Role
  <2>3. InverseBase[role.base] \in Base /\ InverseBase[InverseBase[role.base]] = role.base
    BY <2>2, InverseInvolves
  <2>4. mine \in Role /\ mine.base = InverseBase[role.base]
    BY <2>2, <2>3, VariantRole
  <2> HIDE DEF mine
  <2> QED
    BY <2>1, <2>2, <2>3, <2>4, TieMade DEF Edited, mine
<1>3. \A u \in ties' : Sound(u)
  BY <1>1, <1>2 DEF EditRole
<1>4. Typed'
  BY <1>1, OpCounted DEF EditRole, Typed
<1>5. Heirs' /\ Recorded'
  BY <1>1, HistoriesKept DEF EditRole
<1> QED
  BY <1>3, <1>4, <1>5, PartsNext

LEMMA RemoveNext ==
  ASSUME KInv,
         \/ \E t \in ties : Unrelate(t)
         \/ \E b \in Being : Delete(b) \/ DiscardDraft(b)
  PROVE KInv'
<1>1. \A t \in ties : Sound(t)
  BY Parts
<1>2. ASSUME NEW t \in ties, Unrelate(t) PROVE KInv'
  <2>1. DOMAIN t \subseteq Being
    BY <1>1 DEF Sound
  <2> QED
    BY <1>2, <2>1, RemovedKeeps DEF Unrelate
<1>3. ASSUME NEW b \in Being, Delete(b) \/ DiscardDraft(b) PROVE KInv'
  <2> DEFINE bs == {b} \cup {o \in Explicit(b) : standing[o] = "unpublished"}
  <2>1. bs \subseteq Being
    BY DEF Explicit
  <2>2. Op /\ Removed(bs, ties)
    BY <1>3 DEF Delete, DiscardDraft
  <2> HIDE DEF bs
  <2> QED
    BY <2>1, <2>2, RemovedKeeps
<1> QED
  BY <1>2, <1>3

\* A gender, a draft begun or published: neither ties nor dismissals change.
LEMMA CardNext ==
  ASSUME KInv, NEW b \in Being,
         \/ StartDraft(b) \/ PublishDraft(b)
         \/ \E g \in Gender : SetGender(b, g)
  PROVE KInv'
<1>1. Typed /\ (\A u \in ties : Sound(u)) /\ Heirs /\ Recorded
  BY Parts
<1>2. /\ standing' \in [Being -> {"absent", "draft", "unpublished", "published", "gone"}]
      /\ \A e \in Being : standing[e] = "gone" => standing'[e] = "gone"
  BY <1>1, PromotedType DEF StartDraft, PublishDraft, SetGender, Typed
<1>3. Typed'
  BY <1>1, <1>2, OpCounted DEF StartDraft, PublishDraft, SetGender, Typed
<1>4. Heirs' /\ Recorded'
  BY <1>1, <1>2, HistoriesKept DEF StartDraft, PublishDraft, SetGender
<1>5. \A u \in ties' : Sound(u)
  BY <1>1 DEF StartDraft, PublishDraft, SetGender
<1> QED
  BY <1>3, <1>4, <1>5, PartsNext

\* What is dismissed is of two published beings, who are their own heirs.
LEMMA DismissNext ==
  ASSUME KInv, NEW b \in Being, NEW c \in Derived(b), Dismiss(b, c)
  PROVE KInv'
<1>1. Typed /\ (\A u \in ties : Sound(u)) /\ Heirs /\ Recorded
  BY Parts
<1>2. c.to \in Being /\ c.role \in Base /\ Published(b) /\ Published(c.to)
  BY <1>1, DerivedType
<1> DEFINE d == <<b, c.to, c.role>>
<1>3. ShownRole(c).base = c.role
  BY DEF ShownRole, Variant
<1>4. dismissed' = dismissed \cup {d} /\ rejected' = rejected \cup {d}
  BY <1>3 DEF Dismiss
<1>5. d \in Being \X Being \X Base /\ d[1] = b /\ d[2] = c.to /\ d[3] = c.role
  BY <1>2
<1>6. heir[b] = b /\ heir[c.to] = c.to
  BY <1>1, <1>2 DEF Heirs, Published
<1>7. d = <<heir[d[1]], heir[d[2]], d[3]>>
  BY <1>5, <1>6
<1> HIDE DEF d
<1>8. Typed'
  BY <1>1, <1>4, <1>5, OpCounted DEF Dismiss, Typed
<1>9. Heirs'
  BY <1>1 DEF Heirs, Dismiss
<1>10. Recorded'
  BY <1>1, <1>4, <1>7 DEF Recorded, Dismiss
<1>11. \A u \in ties' : Sound(u)
  BY <1>1 DEF Dismiss
<1> QED
  BY <1>8, <1>9, <1>10, <1>11, PartsNext

LEMMA RestoreNext ==
  ASSUME KInv, NEW d \in dismissed, Restore(d)
  PROVE KInv'
<1>1. Typed /\ (\A u \in ties : Sound(u)) /\ Heirs /\ Recorded
  BY Parts
<1>2. Typed'
  BY <1>1, OpCounted DEF Restore, Typed
<1>3. Heirs'
  BY <1>1 DEF Heirs, Restore
<1>4. Recorded'
  BY <1>1 DEF Recorded, Restore
<1>5. \A u \in ties' : Sound(u)
  BY <1>1 DEF Restore
<1> QED
  BY <1>2, <1>3, <1>4, <1>5, PartsNext

\* A merge: a rejection follows the two it is about to their new heirs, who
\* are one, or gone, or have a dismissal that was moved with them.
LEMMA MergeNext ==
  ASSUME KInv, NEW survivor \in Being, NEW loser \in Being,
         Merge(survivor, loser)
  PROVE KInv'
<1>1. Typed /\ (\A u \in ties : Sound(u)) /\ Heirs /\ Recorded
  BY Parts
<1>2. /\ survivor # loser
      /\ standing[survivor] # "gone" /\ standing[loser] # "gone"
  BY DEF Merge, Published
<1>3. /\ standing'[loser] = "gone"
      /\ \A b \in Being : standing[b] = "gone" => standing'[b] = "gone"
  BY <1>1, <1>2 DEF Merge, Typed
<1> DEFINE Moved(b) == IF b = loser THEN survivor ELSE b
<1>4. \A b \in Being : heir'[b] = Moved(heir[b])
  BY DEF Merge
<1>5. \A u \in ties' : Sound(u)
  <2> SUFFICES ASSUME NEW t \in ties, DOMAIN t # {survivor, loser}
               PROVE Sound(TieMoved(t, survivor, loser))
    BY DEF Merge
  <2>1. Sound(t)
    BY <1>1
  <2>2. CASE loser \notin DOMAIN t
    BY <2>1, <2>2 DEF TieMoved
  <2>3. CASE loser \in DOMAIN t
    <3> DEFINE o == OtherEnd(t, loser)
    <3>1. /\ o \in Being /\ DOMAIN t = {loser, o}
          /\ t[loser] \in Role /\ t[o] \in Role
          /\ t[loser].base = InverseBase[t[o].base] /\ t[o].base = InverseBase[t[loser].base]
      BY <2>1, <2>3, TieFrom
    <3>2. survivor # o
      BY <3>1
    <3>3. TieMoved(t, survivor, loser) = Tie(survivor, t[loser], o, t[o])
      BY <2>3 DEF TieMoved
    <3> DEFINE mine == t[loser]
               others == t[o]
    <3>4. /\ mine \in Role /\ others \in Role
          /\ mine.base = InverseBase[others.base] /\ others.base = InverseBase[mine.base]
      BY <3>1
    <3> HIDE DEF o, mine, others
    <3>5. Sound(Tie(survivor, mine, o, others))
      BY <3>1, <3>2, <3>4, TieMade
    <3> QED
      BY <3>3, <3>5 DEF mine, others
  <2> QED
    BY <2>2, <2>3
<1>6. Typed'
  <2>1. standing' \in [Being -> {"absent", "draft", "unpublished", "published", "gone"}]
    BY <1>1 DEF Merge, Typed
  <2>2. gender' \in [Being -> Gender] /\ heir' \in [Being -> Being]
    BY <1>1 DEF Merge, Typed
  <2>3. dismissed' \subseteq Being \X Being \X Base
    <3> SUFFICES ASSUME NEW d \in dismissed
                 PROVE Repointed(d, survivor, loser) \in Being \X Being \X Base
      BY DEF Merge
    <3> QED
      BY <1>1 DEF Typed, Repointed
  <2>4. ops' \in 0 .. MaxOps /\ UNCHANGED rejected
    BY <1>1, OpCounted DEF Merge
  <2> QED
    BY <1>1, <2>1, <2>2, <2>3, <2>4 DEF Typed
<1>7. Heirs'
  <2> SUFFICES ASSUME NEW b \in Being, heir'[b] # b
               PROVE standing'[b] = "gone"
    BY DEF Heirs
  <2>1. CASE b = loser
    BY <1>3, <2>1
  <2>2. CASE b # loser
    BY <1>1, <1>3, <1>4, <2>2 DEF Heirs
  <2> QED
    BY <2>1, <2>2
<1>8. Recorded'
  <2> SUFFICES ASSUME NEW r \in rejected
               PROVE LET b == heir'[r[1]]
                         o == heir'[r[2]]
                     IN  \/ b = o \/ "gone" \in {standing'[b], standing'[o]}
                         \/ <<b, o, r[3]>> \in dismissed'
    BY DEF Recorded, Merge
  <2> DEFINE b == heir[r[1]]
             o == heir[r[2]]
             d == <<b, o, r[3]>>
             moved == <<Moved(b), Moved(o), r[3]>>
  <2>1. r[1] \in Being /\ r[2] \in Being /\ b \in Being /\ o \in Being
    BY <1>1 DEF Typed
  <2>2. heir'[r[1]] = Moved(b) /\ heir'[r[2]] = Moved(o)
    BY <1>4, <2>1
  <2>3. b = o \/ "gone" \in {standing[b], standing[o]} \/ d \in dismissed
    BY <1>1 DEF Recorded
  <2>4. CASE b = o
    BY <2>2, <2>4
  <2>5. CASE "gone" \in {standing[b], standing[o]}
    <3>1. \/ standing'[b] = "gone" /\ Moved(b) = b
          \/ standing'[o] = "gone" /\ Moved(o) = o
      BY <1>2, <1>3, <2>1, <2>5
    <3> QED
      BY <2>2, <3>1
  <2>6. CASE d \in dismissed /\ Moved(b) # Moved(o)
    <3>1. Repointed(d, survivor, loser) = moved
      <4>1. d[1] = b /\ d[2] = o /\ d[3] = r[3]
        OBVIOUS
      <4> HIDE DEF b, o, d
      <4> QED
        BY <4>1 DEF Repointed
    <3>2. moved[1] # moved[2]
      BY <2>6
    <3> HIDE DEF d, moved
    <3>3. moved \in dismissed'
      BY <2>6, <3>1, <3>2 DEF Merge
    <3> QED
      BY <2>2, <3>3 DEF moved
  <2> QED
    BY <2>2, <2>3, <2>4, <2>5, <2>6
<1> QED
  BY <1>5, <1>6, <1>7, <1>8, PartsNext

LEMMA KNext == KInv /\ [Next]_vars => KInv'
<1> SUFFICES ASSUME KInv, [Next]_vars PROVE KInv'
  OBVIOUS
<1>1. CASE UNCHANGED vars
  <2>1. Typed /\ (\A u \in ties : Sound(u)) /\ Heirs /\ Recorded
    BY Parts
  <2>2. Typed' /\ (\A u \in ties' : Sound(u)) /\ Heirs' /\ Recorded'
    BY <1>1, <2>1 DEF vars, Typed, Heirs, Recorded
  <2> QED
    BY <2>2, PartsNext
<1>2. CASE Next
  BY <1>2, RelateNext, EditRoleNext, RemoveNext, CardNext, DismissNext,
     RestoreNext, MergeNext DEF Next
<1> QED
  BY <1>1, <1>2

\* The inductive invariant holds in every reachable state.
THEOREM KinshipInductive == Spec => []KInv
BY KInit, KNext, PTL DEF Spec

\* Type correctness.
THEOREM KinshipTypeCorrect == Spec => []TypeOK
<1>1. KInv => TypeOK
  BY DEF KInv
<1> QED
  BY <1>1, KinshipInductive, PTL

\* A relative by blood worked out for one page is worked out for the other,
\* whoever reads first and whatever was recorded from which end.
\* (kinship-service.ts neighborsFor, relationship.ts composeRoles.)
THEOREM KinIsMutual == Spec => []MutualKin
<1>1. KInv => MutualKin
  BY Parts, KinMutual
<1> QED
  BY <1>1, KinshipInductive, PTL

\* A dismissed relative stays dismissed through merges, deletions and edits,
\* until it is restored.  (kinship-service.ts dismiss, dismissals-repo.ts.)
THEOREM DismissalsStay == Spec => []DismissedStays
<1>1. KInv => DismissedStays
  BY DismissalKept
<1> QED
  BY <1>1, KinshipInductive, PTL

-----------------------------------------------------------------------------
(* Notifications: the inductive invariant.                                 *)

Item == [id : Nat \cup {Tripwire}, at : Nat, body : SUBSET Reminder]
RowsRead == [done : SUBSET Reminder, snoozed : [Reminder -> Nat], times : SUBSET Minutes]
CallMade == [call : {"schedule", "cancel", "drop"}, it : Item]
RunState == [read : SUBSET {"rows", "pending"}, rows : RowsRead, held : SUBSET Item,
             at : Nat, calls : SUBSET CallMade]

NotificationsTypeOK ==
    /\ now \in Nat /\ done \subseteq Reminder
    /\ snoozed \in [Reminder -> Nat] /\ times \subseteq Minutes
    /\ pending \subseteq Item /\ open \in BOOLEAN /\ owed \in Nat
    /\ InFlight \subseteq Run /\ run \in [InFlight -> RunState]
    /\ kicks \in 0 .. MaxKicks /\ faults \in 0 .. MaxFaults
    /\ heard \subseteq Reminder \X Nat /\ told \in BOOLEAN /\ crowded \in BOOLEAN
    /\ planned \subseteq SUBSET Item /\ burst \in {"steady", "changed", "cut"}
    /\ settled \subseteq [plan : SUBSET Item, rows : RowsRead, at : Nat]

\* The system lists one notification an id, none of the past.
Listed ==
    /\ \A p, q \in pending : p.id = q.id => p = q
    /\ \A p \in pending : p.at > now

\* What a run has read, and the calls it has to come.
Reading(i) ==
    /\ \A p, q \in run[i].held : p.id = q.id => p = q
    /\ planned = {} /\ run[i].read = {"pending"} => pending = {p \in run[i].held : p.at > now}
    /\ Planned(i) => run[i].at <= now /\ Plan(i) \in planned
    /\ run[i].calls # {} => Planned(i)
    /\ \A c \in run[i].calls :
          /\ c.call # "drop" => c.it \in Plan(i)
          /\ c.call = "cancel" => [call |-> "schedule", it |-> c.it] \in run[i].calls

\* A notification that names what is ticked off or still snoozed.
Loud(p) == \E r \in p.body : r \in done \/ Day(p.at) < snoozed[r]

\* While no row changes, each run has read the rows as they are, and has yet to
\* take back whatever is pending and loud.
Quieting(i) ==
    /\ "rows" \in run[i].read => run[i].rows = Rows
    /\ \A p \in pending :
          Loud(p) =>
            \/ "pending" \notin run[i].read
            \/ run[i].read = {"pending"} /\ p \in run[i].held
            \/ Planned(i) /\ \E c \in run[i].calls : c.call # "schedule" /\ c.it.id = p.id

Quiet ==
    burst = "steady" =>
        /\ \A i \in InFlight : Quieting(i)
        /\ InFlight = {} /\ owed = 0 => \A p \in pending : ~Loud(p)

\* The calls that any of the runs has to come.
ToCome == {c \in CallMade : \E i \in InFlight : c \in run[i].calls}

\* A notification of a plan that has been seen to: it is pending, or the user
\* has heard of it, unless the system had no room.
SeenTo(x) ==
    \/ crowded
    \/ x.at > now /\ x \in pending
    \/ /\ x.at <= now
       /\ \A r \in x.body : <<r, x.at>> \in heard
       /\ x.id = Tripwire => told

\* What runs agreed on one plan have achieved, with these calls of theirs to come.
Achieved(plan, calls) ==
    /\ \A c \in calls : IF c.call = "drop" THEN \A x \in plan : x.id # c.it.id
                                           ELSE c.it \in plan
    /\ \A x \in plan :
          \/ [call |-> "schedule", it |-> x] \in calls
          \/ /\ [call |-> "cancel", it |-> x] \notin calls
             /\ SeenTo(x)
             /\ \A p \in pending : p.id = x.id => p = x
    /\ \A p \in pending :
          \/ \E x \in plan : x.id = p.id
          \/ \E c \in calls : c.call = "drop" /\ c.it.id = p.id

Agreed ==
    \A plan \in planned :
        burst # "cut" /\ planned = {plan} /\ InFlight # {} => Achieved(plan, ToCome)

AtRest ==
    /\ settled # {} => InFlight = {}
    /\ \A s \in settled :
          /\ s.plan = planNotifications(s.rows, s.at) /\ s.at <= now
          /\ Achieved(s.plan, {})

NotificationsInv ==
    /\ NotificationsTypeOK /\ Listed /\ Quiet /\ Agreed /\ AtRest
    /\ \A i \in InFlight : Reading(i)

-----------------------------------------------------------------------------
(* Days and moments.                                                       *)

LEMMA SlotsPositive == Slots \in Nat /\ Slots > 0 /\ Minutes \subseteq 1 .. Slots - 1
BY NotificationsAssumption

\* A time of a day is a moment of that day.
LEMMA DayOfFireAt ==
  ASSUME NEW d \in Nat, NEW m \in 0 .. Slots - 1
  PROVE /\ FireAt(d, m) \in Nat /\ Day(FireAt(d, m)) = d
<1>1. FireAt(d, m) \in Nat
  BY SlotsPositive DEF FireAt
<1>2. (d * Slots + m) \div Slots = d
  BY SlotsPositive, SMTT(30)
<1> QED
  BY <1>1, <1>2 DEF FireAt, Day

LEMMA DayIs ==
  ASSUME NEW t \in Nat
  PROVE Day(t) \in Nat
BY SlotsPositive DEF Day

\* A day's moments are told apart.
LEMMA FireAtInjective ==
  ASSUME NEW d \in Nat, NEW m \in Minutes, NEW e \in Nat, NEW n \in Minutes,
         FireAt(d, m) = FireAt(e, n)
  PROVE d = e /\ m = n
<1>1. m \in 0 .. Slots - 1 /\ n \in 0 .. Slots - 1
  BY SlotsPositive
<1>2. d = e
  BY <1>1, DayOfFireAt
<1>3. d * Slots \in Int
  BY SlotsPositive
<1> QED
  BY <1>1, <1>2, <1>3 DEF FireAt

-----------------------------------------------------------------------------
(* The greatest and the least of a set of numbers.                         *)

LEMMA GreatestNumber ==
  ASSUME NEW S \in SUBSET Nat, S # {}, NEW b \in Nat, \A n \in S : n <= b
  PROVE Max(S) \in S /\ \A n \in S : n <= Max(S)
<1> DEFINE T == {n \in Nat : n <= b /\ b - n \in S}
<1>1. T # {}
  <2>1. PICK n \in S : TRUE
    OBVIOUS
  <2>2. b - n \in T
    BY <2>1
  <2> QED
    BY <2>2
<1>2. IsWellFoundedOn(OpToRel(<, Nat), Nat)
  BY NatLessThanWellFounded
<1>3. PICK m \in T : \A n \in T : ~(<<n, m>> \in OpToRel(<, Nat))
  BY <1>1, <1>2, WFMin
<1>4. \A n \in T : ~(n < m)
  BY <1>3 DEF OpToRel
<1>5. b - m \in S /\ \A n \in S : n <= b - m
  <2>1. \A n \in S : b - n \in T
    OBVIOUS
  <2> QED
    BY <1>4, <2>1
<1> HIDE DEF T
<1> QED
  BY <1>5 DEF Max

LEMMA MaxOfThree ==
  ASSUME NEW a \in Nat, NEW b \in Nat, NEW c \in Nat
  PROVE /\ Max({a, b, c}) \in Nat
        /\ a <= Max({a, b, c}) /\ b <= Max({a, b, c}) /\ c <= Max({a, b, c})
<1>1. \E n \in {a, b, c} : \A k \in {a, b, c} : n >= k
  OBVIOUS
<1> QED
  BY <1>1 DEF Max

LEMMA MinOfTwo ==
  ASSUME NEW a \in Nat, NEW b \in Nat
  PROVE Min({a, b}) \in Nat /\ Min({a, b}) <= a /\ Min({a, b}) <= b
<1>1. \E n \in {a, b} : \A k \in {a, b} : n <= k
  OBVIOUS
<1> QED
  BY <1>1 DEF Min

-----------------------------------------------------------------------------
(* The plan.                                                               *)

LEMMA NotifyDaysAre ==
  ASSUME NEW r \in Reminder, NEW k \in RowsRead, NEW today \in Nat
  PROVE \A d \in NotifyDays(r, k, today) :
           /\ r \notin k.done
           /\ d \in today .. today + Window /\ d \in Nat /\ k.snoozed[r] <= d
<1> DEFINE lands == Max({today, From[r], k.snoozed[r]})
           end == Min({today + Window, Leaves[r]})
<1>1. /\ From[r] \in Nat /\ k.snoozed[r] \in Nat /\ Leaves[r] \in Nat /\ Window \in Nat
  BY NotificationsAssumption DEF RowsRead
<1>2. lands \in Nat /\ today <= lands /\ k.snoozed[r] <= lands
  BY <1>1, MaxOfThree
<1>3. end \in Nat /\ end <= today + Window
  BY <1>1, MinOfTwo
<1> HIDE DEF lands, end
<1>4. NotifyDays(r, k, today) =
        IF r \in k.done THEN {}
        ELSE IF r \in Remembrance THEN (lands .. end) \cap {lands} ELSE lands .. end
  BY DEF NotifyDays, lands, end
<1> QED
  BY <1>1, <1>2, <1>3, <1>4

LEMMA CarriedAre ==
  ASSUME NEW k \in RowsRead, NEW today \in Nat, NEW d, NEW m
  PROVE /\ Carried(d, m, k, today) \subseteq Reminder
        /\ \A r \in Carried(d, m, k, today) : d \in NotifyDays(r, k, today)
BY DEF Carried, DueOn

LEMMA DigestsAre ==
  ASSUME NEW k \in RowsRead, NEW today \in Nat
  PROVE /\ IsFiniteSet(Digests(k, today))
        /\ \A x \in Digests(k, today) :
              \E d \in today .. today + Window, m \in k.times : x = Digest(d, m, k, today)
        /\ \A d \in today .. today + Window, m \in k.times :
              Carried(d, m, k, today) # {} => Digest(d, m, k, today) \in Digests(k, today)
<1> DEFINE Of(m) == {Digest(d, m, k, today) : d \in {e \in today .. today + Window :
                                               Carried(e, m, k, today) # {}}}
<1>1. Digests(k, today) = UNION {Of(m) : m \in k.times}
  BY DEF Digests
<1>2. \A m \in k.times : IsFiniteSet(Of(m))
  <2> TAKE m \in k.times
  <2> DEFINE D == {e \in today .. today + Window : Carried(e, m, k, today) # {}}
             f == [d \in D |-> Digest(d, m, k, today)]
  <2>1. IsFiniteSet(today .. today + Window)
    BY NotificationsAssumption, FS_Interval
  <2>2. IsFiniteSet(D)
    BY <2>1, FS_Subset
  <2>3. Of(m) = {f[d] : d \in D}
    OBVIOUS
  <2> HIDE DEF D
  <2>4. f \in Surjection(D, Of(m))
    BY <2>3 DEF Surjection
  <2> QED
    BY <2>2, <2>4, FS_Surjection
<1> HIDE DEF Of
<1>3. IsFiniteSet({Of(m) : m \in k.times})
  <2> DEFINE g == [m \in k.times |-> Of(m)]
  <2>1. IsFiniteSet(k.times)
    BY NotificationsAssumption, FS_Subset DEF RowsRead
  <2>2. g \in Surjection(k.times, {Of(m) : m \in k.times})
    BY DEF Surjection
  <2> QED
    BY <2>1, <2>2, FS_Surjection
<1>4. IsFiniteSet(Digests(k, today))
  BY <1>1, <1>2, <1>3, FS_UNION
<1> QED
  BY <1>1, <1>4 DEF Of

\* A digest is told by its time, and what it carries is due then.
LEMMA DigestsSilent ==
  ASSUME NEW k \in RowsRead, NEW today \in Nat
  PROVE /\ \A x \in Digests(k, today) :
              /\ x \in Item /\ x.id = x.at /\ x.at \in Nat
              /\ x.at <= (today + Window) * Slots + Slots
              /\ \A r \in x.body : r \notin k.done /\ Day(x.at) >= k.snoozed[r]
        /\ \A x, y \in Digests(k, today) : x.at = y.at => x = y
<1>1. Window \in Nat /\ k.times \subseteq Minutes
  BY NotificationsAssumption DEF RowsRead
<1>2. ASSUME NEW d \in today .. today + Window, NEW m \in Minutes
      PROVE /\ d \in Nat /\ m \in 0 .. Slots - 1
            /\ FireAt(d, m) \in Nat /\ Day(FireAt(d, m)) = d
            /\ FireAt(d, m) <= (today + Window) * Slots + Slots
  <2>1. d \in Nat /\ m \in 0 .. Slots - 1 /\ d <= today + Window
    BY <1>1, SlotsPositive
  <2>2. FireAt(d, m) \in Nat /\ Day(FireAt(d, m)) = d
    BY <2>1, DayOfFireAt
  <2>3. d * Slots <= (today + Window) * Slots
    BY <1>1, <2>1, SlotsPositive, SMTT(30)
  <2>4. d * Slots \in Nat /\ (today + Window) * Slots \in Nat
    BY <1>1, <2>1, SlotsPositive
  <2>5. FireAt(d, m) <= (today + Window) * Slots + Slots
    BY <2>1, <2>3, <2>4, SlotsPositive DEF FireAt
  <2> QED
    BY <2>1, <2>2, <2>5
<1>3. ASSUME NEW x \in Digests(k, today)
      PROVE \E d \in today .. today + Window, m \in k.times : x = Digest(d, m, k, today)
  BY DigestsAre
<1>4. ASSUME NEW x \in Digests(k, today)
      PROVE /\ x \in Item /\ x.id = x.at /\ x.at \in Nat
            /\ x.at <= (today + Window) * Slots + Slots
            /\ \A r \in x.body : r \notin k.done /\ Day(x.at) >= k.snoozed[r]
  <2>1. PICK d \in today .. today + Window, m \in k.times : x = Digest(d, m, k, today)
    BY <1>3
  <2>2. x.id = FireAt(d, m) /\ x.at = FireAt(d, m) /\ x.body = Carried(d, m, k, today)
    BY <2>1 DEF Digest
  <2>3. x.body \subseteq Reminder /\ \A r \in x.body : d \in NotifyDays(r, k, today)
    BY <2>2, CarriedAre
  <2>4. x \in Item
    BY <1>1, <1>2, <2>1, <2>2, <2>3 DEF Item, Digest
  <2>5. \A r \in x.body : r \notin k.done /\ k.snoozed[r] <= d
    BY <2>3, NotifyDaysAre
  <2> QED
    BY <1>1, <1>2, <2>2, <2>4, <2>5
<1>5. ASSUME NEW x \in Digests(k, today), NEW y \in Digests(k, today), x.at = y.at
      PROVE x = y
  <2>1. PICK d \in today .. today + Window, m \in k.times : x = Digest(d, m, k, today)
    BY <1>3
  <2>2. PICK e \in today .. today + Window, n \in k.times : y = Digest(e, n, k, today)
    BY <1>3
  <2>3. FireAt(d, m) = FireAt(e, n)
    BY <1>5, <2>1, <2>2 DEF Digest
  <2>4. d = e /\ m = n
    BY <1>1, <1>2, <2>3, FireAtInjective
  <2> QED
    BY <2>1, <2>2, <2>4
<1> QED
  BY <1>4, <1>5

\* The digests a plan at a time takes from.
Live(k, t) == {x \in Digests(k, Day(t)) : x.at > t}

LEMMA LiveAre ==
  ASSUME NEW k \in RowsRead, NEW t \in Nat
  PROVE /\ IsFiniteSet(Live(k, t)) /\ Live(k, t) \subseteq Item
        /\ \A x \in Live(k, t) :
              /\ x.id = x.at /\ x.at \in Nat /\ x.at > t
              /\ \A r \in x.body : r \notin k.done /\ Day(x.at) >= k.snoozed[r]
        /\ \A x, y \in Live(k, t) : x.at = y.at => x = y
        /\ \E b \in Nat : \A x \in Live(k, t) : x.at <= b
<1>1. Day(t) \in Nat
  BY DayIs
<1>2. (Day(t) + Window) * Slots + Slots \in Nat
  <2>1. Day(t) + Window \in Nat
    BY <1>1, NotificationsAssumption
  <2> QED
    BY <2>1, SlotsPositive
<1>3. IsFiniteSet(Live(k, t))
  <2>1. IsFiniteSet(Digests(k, Day(t)))
    BY <1>1, DigestsAre
  <2>2. Live(k, t) \subseteq Digests(k, Day(t))
    BY DEF Live
  <2> QED
    BY <2>1, <2>2, FS_Subset
<1>4. \A x \in Live(k, t) : x \in Digests(k, Day(t)) /\ x.at > t
  BY DEF Live
<1> QED
  BY <1>1, <1>2, <1>3, <1>4, DigestsSilent

\* The last of some of them, and the tripwire set by it.
LEMMA TripwireIs ==
  ASSUME NEW k \in RowsRead, NEW t \in Nat, NEW D \in SUBSET Live(k, t)
  PROVE /\ D # {} => LastOf(D) \in Nat
        /\ \A x \in tripwireFor(D, t) :
              /\ D # {} /\ x \in Item /\ x.id = Tripwire /\ x.body = {}
              /\ x.at = LastOf(D) - Lead * Slots /\ x.at > t /\ x.at \in Nat
        /\ \A x, y \in tripwireFor(D, t) : x = y
        /\ D # {} /\ LastOf(D) - Lead * Slots > t => tripwireFor(D, t) # {}
<1>1. D # {} => LastOf(D) \in Nat
  <2> SUFFICES ASSUME D # {} PROVE LastOf(D) \in Nat
    OBVIOUS
  <2> DEFINE S == {x.at : x \in D}
  <2>1. S \in SUBSET Nat /\ S # {}
    BY LiveAre
  <2>2. PICK b \in Nat : \A n \in S : n <= b
    BY LiveAre
  <2> HIDE DEF S
  <2>3. Max(S) \in S
    BY <2>1, <2>2, GreatestNumber
  <2> QED
    BY <2>1, <2>3 DEF LastOf, S
<1>2. Lead * Slots \in Nat
  BY NotificationsAssumption, SlotsPositive
<1>3. CASE D = {} \/ LastOf(D) - Lead * Slots <= t
  <2>1. tripwireFor(D, t) = {}
    BY <1>3 DEF tripwireFor
  <2> QED
    BY <1>1, <1>2, <1>3, <2>1
<1>4. CASE D # {} /\ LastOf(D) - Lead * Slots > t
  <2> DEFINE w == [id |-> Tripwire, at |-> LastOf(D) - Lead * Slots, body |-> {}]
  <2>1. tripwireFor(D, t) = {w}
    BY <1>1, <1>2, <1>4 DEF tripwireFor
  <2>2. w.at \in Nat /\ w.at > t
    BY <1>1, <1>2, <1>4
  <2>3. w \in Item
    BY <2>2 DEF Item
  <2> QED
    BY <1>1, <1>2, <1>4, <2>1, <2>2, <2>3
<1> QED
  BY <1>1, <1>2, <1>3, <1>4

\* A plan is the soonest digests, with the tripwire set by the last of them where
\* it lies ahead.
LEMMA PlanIs ==
  ASSUME NEW k \in RowsRead, NEW t \in Nat
  PROVE \E n \in Nat :
           LET D == Soonest(Live(k, t), n)
               P == planNotifications(k, t)
           IN  /\ (P = D /\ tripwireFor(D, t) = {}) \/ P = D \cup tripwireFor(D, t)
               /\ D \subseteq Live(k, t)
               /\ {x \in P : x.id # Tripwire} = D
<1> DEFINE full == Soonest(Live(k, t), Budget)
           scheduled == Soonest(Live(k, t), Budget - 1)
<1>1. planNotifications(k, t) =
         IF tripwireFor(full, t) = {} THEN full ELSE scheduled \cup tripwireFor(scheduled, t)
  BY DEF planNotifications, Live
<1>2. full \subseteq Live(k, t) /\ scheduled \subseteq Live(k, t)
  BY DEF Soonest
<1>3. Budget \in Nat /\ Budget - 1 \in Nat
  BY NotificationsAssumption
<1>4. \A x \in Live(k, t) : x.id # Tripwire
  BY LiveAre, NotificationsAssumption
<1>5. \A x \in tripwireFor(scheduled, t) : x.id = Tripwire
  BY <1>2, TripwireIs
<1> HIDE DEF full, scheduled
<1>6. CASE tripwireFor(full, t) = {}
  <2>1. planNotifications(k, t) = full
    BY <1>1, <1>6
  <2>2. {x \in full : x.id # Tripwire} = full
    BY <1>2, <1>4
  <2> QED
    BY <1>2, <1>3, <1>6, <2>1, <2>2 DEF full
<1>7. CASE tripwireFor(full, t) # {}
  <2>1. planNotifications(k, t) = scheduled \cup tripwireFor(scheduled, t)
    BY <1>1, <1>7
  <2>2. {x \in scheduled \cup tripwireFor(scheduled, t) : x.id # Tripwire} = scheduled
    BY <1>2, <1>4, <1>5
  <2> QED
    BY <1>2, <1>3, <2>1, <2>2 DEF scheduled
<1> QED
  BY <1>6, <1>7

\* What a plan names lies ahead, once each, and silent where the rows are.
LEMMA PlanSound ==
  ASSUME NEW k \in RowsRead, NEW t \in Nat
  PROVE /\ planNotifications(k, t) \subseteq Item
        /\ \A x \in planNotifications(k, t) :
              /\ x.at > t
              /\ \A r \in x.body : r \notin k.done /\ Day(x.at) >= k.snoozed[r]
        /\ \A x, y \in planNotifications(k, t) : x.id = y.id => x = y
<1> DEFINE P == planNotifications(k, t)
<1>1. PICK n \in Nat :
         LET D == Soonest(Live(k, t), n)
         IN  /\ (P = D /\ tripwireFor(D, t) = {}) \/ P = D \cup tripwireFor(D, t)
             /\ D \subseteq Live(k, t)
             /\ {x \in P : x.id # Tripwire} = D
  BY PlanIs
<1> DEFINE D == Soonest(Live(k, t), n)
<1>2. D \in SUBSET Live(k, t) /\ P \subseteq D \cup tripwireFor(D, t)
  BY <1>1
<1> HIDE DEF P, D
<1>3. \A x \in D :
         /\ x \in Item /\ x.id = x.at /\ x.at \in Nat /\ x.at > t /\ x.id # Tripwire
         /\ \A r \in x.body : r \notin k.done /\ Day(x.at) >= k.snoozed[r]
  BY <1>2, LiveAre, NotificationsAssumption
<1>4. \A x \in tripwireFor(D, t) :
         x \in Item /\ x.id = Tripwire /\ x.body = {} /\ x.at > t
  BY <1>2, TripwireIs
<1>5. \A x, y \in tripwireFor(D, t) : x = y
  BY <1>2, TripwireIs
<1>6. \A x, y \in D : x.at = y.at => x = y
  BY <1>2, LiveAre
<1> QED
  BY <1>2, <1>3, <1>4, <1>5, <1>6 DEF P

\* The calls of a plan: nothing for what is held as it is, and otherwise what
\* makes it so; and a drop of each other one.
LEMMA CallsAre ==
  ASSUME NEW desired, NEW held
  PROVE /\ \A c \in Calls(desired, held) :
              IF c.call = "drop" THEN c.it \in held /\ \A x \in desired : x.id # c.it.id
              ELSE c.call \in {"schedule", "cancel"} /\ c.it \in desired /\ c.it \notin held
        /\ \A c \in Calls(desired, held) : c = [call |-> c.call, it |-> c.it]
        /\ \A x \in desired \ held : [call |-> "schedule", it |-> x] \in Calls(desired, held)
        /\ \A x \in desired \ held, q \in held :
              q.id = x.id => [call |-> "cancel", it |-> x] \in Calls(desired, held)
        /\ \A p \in held : (\A x \in desired : x.id # p.id) =>
              [call |-> "drop", it |-> p] \in Calls(desired, held)
<1>1. ASSUME NEW x
      PROVE \A c \in CallsFor(x, held) :
               /\ c.call \in {"schedule", "cancel"} /\ c.it = x /\ x \notin held
               /\ c = [call |-> c.call, it |-> c.it]
  BY DEF CallsFor
<1>2. /\ \A x \in desired \ held : [call |-> "schedule", it |-> x] \in CallsFor(x, held)
      /\ \A x \in desired \ held, q \in held :
            q.id = x.id => [call |-> "cancel", it |-> x] \in CallsFor(x, held)
  BY DEF CallsFor
<1> DEFINE Set == UNION {CallsFor(x, held) : x \in desired}
           Drop == {[call |-> "drop", it |-> p] :
                       p \in {q \in held : \A x \in desired : x.id # q.id}}
<1>3. Calls(desired, held) = Set \cup Drop
  BY Zenon DEF Calls
<1>4. /\ \A c \in Set : \E x \in desired : c \in CallsFor(x, held)
      /\ \A x \in desired : CallsFor(x, held) \subseteq Set
  BY Zenon
<1>5. /\ \A c \in Drop : \E p \in held :
            c = [call |-> "drop", it |-> p] /\ \A x \in desired : x.id # p.id
      /\ \A p \in held : (\A x \in desired : x.id # p.id) => [call |-> "drop", it |-> p] \in Drop
  OBVIOUS
<1> HIDE DEF Set, Drop
<1> QED
  BY <1>1, <1>2, <1>3, <1>4, <1>5

-----------------------------------------------------------------------------
(* The first state, and the steps that touch no plan in hand.              *)

LEMMA RowsTyped ==
  ASSUME NotificationsTypeOK
  PROVE /\ Rows \in RowsRead
        /\ Rows.done = done /\ Rows.snoozed = snoozed /\ Rows.times = times
BY DEF NotificationsTypeOK, RowsRead, Rows

LEMMA RunTyped ==
  ASSUME NotificationsTypeOK, NEW i \in InFlight
  PROVE /\ i \in Run /\ run[i].read \subseteq {"rows", "pending"} /\ run[i].rows \in RowsRead
        /\ run[i].held \subseteq Item /\ run[i].at \in Nat /\ run[i].calls \subseteq CallMade
        /\ run[i] \in RunState
BY DEF NotificationsTypeOK, RunState

\* What a plan of the rows as they are names is not loud.
LEMMA PlanIsQuiet ==
  ASSUME NotificationsTypeOK, NEW t \in Nat, NEW x \in planNotifications(Rows, t)
  PROVE ~Loud(x)
<1>1. Rows \in RowsRead /\ Rows.done = done /\ Rows.snoozed = snoozed
  BY RowsTyped
<1>2. /\ x \in Item
      /\ \A r \in x.body : r \notin done /\ Day(x.at) >= snoozed[r]
  BY <1>1, PlanSound
<1>3. Day(x.at) \in Nat /\ \A r \in x.body : snoozed[r] \in Nat
  BY <1>2, DayIs DEF Item, NotificationsTypeOK
<1> QED
  BY <1>2, <1>3 DEF Loud

LEMMA NotificationsInvInit ==
  ASSUME NotificationsInit
  PROVE NotificationsInv
<1> USE DEF NotificationsInit
<1> DEFINE k == [Rows EXCEPT !.done = {}]
<1>0. /\ Rows \in RowsRead /\ k \in RowsRead /\ Rows.done = done
      /\ done = {} => k = Rows
  <2>1. \A x \in RowsRead : x = [done |-> x.done, snoozed |-> x.snoozed, times |-> x.times]
    BY DEF RowsRead
  <2>2. /\ Rows \in RowsRead
        /\ Rows.done = done /\ Rows.snoozed = snoozed /\ Rows.times = times
    BY DEF RowsRead, Rows
  <2>3. k \in RowsRead /\ k.done = {} /\ k.snoozed = snoozed /\ k.times = times
    BY <2>2 DEF RowsRead
  <2> HIDE DEF k
  <2> QED
    BY <2>1, <2>2, <2>3
<1>1. /\ planNotifications(k, 0) \subseteq Item
      /\ \A x \in planNotifications(k, 0) : x.at > 0
      /\ \A x, y \in planNotifications(k, 0) : x.id = y.id => x = y
  BY <1>0, PlanSound
<1>2. \/ pending = {} /\ burst = "steady"
      \/ /\ pending = planNotifications(k, 0)
         /\ burst = IF done = {} THEN "steady" ELSE "changed"
  BY DEF Rows
<1>3. InFlight = {} /\ run \in [InFlight -> RunState]
  BY DEF InFlight
<1>4. NotificationsTypeOK
  <2>1. pending \subseteq Item
    BY <1>1, <1>2
  <2>2. burst \in {"steady", "changed", "cut"}
    BY <1>2
  <2>3. kicks \in 0 .. MaxKicks /\ faults \in 0 .. MaxFaults
    BY NotificationsAssumption
  <2>4. snoozed \in [Reminder -> Nat] /\ done \subseteq Reminder /\ times \subseteq Minutes
    OBVIOUS
  <2> QED
    BY <1>3, <2>1, <2>2, <2>3, <2>4 DEF NotificationsTypeOK
<1>5. Listed
  BY <1>1, <1>2 DEF Listed
<1>6. AtRest /\ Agreed
  BY <1>3 DEF AtRest, Agreed
<1>7. Quiet
  <2>1. ASSUME burst = "steady", NEW p \in pending PROVE ~Loud(p)
    <3>1. p \in planNotifications(Rows, 0)
      BY <1>0, <1>2, <2>1
    <3> QED
      BY <1>4, <3>1, PlanIsQuiet
  <2> QED
    BY <1>3, <2>1 DEF Quiet
<1> QED
  BY <1>3, <1>4, <1>5, <1>6, <1>7 DEF NotificationsInv

\* A run that starts has read nothing yet, and ends what the one before had settled.
LEMMA StartKeeps ==
  ASSUME NotificationsInv, Start
  PROVE NotificationsInv'
<1> USE DEF NotificationsInv
<1>1. PICK i \in Run \ InFlight :
        /\ owed > 0 /\ owed' = owed - 1
        /\ run' = [j \in InFlight \cup {i} |->
              IF j = i THEN [read |-> {}, rows |-> Rows, held |-> {}, at |-> 0, calls |-> {}]
                       ELSE run[j]]
        /\ settled' = {}
        /\ IF InFlight = {}
           THEN /\ burst' = "steady" /\ planned' = {}
                /\ heard' = {} /\ told' = FALSE /\ crowded' = FALSE
           ELSE UNCHANGED <<burst, planned, heeded>>
        /\ UNCHANGED <<now, rows, pending, open, kicks, faults>>
  BY DEF Start
<1>2. InFlight' = InFlight \cup {i} /\ i \notin InFlight /\ InFlight' # {}
  BY <1>1 DEF InFlight
<1>3. /\ run'[i] \in RunState /\ run'[i].read = {} /\ run'[i].calls = {} /\ run'[i].held = {}
  <2>1. run'[i] = [read |-> {}, rows |-> Rows, held |-> {}, at |-> 0, calls |-> {}]
    BY <1>1
  <2>2. Rows \in RowsRead
    BY RowsTyped
  <2> QED
    BY <2>1, <2>2 DEF RunState
<1>4. \A j \in InFlight : run'[j] = run[j]
  BY <1>1, <1>2
<1>5. run' \in [InFlight' -> RunState]
  BY <1>1, <1>2, <1>3, <1>4, RunTyped
<1>6. Rows' = Rows /\ \A p : Loud(p)' = Loud(p)
  BY <1>1 DEF Rows, rows, Loud
<1>7. NotificationsTypeOK'
  <2>1. owed' \in Nat
    BY <1>1 DEF NotificationsTypeOK
  <2>2. /\ heard' \subseteq Reminder \X Nat /\ told' \in BOOLEAN /\ crowded' \in BOOLEAN
        /\ planned' \subseteq SUBSET Item /\ burst' \in {"steady", "changed", "cut"}
    BY <1>1 DEF NotificationsTypeOK, heeded
  <2> QED
    BY <1>1, <1>2, <1>5, <2>1, <2>2 DEF NotificationsTypeOK, rows
<1>8. Listed'
  BY <1>1 DEF Listed
<1>9. ASSUME NEW j \in InFlight'
      PROVE Reading(j)'
  <2>1. CASE j = i
    BY <1>3, <2>1 DEF Reading, Planned
  <2>2. CASE j # i
    <3>1. j \in InFlight /\ run'[j] = run[j] /\ planned' = planned
      BY <1>1, <1>2, <1>4, <2>2
    <3> QED
      BY <1>1, <3>1 DEF Reading, Planned, Plan
  <2> QED
    BY <2>1, <2>2
<1>10. Quiet'
  <2>1. ASSUME burst' = "steady", NEW j \in InFlight'
        PROVE Quieting(j)'
    <3>1. CASE j = i
      BY <1>3, <3>1 DEF Quieting
    <3>2. CASE j # i
      <4>1. j \in InFlight /\ run'[j] = run[j] /\ burst = "steady"
        BY <1>1, <1>2, <1>4, <2>1, <3>2
      <4>2. Quieting(j)
        BY <4>1 DEF Quiet
      <4> QED
        BY <1>1, <1>6, <4>1, <4>2 DEF Quieting, Planned
    <3> QED
      BY <3>1, <3>2
  <2> QED
    BY <1>2, <2>1 DEF Quiet
<1>11. Agreed'
  <2>1. CASE InFlight = {}
    BY <1>1, <2>1 DEF Agreed
  <2>2. CASE InFlight # {}
    <3>1. ToCome' = ToCome
      BY <1>2, <1>3, <1>4 DEF ToCome
    <3>2. UNCHANGED <<planned, burst, pending, now, heard, told, crowded>>
      BY <1>1, <2>2 DEF heeded
    <3> QED
      BY <2>2, <3>1, <3>2 DEF Agreed, Achieved, SeenTo
  <2> QED
    BY <2>1, <2>2
<1>12. AtRest'
  BY <1>1 DEF AtRest
<1> QED
  BY <1>7, <1>8, <1>9, <1>10, <1>11, <1>12

\* A step that touches neither the runs nor what is pending keeps what they rest
\* on: the rows may change where a run is owed that will read them, or where the
\* burst is marked for it.
LEMMA IdleKeeps ==
  ASSUME NotificationsInv,
         UNCHANGED <<now, pending, run, heard, told, crowded, planned, settled>>,
         open' \in BOOLEAN, owed' \in Nat,
         kicks' \in 0 .. MaxKicks, faults' \in 0 .. MaxFaults,
         done' \subseteq Reminder, snoozed' \in [Reminder -> Nat], times' \subseteq Minutes,
         burst' \in {"steady", "changed", "cut"}, burst = "cut" => burst' = "cut",
         burst' = "steady" =>
            /\ burst = "steady"
            /\ (done' = done /\ snoozed' = snoozed /\ times' = times) \/ InFlight = {}
            /\ owed' = 0 => owed = 0 /\ done' = done /\ snoozed' = snoozed
  PROVE NotificationsInv'
<1> USE DEF NotificationsInv
<1>1. InFlight' = InFlight /\ ToCome' = ToCome
  BY DEF InFlight, ToCome
<1>2. NotificationsTypeOK'
  BY <1>1 DEF NotificationsTypeOK
<1>3. Listed'
  BY DEF Listed
<1>4. \A i \in InFlight' : Reading(i)'
  BY <1>1 DEF Reading, Planned, Plan
<1>5. Quiet'
  <2>1. ASSUME burst' = "steady", NEW i \in InFlight'
        PROVE Quieting(i)'
    <3>1. done' = done /\ snoozed' = snoozed /\ times' = times
      BY <1>1, <2>1
    <3>2. Rows' = Rows /\ \A p : Loud(p)' = Loud(p)
      BY <3>1 DEF Rows, Loud
    <3>3. Quieting(i)
      BY <1>1, <2>1 DEF Quiet
    <3> QED
      BY <3>2, <3>3 DEF Quieting, Planned
  <2>2. ASSUME burst' = "steady", InFlight' = {}, owed' = 0, NEW p \in pending'
        PROVE ~Loud(p)'
    <3>1. Loud(p)' = Loud(p)
      BY <2>2 DEF Loud
    <3> QED
      BY <1>1, <2>2, <3>1 DEF Quiet
  <2> QED
    BY <2>1, <2>2 DEF Quiet
<1>6. Agreed'
  BY <1>1 DEF Agreed, Achieved, SeenTo
<1>7. AtRest'
  BY <1>1 DEF AtRest, Achieved, SeenTo
<1> QED
  BY <1>2, <1>3, <1>4, <1>5, <1>6, <1>7

\* Runs cut short leave their slots, and with them every claim of their burst.
LEMMA CutKeeps ==
  ASSUME NotificationsInv, NEW S \in SUBSET InFlight,
         run' = [j \in InFlight \ S |-> run[j]],
         UNCHANGED <<now, pending, kicks, heard, told, crowded, planned, settled>>,
         done' = done, snoozed' = snoozed, times' = times,
         open' \in BOOLEAN, owed' \in Nat, faults' \in 0 .. MaxFaults, burst' = "cut"
  PROVE NotificationsInv'
<1> USE DEF NotificationsInv
<1>1. InFlight' = InFlight \ S /\ \A j \in InFlight \ S : run'[j] = run[j]
  BY DEF InFlight
<1>2. NotificationsTypeOK'
  <2>1. run' \in [InFlight' -> RunState] /\ InFlight' \subseteq Run
    BY <1>1 DEF NotificationsTypeOK
  <2> QED
    BY <2>1 DEF NotificationsTypeOK
<1>3. Listed'
  BY DEF Listed
<1>4. \A j \in InFlight' : Reading(j)'
  BY <1>1 DEF Reading, Planned, Plan
<1>5. Quiet' /\ Agreed'
  BY DEF Quiet, Agreed
<1>6. AtRest'
  BY <1>1 DEF AtRest, Achieved, SeenTo
<1> QED
  BY <1>2, <1>3, <1>4, <1>5, <1>6

-----------------------------------------------------------------------------
(* A run's own steps.                                                      *)

\* With the plan at hand and what is pending read, nothing is achieved yet but
\* what the reads found as it should be.
LEMMA AchievedAtRead ==
  ASSUME NotificationsInv, NEW k \in RowsRead, NEW held \in SUBSET Item,
         pending = {p \in held : p.at > now},
         NEW plan, plan = planNotifications(k, now)
  PROVE Achieved(plan, Calls(plan, held))
<1>1. now \in Nat /\ \A p, q \in pending : p.id = q.id => p = q
  BY DEF NotificationsInv, NotificationsTypeOK, Listed
<1>2. \A x \in plan : x.at > now
  BY <1>1, PlanSound
<1> DEFINE C == Calls(plan, held)
<1>3. \A c \in C :
         IF c.call = "drop" THEN c.it \in held /\ \A x \in plan : x.id # c.it.id
         ELSE c.call \in {"schedule", "cancel"} /\ c.it \in plan /\ c.it \notin held
  BY CallsAre
<1>4. /\ \A x \in plan \ held : [call |-> "schedule", it |-> x] \in C
      /\ \A p \in held : (\A x \in plan : x.id # p.id) => [call |-> "drop", it |-> p] \in C
  BY CallsAre
<1> HIDE DEF C
<1>5. ASSUME NEW x \in plan, [call |-> "schedule", it |-> x] \notin C
      PROVE /\ [call |-> "cancel", it |-> x] \notin C
            /\ SeenTo(x) /\ \A p \in pending : p.id = x.id => p = x
  <2>1. x \in held
    BY <1>4, <1>5
  <2>2. [call |-> "cancel", it |-> x] \notin C
    BY <1>3, <2>1
  <2>3. x \in pending
    BY <1>2, <2>1
  <2> QED
    BY <1>1, <1>2, <2>2, <2>3 DEF SeenTo
<1>6. ASSUME NEW p \in pending, \A x \in plan : x.id # p.id
      PROVE \E c \in C : c.call = "drop" /\ c.it.id = p.id
  <2>1. [call |-> "drop", it |-> p] \in C
    BY <1>4, <1>6
  <2> QED
    BY <2>1
<1> QED
  BY <1>3, <1>5, <1>6 DEF Achieved, C

\* What a run of the same plan adds to the calls to come takes nothing back.
LEMMA AchievedTogether ==
  ASSUME NEW plan, NEW held, NEW all, Achieved(plan, all)
  PROVE Achieved(plan, all \cup Calls(plan, held))
<1> DEFINE C == Calls(plan, held)
<1>1. \A c \in C :
         IF c.call = "drop" THEN c.it \in held /\ \A x \in plan : x.id # c.it.id
         ELSE c.call \in {"schedule", "cancel"} /\ c.it \in plan /\ c.it \notin held
  BY CallsAre
<1>2. \A x \in plan \ held : [call |-> "schedule", it |-> x] \in C
  BY CallsAre
<1> HIDE DEF C
<1>3. ASSUME NEW x \in plan, [call |-> "schedule", it |-> x] \notin all \cup C
      PROVE /\ [call |-> "cancel", it |-> x] \notin all \cup C
            /\ SeenTo(x) /\ \A p \in pending : p.id = x.id => p = x
  <2>1. x \in held
    BY <1>2, <1>3
  <2>2. [call |-> "cancel", it |-> x] \notin C
    BY <1>1, <2>1
  <2> QED
    BY <1>3, <2>2 DEF Achieved
<1>4. \A c \in all \cup C : IF c.call = "drop" THEN \A x \in plan : x.id # c.it.id
                                               ELSE c.it \in plan
  BY <1>1 DEF Achieved
<1>5. \A p \in pending :
          \/ \E x \in plan : x.id = p.id
          \/ \E c \in all \cup C : c.call = "drop" /\ c.it.id = p.id
  BY DEF Achieved
<1> QED
  BY <1>3, <1>4, <1>5 DEF Achieved, C

LEMMA CallsTyped ==
  ASSUME NEW plan \in SUBSET Item, NEW held \in SUBSET Item
  PROVE Calls(plan, held) \subseteq CallMade
<1>1. ASSUME NEW c \in Calls(plan, held)
      PROVE c \in CallMade
  <2>1. c = [call |-> c.call, it |-> c.it]
    BY CallsAre
  <2>2. c.call \in {"schedule", "cancel", "drop"} /\ c.it \in Item
    BY CallsAre
  <2> QED
    BY <2>1, <2>2 DEF CallMade
<1> QED
  BY <1>1

\* The first of a run's reads.
LEMMA ReadFirstKeeps ==
  ASSUME NotificationsInv, NEW i \in InFlight, NEW what \in {"rows", "pending"},
         NEW k \in RowsRead, NEW held \in SUBSET Item, Read(i, what, k, held),
         what = "rows" => k = Rows /\ held = run[i].held,
         what = "pending" => k = run[i].rows /\ held = pending,
         run[i].read = {}
  PROVE NotificationsInv'
<1> USE DEF NotificationsInv
<1> DEFINE e == run[i]
<1>1. /\ UNCHANGED <<now, rows, pending, open, owed, kicks, faults, heeded, burst, settled>>
      /\ planned' = planned
      /\ run' = [run EXCEPT ![i] =
            IF @.read = {} THEN [@ EXCEPT !.read = {what}, !.rows = k, !.held = held]
            ELSE [@ EXCEPT !.read = {"rows", "pending"}, !.rows = k, !.held = {}, !.at = now,
                           !.calls = Calls(planNotifications(k, now), held)]]
  BY DEF Read
<1>2. InFlight' = InFlight /\ \A j \in InFlight : j # i => run'[j] = run[j]
  BY <1>1 DEF InFlight
<1>3. e \in RunState /\ now \in Nat /\ run \in [InFlight -> RunState]
  BY RunTyped DEF NotificationsTypeOK
<1>4. run'[i] = [e EXCEPT !.read = {what}, !.rows = k, !.held = held]
  BY <1>1, <1>3
<1>5. run'[i] \in RunState
  <2>1. run'[i] = [read |-> {what}, rows |-> k, held |-> held, at |-> e.at, calls |-> e.calls]
    BY <1>3, <1>4 DEF RunState
  <2> QED
    BY <1>3, <2>1 DEF RunState
<1>6. /\ run'[i].read = {what} /\ run'[i].rows = k /\ run'[i].held = held
      /\ run'[i].calls = e.calls /\ e.calls = {}
  <2>1. e.calls = {}
    BY DEF Reading, Planned
  <2> QED
    BY <1>3, <1>4, <2>1 DEF RunState
<1>7. NotificationsTypeOK'
  <2>1. run' \in [InFlight' -> RunState]
    BY <1>1, <1>2, <1>3, <1>5
  <2> QED
    BY <1>1, <1>2, <2>1 DEF NotificationsTypeOK, rows, heeded
<1>8. Listed'
  BY <1>1 DEF Listed
<1>9. Rows' = Rows /\ \A p : Loud(p)' = Loud(p)
  BY <1>1 DEF Rows, rows, Loud
<1>10. ASSUME NEW j \in InFlight' PROVE Reading(j)'
  <2>1. CASE j = i
    <3>1. \A p, q \in held : p.id = q.id => p = q
      BY DEF Reading, Listed
    <3>2. what = "pending" => pending = {p \in held : p.at > now}
      BY DEF Listed
    <3>3. ~Planned(i)'
      BY <1>6 DEF Planned
    <3>4. /\ \A p, q \in run'[i].held : p.id = q.id => p = q
          /\ planned' = {} /\ run'[i].read = {"pending"} =>
                pending' = {p \in run'[i].held : p.at > now'}
      BY <1>1, <1>6, <3>1, <3>2
    <3> QED
      BY <1>6, <2>1, <3>3, <3>4 DEF Reading
  <2>2. CASE j # i
    <3>1. j \in InFlight /\ run'[j] = run[j] /\ Reading(j)
      BY <1>2, <2>2
    <3>2. now' = now /\ pending' = pending /\ planned' = planned
      BY <1>1
    <3> QED
      BY <3>1, <3>2 DEF Reading, Planned, Plan
  <2> QED
    BY <2>1, <2>2
<1>11. ASSUME burst' = "steady", NEW j \in InFlight' PROVE Quieting(j)'
  <2>1. burst = "steady" /\ j \in InFlight /\ pending' = pending
    BY <1>1, <1>2, <1>11
  <2>2. Quieting(j)
    BY <2>1 DEF Quiet
  <2>3. CASE j = i
    BY <1>6, <1>9, <2>1, <2>3 DEF Quieting
  <2>4. CASE j # i
    BY <1>2, <1>9, <2>1, <2>2, <2>4 DEF Quieting, Planned
  <2> QED
    BY <2>3, <2>4
<1>12. Quiet'
  BY <1>1, <1>2, <1>11 DEF Quiet
<1>13. ToCome' = ToCome
  <2>1. \A j \in InFlight : run'[j].calls = run[j].calls
    BY <1>2, <1>6
  <2> QED
    BY <1>2, <2>1 DEF ToCome
<1>14. Agreed' /\ AtRest'
  BY <1>1, <1>2, <1>13 DEF Agreed, AtRest, Achieved, SeenTo, heeded
<1> QED
  BY <1>2, <1>7, <1>8, <1>10, <1>12, <1>14

\* The last of them, and with it the plan.
LEMMA ReadLastKeeps ==
  ASSUME NotificationsInv, NEW i \in InFlight, NEW what \in {"rows", "pending"},
         NEW k \in RowsRead, NEW held \in SUBSET Item, Read(i, what, k, held),
         what = "rows" => k = Rows /\ held = run[i].held,
         what = "pending" => k = run[i].rows /\ held = pending,
         run[i].read # {}
  PROVE NotificationsInv'
<1> USE DEF NotificationsInv
<1> DEFINE e == run[i]
           plan == planNotifications(k, now)
           C == Calls(plan, held)
<1>1. /\ UNCHANGED <<now, rows, pending, open, owed, kicks, faults, heeded, burst, settled>>
      /\ planned' = planned \cup {plan} /\ what \notin e.read
      /\ run' = [run EXCEPT ![i] =
            IF @.read = {} THEN [@ EXCEPT !.read = {what}, !.rows = k, !.held = held]
            ELSE [@ EXCEPT !.read = {"rows", "pending"}, !.rows = k, !.held = {}, !.at = now,
                           !.calls = C]]
  BY DEF Read
<1>2. InFlight' = InFlight /\ \A j \in InFlight : j # i => run'[j] = run[j]
  BY <1>1 DEF InFlight
<1>3. e \in RunState /\ now \in Nat /\ run \in [InFlight -> RunState] /\ pending \subseteq Item
  BY RunTyped DEF NotificationsTypeOK
<1>4. \/ e.read = {"rows"} /\ what = "pending"
      \/ e.read = {"pending"} /\ what = "rows"
  BY <1>1, <1>3 DEF RunState
<1>5. plan \subseteq Item /\ \A x, y \in plan : x.id = y.id => x = y
  BY <1>3, PlanSound
<1>6. C \subseteq CallMade
  BY <1>5, CallsTyped
<1>7. /\ \A c \in C :
            IF c.call = "drop" THEN c.it \in held /\ \A x \in plan : x.id # c.it.id
            ELSE c.call \in {"schedule", "cancel"} /\ c.it \in plan /\ c.it \notin held
      /\ \A x \in plan \ held : [call |-> "schedule", it |-> x] \in C
      /\ \A x \in plan \ held, q \in held : q.id = x.id => [call |-> "cancel", it |-> x] \in C
      /\ \A p \in held : (\A x \in plan : x.id # p.id) => [call |-> "drop", it |-> p] \in C
  BY CallsAre
<1>8. planned = {} => Achieved(plan, C)
  <2>1. planned = {} => pending = {p \in held : p.at > now}
    BY <1>4 DEF Reading, Listed
  <2> QED
    BY <2>1, AchievedAtRead
<1>9. Achieved(plan, ToCome) => Achieved(plan, ToCome \cup C)
  BY AchievedTogether
<1> HIDE DEF C, plan
<1>10. run'[i] = [read |-> {"rows", "pending"}, rows |-> k, held |-> {}, at |-> now,
                  calls |-> C]
  <2>1. run'[i] = [e EXCEPT !.read = {"rows", "pending"}, !.rows = k, !.held = {}, !.at = now,
                            !.calls = C]
    BY <1>1, <1>3
  <2> QED
    BY <1>3, <2>1 DEF RunState
<1>11. run'[i] \in RunState
  BY <1>3, <1>6, <1>10 DEF RunState
<1>12. /\ run'[i].read = {"rows", "pending"} /\ run'[i].rows = k /\ run'[i].at = now
       /\ run'[i].held = {} /\ run'[i].calls = C /\ e.calls = {}
  <2>1. e.calls = {}
    BY <1>4 DEF Reading, Planned
  <2> QED
    BY <1>10, <2>1
<1>13. NotificationsTypeOK'
  <2>1. run' \in [InFlight' -> RunState]
    BY <1>1, <1>2, <1>3, <1>11
  <2>2. planned' \subseteq SUBSET Item
    BY <1>1, <1>5 DEF NotificationsTypeOK
  <2> QED
    BY <1>1, <1>2, <2>1, <2>2 DEF NotificationsTypeOK, rows, heeded
<1>14. Listed'
  BY <1>1 DEF Listed
<1>15. Rows' = Rows /\ \A p : Loud(p)' = Loud(p)
  BY <1>1 DEF Rows, rows, Loud
<1>16. Planned(i)' /\ Plan(i)' = plan
  BY <1>12 DEF Planned, Plan, plan
<1>17. ASSUME NEW j \in InFlight' PROVE Reading(j)'
  <2>1. CASE j = i
    <3>1. ASSUME NEW c \in C
          PROVE /\ c.call # "drop" => c.it \in plan
                /\ c.call = "cancel" => [call |-> "schedule", it |-> c.it] \in C
      BY <1>7, <3>1
    <3>2. run'[i].at <= now' /\ Plan(i)' \in planned'
      BY <1>1, <1>3, <1>12, <1>16
    <3> QED
      BY <1>12, <1>16, <2>1, <3>1, <3>2 DEF Reading
  <2>2. CASE j # i
    <3>1. j \in InFlight /\ run'[j] = run[j] /\ planned' # {} /\ planned \subseteq planned'
      BY <1>1, <1>2, <2>2
    <3> QED
      BY <1>1, <3>1 DEF Reading, Planned, Plan
  <2> QED
    BY <2>1, <2>2
<1>18. ASSUME burst' = "steady", NEW j \in InFlight' PROVE Quieting(j)'
  <2>1. burst = "steady" /\ j \in InFlight /\ pending' = pending
    BY <1>1, <1>2, <1>18
  <2>2. Quieting(j)
    BY <2>1 DEF Quiet
  <2>3. CASE j = i
    <3>1. k = Rows
      BY <1>4, <2>2, <2>3 DEF Quieting
    <3>2. ASSUME NEW p \in pending, Loud(p)
          PROVE \E c \in C : c.call # "schedule" /\ c.it.id = p.id
      <4>1. p \in held
        <5>1. CASE e.read = {"rows"} /\ what = "pending"
          BY <5>1
        <5>2. CASE e.read = {"pending"} /\ what = "rows"
          BY <2>2, <2>3, <3>2, <5>2 DEF Quieting, Planned
        <5> QED
          BY <1>4, <5>1, <5>2
      <4>2. \A q \in held : q.id = p.id => q = p
        BY <1>4, <4>1 DEF Reading, Listed
      <4>3. p \notin plan
        BY <1>3, <3>1, <3>2, PlanIsQuiet DEF plan
      <4>4. CASE \E x \in plan : x.id = p.id
        <5>1. PICK x \in plan : x.id = p.id
          BY <4>4
        <5>2. x \notin held
          BY <4>2, <4>3, <5>1
        <5>3. [call |-> "cancel", it |-> x] \in C
          BY <1>7, <4>1, <5>1, <5>2
        <5> QED
          BY <5>1, <5>3
      <4>5. CASE \A x \in plan : x.id # p.id
        <5>1. [call |-> "drop", it |-> p] \in C
          BY <1>7, <4>1, <4>5
        <5> QED
          BY <5>1
      <4> QED
        BY <4>4, <4>5
    <3> QED
      BY <1>12, <1>15, <1>16, <2>1, <2>3, <3>1, <3>2 DEF Quieting
  <2>4. CASE j # i
    BY <1>2, <1>15, <2>1, <2>2, <2>4 DEF Quieting, Planned
  <2> QED
    BY <2>3, <2>4
<1>19. Quiet'
  BY <1>1, <1>2, <1>18 DEF Quiet
<1>20. ToCome' = ToCome \cup C
  <2>1. \A c \in C : c \in CallMade
    BY <1>6
  <2>2. \A c : c \in ToCome' <=> c \in CallMade /\ \E j \in InFlight : c \in run'[j].calls
    BY <1>2 DEF ToCome
  <2>3. \A c : c \in ToCome <=> c \in CallMade /\ \E j \in InFlight : c \in run[j].calls
    BY DEF ToCome
  <2> QED
    BY <1>2, <1>12, <2>1, <2>2, <2>3
<1>21. planned = {} => ToCome = {}
  BY DEF ToCome, Reading
<1>22. Agreed'
  <2>1. ASSUME NEW q, planned' = {q}, burst # "cut"
        PROVE Achieved(q, ToCome \cup C)
    <3>1. q = plan /\ (planned = {} \/ planned = {plan})
      BY <1>1, <2>1
    <3>2. CASE planned = {}
      BY <1>8, <1>21, <3>1, <3>2
    <3>3. CASE planned = {plan}
      BY <1>9, <2>1, <3>1, <3>3 DEF Agreed
    <3> QED
      BY <3>1, <3>2, <3>3
  <2>2. ASSUME NEW q, planned' = {q}, burst' # "cut"
        PROVE Achieved(q, ToCome)'
    <3>1. Achieved(q, ToCome \cup C)
      BY <1>1, <2>1, <2>2
    <3> QED
      BY <1>1, <1>20, <3>1 DEF Achieved, SeenTo, heeded
  <2> QED
    BY <2>2 DEF Agreed
<1>23. AtRest'
  BY <1>1, <1>2 DEF AtRest, heeded
<1> QED
  BY <1>2, <1>13, <1>14, <1>17, <1>19, <1>22, <1>23

\* What one call makes of what is pending, and of what was heard.
Scheduled(x, others, room) ==
    /\ pending' = IF x.at <= now \/ ~room THEN others ELSE others \cup {x}
    /\ Fire(IF x.at <= now THEN {x} ELSE {})
    /\ crowded' = (crowded \/ (~(x.at <= now) /\ ~room))

LEMMA CallIs ==
  ASSUME NotificationsInv, NEW i \in InFlight, Call(i)
  PROVE \E c \in run[i].calls, room \in BOOLEAN :
           LET others == {p \in pending : p.id # c.it.id}
           IN  /\ \A d \in run[i].calls : ~Precedes(d, c)
               /\ run' = [run EXCEPT ![i].calls = @ \ {c}]
               /\ IF c.call = "schedule" THEN Scheduled(c.it, others, room)
                                         ELSE pending' = others /\ UNCHANGED heeded
               /\ UNCHANGED <<now, rows, open, owed, kicks, faults, planned, burst, settled>>
<1>1. PICK c \in run[i].calls :
        /\ \A d \in run[i].calls : ~Precedes(d, c)
        /\ run' = [run EXCEPT ![i].calls = @ \ {c}]
        /\ LET others == {p \in pending : p.id # c.it.id}
               past == c.it.at <= now
               room == Cardinality(others) < Limit
           IN  IF c.call = "schedule"
               THEN /\ pending' = IF past \/ ~room THEN others ELSE others \cup {c.it}
                    /\ Fire(IF past THEN {c.it} ELSE {})
                    /\ crowded' = (crowded \/ (~past /\ ~room))
               ELSE pending' = others /\ UNCHANGED heeded
        /\ UNCHANGED <<now, rows, open, owed, kicks, faults, planned, burst, settled>>
  BY Zenon DEF Call
<1> DEFINE others == {p \in pending : p.id # c.it.id}
           room == Cardinality(others) < Limit
<1>2. room \in BOOLEAN
  OBVIOUS
<1>3. IF c.call = "schedule" THEN Scheduled(c.it, others, room)
                             ELSE pending' = others /\ UNCHANGED heeded
  BY <1>1, Zenon DEF Scheduled
<1> HIDE DEF room
<1> QED
  BY <1>1, <1>2, <1>3

\* What fires is heard, and the tripwire tells.
LEMMA FireIs ==
  ASSUME NotificationsTypeOK, NEW fired \in SUBSET Item, Fire(fired)
  PROVE /\ heard' \subseteq Reminder \X Nat /\ told' \in BOOLEAN
        /\ heard \subseteq heard' /\ (told => told')
        /\ \A x \in fired : /\ \A r \in x.body : <<r, x.at>> \in heard'
                            /\ x.id = Tripwire => told'
<1>1. heard' = heard \cup UNION {{<<r, n.at>> : r \in n.body} : n \in fired}
  BY DEF Fire
<1>2. \A n \in fired : {<<r, n.at>> : r \in n.body} \subseteq Reminder \X Nat
  BY DEF Item
<1>3. heard' \subseteq Reminder \X Nat /\ heard \subseteq heard'
  BY <1>1, <1>2 DEF NotificationsTypeOK
<1>4. ASSUME NEW x \in fired, NEW r \in x.body
      PROVE <<r, x.at>> \in heard'
  <2>1. <<r, x.at>> \in {<<q, x.at>> : q \in x.body}
    OBVIOUS
  <2> QED
    BY <1>1, <2>1
<1>5. told' \in BOOLEAN /\ (told => told') /\ \A x \in fired : x.id = Tripwire => told'
  BY DEF Fire, NotificationsTypeOK
<1> QED
  BY <1>3, <1>4, <1>5

\* Whatever has been seen to stays so, where nothing pending is lost but what
\* fires and what the step was to cancel.
LEMMA SeenToKept ==
  ASSUME NotificationsTypeOK, NEW x \in Item, SeenTo(x), now' = now,
         x \in pending => x \in pending', heard \subseteq heard', told => told',
         crowded => crowded'
  PROVE SeenTo(x)'
BY DEF SeenTo

\* What a call does to the state, told apart from who makes it.
LEMMA CallDoes ==
  ASSUME NotificationsTypeOK, NEW x \in Item, NEW call \in {"schedule", "cancel", "drop"},
         NEW room \in BOOLEAN, NEW others, others = {p \in pending : p.id # x.id},
         now' = now,
         IF call = "schedule" THEN Scheduled(x, others, room)
                              ELSE pending' = others /\ UNCHANGED heeded
  PROVE /\ others \subseteq pending' /\ pending' \subseteq others \cup {x}
        /\ x \in pending' => x.at > now /\ call = "schedule"
        /\ heard' \subseteq Reminder \X Nat /\ told' \in BOOLEAN /\ crowded' \in BOOLEAN
        /\ heard \subseteq heard' /\ (told => told') /\ (crowded => crowded')
        /\ call = "schedule" => SeenTo(x)'
<1>1. now \in Nat /\ x.at \in Nat /\ pending \subseteq Item /\ x \notin others
  BY DEF NotificationsTypeOK, Item
<1>2. CASE call = "schedule"
  <2>1. Scheduled(x, others, room)
    BY <1>2
  <2>2. CASE x.at <= now
    <3>1. pending' = others /\ Fire({x}) /\ crowded' = crowded
      BY <1>1, <2>1, <2>2 DEF Scheduled, NotificationsTypeOK
    <3>2. /\ heard' \subseteq Reminder \X Nat /\ told' \in BOOLEAN
          /\ heard \subseteq heard' /\ (told => told')
          /\ (\A r \in x.body : <<r, x.at>> \in heard') /\ (x.id = Tripwire => told')
      BY <3>1, FireIs
    <3>3. SeenTo(x)'
      BY <2>2, <3>2, Zenon DEF SeenTo
    <3> QED
      BY <1>1, <1>2, <3>1, <3>2, <3>3 DEF NotificationsTypeOK
  <2>3. CASE ~(x.at <= now)
    <3>1. /\ pending' = (IF room THEN others \cup {x} ELSE others) /\ Fire({})
          /\ crowded' = (crowded \/ ~room)
      BY <2>1, <2>3 DEF Scheduled
    <3>2. /\ heard' \subseteq Reminder \X Nat /\ told' \in BOOLEAN
          /\ heard \subseteq heard' /\ (told => told')
      BY <3>1, FireIs
    <3>3. x.at > now'
      BY <1>1, <2>3
    <3>4. x \in pending' \/ crowded'
      BY <3>1
    <3>5. SeenTo(x)'
      BY <3>3, <3>4 DEF SeenTo
    <3> QED
      BY <1>1, <1>2, <2>3, <3>1, <3>2, <3>5 DEF NotificationsTypeOK
  <2> QED
    BY <2>2, <2>3
<1>3. CASE call # "schedule"
  <2>1. pending' = others /\ UNCHANGED heeded
    BY <1>3
  <2> QED
    BY <1>1, <1>3, <2>1 DEF heeded, NotificationsTypeOK
<1> QED
  BY <1>2, <1>3

\* A call of one of the runs agreed on a plan, with these left to come: what it
\* takes back it or another run will put back.
LEMMA AchievedByCall ==
  ASSUME NotificationsTypeOK, now' = now,
         NEW plan \in SUBSET Item, \A y, z \in plan : y.id = z.id => y = z,
         NEW all, Achieved(plan, all),
         NEW then, \A d \in then : d \in all,
         NEW c, c \in all, \A d \in all : d # c => d \in then,
         \A d \in then : d.call = "cancel" => [call |-> "schedule", it |-> d.it] \in then,
         c.call \in {"schedule", "cancel", "drop"},
         c.call = "cancel" => [call |-> "schedule", it |-> c.it] \in all,
         c.call = "schedule" => SeenTo(c.it)',
         c.it \in pending' => c.call = "schedule",
         \A p \in pending : p.id # c.it.id => p \in pending',
         \A p \in pending' : p # c.it => p \in pending /\ p.id # c.it.id,
         heard \subseteq heard', told => told', crowded => crowded'
  PROVE Achieved(plan, then)'
<1>1. /\ \A d \in all : IF d.call = "drop" THEN \A y \in plan : y.id # d.it.id
                                           ELSE d.it \in plan
      /\ \A y \in plan :
            \/ [call |-> "schedule", it |-> y] \in all
            \/ /\ [call |-> "cancel", it |-> y] \notin all
               /\ SeenTo(y)
               /\ \A p \in pending : p.id = y.id => p = y
      /\ \A p \in pending :
            \/ \E y \in plan : y.id = p.id
            \/ \E d \in all : d.call = "drop" /\ d.it.id = p.id
  BY DEF Achieved
<1>2. ASSUME NEW y \in plan, y.id # c.it.id
      PROVE \/ [call |-> "schedule", it |-> y] \in then
            \/ /\ [call |-> "cancel", it |-> y] \notin then
               /\ SeenTo(y)'
               /\ \A p \in pending' : p.id = y.id => p = y
  <2>1. y # c.it /\ y \in Item /\ [call |-> "schedule", it |-> y] # c
    BY <1>2
  <2>2. CASE [call |-> "schedule", it |-> y] \in all
    BY <2>1, <2>2
  <2>3. CASE /\ [call |-> "cancel", it |-> y] \notin all
             /\ SeenTo(y)
             /\ \A p \in pending : p.id = y.id => p = y
    <3>1. y \in pending => y \in pending'
      BY <1>2
    <3>2. SeenTo(y)'
      BY <2>1, <2>3, <3>1, SeenToKept
    <3>3. \A p \in pending' : p.id = y.id => p = y
      BY <1>2, <2>3
    <3> QED
      BY <2>3, <3>2, <3>3
  <2> QED
    BY <1>1, <2>2, <2>3
<1>3. ASSUME NEW y \in plan, y.id = c.it.id
      PROVE \/ [call |-> "schedule", it |-> y] \in then
            \/ /\ [call |-> "cancel", it |-> y] \notin then
               /\ SeenTo(y)'
               /\ \A p \in pending' : p.id = y.id => p = y
  <2>1. c.call # "drop" /\ y = c.it
    BY <1>1, <1>3
  <2>2. CASE c.call = "schedule"
    <3>1. [call |-> "cancel", it |-> y] \in then => [call |-> "schedule", it |-> y] \in then
      OBVIOUS
    <3>2. \A p \in pending' : p.id = y.id => p = y
      BY <2>1
    <3> QED
      BY <2>1, <2>2, <3>1, <3>2
  <2>3. CASE c.call = "cancel"
    <3>1. [call |-> "schedule", it |-> y] \in all /\ [call |-> "schedule", it |-> y] # c
      BY <2>1, <2>3
    <3> QED
      BY <3>1
  <2> QED
    BY <2>1, <2>2, <2>3
<1>4. ASSUME NEW p \in pending', ~\E y \in plan : y.id = p.id
      PROVE \E d \in then : d.call = "drop" /\ d.it.id = p.id
  <2>1. CASE p # c.it
    <3>1. p \in pending /\ p.id # c.it.id
      BY <2>1
    <3>2. PICK d \in all : d.call = "drop" /\ d.it.id = p.id
      BY <1>1, <1>4, <3>1
    <3>3. d # c
      BY <3>1, <3>2
    <3> QED
      BY <3>2, <3>3
  <2>2. CASE p = c.it
    <3>1. c.call = "schedule"
      BY <1>4, <2>2
    <3>2. c.it \in plan
      BY <1>1, <3>1
    <3> QED
      BY <1>4, <2>2, <3>2
  <2> QED
    BY <1>4, <2>1, <2>2
<1>5. \A d \in then : IF d.call = "drop" THEN \A y \in plan : y.id # d.it.id
                                         ELSE d.it \in plan
  BY <1>1
<1>6. \A y \in plan :
            \/ [call |-> "schedule", it |-> y] \in then
            \/ /\ [call |-> "cancel", it |-> y] \notin then
               /\ SeenTo(y)'
               /\ \A p \in pending' : p.id = y.id => p = y
  BY <1>2, <1>3
<1>7. \A p \in pending' :
            \/ \E y \in plan : y.id = p.id
            \/ \E d \in then : d.call = "drop" /\ d.it.id = p.id
  BY <1>4
<1> QED
  BY <1>5, <1>6, <1>7 DEF Achieved

LEMMA CallKeeps ==
  ASSUME NotificationsInv, NEW i \in InFlight, Call(i)
  PROVE NotificationsInv'
<1> USE DEF NotificationsInv
<1>1. PICK c \in run[i].calls, room \in BOOLEAN :
           LET others == {p \in pending : p.id # c.it.id}
           IN  /\ \A d \in run[i].calls : ~Precedes(d, c)
               /\ run' = [run EXCEPT ![i].calls = @ \ {c}]
               /\ IF c.call = "schedule" THEN Scheduled(c.it, others, room)
                                         ELSE pending' = others /\ UNCHANGED heeded
               /\ UNCHANGED <<now, rows, open, owed, kicks, faults, planned, burst, settled>>
  BY CallIs
<1> DEFINE others == {p \in pending : p.id # c.it.id}
           e == run[i]
           x == c.it
           left == e.calls \ {c}
<1>2. /\ now' = now /\ UNCHANGED rows /\ open' = open /\ owed' = owed /\ kicks' = kicks
      /\ faults' = faults /\ planned' = planned /\ burst' = burst /\ settled' = settled
  BY <1>1
<1>3. /\ e \in RunState /\ c \in CallMade /\ x \in Item
      /\ c.call \in {"schedule", "cancel", "drop"}
      /\ now \in Nat /\ x.at \in Nat /\ pending \subseteq Item
      /\ c = [call |-> c.call, it |-> x]
  BY RunTyped DEF NotificationsTypeOK, CallMade, Item
<1>4. InFlight' = InFlight /\ \A j \in InFlight : j # i => run'[j] = run[j]
  BY <1>1 DEF InFlight
<1>5. run'[i] = [e EXCEPT !.calls = left]
  BY <1>1 DEF NotificationsTypeOK
<1>6. /\ run'[i] \in RunState /\ run'[i].read = e.read /\ run'[i].rows = e.rows
      /\ run'[i].held = e.held /\ run'[i].at = e.at /\ run'[i].calls = left
  <2>1. run'[i] = [read |-> e.read, rows |-> e.rows, held |-> e.held, at |-> e.at,
                   calls |-> left]
    BY <1>3, <1>5 DEF RunState
  <2> QED
    BY <1>3, <2>1 DEF RunState
<1>7. /\ others \subseteq pending' /\ pending' \subseteq others \cup {x}
      /\ x \in pending' => x.at > now /\ c.call = "schedule"
      /\ heard' \subseteq Reminder \X Nat /\ told' \in BOOLEAN /\ crowded' \in BOOLEAN
      /\ heard \subseteq heard' /\ (told => told') /\ (crowded => crowded')
      /\ c.call = "schedule" => SeenTo(x)'
  <2>1. IF c.call = "schedule" THEN Scheduled(x, others, room)
                               ELSE pending' = others /\ UNCHANGED heeded
    BY <1>1
  <2>2. \A S : S = others =>
          (IF c.call = "schedule" THEN Scheduled(x, S, room)
                                  ELSE pending' = S /\ UNCHANGED heeded)
    BY <2>1
  <2> HIDE DEF others, x
  <2>3. others = {p \in pending : p.id # x.id}
    BY DEF others, x
  <2> QED
    BY <1>2, <1>3, <2>1, <2>3, CallDoes
<1>8. Planned(i) /\ e.read = {"rows", "pending"}
  BY DEF Reading, Planned
<1>9. /\ c.call # "drop" => x \in Plan(i)
      /\ c.call = "cancel" => [call |-> "schedule", it |-> x] \in e.calls
      /\ \A d \in e.calls : d.call = "cancel" => [call |-> "schedule", it |-> d.it] \in e.calls
      /\ \A d \in e.calls : d.call # "drop" => d.it \in Plan(i)
  BY DEF Reading
<1>10. \A d \in left : d.call = "cancel" => [call |-> "schedule", it |-> d.it] \in left
  <2>1. SUFFICES ASSUME NEW d \in left, d.call = "cancel"
                 PROVE [call |-> "schedule", it |-> d.it] \in left
    OBVIOUS
  <2>2. [call |-> "schedule", it |-> d.it] \in e.calls
    BY <1>9, <2>1
  <2>3. [call |-> "schedule", it |-> d.it] # c
    <3>1. SUFFICES ASSUME [call |-> "schedule", it |-> d.it] = c PROVE FALSE
      OBVIOUS
    <3>2. c.call = "schedule" /\ c.it = d.it
      BY <3>1
    <3>3. Precedes(d, c)
      BY <2>1, <3>2 DEF Precedes
    <3> QED
      BY <1>1, <2>1, <3>3
  <2> QED
    BY <2>2, <2>3
<1> HIDE DEF others, e, left, x
<1>11. others \subseteq pending /\ \A p \in pending : p \in others <=> p.id # x.id
  BY DEF others, x
<1>12. NotificationsTypeOK'
  <2>1. run' \in [InFlight' -> RunState]
    BY <1>1, <1>4, <1>6 DEF NotificationsTypeOK
  <2>2. pending' \subseteq Item
    BY <1>3, <1>7, <1>11
  <2> QED
    BY <1>2, <1>4, <1>7, <2>1, <2>2 DEF NotificationsTypeOK, rows
<1>13. Listed'
  BY <1>2, <1>3, <1>7, <1>11 DEF Listed
<1>14. Rows' = Rows /\ \A p : Loud(p)' = Loud(p)
  BY <1>2 DEF Rows, rows, Loud
<1>15. planned # {}
  BY <1>8 DEF Reading
<1>16. ASSUME NEW j \in InFlight' PROVE Reading(j)'
  <2>1. j \in InFlight /\ run'[j].held = run[j].held /\ run'[j].read = run[j].read
        /\ run'[j].at = run[j].at /\ run'[j].rows = run[j].rows
    BY <1>4, <1>6 DEF e
  <2>2. /\ Planned(j)' = Planned(j) /\ Plan(j)' = Plan(j)
    BY <2>1 DEF Planned, Plan
  <2>3. Reading(j)
    BY <2>1
  <2>4. CASE j = i
    <3>1. \A d \in left : d \in run[i].calls
      BY DEF left, e
    <3>2. run'[i].calls = left
      BY <1>6
    <3>3. \A d \in left : d.call # "drop" => d.it \in Plan(i)
      BY <2>3, <2>4, <3>1 DEF Reading
    <3>4. \A d \in run'[j].calls :
             /\ d.call # "drop" => d.it \in Plan(j)'
             /\ d.call = "cancel" => [call |-> "schedule", it |-> d.it] \in run'[j].calls
      BY <1>10, <2>2, <2>4, <3>2, <3>3
    <3> QED
      BY <1>2, <1>8, <1>15, <2>1, <2>2, <2>3, <2>4, <3>4 DEF Reading
  <2>5. CASE j # i
    <3>1. run'[j] = run[j]
      BY <1>4, <2>1, <2>5
    <3> QED
      BY <1>2, <1>15, <2>2, <2>3, <3>1 DEF Reading
  <2> QED
    BY <2>4, <2>5
<1>17. ASSUME burst' = "steady", NEW j \in InFlight' PROVE Quieting(j)'
  <2>1. burst = "steady" /\ j \in InFlight
    BY <1>2, <1>4, <1>17
  <2>2. Quieting(j) /\ Quieting(i)
    BY <2>1 DEF Quiet
  <2>3. ASSUME NEW p \in pending', Loud(p) PROVE p \in pending /\ p.id # x.id
    <3>1. p # x
      <4> SUFFICES ASSUME p = x PROVE FALSE
        OBVIOUS
      <4>1. c.call = "schedule"
        BY <1>7, <2>3
      <4>2. x \in planNotifications(Rows, run[i].at)
        BY <1>8, <1>9, <2>2, <4>1 DEF Quieting, Plan, e
      <4> QED
        BY <2>3, <4>2, PlanIsQuiet, RunTyped
    <3> QED
      BY <1>7, <1>11, <2>3, <3>1
  <2>4. CASE j = i
    <3>1. ASSUME NEW p \in pending', Loud(p)
          PROVE \E d \in left : d.call # "schedule" /\ d.it.id = p.id
      <4>1. p \in pending /\ p.id # x.id
        BY <2>3, <3>1
      <4>2. PICK d \in run[i].calls : d.call # "schedule" /\ d.it.id = p.id
        BY <1>8, <2>2, <3>1, <4>1 DEF Quieting, e
      <4>3. d # c
        BY <4>1, <4>2 DEF x
      <4> QED
        BY <4>2, <4>3 DEF left, e
    <3>2. run'[i].rows = Rows'
      BY <1>6, <1>8, <1>14, <2>2 DEF Quieting, e
    <3>3. Planned(i)'
      BY <1>6, <1>8 DEF Planned
    <3> QED
      BY <1>6, <1>14, <2>4, <3>1, <3>2, <3>3 DEF Quieting
  <2>5. CASE j # i
    <3>1. run'[j] = run[j]
      BY <1>4, <2>1, <2>5
    <3> QED
      BY <1>14, <2>2, <2>3, <3>1 DEF Quieting, Planned
  <2> QED
    BY <2>4, <2>5
<1>18. Quiet'
  BY <1>4, <1>17 DEF Quiet
<1>19. /\ \A d : d \in ToCome' <=> d \in CallMade /\ \E j \in InFlight : d \in run'[j].calls
       /\ \A d : d \in ToCome <=> d \in CallMade /\ \E j \in InFlight : d \in run[j].calls
  BY <1>4 DEF ToCome
<1>20. /\ \A d \in ToCome' : d \in ToCome
       /\ \A d \in ToCome : d # c => d \in ToCome'
       /\ c \in ToCome
       /\ c.call = "cancel" => [call |-> "schedule", it |-> x] \in ToCome
  <2>1. \A d : d \in left <=> d \in run[i].calls /\ d # c
    BY DEF left, e
  <2>2. \A j \in InFlight : \A d : d \in run'[j].calls => d \in run[j].calls
    BY <1>4, <1>6, <2>1
  <2>3. \A j \in InFlight : \A d : d \in run[j].calls /\ d # c => d \in run'[j].calls
    BY <1>4, <1>6, <2>1
  <2>4. \A d \in e.calls : d \in CallMade /\ d \in ToCome
    BY <1>19, RunTyped DEF e
  <2>5. c \in e.calls
    BY DEF e
  <2> QED
    BY <1>9, <1>19, <2>2, <2>3, <2>4, <2>5
<1>21. \A d \in ToCome' : d.call = "cancel" => [call |-> "schedule", it |-> d.it] \in ToCome'
  <2>1. SUFFICES ASSUME NEW d \in ToCome', d.call = "cancel"
                 PROVE [call |-> "schedule", it |-> d.it] \in ToCome'
    OBVIOUS
  <2>2. PICK j \in InFlight : d \in run'[j].calls
    BY <1>19, <2>1
  <2>3. [call |-> "schedule", it |-> d.it] \in run'[j].calls
    BY <1>4, <1>16, <2>1, <2>2 DEF Reading
  <2>4. [call |-> "schedule", it |-> d.it] \in CallMade
    BY <1>19, <2>1 DEF CallMade
  <2> QED
    BY <1>19, <2>2, <2>3, <2>4
<1>22. Agreed'
  <2>1. ASSUME NEW plan \in planned', burst' # "cut", planned' = {plan},
               NEW then, then = ToCome', NEW all, all = ToCome
        PROVE Achieved(plan, then)'
    <3>1. plan \in planned /\ Achieved(plan, all)
      BY <1>2, <2>1 DEF Agreed
    <3>2. plan = Plan(i)
      BY <1>2, <1>8, <2>1 DEF Reading
    <3>3. plan \in SUBSET Item /\ \A y, z \in plan : y.id = z.id => y = z
      <4>1. run[i].rows \in RowsRead /\ run[i].at \in Nat
        BY RunTyped
      <4> QED
        BY <3>2, <4>1, PlanSound DEF Plan
    <3>4. /\ \A p \in pending : p.id # c.it.id => p \in pending'
          /\ \A p \in pending' : p # c.it => p \in pending /\ p.id # c.it.id
      BY <1>7, <1>11 DEF x
    <3>5. /\ \A d \in then : d \in all
          /\ c \in all
          /\ \A d \in all : d # c => d \in then
          /\ c.call = "cancel" => [call |-> "schedule", it |-> c.it] \in all
      BY <1>20, <2>1 DEF x
    <3>6. \A d \in then : d.call = "cancel" => [call |-> "schedule", it |-> d.it] \in then
      BY <1>21, <2>1
    <3>7. /\ c.it \in pending' => c.call = "schedule"
          /\ c.call = "schedule" => SeenTo(c.it)'
          /\ heard \subseteq heard' /\ (told => told') /\ (crowded => crowded')
          /\ c.call \in {"schedule", "cancel", "drop"}
      BY <1>3, <1>7 DEF x
    <3>8. NotificationsTypeOK /\ now' = now
      BY <1>2
    <3> HIDE DEF NotificationsInv
    <3> QED
      BY <3>1, <3>3, <3>4, <3>5, <3>6, <3>7, <3>8, AchievedByCall
  <2>2. ASSUME NEW plan \in planned', burst' # "cut", planned' = {plan}
        PROVE Achieved(plan, ToCome)'
    BY <2>1, <2>2
  <2> QED
    BY <2>2 DEF Agreed
<1>23. AtRest'
  BY <1>2, <1>4 DEF AtRest
<1> QED
  BY <1>12, <1>13, <1>16, <1>18, <1>22, <1>23

LEMMA FinishKeeps ==
  ASSUME NotificationsInv, NEW i \in InFlight, Finish(i)
  PROVE NotificationsInv'
<1> USE DEF NotificationsInv
<1> DEFINE e == run[i]
           plan == Plan(i)
<1>1. /\ Planned(i) /\ e.calls = {}
      /\ run' = Without(i)
      /\ settled' = IF InFlight = {i} /\ burst # "cut" /\ planned = {plan}
                    THEN {[plan |-> plan, rows |-> e.rows, at |-> e.at]} ELSE {}
      /\ UNCHANGED <<now, rows, pending, open, owed, kicks, faults, heeded, planned, burst>>
  BY DEF Finish
<1>2. InFlight' = InFlight \ {i} /\ \A j \in InFlight' : j \in InFlight /\ run'[j] = run[j]
  BY <1>1 DEF InFlight, Without
<1>3. /\ e.rows \in RowsRead /\ e.at \in Nat /\ plan \in SUBSET Item
      /\ plan = planNotifications(e.rows, e.at)
  <2>1. e.rows \in RowsRead /\ e.at \in Nat
    BY RunTyped
  <2> QED
    BY <2>1, PlanSound DEF Plan
<1>4. settled = {} /\ e.at <= now
  BY <1>1 DEF AtRest, Reading
<1>5. Rows' = Rows /\ \A p : Loud(p)' = Loud(p)
  BY <1>1 DEF Rows, rows, Loud
<1>6. ToCome' = ToCome
  BY <1>1, <1>2 DEF ToCome
<1> HIDE DEF plan, e
<1>7. NotificationsTypeOK'
  <2>1. run' \in [InFlight' -> RunState] /\ InFlight' \subseteq Run
    BY <1>1, <1>2 DEF NotificationsTypeOK, Without
  <2>2. settled' \subseteq [plan : SUBSET Item, rows : RowsRead, at : Nat]
    BY <1>1, <1>3
  <2> QED
    BY <1>1, <2>1, <2>2 DEF NotificationsTypeOK, rows, heeded
<1>8. Listed'
  BY <1>1 DEF Listed
<1>9. \A j \in InFlight' : Reading(j)'
  BY <1>1, <1>2 DEF Reading, Planned, Plan
<1>10. Quiet'
  <2>1. ASSUME burst' = "steady", NEW j \in InFlight' PROVE Quieting(j)'
    <3>1. burst = "steady" /\ j \in InFlight /\ run'[j] = run[j] /\ pending' = pending
      BY <1>1, <1>2, <2>1
    <3>2. Quieting(j)
      BY <3>1 DEF Quiet
    <3> QED
      BY <1>5, <3>1, <3>2 DEF Quieting, Planned
  <2>2. ASSUME burst' = "steady", NEW p \in pending' PROVE ~Loud(p)'
    <3>1. burst = "steady" /\ p \in pending
      BY <1>1, <2>2
    <3>2. Quieting(i)
      BY <3>1 DEF Quiet
    <3>3. run[i].read = {"rows", "pending"} /\ run[i].calls = {}
      BY <1>1 DEF Planned, e
    <3> QED
      BY <1>5, <3>1, <3>2, <3>3 DEF Quieting
  <2> QED
    BY <2>1, <2>2 DEF Quiet
<1>11. Agreed'
  <2>1. InFlight' # {} => InFlight # {}
    BY <1>2
  <2>2. UNCHANGED <<now, pending, planned, burst, heard, told, crowded>>
    BY <1>1 DEF heeded
  <2> QED
    BY <1>6, <2>1, <2>2 DEF Agreed, Achieved, SeenTo
<1>12. AtRest'
  <2>1. ASSUME NEW s \in settled'
        PROVE /\ s = [plan |-> plan, rows |-> e.rows, at |-> e.at]
              /\ InFlight = {i} /\ burst # "cut" /\ planned = {plan}
    BY <1>1, <2>1
  <2>2. ASSUME NEW s \in settled'
        PROVE /\ s.plan = planNotifications(s.rows, s.at) /\ s.at <= now'
              /\ s.plan = plan /\ InFlight' = {}
    BY <1>1, <1>2, <1>3, <1>4, <2>1
  <2>3. ASSUME NEW s \in settled'
        PROVE Achieved(s.plan, {})'
    <3>1. ToCome = {}
      BY <1>1, <2>1 DEF ToCome, e
    <3>2. Achieved(plan, {})
      BY <2>1, <3>1 DEF Agreed
    <3> QED
      BY <1>1, <2>2, <3>2 DEF Achieved, SeenTo, heeded
  <2> QED
    BY <2>2, <2>3 DEF AtRest
<1> QED
  BY <1>7, <1>8, <1>9, <1>10, <1>11, <1>12

LEMMA TimeKeeps ==
  ASSUME NotificationsInv, TimePasses
  PROVE NotificationsInv'
<1> USE DEF NotificationsInv
<1> DEFINE fired == {p \in pending : p.at <= now'}
<1>1. /\ now' = now + 1
      /\ InFlight # {} => faults < MaxFaults
      /\ faults' = (IF InFlight # {} THEN faults + 1 ELSE faults)
      /\ pending' = pending \ fired /\ Fire(fired)
      /\ UNCHANGED <<rows, open, owed, run, kicks, crowded, planned, burst, settled>>
  BY DEF TimePasses
<1>2. now \in Nat /\ now' \in Nat /\ pending \subseteq Item /\ \A p \in pending : p.at \in Nat
  BY <1>1 DEF NotificationsTypeOK, Item
<1>3. /\ heard' \subseteq Reminder \X Nat /\ told' \in BOOLEAN
      /\ heard \subseteq heard' /\ (told => told')
      /\ \A x \in fired : /\ \A r \in x.body : <<r, x.at>> \in heard'
                          /\ x.id = Tripwire => told'
  BY <1>1, <1>2, FireIs
<1>4. InFlight' = InFlight /\ Rows' = Rows /\ ToCome' = ToCome /\ \A p : Loud(p)' = Loud(p)
  BY <1>1 DEF InFlight, Rows, rows, ToCome, Loud
<1>5. pending' = {p \in pending : p.at > now'}
  BY <1>1, <1>2
<1> HIDE DEF fired
<1>6. NotificationsTypeOK'
  <2>1. faults' \in 0 .. MaxFaults
    BY <1>1, NotificationsAssumption DEF NotificationsTypeOK
  <2> QED
    BY <1>1, <1>2, <1>3, <1>4, <1>5, <2>1 DEF NotificationsTypeOK, rows
<1>7. Listed'
  BY <1>5 DEF Listed
<1>8. ASSUME NEW i \in InFlight' PROVE Reading(i)'
  <2>1. i \in InFlight /\ Reading(i) /\ run[i].at \in Nat /\ \A p \in run[i].held : p.at \in Nat
    BY <1>4, RunTyped DEF Item
  <2>2. pending = {p \in run[i].held : p.at > now} =>
           pending' = {p \in run[i].held : p.at > now'}
    BY <1>1, <1>2, <1>5, <2>1
  <2>3. run[i].at <= now => run[i].at <= now'
    BY <1>1, <1>2, <2>1
  <2> QED
    BY <1>1, <2>1, <2>2, <2>3 DEF Reading, Planned, Plan
<1>9. ASSUME NEW x \in Item, SeenTo(x)
      PROVE SeenTo(x)'
  <2>1. CASE crowded
    BY <1>1, <2>1 DEF SeenTo
  <2>2. CASE x.at > now /\ x \in pending
    <3>1. CASE x.at > now'
      BY <1>5, <2>2, <3>1 DEF SeenTo
    <3>2. CASE ~(x.at > now')
      <4>1. x.at <= now' /\ x \in fired
        BY <1>2, <2>2, <3>2 DEF fired
      <4> QED
        BY <1>3, <4>1, Zenon DEF SeenTo
    <3> QED
      BY <3>1, <3>2
  <2>3. CASE /\ x.at <= now
             /\ \A r \in x.body : <<r, x.at>> \in heard
             /\ x.id = Tripwire => told
    <3>1. x.at <= now'
      BY <1>1, <1>2, <2>3 DEF Item
    <3> QED
      BY <1>3, <2>3, <3>1, Zenon DEF SeenTo
  <2> QED
    BY <1>9, <2>1, <2>2, <2>3 DEF SeenTo
<1>10. ASSUME NEW plan \in SUBSET Item, NEW calls, Achieved(plan, calls)
       PROVE Achieved(plan, calls)'
  <2>1. \A x \in plan : SeenTo(x) => SeenTo(x)'
    BY <1>9
  <2> QED
    BY <1>5, <1>10, <2>1 DEF Achieved
<1>11. Quiet'
  <2>1. ASSUME burst' = "steady", NEW i \in InFlight' PROVE Quieting(i)'
    <3>1. i \in InFlight /\ Quieting(i) /\ \A p \in pending' : p \in pending
      BY <1>1, <1>4, <1>5, <2>1 DEF Quiet
    <3> QED
      BY <1>1, <1>4, <3>1 DEF Quieting, Planned
  <2> QED
    BY <1>1, <1>4, <1>5, <2>1 DEF Quiet
<1>12. Agreed'
  <2>1. ASSUME NEW plan \in planned', burst' # "cut", planned' = {plan}, InFlight' # {},
               NEW calls, calls = ToCome
        PROVE Achieved(plan, calls)'
    <3>1. plan \in SUBSET Item /\ Achieved(plan, calls)
      BY <1>1, <1>4, <2>1 DEF Agreed, NotificationsTypeOK
    <3> QED
      BY <1>10, <3>1
  <2>2. ASSUME NEW plan \in planned', burst' # "cut", planned' = {plan}, InFlight' # {}
        PROVE Achieved(plan, ToCome)'
    BY <1>4, <2>1, <2>2
  <2> QED
    BY <2>2 DEF Agreed
<1>13. AtRest'
  <2>1. ASSUME NEW s \in settled
        PROVE s.at <= now' /\ Achieved(s.plan, {})'
    <3>1. s.at <= now /\ Achieved(s.plan, {}) /\ s.plan \subseteq Item /\ s.at \in Nat
      BY DEF AtRest, NotificationsTypeOK
    <3> QED
      BY <1>1, <1>2, <1>10, <3>1
  <2> QED
    BY <1>1, <1>4, <2>1 DEF AtRest
<1> QED
  BY <1>6, <1>7, <1>8, <1>11, <1>12, <1>13

\* The calls that kick: what they leave alone is what IdleKeeps asks for.
LEMMA KickKeeps ==
  ASSUME NotificationsInv, NEW n \in Nat \ {0}, Kick(n),
         UNCHANGED <<now, pending, run, faults, heard, told, crowded, planned, settled>>,
         open' \in BOOLEAN,
         done' \subseteq Reminder, snoozed' \in [Reminder -> Nat], times' \subseteq Minutes,
         \/ done' = done /\ snoozed' = snoozed /\ times' = times /\ burst' = burst
         \/ Stir
  PROVE NotificationsInv'
<1>1. /\ owed \in Nat /\ kicks \in 0 .. MaxKicks /\ faults \in 0 .. MaxFaults
      /\ burst \in {"steady", "changed", "cut"}
  BY DEF NotificationsInv, NotificationsTypeOK
<1>2. kicks' \in 0 .. MaxKicks /\ owed' \in Nat /\ owed' # 0
  BY <1>1, NotificationsAssumption DEF Kick
<1>3. /\ burst' \in {"steady", "changed", "cut"} /\ (burst = "cut" => burst' = "cut")
      /\ burst' = "steady" =>
            /\ burst = "steady"
            /\ (done' = done /\ snoozed' = snoozed /\ times' = times) \/ InFlight = {}
  BY <1>1 DEF Stir
<1> QED
  BY <1>1, <1>2, <1>3, IdleKeeps

LEMMA NotificationsInvNext ==
  ASSUME NotificationsInv, [NotificationsNext]_notificationsVars
  PROVE NotificationsInv'
<1>0. NotificationsTypeOK
  BY DEF NotificationsInv
<1> USE DEF rows, history, heeded
<1>1. CASE UNCHANGED notificationsVars
  BY <1>0, <1>1, IdleKeeps DEF notificationsVars, NotificationsTypeOK
<1>2. CASE Start
  BY <1>2, StartKeeps
<1>3. CASE Foreground
  <2>1. PICK n \in 1 .. 4 : Kick(n)
    BY <1>3 DEF Foreground
  <2> QED
    BY <1>0, <1>3, <2>1, KickKeeps DEF Foreground, NotificationsTypeOK
<1>4. CASE Background
  BY <1>0, <1>4, IdleKeeps DEF Background, NotificationsTypeOK
<1>5. CASE Kill
  <2>1. /\ UNCHANGED <<now, rows, pending, kicks, heeded, planned, settled>>
        /\ open' = FALSE /\ owed' = 0 /\ faults < MaxFaults /\ faults' = faults + 1
        /\ run' = [i \in {} |-> i]
        /\ burst' = IF InFlight # {} \/ owed > 0 THEN "cut" ELSE burst
    BY <1>5 DEF Kill
  <2>2. faults' \in 0 .. MaxFaults
    BY <1>0, <2>1, NotificationsAssumption DEF NotificationsTypeOK
  <2>3. CASE InFlight # {} \/ owed > 0
    <3>1. run' = [j \in InFlight \ InFlight |-> run[j]] /\ burst' = "cut"
      BY <2>1, <2>3
    <3> QED
      BY <2>1, <2>2, <3>1, CutKeeps
  <2>4. CASE ~(InFlight # {} \/ owed > 0)
    <3>1. run' = run
      BY <1>0, <2>1, <2>4 DEF NotificationsTypeOK, InFlight
    <3>2. owed = 0 /\ burst' = burst
      BY <1>0, <2>1, <2>4 DEF NotificationsTypeOK
    <3> QED
      BY <1>0, <2>1, <2>2, <3>1, <3>2, IdleKeeps DEF NotificationsTypeOK
  <2> QED
    BY <2>3, <2>4
<1>6. CASE TimePasses
  BY <1>6, TimeKeeps
<1>7. CASE Touch
  BY <1>0, <1>7, KickKeeps DEF Touch, NotificationsTypeOK
<1>8. ASSUME NEW r \in Reminder, Tick(r)
      PROVE NotificationsInv'
  <2>1. done' \subseteq Reminder
    BY <1>0, <1>8 DEF Tick, NotificationsTypeOK
  <2> QED
    BY <1>0, <1>8, <2>1, KickKeeps DEF Tick, NotificationsTypeOK
<1>9. ASSUME NEW r \in Reminder, Pull(r)
      PROVE NotificationsInv'
  <2>1. /\ UNCHANGED <<now, pending, owed, run, kicks, heeded, planned, settled>>
        /\ UNCHANGED <<open, snoozed, times>>
        /\ burst' = IF burst = "steady" THEN "changed" ELSE burst
        /\ done' = (done \ {r}) \cup ({r} \ done)
        /\ faults < MaxFaults /\ faults' = faults + 1
    BY <1>9 DEF Pull
  <2>2. done' \subseteq Reminder /\ faults' \in 0 .. MaxFaults
    BY <1>0, <2>1, NotificationsAssumption DEF NotificationsTypeOK
  <2>3. burst' \in {"changed", "cut"} /\ (burst = "cut" => burst' = "cut")
    BY <1>0, <2>1 DEF NotificationsTypeOK
  <2> QED
    BY <1>0, <2>1, <2>2, <2>3, IdleKeeps DEF NotificationsTypeOK
<1>10. ASSUME NEW r \in Reminder, NEW d \in 1 .. Day(MaxNow), Snooze(r, d)
       PROVE NotificationsInv'
  <2>1. snoozed' \in [Reminder -> Nat]
    BY <1>0, <1>10 DEF Snooze, NotificationsTypeOK
  <2> QED
    BY <1>0, <1>10, <2>1, KickKeeps DEF Snooze, NotificationsTypeOK
<1>11. ASSUME NEW ms \in SUBSET Minutes, SetTimes(ms)
       PROVE NotificationsInv'
  BY <1>0, <1>11, KickKeeps DEF SetTimes, NotificationsTypeOK
<1>12. ASSUME NEW i \in InFlight, ReadRows(i)
       PROVE NotificationsInv'
  <2>1. run[i].held \in SUBSET Item /\ Rows \in RowsRead
    BY <1>0, RunTyped, RowsTyped
  <2> QED
    BY <1>12, <2>1, ReadFirstKeeps, ReadLastKeeps DEF ReadRows
<1>13. ASSUME NEW i \in InFlight, ReadPending(i)
       PROVE NotificationsInv'
  <2>1. run[i].rows \in RowsRead /\ pending \in SUBSET Item
    BY <1>0, RunTyped DEF NotificationsTypeOK
  <2> QED
    BY <1>13, <2>1, ReadFirstKeeps, ReadLastKeeps DEF ReadPending
<1>14. ASSUME NEW i \in InFlight, Call(i)
       PROVE NotificationsInv'
  BY <1>14, CallKeeps
<1>15. ASSUME NEW i \in InFlight, Finish(i)
       PROVE NotificationsInv'
  BY <1>15, FinishKeeps
<1>16. ASSUME NEW i \in InFlight, Fail(i)
       PROVE NotificationsInv'
  <2>1. /\ UNCHANGED <<now, rows, pending, open, owed, kicks, heeded, planned, settled>>
        /\ faults < MaxFaults /\ faults' = faults + 1
        /\ burst' = "cut" /\ run' = [j \in InFlight \ {i} |-> run[j]]
    BY <1>16 DEF Fail, Without
  <2>2. faults' \in 0 .. MaxFaults /\ open' \in BOOLEAN /\ owed' \in Nat
    BY <1>0, <2>1, NotificationsAssumption DEF NotificationsTypeOK
  <2> QED
    BY <2>1, <2>2, CutKeeps
<1> QED
  BY <1>1, <1>2, <1>3, <1>4, <1>5, <1>6, <1>7, <1>8, <1>9, <1>10, <1>11, <1>12, <1>13,
     <1>14, <1>15, <1>16
     DEF NotificationsNext

\* Every state the phone reaches satisfies the inductive invariant, whatever the
\* rows, the times of delivery, the window, the budget and the system's limit.
THEOREM NotificationsInductive == NotificationsSpec => []NotificationsInv
<1>1. NotificationsInit => NotificationsInv
  BY NotificationsInvInit
<1>2. NotificationsInv /\ [NotificationsNext]_notificationsVars => NotificationsInv'
  BY NotificationsInvNext
<1> QED
  BY <1>1, <1>2, PTL DEF NotificationsSpec

\* Type correctness of the phone's rows, runs and pending notifications.
THEOREM NotificationsTypeCorrect == NotificationsSpec => []NotificationsTypeOK
<1>1. NotificationsInv => NotificationsTypeOK
  BY DEF NotificationsInv
<1> QED
  BY <1>1, NotificationsInductive, PTL

\* What is settled is achieved, and lies ahead or has been heard.
LEMMA SettledIs ==
  ASSUME NotificationsInv, NEW s \in settled
  PROVE /\ s.rows \in RowsRead /\ s.at \in Nat /\ s.at <= now /\ now \in Nat
        /\ s.plan = planNotifications(s.rows, s.at) /\ s.plan \subseteq Item
        /\ \A x \in s.plan : SeenTo(x)
        /\ pending \subseteq s.plan /\ \A p \in pending : p.at > now
<1>1. /\ s.rows \in RowsRead /\ s.at \in Nat /\ s.at <= now /\ now \in Nat
      /\ s.plan = planNotifications(s.rows, s.at) /\ s.plan \subseteq Item
      /\ Achieved(s.plan, {})
  BY DEF NotificationsInv, NotificationsTypeOK, AtRest
<1>2. (\A x \in s.plan : SeenTo(x)) /\ pending \subseteq s.plan
  BY <1>1 DEF Achieved
<1> QED
  BY <1>1, <1>2 DEF NotificationsInv, Listed

\* A burst that made one plan leaves pending exactly what the plan has left,
\* whatever the order of its runs' calls and whatever bursts before it had left
\* there (reconcile.ts).
THEOREM BurstRepairsHolds == NotificationsSpec => []BurstRepairs
<1>1. ASSUME NotificationsInv PROVE BurstRepairs
  <2> SUFFICES ASSUME NEW s \in settled
               PROVE LET due == {n \in s.plan : n.at > now}
                     IN  pending \subseteq due /\ (due \subseteq pending \/ crowded)
    BY DEF BurstRepairs
  <2>1. pending \subseteq {n \in s.plan : n.at > now}
    BY <1>1, SettledIs
  <2>2. ASSUME NEW x \in s.plan, x.at > now, ~crowded PROVE x \in pending
    <3>1. SeenTo(x) /\ x.at \in Nat /\ now \in Nat
      BY <1>1, SettledIs DEF Item
    <3> QED
      BY <2>2, <3>1 DEF SeenTo
  <2> QED
    BY <2>1, <2>2
<1> QED
  BY <1>1, NotificationsInductive, PTL

\* Once every run owed has ended, nothing pending names a reminder that is ticked
\* off or still snoozed, however the runs of the last burst met, unless rows
\* changed under it or since, or one of them was cut short (planner.ts,
\* core-context.tsx).
THEOREM SilentWhenSteadyHolds == NotificationsSpec => []SilentWhenSteady
<1>1. ASSUME NotificationsInv PROVE SilentWhenSteady
  <2> SUFFICES ASSUME InFlight = {}, owed = 0, burst = "steady",
                      NEW n \in pending, NEW r \in n.body
               PROVE r \notin done /\ Day(n.at) >= snoozed[r]
    BY DEF SilentWhenSteady
  <2>1. ~Loud(n)
    BY <1>1 DEF NotificationsInv, Quiet
  <2>2. r \in Reminder /\ n.at \in Nat /\ snoozed[r] \in Nat
    BY <1>1 DEF NotificationsInv, NotificationsTypeOK, Item
  <2>3. Day(n.at) \in Nat
    BY <2>2, DayIs
  <2> QED
    BY <2>1, <2>2, <2>3 DEF Loud
<1> QED
  BY <1>1, NotificationsInductive, PTL

\* Every digest no later than one of the plan is of the plan.
LEMMA SoonerIsPlanned ==
  ASSUME NEW k \in RowsRead, NEW t \in Nat, NEW x \in Live(k, t),
         NEW n \in planNotifications(k, t), n.id # Tripwire, x.at <= n.at
  PROVE x \in planNotifications(k, t)
<1>1. PICK b \in Nat :
         LET D == Soonest(Live(k, t), b)
             P == planNotifications(k, t)
         IN  /\ (P = D /\ tripwireFor(D, t) = {}) \/ P = D \cup tripwireFor(D, t)
             /\ D \subseteq Live(k, t)
             /\ {y \in P : y.id # Tripwire} = D
  BY PlanIs
<1> DEFINE before(z) == {y \in Live(k, t) : y.at < z.at}
<1>2. n \in Live(k, t) /\ Cardinality(before(n)) < b
  BY <1>1 DEF Soonest
<1>3. before(x) \subseteq before(n)
  <2>1. x.at \in Nat /\ n.at \in Nat /\ \A y \in Live(k, t) : y.at \in Nat
    BY <1>2, LiveAre
  <2> QED
    BY <2>1
<1>4. /\ IsFiniteSet(before(n)) /\ Cardinality(before(x)) <= Cardinality(before(n))
      /\ Cardinality(before(x)) \in Nat /\ Cardinality(before(n)) \in Nat
  <2>1. IsFiniteSet(before(n))
    <3>1. before(n) \subseteq Live(k, t)
      OBVIOUS
    <3> QED
      BY <3>1, LiveAre, FS_Subset
  <2> HIDE DEF before
  <2> QED
    BY <1>3, <2>1, FS_Subset, FS_CardinalityType
<1>5. x \in Soonest(Live(k, t), b)
  <2>1. Cardinality(before(x)) < b
    BY <1>2, <1>4
  <2> QED
    BY <2>1 DEF Soonest
<1> QED
  BY <1>1, <1>5

\* A reminder is heard at every delivery time of every day it sits undone, up to
\* the last digest the budget kept (planner.ts).
THEOREM EveryDayHeardHolds == NotificationsSpec => []EveryDayHeard
<1>1. ASSUME NotificationsInv PROVE EveryDayHeard
  <2> SUFFICES ASSUME NEW s \in settled, NEW r \in Reminder \ Remembrance,
                      NEW m \in s.rows.times, NEW d \in NotifyDays(r, s.rows, Day(s.at)),
                      ~crowded, s.at < FireAt(d, m), FireAt(d, m) <= now,
                      NEW n \in s.plan, n.id # Tripwire, FireAt(d, m) <= n.at
               PROVE <<r, FireAt(d, m)>> \in heard
    BY DEF EveryDayHeard
  <2> DEFINE k == s.rows
             today == Day(s.at)
             x == Digest(d, m, k, today)
  <2>1. k \in RowsRead /\ s.at \in Nat /\ s.plan = planNotifications(k, s.at)
    BY <1>1, SettledIs
  <2>2. today \in Nat
    BY <2>1, DayIs
  <2>3. x.at = FireAt(d, m) /\ x.body = Carried(d, m, k, today)
    BY DEF Digest
  <2>4. r \in x.body
    BY <2>3 DEF Carried, DueOn
  <2>5. d \in today .. today + Window
    BY <2>1, <2>2, NotifyDaysAre
  <2> HIDE DEF today
  <2>6. x \in Digests(k, today)
    BY <2>1, <2>2, <2>3, <2>4, <2>5, DigestsAre
  <2> HIDE DEF x, k
  <2>7. x \in Live(k, s.at)
    BY <2>3, <2>6 DEF Live, today
  <2>8. x \in s.plan
    BY <2>1, <2>3, <2>7, SoonerIsPlanned
  <2>9. SeenTo(x) /\ x.at <= now /\ x.at \in Nat /\ now \in Nat
    BY <1>1, <2>3, <2>8, SettledIs DEF Item
  <2> QED
    BY <2>3, <2>4, <2>9 DEF SeenTo
<1> QED
  BY <1>1, NotificationsInductive, PTL

\* A phone left alone until its last digest had fired was told so by the tripwire,
\* unless its reminders never reached further than the lead (planner.ts).
THEOREM SilenceForewarnedHolds == NotificationsSpec => []SilenceForewarned
<1>1. ASSUME NotificationsInv PROVE SilenceForewarned
  <2> SUFFICES ASSUME NEW s \in settled, ~crowded,
                      {n \in s.plan : n.id # Tripwire} # {},
                      LastOf({n \in s.plan : n.id # Tripwire}) <= now,
                      LastOf({n \in s.plan : n.id # Tripwire}) - s.at > Lead * Slots
               PROVE told
    BY DEF SilenceForewarned
  <2>1. s.rows \in RowsRead /\ s.at \in Nat /\ s.plan = planNotifications(s.rows, s.at)
    BY <1>1, SettledIs
  <2>2. PICK b \in Nat :
         LET D == Soonest(Live(s.rows, s.at), b)
             P == planNotifications(s.rows, s.at)
         IN  /\ (P = D /\ tripwireFor(D, s.at) = {}) \/ P = D \cup tripwireFor(D, s.at)
             /\ D \subseteq Live(s.rows, s.at)
             /\ {y \in P : y.id # Tripwire} = D
    BY <2>1, PlanIs, Zenon
  <2> DEFINE D == Soonest(Live(s.rows, s.at), b)
  <2>3. /\ D \in SUBSET Live(s.rows, s.at) /\ D # {}
        /\ LastOf(D) <= now /\ LastOf(D) - s.at > Lead * Slots
        /\ (s.plan = D /\ tripwireFor(D, s.at) = {}) \/ s.plan = D \cup tripwireFor(D, s.at)
    BY <2>1, <2>2
  <2> HIDE DEF D
  <2>4. LastOf(D) \in Nat
    BY <2>1, <2>3, TripwireIs
  <2>5. Lead * Slots \in Nat
    BY NotificationsAssumption, SlotsPositive
  <2>6. LastOf(D) - Lead * Slots > s.at
    BY <2>1, <2>3, <2>4, <2>5
  <2>7. PICK w \in tripwireFor(D, s.at) : TRUE
    BY <2>1, <2>3, <2>6, TripwireIs
  <2>8. w \in s.plan /\ w.id = Tripwire /\ w.at = LastOf(D) - Lead * Slots
    BY <2>1, <2>3, <2>7, TripwireIs
  <2>9. now \in Nat /\ w.at <= now /\ SeenTo(w)
    BY <1>1, <2>3, <2>4, <2>5, <2>8, SettledIs
  <2>10. ~(w.at > now)
    BY <2>4, <2>5, <2>8, <2>9
  <2> QED
    BY <2>3, <2>8, <2>9, <2>10 DEF SeenTo
<1> QED
  BY <1>1, NotificationsInductive, PTL
=============================================================================
