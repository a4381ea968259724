------------------------ MODULE ContactImportProofs ------------------------
(* The invariants of ContactImport, proved for any cards, people and       *)
(* faults: what is remembered as imported is held, and a file's relations  *)
(* and dates are written once.                                             *)
EXTENDS ContactImport, SequenceTheorems, FiniteSetTheorems, TLAPS

-----------------------------------------------------------------------------
(* Sets put in some order.                                                 *)

\* A finite set in some order: each of its members once.
LEMMA InSomeOrder ==
  ASSUME NEW S, IsFiniteSet(S)
  PROVE  LET s == SetToSeq(S)
         IN  /\ s \in Seq(S)
             /\ \A x \in S : \E i \in DOMAIN s : s[i] = x
             /\ \A i, j \in DOMAIN s : s[i] = s[j] => i = j
<1> DEFINE n == Cardinality(S)
           P(f) == f \in [1..n -> S] /\ IsInjective(f)
           s == SetToSeq(S)
<1>1. n \in Nat /\ ExistsBijection(1..n, S)
  BY FS_CardinalityType
<1>2. \E f : P(f)
  BY <1>1 DEF ExistsBijection, Bijection, Injection
<1>3. s \in [1..n -> S] /\ IsInjective(s)
  BY <1>2 DEF SetToSeq
<1>4. s \in Seq(S)
  BY <1>1, <1>3
<1>5. IsFiniteSet(1..n) /\ Cardinality(1..n) = n
  BY <1>1, FS_Interval
<1>6. s \in Injection(1..n, S)
  BY <1>3 DEF Injection
<1>7. s \in Surjection(1..n, S)
  BY <1>5, <1>6, FS_Injection
<1>8. \A x \in S : \E i \in 1..n : s[i] = x
  BY <1>7 DEF Surjection
<1> QED
  BY <1>3, <1>4, <1>8 DEF IsInjective

\* The edges of a card, and those that name no card, are finitely many.
LEMMA EdgesFinite ==
  ASSUME NEW c \in Card
  PROVE  /\ IsFiniteSet({s \in Says[c].related : s.to # None})
         /\ IsFiniteSet({s \in Says[c].related : s.to = None})
         /\ IsFiniteSet(Says[c].dates)
<1> DEFINE T == {s \in Says[c].related : s.to # None}
           U == {s \in Says[c].related : s.to = None}
<1>1. IsFiniteSet(Says[c].related) /\ IsFiniteSet(Says[c].dates)
  BY FileAssumption
<1>2. T \in SUBSET Says[c].related /\ U \in SUBSET Says[c].related
  OBVIOUS
<1> QED
  BY <1>1, <1>2, FS_Subset

-----------------------------------------------------------------------------
(* Types.                                                                  *)

\* What a card says is a person's.
LEMMA FieldsType ==
  ASSUME NEW c \in Card
  PROVE  Fields(c) \in Person
BY DEF Fields, Person

Genders == {Says[c].gender : c \in Card} \cup {k.gender : k \in Known}
Holdings == (UNION {Says[c].holds : c \in Card}) \cup (UNION {k.holds : k \in Known})

\* A person with another gender and more contact methods is a person.
LEMMA WithType ==
  ASSUME NEW f \in Person, NEW g \in Genders, NEW h \in SUBSET Holdings
  PROVE  /\ With(f, g, h) \in Person
         /\ With(f, g, h).gender = g
         /\ With(f, g, h).holds = f.holds \cup h
<1> DEFINE names == {Says[c].name : c \in Card} \cup {k.name : k \in Known}
           i == f.holds \cup h
<1>1. Person = [name : names, gender : Genders, holds : SUBSET Holdings]
  BY DEF Person, Genders, Holdings
<1> HIDE DEF names
<1>2. f.name \in names /\ i \in SUBSET Holdings
  BY <1>1
<1>3. With(f, g, h) = [f EXCEPT !.gender = g, !.holds = i]
  BY <1>1 DEF With
<1> HIDE DEF i
<1>4. With(f, g, h) = [name |-> f.name, gender |-> g, holds |-> i]
  BY <1>1, <1>3
<1>5. With(f, g, h) \in Person
  BY <1>1, <1>2, <1>4
<1>6. With(f, g, h).gender = g /\ With(f, g, h).holds = i
  BY <1>4
<1> QED
  BY <1>5, <1>6 DEF i

\* What a card says, and what a person holds, is among them.
LEMMA FieldsAmong ==
  /\ \A c \in Card : Says[c].gender \in Genders /\ Says[c].holds \subseteq Holdings
  /\ \A f \in Person : f.gender \in Genders /\ f.holds \subseteq Holdings
BY DEF Person, Genders, Holdings

\* A target is one of the people of the pool.
LEMMA TargetType ==
  ASSUME NEW c, Target(c) # None
  PROVE  /\ Target(c) \in Slot
         /\ pool[Target(c)] # None
<1> DEFINE people == {p \in Slot : pool[p] # None /\ CanAttach(Says[c], pool[p])}
<1> HIDE DEF people
<1>1. Cardinality(people) = 1 /\ Target(c) = CHOOSE p \in people : TRUE
  BY DEF Target, people
<1>2. people # {}
  BY <1>1, FS_EmptySet
<1>3. Target(c) \in people
  BY <1>1, <1>2
<1> QED
  BY <1>3 DEF people

\* The relations with another card.
Joining == {r \in Edges : r.to # None}

\* What a card holds and writes as it lands, and in what order no matter.
LEMMA LandedSeqs ==
  ASSUME NEW c \in Card, NEW p \in Slot
  PROVE  /\ Named(c, p) \in Seq(Entry)
         /\ \A i \in DOMAIN Named(c, p) : \E r \in Says[c].related :
               r.to = None /\ Named(c, p)[i] = Wrote("named", Relation(c, r), {p})
         /\ \A r \in Says[c].related : r.to = None =>
               \E i \in DOMAIN Named(c, p) : Named(c, p)[i] = Wrote("named", Relation(c, r), {p})
         /\ \A i, j \in DOMAIN Named(c, p) : Named(c, p)[i] = Named(c, p)[j] => i = j
         /\ Held(c, p) \in Seq([from : Card, owner : Slot, rel : Joining])
         /\ \A i \in DOMAIN Held(c, p) :
               /\ Held(c, p)[i].from = c /\ Held(c, p)[i].owner = p
               /\ Held(c, p)[i].rel \in Says[c].related /\ Held(c, p)[i].rel.to # None
         /\ \A r \in Says[c].related : r.to # None =>
               \E i \in DOMAIN Held(c, p) : Held(c, p)[i].from = c /\ Held(c, p)[i].rel = r
         /\ HeldDates(c, p) \in Seq([owner : Slot, date : Dates])
         /\ \A d \in Says[c].dates :
               \E i \in DOMAIN HeldDates(c, p) : HeldDates(c, p)[i].date = d
<1> DEFINE related == Says[c].related
           N == {s \in related : s.to = None}
           E == {s \in related : s.to # None}
           D == Says[c].dates
           SN == {Wrote("named", Relation(c, r), {p}) : r \in N}
           SE == {[from |-> c, owner |-> p, rel |-> r] : r \in E}
           SD == {[owner |-> p, date |-> d] : d \in D}
           named == SetToSeq(SN)
           held == SetToSeq(SE)
           dates == SetToSeq(SD)
<1>0. IsFiniteSet(N) /\ IsFiniteSet(E) /\ IsFiniteSet(D)
  BY EdgesFinite
<1> HIDE DEF N, E, D
<1>1. /\ IsFiniteSet(SN)
      /\ IsFiniteSet(SE)
      /\ IsFiniteSet(SD)
  <2> DEFINE fn == [r \in N |-> Wrote("named", Relation(c, r), {p})]
             fe == [r \in E |-> [from |-> c, owner |-> p, rel |-> r]]
             fd == [d \in D |-> [owner |-> p, date |-> d]]
  <2>1. fn \in Surjection(N, SN)
    BY DEF Surjection
  <2>2. fe \in Surjection(E, SE)
    BY DEF Surjection
  <2>3. fd \in Surjection(D, SD)
    BY DEF Surjection
  <2> HIDE DEF fn, fe, fd, SN, SE, SD
  <2> QED
    BY <1>0, <2>1, <2>2, <2>3, FS_Surjection
<1> USE DEF N, E, D
<1>2. /\ named \in Seq(SN) /\ \A x \in SN : \E i \in DOMAIN named : named[i] = x
      /\ \A i, j \in DOMAIN named : named[i] = named[j] => i = j
  BY <1>1, InSomeOrder
<1>3. held \in Seq(SE) /\ \A x \in SE : \E i \in DOMAIN held : held[i] = x
  BY <1>1, InSomeOrder
<1>4. dates \in Seq(SD) /\ \A x \in SD : \E i \in DOMAIN dates : dates[i] = x
  BY <1>1, InSomeOrder
<1>5. named = Named(c, p) /\ held = Held(c, p) /\ dates = HeldDates(c, p)
  BY DEF Named, Held, HeldDates
<1>6. related \subseteq Edges /\ D \subseteq Dates
  BY DEF Edges, Dates
<1>7. \A r \in N : Wrote("named", Relation(c, r), {p}) \in Entry
  BY <1>6 DEF Wrote, Relation, Entry, Subject
<1>8. SN \subseteq Entry
  BY <1>7
<1>9. SE \subseteq [from : Card, owner : Slot, rel : Joining]
  BY <1>6 DEF Joining
<1>10. SD \subseteq [owner : Slot, date : Dates]
  BY <1>6
<1> HIDE DEF SN, SE, SD, named, held, dates
<1>11. /\ named \in Seq(Entry) /\ held \in Seq([from : Card, owner : Slot, rel : Joining])
       /\ dates \in Seq([owner : Slot, date : Dates])
  BY <1>2, <1>3, <1>4, <1>8, <1>9, <1>10, SeqMonotonic
<1>12. /\ \A i \in DOMAIN named : named[i] \in SN
       /\ \A i \in DOMAIN held : held[i] \in SE
       /\ \A i \in DOMAIN dates : dates[i] \in SD
  BY <1>2, <1>3, <1>4
<1>13. \A i \in DOMAIN named : \E r \in related :
          r.to = None /\ named[i] = Wrote("named", Relation(c, r), {p})
  BY <1>12 DEF SN
<1>14. \A r \in related : r.to = None =>
          \E i \in DOMAIN named : named[i] = Wrote("named", Relation(c, r), {p})
  <2> TAKE r \in related
  <2> HAVE r.to = None
  <2>1. Wrote("named", Relation(c, r), {p}) \in SN
    BY DEF SN
  <2> QED
    BY <2>1, <1>2
<1>15. \A i \in DOMAIN held :
          /\ held[i].from = c /\ held[i].owner = p
          /\ held[i].rel \in related /\ held[i].rel.to # None
  BY <1>12 DEF SE
<1>16. \A r \in related : r.to # None =>
          \E i \in DOMAIN held : held[i].from = c /\ held[i].rel = r
  <2> TAKE r \in related
  <2> HAVE r.to # None
  <2>1. [from |-> c, owner |-> p, rel |-> r] \in SE
    BY DEF SE
  <2> QED
    BY <2>1, <1>3
<1>17. \A d \in D : \E i \in DOMAIN dates : dates[i].date = d
  <2> TAKE d \in D
  <2>1. [owner |-> p, date |-> d] \in SD
    BY DEF SD
  <2> QED
    BY <2>1, <1>4
<1> HIDE DEF related, N, E, D
<1>18. \A i, j \in DOMAIN named : named[i] = named[j] => i = j
  BY <1>2
<1> USE DEF related, D
<1> QED
  <2>1. /\ Named(c, p) \in Seq(Entry)
        /\ \A i \in DOMAIN Named(c, p) : \E r \in Says[c].related :
              r.to = None /\ Named(c, p)[i] = Wrote("named", Relation(c, r), {p})
    BY <1>5, <1>11, <1>13
  <2>2. \A r \in Says[c].related : r.to = None =>
           \E i \in DOMAIN Named(c, p) : Named(c, p)[i] = Wrote("named", Relation(c, r), {p})
    BY <1>5, <1>14
  <2>3. \A i, j \in DOMAIN Named(c, p) : Named(c, p)[i] = Named(c, p)[j] => i = j
    BY <1>5, <1>18
  <2>4. /\ Held(c, p) \in Seq([from : Card, owner : Slot, rel : Joining])
        /\ \A i \in DOMAIN Held(c, p) :
              /\ Held(c, p)[i].from = c /\ Held(c, p)[i].owner = p
              /\ Held(c, p)[i].rel \in Says[c].related /\ Held(c, p)[i].rel.to # None
    BY <1>5, <1>11, <1>15
  <2>5. \A r \in Says[c].related : r.to # None =>
           \E i \in DOMAIN Held(c, p) : Held(c, p)[i].from = c /\ Held(c, p)[i].rel = r
    BY <1>5, <1>16
  <2>6. /\ HeldDates(c, p) \in Seq([owner : Slot, date : Dates])
        /\ \A d \in Says[c].dates :
              \E i \in DOMAIN HeldDates(c, p) : HeldDates(c, p)[i].date = d
    BY <1>5, <1>11, <1>17
  <2> QED
    BY <2>1, <2>2, <2>3, <2>4, <2>5, <2>6

-----------------------------------------------------------------------------
(* What is remembered is held.                                             *)

\* The pool says of nobody who is still there more than is stored of them.
Pooled ==
    \A p \in Slot : pool[p] # None =>
        /\ stored[p] # None
        /\ p \notin gone =>
              /\ Values(pool[p].holds) \subseteq Values(stored[p].holds)
              /\ pool[p].gender # None => stored[p].gender # None

\* Whoever was stored is, and who is not gone stands for themself.
Traced ==
    /\ \A p \in gone : stored[p] # None
    /\ \A p \in Slot \ gone : heir[p] = p
    /\ \A p \in Slot : stored[p] # None => stored[heir[p]] # None
    /\ \A c \in Contact : link[c] \in Slot => stored[link[c]] # None

RInv == TypeOK /\ Pooled /\ Traced /\ RecordsKept

\* A union has the values of both.
LEMMA ValuesUnion ==
  ASSUME NEW a, NEW b
  PROVE  Values(a \cup b) = Values(a) \cup Values(b)
BY DEF Values

\* What the pool says of a person has what the card adds.
LEMMA PoolFilled ==
  ASSUME TypeOK, NEW c \in Card, NEW p \in Slot, Landed(c, p), pool[p] # None
  PROVE  /\ pool'[p] \in Person
         /\ pool'[p].holds = pool[p].holds \cup Says[c].holds
         /\ pool'[p].gender = IF pool[p].gender = None THEN Says[c].gender ELSE pool[p].gender
<1>1. pool[p] \in Person /\ pool \in [Slot -> Person \cup {None}]
  BY DEF TypeOK
<1>2. pool'[p] = With(pool[p], Gender(pool[p], Says[c].gender), Says[c].holds)
  BY <1>1 DEF Landed, PoolLanded
<1>3. Gender(pool[p], Says[c].gender) \in Genders /\ Says[c].holds \in SUBSET Holdings
  BY <1>1, FieldsAmong DEF Gender
<1>4. /\ pool'[p] \in Person /\ pool'[p].holds = pool[p].holds \cup Says[c].holds
      /\ pool'[p].gender = Gender(pool[p], Says[c].gender)
  BY <1>1, <1>2, <1>3, WithType
<1> QED
  BY <1>4 DEF Gender

\* A card lands on a person whose row then has what it says, if they are there.
LEMMA LandedKeeps ==
  ASSUME RInv, NEW c \in todo, NEW p \in Slot, Landed(c, p),
         stored' \in [Slot -> Person \cup {None}], stored'[p] # None,
         \A q \in Slot : q # p => stored'[q] = stored[q],
         stored[p] # None =>
            /\ Values(stored[p].holds) \subseteq Values(stored'[p].holds)
            /\ stored[p].gender # None => stored'[p].gender # None,
         p \notin gone =>
            /\ Values(Says[c].holds) \subseteq Values(stored'[p].holds)
            /\ Says[c].gender # None => stored'[p].gender # None,
         stale \subseteq stale', stale' \subseteq stale \cup {c},
         p \in gone => c \in stale'
  PROVE  RInv'
<1>1. c \in Card /\ TypeOK
  BY DEF RInv, TypeOK
<1>2. /\ todo' = todo \ {c} /\ byUid' = [byUid EXCEPT ![c] = p] /\ pool' = PoolLanded(p, c)
      /\ link' = IF c \in Contact THEN [link EXCEPT ![c] = p] ELSE link
      /\ log' = log \o Named(c, p)
      /\ pending' = pending \o Held(c, p) /\ pendingDates' = pendingDates \o HeldDates(c, p)
      /\ mobile' = mobile /\ gone' = gone /\ heir' = heir /\ at' = at /\ written' = written
      /\ relIdByFileId' = relIdByFileId /\ writtenDates' = writtenDates /\ failed' = failed
      /\ imports' = imports /\ edits' = edits /\ faults' = faults
  BY DEF Landed
<1>3. pool' \in [Slot -> Person \cup {None}]
  <2>1. Fields(c) \in Person
    BY <1>1, FieldsType
  <2>2. pool[p] = None => pool'[p] = Fields(c)
    BY <1>1, <1>2 DEF PoolLanded, TypeOK
  <2>3. pool[p] # None => pool'[p] \in Person
    BY <1>1, PoolFilled DEF RInv
  <2>4. /\ DOMAIN pool' = Slot
        /\ \A q \in Slot : q # p => pool'[q] = pool[q]
    BY <1>1, <1>2 DEF PoolLanded, TypeOK
  <2>5. pool' = [q \in Slot |-> pool'[q]]
    BY <1>1, <1>2 DEF PoolLanded, TypeOK
  <2> QED
    BY <1>1, <2>1, <2>2, <2>3, <2>4, <2>5 DEF TypeOK
<1>4. TypeOK'
  <2>1. /\ Named(c, p) \in Seq(Entry) /\ HeldDates(c, p) \in Seq([owner : Slot, date : Dates])
        /\ Held(c, p) \in Seq([from : Card, owner : Slot, rel : Joining])
    BY <1>1, LandedSeqs
  <2>2. log' \in Seq(Entry)
    BY <1>1, <1>2, <2>1 DEF TypeOK
  <2>3. pending' \in Seq([from : Card, owner : Slot, rel : Joining])
    BY <1>1, <1>2, <2>1 DEF TypeOK, Joining
  <2>4. pendingDates' \in Seq([owner : Slot, date : Dates])
    BY <1>1, <1>2, <2>1 DEF TypeOK
  <2>5. link' \in [Contact -> Slot \cup {None, LeftOut}] /\ byUid' \in [Card -> Slot \cup {None}]
    BY <1>1, <1>2 DEF TypeOK
  <2> QED
    BY <1>1, <1>2, <1>3, <2>2, <2>3, <2>4, <2>5 DEF TypeOK, Joining
<1>5. stored[p] = None => pool[p] = None /\ p \notin gone /\ heir[p] = p
  BY DEF RInv, Pooled, Traced
<1>6. Pooled'
  <2> SUFFICES ASSUME NEW q \in Slot, pool'[q] # None
               PROVE  /\ stored'[q] # None
                      /\ q \notin gone =>
                            /\ Values(pool'[q].holds) \subseteq Values(stored'[q].holds)
                            /\ pool'[q].gender # None => stored'[q].gender # None
    BY <1>2 DEF Pooled
  <2>1. CASE q # p
    <3>1. pool'[q] = pool[q]
      BY <1>1, <1>2, <2>1 DEF PoolLanded, TypeOK
    <3> QED
      BY <2>1, <3>1 DEF RInv, Pooled
  <2>2. CASE q = p /\ pool[p] = None
    <3>1. pool'[p] = Fields(c)
      BY <1>1, <1>2, <2>2 DEF PoolLanded, TypeOK
    <3>2. Fields(c).holds = Says[c].holds /\ Fields(c).gender = Says[c].gender
      BY DEF Fields
    <3> QED
      BY <2>2, <3>1, <3>2
  <2>3. CASE q = p /\ pool[p] # None
    <3>1. /\ pool'[p].holds = pool[p].holds \cup Says[c].holds
          /\ pool'[p].gender = IF pool[p].gender = None THEN Says[c].gender ELSE pool[p].gender
      BY <1>1, <2>3, PoolFilled DEF RInv
    <3>2. stored[p] # None
      BY <2>3 DEF RInv, Pooled
    <3>3. p \notin gone =>
             /\ Values(pool[p].holds) \subseteq Values(stored[p].holds)
             /\ pool[p].gender # None => stored[p].gender # None
      BY <2>3 DEF RInv, Pooled
    <3>4. Values(pool'[p].holds) = Values(pool[p].holds) \cup Values(Says[c].holds)
      BY <3>1, ValuesUnion
    <3> QED
      BY <2>3, <3>1, <3>2, <3>3, <3>4
  <2> QED
    BY <2>1, <2>2, <2>3
<1>7. \A q \in Slot : stored[q] # None => stored'[q] # None
  OBVIOUS
<1>8. heir \in [Slot -> Slot] /\ link \in [Contact -> Slot \cup {None, LeftOut}]
  BY <1>1 DEF TypeOK
<1>9. Traced'
  <2>1. \A q \in Slot : stored'[q] # None => stored'[heir[q]] # None
    BY <1>5, <1>7, <1>8 DEF RInv, Traced
  <2>2. \A d \in Contact : link'[d] \in Slot => stored'[link'[d]] # None
    BY <1>2, <1>7, <1>8 DEF RInv, Traced
  <2> QED
    BY <1>1, <1>2, <1>7, <2>1, <2>2 DEF RInv, Traced, TypeOK
<1>10. RecordsKept'
  <2> SUFFICES ASSUME NEW d \in Contact, link'[d] \in Slot, d \notin stale',
                      heir[link'[d]] \notin gone
               PROVE  LET q == heir[link'[d]]
                      IN  /\ Values(Says[d].holds) \subseteq Values(stored'[q].holds)
                          /\ Says[d].gender # None => stored'[q].gender # None
    BY <1>2 DEF RecordsKept
  <2>1. CASE link'[d] = link[d]
    <3>1. stored[heir[link[d]]] # None /\ heir[link[d]] \in Slot
      BY <1>8, <2>1 DEF RInv, Traced
    <3>2. LET q == heir[link[d]]
          IN  /\ Values(Says[d].holds) \subseteq Values(stored[q].holds)
              /\ Says[d].gender # None => stored[q].gender # None
      BY <1>2, <2>1 DEF RInv, RecordsKept
    <3> QED
      BY <2>1, <3>1, <3>2
  <2>2. CASE link'[d] # link[d]
    <3>1. d = c /\ link'[d] = p
      BY <1>2, <1>8, <2>2
    <3>2. p \notin gone
      BY <3>1
    <3>3. heir[p] = p
      BY <3>2 DEF RInv, Traced
    <3> QED
      BY <3>1, <3>2, <3>3
  <2> QED
    BY <2>1, <2>2
<1> QED
  BY <1>4, <1>6, <1>9, <1>10 DEF RInv

\* A new person's row has what the card says.
LEMMA LandNewKeeps ==
  ASSUME RInv, NEW c \in todo, LandNew(c)
  PROVE  RInv'
<1> DEFINE free == {p \in Slot : stored[p] = None}
           new == CHOOSE p \in free : TRUE
<1>1. new \in free
  BY DEF LandNew
<1>2. new \in Slot /\ stored[new] = None
  BY <1>1
<1>3. stored' = [stored EXCEPT ![new] = Fields(c)] /\ Landed(c, new) /\ stale' = stale
  BY DEF LandNew
<1> HIDE DEF new
<1>4. c \in Card /\ stored \in [Slot -> Person \cup {None}]
  BY DEF RInv, TypeOK
<1>5. Fields(c) \in Person /\ Fields(c) # None
  BY <1>4, FieldsType, PeopleAssumption
<1>6. Fields(c).holds = Says[c].holds /\ Fields(c).gender = Says[c].gender
  BY DEF Fields
<1>7. stored' \in [Slot -> Person \cup {None}] /\ stored'[new] = Fields(c)
  BY <1>2, <1>3, <1>4, <1>5
<1>8. \A q \in Slot : q # new => stored'[q] = stored[q]
  BY <1>2, <1>3, <1>4
<1>9. new \notin gone
  BY <1>2 DEF RInv, Traced
<1> QED
  BY <1>2, <1>3, <1>5, <1>6, <1>7, <1>8, <1>9, LandedKeeps

\* What the target's row lacks of the card is added to it: the pool, by which
\* that is told, says no more than the row.
LEMMA LandOnKeeps ==
  ASSUME RInv, NEW c \in todo, LandOn(c)
  PROVE  RInv'
<1> DEFINE p == Target(c)
           lacking == {h \in Says[c].holds : h[2] \notin Values(pool[p].holds)}
           gap == pool[p].gender = None /\ Says[c].gender # None /\ p \notin gone
<1>1. /\ p # None /\ stored' = Added(p, c) /\ Landed(c, p)
      /\ stale' = IF p \in gone THEN stale \cup {c} ELSE stale
  BY DEF LandOn
<1>2. p \in Slot /\ pool[p] # None
  BY <1>1, TargetType
<1> HIDE DEF p
<1>3. c \in Card /\ stored \in [Slot -> Person \cup {None}]
  BY DEF RInv, TypeOK
<1>4. stored[p] \in Person /\ stored[p] # None
  BY <1>2, <1>3 DEF RInv, Pooled
<1> DEFINE g == IF gap THEN Says[c].gender ELSE stored[p].gender
<1>5. lacking \in SUBSET Holdings /\ g \in Genders
  BY <1>3, <1>4, FieldsAmong
<1>6. /\ stored'[p] = With(stored[p], g, lacking)
      /\ \A q \in Slot : q # p => stored'[q] = stored[q]
      /\ stored' = [stored EXCEPT ![p] = stored'[p]]
  BY <1>1, <1>2, <1>3 DEF Added
<1> HIDE DEF lacking, g
<1>7. /\ stored'[p] \in Person
      /\ stored'[p].holds = stored[p].holds \cup lacking
      /\ stored'[p].gender = g
  BY <1>4, <1>5, <1>6, WithType
<1> USE DEF g
<1>8. stored'[p].gender = IF gap THEN Says[c].gender ELSE stored[p].gender
  BY <1>7
<1>9. stored' \in [Slot -> Person \cup {None}] /\ stored'[p] # None
  BY <1>2, <1>3, <1>6, <1>7, PeopleAssumption
<1>10. Values(stored'[p].holds) = Values(stored[p].holds) \cup Values(lacking)
  BY <1>7, ValuesUnion
<1>11. Values(Says[c].holds) \subseteq Values(pool[p].holds) \cup Values(lacking)
  BY DEF Values, lacking
<1>12. p \notin gone =>
          /\ Values(pool[p].holds) \subseteq Values(stored[p].holds)
          /\ pool[p].gender # None => stored[p].gender # None
  BY <1>2 DEF RInv, Pooled
<1>13. p \notin gone =>
          /\ Values(Says[c].holds) \subseteq Values(stored'[p].holds)
          /\ Says[c].gender # None => stored'[p].gender # None
  BY <1>8, <1>10, <1>11, <1>12
<1>14. /\ Values(stored[p].holds) \subseteq Values(stored'[p].holds)
       /\ stored[p].gender # None => stored'[p].gender # None
  BY <1>8, <1>10
<1>15. /\ stale \subseteq stale' /\ stale' \subseteq stale \cup {c}
       /\ p \in gone => c \in stale'
  BY <1>1
<1> QED
  BY <1>1, <1>2, <1>6, <1>9, <1>13, <1>14, <1>15, LandedKeeps

\* Nobody's row changes, nor whom a contact became, and the pool is as it
\* was, forgotten or read afresh.
LEMMA RowsKept ==
  ASSUME RInv, TypeOK', stored' = stored, gone' = gone, heir' = heir, stale' = stale,
         \A c \in Contact : link'[c] \in Slot => link'[c] = link[c],
         \/ pool' = pool
         \/ pool' = [p \in Slot |-> None]
         \/ pool' = [p \in Slot |-> IF Alive(p) THEN stored[p] ELSE None]
  PROVE  RInv'
<1>1. \A p \in Slot : pool'[p] = pool[p] \/ pool'[p] = None \/ pool'[p] = stored[p]
  OBVIOUS
<1>2. Pooled'
  BY <1>1 DEF RInv, Pooled
<1>3. Traced'
  BY DEF RInv, Traced
<1>4. RecordsKept'
  BY DEF RInv, RecordsKept
<1> QED
  BY <1>2, <1>3, <1>4 DEF RInv

\* Every step that begins or ends an import keeps the types.
LEMMA BeginKeeps ==
  ASSUME RInv, NEW cards \in SUBSET Card, Begin(cards)
  PROVE  RInv'
<1>1. TypeOK'
  <2>1. [p \in Slot |-> IF Alive(p) THEN stored[p] ELSE None] \in [Slot -> Person \cup {None}]
    BY DEF RInv, TypeOK
  <2> QED
    BY <2>1 DEF RInv, TypeOK, Begin, book
<1> QED
  BY <1>1, RowsKept DEF Begin, book

LEMMA EndKeeps ==
  ASSUME RInv, End
  PROVE  RInv'
<1>1. TypeOK'
  BY DEF RInv, TypeOK, End, book, second
<1> QED
  BY <1>1, RowsKept DEF End, book

LEMMA KillKeeps ==
  ASSUME RInv, Kill
  PROVE  RInv'
<1>1. TypeOK'
  BY DEF RInv, TypeOK, Kill, Fault, book
<1> QED
  BY <1>1, RowsKept DEF Kill, book

\* A card that is left out, or whose transaction is rolled back, becomes nobody.
LEMMA LeaveOutKeeps ==
  ASSUME RInv, NEW c \in todo, LeaveOut(c)
  PROVE  RInv'
<1>1. TypeOK'
  BY DEF RInv, TypeOK, LeaveOut, book, second
<1>2. \A d \in Contact : link'[d] \in Slot => link'[d] = link[d]
  BY PeopleAssumption DEF RInv, TypeOK, LeaveOut
<1> QED
  BY <1>1, <1>2, RowsKept DEF LeaveOut, book

LEMMA CardFailsKeeps ==
  ASSUME RInv, NEW c \in todo, CardFails(c)
  PROVE  RInv'
<1>1. TypeOK'
  BY DEF RInv, TypeOK, CardFails, Fault, book, second
<1> QED
  BY <1>1, RowsKept DEF CardFails, book

\* The edges and dates are written beside the people.
LEMMA EdgeStepKeeps ==
  ASSUME RInv, NEW done \in BOOLEAN, EdgeStep(done), faults' \in Nat
  PROVE  RInv'
<1> DEFINE e == Head(pending)
           key == EdgeKey(e.from, e.rel)
           of == Relation(e.from, e.rel)
           other == byUid[e.rel.to]
           named == Wrote("named", of, {e.owner})
           edge == Wrote("edge", of, {e.owner, other})
<1>1. TypeOK /\ pending # <<>> /\ pending' = Tail(pending)
  BY DEF RInv, EdgeStep
<1>2. /\ e \in [from : Card, owner : Slot, rel : Joining]
      /\ pending' \in Seq([from : Card, owner : Slot, rel : Joining])
  <2>1. pending \in Seq([from : Card, owner : Slot, rel : Joining])
    BY <1>1 DEF TypeOK, Joining
  <2> QED
    BY <1>1, <2>1, HeadTailProperties
<1>3. /\ e.from \in Card /\ e.owner \in Slot /\ e.rel \in Edges /\ e.rel.to \in Card
      /\ e.rel.id \in Ids
  BY <1>2, FileAssumption DEF Joining, Edges, Ids
<1>4. key \in SUBSET (Card \cup Ids) /\ of \in Subject
  BY <1>3 DEF EdgeKey, Relation, Subject
<1>5. other # None => other \in Slot
  BY <1>1, <1>3 DEF TypeOK
<1>6. named \in Entry /\ (other # None => edge \in Entry)
  BY <1>3, <1>4, <1>5 DEF Wrote, Entry
<1>7. /\ written' = written \cup {key}
      /\ \/ log' = log
         \/ log' = Append(log, named)
         \/ other # None /\ log' = Append(log, edge)
      /\ \/ relIdByFileId' = relIdByFileId
         \/ relIdByFileId' = relIdByFileId \cup ({e.rel.id} \ {None})
      /\ failed' = failed \/ failed' = failed \cup {of}
  BY DEF EdgeStep
<1>8. /\ UNCHANGED <<mobile, book, link, at, todo, pool, byUid, pendingDates, writtenDates>>
      /\ UNCHANGED <<stale, imports, edits>>
  BY DEF EdgeStep
<1> HIDE DEF e, key, of, other, named, edge
<1>9. log' \in Seq(Entry)
  <2>1. log \in Seq(Entry)
    BY <1>1 DEF TypeOK
  <2>2. \A x \in Entry : Append(log, x) \in Seq(Entry)
    BY <2>1
  <2> QED
    BY <1>6, <1>7, <2>1, <2>2
<1>10. TypeOK'
  BY <1>1, <1>2, <1>3, <1>4, <1>7, <1>8, <1>9 DEF TypeOK, book, Joining
<1> QED
  BY <1>8, <1>10, RowsKept DEF book

LEMMA DateStepKeeps ==
  ASSUME RInv, NEW done \in BOOLEAN, DateStep(done), faults' \in Nat
  PROVE  RInv'
<1> DEFINE d == Head(pendingDates)
           of == Date(d.date)
           borne == Wrote("edge's date", of, {})
           own == Wrote("date", of, {d.owner})
<1>1. TypeOK /\ pendingDates # <<>> /\ pendingDates' = Tail(pendingDates)
  BY DEF RInv, DateStep
<1>2. /\ d \in [owner : Slot, date : Dates]
      /\ pendingDates' \in Seq([owner : Slot, date : Dates])
  BY <1>1, HeadTailProperties DEF TypeOK
<1>3. d.owner \in Slot /\ d.date \in Dates
  BY <1>2
<1>4. of \in Subject
  BY <1>3 DEF Date, Subject
<1>5. borne \in Entry /\ own \in Entry
  BY <1>3, <1>4 DEF Wrote, Entry
<1>6. /\ writtenDates' = writtenDates \cup {d.date.id}
      /\ log' = log \/ log' = Append(log, borne) \/ log' = Append(log, own)
      /\ failed' = failed \/ failed' = failed \cup {of}
  BY DEF DateStep
<1>7. /\ UNCHANGED <<mobile, book, link, at, todo, pool, byUid, pending, written, relIdByFileId>>
      /\ UNCHANGED <<stale, imports, edits>>
  BY DEF DateStep
<1> HIDE DEF d, of, borne, own
<1>8. log' \in Seq(Entry)
  <2>1. log \in Seq(Entry)
    BY <1>1 DEF TypeOK
  <2>2. \A x \in Entry : Append(log, x) \in Seq(Entry)
    BY <2>1
  <2> QED
    BY <1>5, <1>6, <2>1, <2>2
<1>9. TypeOK'
  BY <1>1, <1>2, <1>3, <1>4, <1>6, <1>7, <1>8 DEF TypeOK, book
<1> QED
  BY <1>7, <1>9, RowsKept DEF book

\* Whoever is deleted is excused.
LEMMA DeleteKeeps ==
  ASSUME RInv, NEW p \in Slot, Delete(p)
  PROVE  RInv'
<1>1. TypeOK'
  BY DEF RInv, TypeOK, Delete, Edit, second
<1>2. /\ stored' = stored /\ heir' = heir /\ gone' = gone \cup {p} /\ link' = link
      /\ pool' = pool /\ stale' = stale /\ stored[p] # None
  BY DEF Delete, Edit, Alive
<1>3. Pooled' /\ Traced'
  BY <1>2 DEF RInv, Pooled, Traced
<1>4. RecordsKept'
  BY <1>2 DEF RInv, RecordsKept
<1> QED
  BY <1>1, <1>3, <1>4 DEF RInv

\* The survivor of a merge holds what both did, and is the heir of both.
LEMMA MergeKeeps ==
  ASSUME RInv, NEW p \in Slot, NEW l \in Slot, Merge(p, l)
  PROVE  RInv'
<1> DEFINE g == Gender(stored[p], stored[l].gender)
<1>1. /\ p # l /\ stored[p] # None /\ stored[l] # None /\ p \notin gone /\ l \notin gone
      /\ gone' = gone \cup {l} /\ link' = link /\ pool' = pool /\ stale' = stale
      /\ heir' = [q \in Slot |-> IF heir[q] = l THEN p ELSE heir[q]]
  BY DEF Merge, Edit, Alive
<1>2. TypeOK /\ stored \in [Slot -> Person \cup {None}] /\ heir \in [Slot -> Slot]
  BY DEF RInv, TypeOK
<1>3. stored[p] \in Person /\ stored[l] \in Person
  BY <1>1, <1>2
<1>4. /\ stored'[p] = With(stored[p], g, stored[l].holds)
      /\ stored'[l] = [stored[l] EXCEPT !.holds = {}]
      /\ \A q \in Slot \ {p, l} : stored'[q] = stored[q]
      /\ DOMAIN stored' = Slot
  BY <1>1, <1>2 DEF Merge
<1>5. g \in Genders /\ stored[l].holds \in SUBSET Holdings
  BY <1>3, FieldsAmong DEF Gender
<1> HIDE DEF g
<1>6. /\ stored'[p] \in Person /\ stored'[p].gender = g
      /\ stored'[p].holds = stored[p].holds \cup stored[l].holds
  BY <1>3, <1>4, <1>5, WithType
<1>7. stored'[l] \in Person
  BY <1>3, <1>4 DEF Person
<1>8. stored' \in [Slot -> Person \cup {None}]
  <2>1. stored' = [q \in Slot |-> stored'[q]]
    BY <1>2 DEF Merge
  <2> QED
    BY <1>2, <1>4, <1>6, <1>7, <2>1
<1>9. TypeOK'
  <2>1. gone' \subseteq Slot /\ heir' \in [Slot -> Slot]
    BY <1>1, <1>2 DEF TypeOK
  <2>2. edits' \in Nat
    BY <1>2 DEF TypeOK, Merge, Edit
  <2>3. UNCHANGED <<mobile, link, at, todo, pool, byUid, second, stale, imports, faults>>
    BY DEF Merge, Edit
  <2> QED
    BY <1>2, <1>8, <2>1, <2>2, <2>3 DEF TypeOK, second
<1>10. \A q \in Slot : stored'[q] # None <=> stored[q] # None
  BY <1>1, <1>4, <1>6, <1>7, PeopleAssumption
<1>11. /\ Values(stored'[p].holds) = Values(stored[p].holds) \cup Values(stored[l].holds)
       /\ stored[p].gender # None \/ stored[l].gender # None => stored'[p].gender # None
  BY <1>6, ValuesUnion DEF g, Gender
<1>12. Pooled'
  BY <1>1, <1>4, <1>10, <1>11 DEF RInv, Pooled
<1>13. Traced'
  <2>1. \A q \in Slot \ gone' : heir'[q] = q
    BY <1>1 DEF RInv, Traced
  <2>2. \A q \in Slot : stored'[q] # None => stored'[heir'[q]] # None
    BY <1>1, <1>2, <1>10 DEF RInv, Traced
  <2>3. \A c \in Contact : link[c] \in Slot => stored'[link[c]] # None
    BY <1>10 DEF RInv, Traced
  <2>4. \A q \in gone' : stored'[q] # None
    BY <1>1, <1>2, <1>10 DEF RInv, Traced, TypeOK
  <2> QED
    BY <1>1, <2>1, <2>2, <2>3, <2>4 DEF Traced
<1>14. RecordsKept'
  <2> SUFFICES ASSUME NEW c \in Contact, link[c] \in Slot, c \notin stale,
                      heir'[link[c]] \notin gone'
               PROVE  LET q == heir'[link[c]]
                      IN  /\ Values(Says[c].holds) \subseteq Values(stored'[q].holds)
                          /\ Says[c].gender # None => stored'[q].gender # None
    BY <1>1 DEF RecordsKept
  <2>1. heir[link[c]] \notin gone /\ heir[link[c]] \in Slot
    BY <1>1, <1>2
  <2>2. LET q == heir[link[c]]
        IN  /\ Values(Says[c].holds) \subseteq Values(stored[q].holds)
            /\ Says[c].gender # None => stored[q].gender # None
    BY <2>1 DEF RInv, RecordsKept
  <2>3. CASE heir[link[c]] = l
    BY <1>1, <1>11, <2>2, <2>3
  <2>4. CASE heir[link[c]] = p
    BY <1>1, <1>11, <2>2, <2>4
  <2>5. CASE heir[link[c]] \notin {l, p}
    BY <1>1, <1>4, <2>1, <2>2, <2>5
  <2> QED
    BY <2>3, <2>4, <2>5
<1> QED
  BY <1>9, <1>12, <1>13, <1>14 DEF RInv

\* It holds to begin with: nobody is gone, and no contact became anybody.
LEMMA InitRecords ==
  ASSUME Init
  PROVE  RInv
<1>1. TypeOK
  BY PeopleAssumption DEF Init, TypeOK
<1>2. Pooled /\ Traced /\ RecordsKept
  BY PeopleAssumption DEF Init, Pooled, Traced, RecordsKept
<1> QED
  BY <1>1, <1>2 DEF RInv

\* Every step keeps it.
LEMMA NextRecords ==
  ASSUME RInv, [Next]_vars
  PROVE  RInv'
<1>1. CASE BeginSync
  BY <1>1, BeginKeeps DEF BeginSync, Card
<1>2. CASE BeginFile
  BY <1>2, BeginKeeps DEF BeginFile, Card
<1>3. CASE Write
  <2>1. faults' \in Nat
    BY <1>3 DEF Write, RInv, TypeOK
  <2> QED
    BY <1>3, <2>1, EdgeStepKeeps, DateStepKeeps DEF Write
<1>4. CASE WriteFails
  <2>1. faults' \in Nat
    BY <1>4 DEF WriteFails, Fault, RInv, TypeOK
  <2> QED
    BY <1>4, <2>1, EdgeStepKeeps, DateStepKeeps DEF WriteFails
<1>5. CASE End
  BY <1>5, EndKeeps
<1>6. CASE Kill
  BY <1>6, KillKeeps
<1>7. CASE \E c \in todo : LandNew(c) \/ LandOn(c) \/ LeaveOut(c) \/ CardFails(c)
  BY <1>7, LandNewKeeps, LandOnKeeps, LeaveOutKeeps, CardFailsKeeps
<1>8. CASE \E p \in Slot : Delete(p) \/ \E q \in Slot : Merge(p, q)
  BY <1>8, DeleteKeeps, MergeKeeps
<1>9. CASE UNCHANGED vars
  <2>1. TypeOK'
    BY <1>9 DEF RInv, TypeOK, vars, book, second
  <2> QED
    BY <1>9, <2>1, RowsKept DEF vars, book
<1> QED
  BY <1>1, <1>2, <1>3, <1>4, <1>5, <1>6, <1>7, <1>8, <1>9 DEF Next

-----------------------------------------------------------------------------
(* A file's relations and dates are there once.                            *)

\* What is held and what has been written, by the phase of the import.
Course ==
    /\ \A c \in todo : byUid[c] = None
    /\ written # {} => todo = {}
    /\ writtenDates # {} => todo = {} /\ pending = <<>>

\* An edge is held by whom its card became, and what a landed card stated is
\* held until its key is written.
Owed ==
    /\ \A i \in DOMAIN pending :
          /\ pending[i].rel \in Says[pending[i].from].related
          /\ byUid[pending[i].from] = pending[i].owner
    /\ \A c \in Card : byUid[c] # None =>
          /\ \A r \in Says[c].related : r.to # None =>
                \/ EdgeKey(c, r) \in written
                \/ \E i \in DOMAIN pending : pending[i].from = c /\ pending[i].rel = r
          /\ \A d \in Says[c].dates :
                \/ d.id \in writtenDates
                \/ \E i \in DOMAIN pendingDates : pendingDates[i].date = d

\* A relation that names no card is there once its own card has landed.
NamedOnce ==
    \A c \in Card : \A r \in Says[c].related : r.to = None =>
        IF byUid[c] = None THEN Entries(Relation(c, r)) = {}
        ELSE \E i \in DOMAIN log : Entries(Relation(c, r)) = {i} /\ log[i].what = "named"

\* How a relation between cards is written, as a landed one of them sees it.
Joins(i, c, r) ==
    IF byUid[r.to] = None THEN log[i].what = "named"
    ELSE log[i].people = {byUid[c], byUid[r.to]}

EdgeOnce ==
    \A c \in Card : \A r \in Says[c].related : r.to # None =>
        IF EdgeKey(c, r) \notin written THEN Entries(Relation(c, r)) = {}
        ELSE (byUid[c] # None /\ Relation(c, r) \notin failed) =>
                \E i \in DOMAIN log : Entries(Relation(c, r)) = {i} /\ Joins(i, c, r)

DateOnce ==
    \A d \in Dates :
        IF d.id \notin writtenDates THEN Entries(Date(d)) = {}
        ELSE Date(d) \notin failed =>
                \E i \in DOMAIN log :
                    /\ Entries(Date(d)) = {i}
                    /\ log[i].what = "edge's date" <=> d.rel \in relIdByFileId

\* The relations the dates can be put on are those written between two people,
\* and it may be those whose own write failed.
Filed ==
    \A d \in Dates :
        /\ HasEdge(d.rel) => d.rel \in relIdByFileId
        /\ d.rel \in relIdByFileId => HasEdge(d.rel) \/ EdgeFailed(d.rel)

Filing == Course /\ Owed /\ NamedOnce /\ EdgeOnce /\ DateOnce /\ Filed
GInv == (at = "busy" => Filing) /\ GraphOnce

\* What is told apart by its key is told apart as a relation, and neither is a
\* relation named with one card, or a date.
LEMMA SameEdge ==
  ASSUME NEW c \in Card, NEW d \in Card, NEW r \in Says[c].related, NEW s \in Says[d].related,
         r.to # None, s.to # None
  PROVE  EdgeKey(c, r) = EdgeKey(d, s) <=> Relation(c, r) = Relation(d, s)
<1>1. r.to \in Card /\ s.to \in Card
  BY FileAssumption
<1>2. r.id \notin Card /\ s.id \notin Card
  BY FileAssumption DEF Ids, Edges
<1>3. Relation(c, r) = Relation(d, s) <=> r.id = s.id /\ {c, r.to} = {d, s.to}
  BY DEF Relation
<1>4. CASE r.id # None /\ s.id # None
  <2>1. EdgeKey(c, r) = {r.id} /\ EdgeKey(d, s) = {s.id}
    BY <1>4 DEF EdgeKey
  <2>2. r.id = s.id => {c, r.to} = {d, s.to}
    BY <1>4, FileAssumption
  <2> QED
    BY <1>3, <2>1, <2>2
<1>5. CASE r.id # None /\ s.id = None
  BY <1>2, <1>3, <1>5 DEF EdgeKey
<1>6. CASE r.id = None /\ s.id # None
  BY <1>2, <1>3, <1>6 DEF EdgeKey
<1>7. CASE r.id = None /\ s.id = None
  BY <1>3, <1>7 DEF EdgeKey
<1> QED
  BY <1>4, <1>5, <1>6, <1>7

LEMMA ApartFromNamed ==
  ASSUME NEW c \in Card, NEW r \in Says[c].related, r.to = None
  PROVE  /\ \A d \in Card : \A s \in Says[d].related :
               s.to # None => Relation(d, s) # Relation(c, r)
         /\ \A d \in Card : \A s \in Says[d].related :
               (s.to = None /\ Relation(d, s) = Relation(c, r)) => d = c /\ s = r
         /\ \A e \in Dates : Date(e) # Relation(c, r)
<1>1. None \notin Card
  BY PeopleAssumption
<1>2. \A d \in Card : \A s \in Says[d].related :
         s \in [to : Card \cup {None}, id : Ids]
  BY FileAssumption
<1>3. Relation(c, r).cards = {c, None} /\ Relation(c, r).id = r.id
  BY DEF Relation
<1>4. ASSUME NEW d \in Card, NEW s \in Says[d].related
      PROVE  /\ s.to # None => Relation(d, s) # Relation(c, r)
             /\ (s.to = None /\ Relation(d, s) = Relation(c, r)) => d = c /\ s = r
  <2>1. Relation(d, s).cards = {d, s.to} /\ Relation(d, s).id = s.id
    BY DEF Relation
  <2>2. s.to # None => Relation(d, s) # Relation(c, r)
    BY <1>1, <1>3, <2>1
  <2>3. ASSUME s.to = None, Relation(d, s) = Relation(c, r)
        PROVE  d = c /\ s = r
    <3>1. d = c /\ s.id = r.id
      BY <1>1, <1>3, <2>1, <2>3
    <3>2. s = [to |-> s.to, id |-> s.id] /\ r = [to |-> r.to, id |-> r.id]
      BY <1>2
    <3> QED
      BY <2>3, <3>1, <3>2
  <2> QED
    BY <2>2, <2>3
<1>5. \A e \in Dates : Date(e).cards = {}
  BY DEF Date
<1> QED
  BY <1>3, <1>4, <1>5

LEMMA ApartFromDates ==
  ASSUME NEW c, NEW r, NEW e
  PROVE  Relation(c, r) # Date(e)
<1>1. Relation(c, r).cards = {c, r.to} /\ Date(e).cards = {}
  BY DEF Relation, Date
<1> QED
  BY <1>1

\* An entry more is one of what it is about and none of anything else.
LEMMA EntryAppended ==
  ASSUME log \in Seq(Entry), NEW x \in Entry, log' = Append(log, x)
  PROVE  /\ DOMAIN log' = DOMAIN log \cup {Len(log) + 1} /\ Len(log) + 1 \notin DOMAIN log
         /\ \A i \in DOMAIN log : log'[i] = log[i]
         /\ log'[Len(log) + 1] = x
         /\ \A of : Entries(of)' = IF of = x.of THEN Entries(of) \cup {Len(log) + 1}
                                   ELSE Entries(of)
<1>1. /\ DOMAIN log' = DOMAIN log \cup {Len(log) + 1} /\ Len(log) + 1 \notin DOMAIN log
      /\ \A i \in DOMAIN log : log'[i] = log[i]
      /\ log'[Len(log) + 1] = x
  OBVIOUS
<1>2. \A of : Entries(of)' = IF of = x.of THEN Entries(of) \cup {Len(log) + 1} ELSE Entries(of)
  BY <1>1 DEF Entries
<1> QED
  BY <1>1, <1>2

\* Landing writes a card's named relations, and holds the rest.
LEMMA LandedFiles ==
  ASSUME TypeOK, Filing, NEW c \in todo, NEW p \in Slot, Landed(c, p)
  PROVE  Filing'
<1> DEFINE N == Named(c, p)
           H == Held(c, p)
           D == HeldDates(c, p)
           n == Len(log)
<1>1. c \in Card /\ byUid[c] = None /\ byUid \in [Card -> Slot \cup {None}]
  BY DEF TypeOK, Filing, Course
<1>2. /\ todo' = todo \ {c} /\ byUid' = [byUid EXCEPT ![c] = p] /\ log' = log \o N
      /\ pending' = pending \o H /\ pendingDates' = pendingDates \o D
      /\ written' = written /\ relIdByFileId' = relIdByFileId
      /\ writtenDates' = writtenDates /\ failed' = failed
  BY DEF Landed
<1>3. written = {} /\ writtenDates = {}
  BY DEF Filing, Course
<1>4. /\ N \in Seq(Entry)
      /\ \A i \in DOMAIN N : \E r \in Says[c].related :
            r.to = None /\ N[i] = Wrote("named", Relation(c, r), {p})
      /\ \A r \in Says[c].related : r.to = None =>
            \E i \in DOMAIN N : N[i] = Wrote("named", Relation(c, r), {p})
      /\ \A i, j \in DOMAIN N : N[i] = N[j] => i = j
  BY <1>1, LandedSeqs, ZenonT(30)
<1>5. /\ H \in Seq([from : Card, owner : Slot, rel : Joining])
      /\ \A i \in DOMAIN H : /\ H[i].from = c /\ H[i].owner = p
                             /\ H[i].rel \in Says[c].related /\ H[i].rel.to # None
      /\ \A r \in Says[c].related : r.to # None =>
            \E i \in DOMAIN H : H[i].from = c /\ H[i].rel = r
  BY <1>1, LandedSeqs, ZenonT(30)
<1>6. /\ D \in Seq([owner : Slot, date : Dates])
      /\ \A d \in Says[c].dates : \E i \in DOMAIN D : D[i].date = d
  BY <1>1, LandedSeqs, ZenonT(30)
<1> HIDE DEF N, H, D
<1>7. p # None /\ byUid'[c] = p /\ \A d \in Card : d # c => byUid'[d] = byUid[d]
  BY <1>1, <1>2, PeopleAssumption
<1>8. /\ n \in Nat /\ Len(N) \in Nat /\ DOMAIN log = 1..n /\ DOMAIN N = 1..Len(N)
      /\ DOMAIN log' = 1..(n + Len(N))
      /\ \A i \in 1..n : log'[i] = log[i]
      /\ \A i \in 1..Len(N) : log'[n + i] = N[i]
  <2>1. log \in Seq(Entry)
    BY DEF TypeOK
  <2> QED
    BY <1>2, <1>4, <2>1
<1>9. \A i \in DOMAIN log' : i \in DOMAIN log \/ \E j \in DOMAIN N : i = n + j
  <2> SUFFICES ASSUME NEW i \in 1..(n + Len(N)), ~(i \in 1..n)
               PROVE  \E j \in 1..Len(N) : i = n + j
    BY <1>8
  <2>1. i - n \in 1..Len(N) /\ i = n + (i - n)
    BY <1>8
  <2> QED
    BY <2>1
<1>10. ASSUME NEW of, \A r \in Says[c].related : r.to = None => Relation(c, r) # of
       PROVE  Entries(of)' = Entries(of)
  <2>1. \A j \in DOMAIN N : N[j].of # of
    BY <1>4, <1>10 DEF Wrote
  <2> QED
    BY <1>8, <1>9, <2>1 DEF Entries
<1>11. Course'
  BY <1>2, <1>3, <1>7 DEF Filing, Course, TypeOK
<1>12. Owed'
  <2>1. /\ pending \in Seq([from : Card, owner : Slot, rel : Joining])
        /\ pendingDates \in Seq([owner : Slot, date : Dates])
    BY DEF TypeOK, Joining
  <2>2. /\ \A i \in DOMAIN pending : i \in DOMAIN pending' /\ pending'[i] = pending[i]
        /\ \A i \in DOMAIN H : /\ Len(pending) + i \in DOMAIN pending'
                               /\ pending'[Len(pending) + i] = H[i]
        /\ \A i \in DOMAIN pending' :
              \/ i \in DOMAIN pending
              \/ i - Len(pending) \in DOMAIN H /\ pending'[i] = H[i - Len(pending)]
    BY <1>2, <1>5, <2>1
  <2>3. /\ \A i \in DOMAIN pendingDates : /\ i \in DOMAIN pendingDates'
                                          /\ pendingDates'[i] = pendingDates[i]
        /\ \A i \in DOMAIN D : /\ Len(pendingDates) + i \in DOMAIN pendingDates'
                               /\ pendingDates'[Len(pendingDates) + i] = D[i]
    BY <1>2, <1>6, <2>1
  <2>4. ASSUME NEW i \in DOMAIN pending'
        PROVE  /\ pending'[i].rel \in Says[pending'[i].from].related
               /\ byUid'[pending'[i].from] = pending'[i].owner
    <3>1. CASE i \in DOMAIN pending
      <4>0. pending[i] \in [from : Card, owner : Slot, rel : Joining]
        <5>1. DOMAIN pending = 1..Len(pending)
          BY <2>1, LenProperties
        <5> QED
          BY <2>1, <3>1, <5>1, ElementOfSeq
      <4>1. pending'[i] = pending[i] /\ pending[i].from \in Card /\ pending[i].owner \in Slot
        BY <2>2, <3>1, <4>0
      <4>2. /\ pending[i].rel \in Says[pending[i].from].related
            /\ byUid[pending[i].from] = pending[i].owner
        BY <3>1 DEF Filing, Owed
      <4>3. pending[i].from # c
        BY <1>1, <4>1, <4>2, PeopleAssumption
      <4> QED
        BY <1>7, <4>1, <4>2, <4>3
    <3>2. CASE i - Len(pending) \in DOMAIN H /\ pending'[i] = H[i - Len(pending)]
      BY <1>5, <1>7, <3>2
    <3> QED
      BY <2>2, <3>1, <3>2
  <2>5. ASSUME NEW d \in Card, byUid'[d] # None
        PROVE  /\ \A r \in Says[d].related : r.to # None =>
                     \/ EdgeKey(d, r) \in written
                     \/ \E i \in DOMAIN pending' : pending'[i].from = d /\ pending'[i].rel = r
               /\ \A e \in Says[d].dates :
                     \/ e.id \in writtenDates
                     \/ \E i \in DOMAIN pendingDates' : pendingDates'[i].date = e
    <3>1. CASE d = c
      BY <1>5, <1>6, <2>2, <2>3, <3>1
    <3>2. CASE d # c
      <4>1. byUid[d] # None
        BY <1>7, <2>5, <3>2
      <4>2. \A r \in Says[d].related : r.to # None =>
               \/ EdgeKey(d, r) \in written
               \/ \E i \in DOMAIN pending : pending[i].from = d /\ pending[i].rel = r
        BY <4>1 DEF Filing, Owed
      <4>3. \A e \in Says[d].dates :
               \/ e.id \in writtenDates
               \/ \E i \in DOMAIN pendingDates : pendingDates[i].date = e
        BY <4>1 DEF Filing, Owed
      <4> QED
        BY <2>2, <2>3, <4>2, <4>3
    <3> QED
      BY <3>1, <3>2
  <2> QED
    BY <1>2, <2>4, <2>5 DEF Owed
<1>13. NamedOnce'
  <2> SUFFICES ASSUME NEW d \in Card, NEW r \in Says[d].related, r.to = None
               PROVE  IF byUid'[d] = None THEN Entries(Relation(d, r))' = {}
                      ELSE \E i \in DOMAIN log' :
                              Entries(Relation(d, r))' = {i} /\ log'[i].what = "named"
    BY DEF NamedOnce
  <2>1. IF byUid[d] = None THEN Entries(Relation(d, r)) = {}
        ELSE \E i \in DOMAIN log : Entries(Relation(d, r)) = {i} /\ log[i].what = "named"
    BY DEF Filing, NamedOnce
  <2>2. CASE d # c
    <3>1. Entries(Relation(d, r))' = Entries(Relation(d, r))
      BY <1>1, <1>10, <2>2, ApartFromNamed
    <3>2. byUid'[d] = byUid[d] /\ \A i \in DOMAIN log : i \in DOMAIN log' /\ log'[i] = log[i]
      BY <1>7, <1>8, <2>2
    <3> QED
      BY <2>1, <3>1, <3>2
  <2>3. CASE d = c
    <3>1. Entries(Relation(c, r)) = {}
      BY <1>1, <2>1, <2>3
    <3>2. PICK j \in DOMAIN N : N[j] = Wrote("named", Relation(c, r), {p})
      BY <1>4, <2>3
    <3>3. n + j \in DOMAIN log' /\ log'[n + j] = Wrote("named", Relation(c, r), {p})
      BY <1>8, <3>2
    <3>4. ASSUME NEW i \in DOMAIN log', log'[i].of = Relation(c, r)
          PROVE  i = n + j
      <4>1. i \notin DOMAIN log
        BY <1>8, <3>1, <3>4 DEF Entries
      <4>2. PICK k \in DOMAIN N : i = n + k
        BY <1>9, <4>1
      <4>3. log'[i] = N[k]
        BY <1>8, <4>2
      <4>4. PICK s \in Says[c].related :
               s.to = None /\ N[k] = Wrote("named", Relation(c, s), {p})
        BY <1>4
      <4>5. Relation(c, s) = Relation(c, r)
        BY <3>4, <4>3, <4>4 DEF Wrote
      <4>6. N[k] = N[j]
        BY <3>2, <4>4, <4>5
      <4> QED
        BY <1>4, <4>2, <4>6
    <3>5. Entries(Relation(c, r))' = {n + j}
      BY <3>3, <3>4 DEF Entries, Wrote
    <3> QED
      BY <1>7, <2>3, <3>3, <3>5 DEF Wrote
  <2> QED
    BY <2>2, <2>3
<1>14. EdgeOnce'
  <2> SUFFICES ASSUME NEW d \in Card, NEW r \in Says[d].related, r.to # None
               PROVE  Entries(Relation(d, r))' = {}
    BY <1>2, <1>3 DEF EdgeOnce
  <2>1. Entries(Relation(d, r)) = {}
    BY <1>3 DEF Filing, EdgeOnce
  <2>2. \A s \in Says[c].related : s.to = None => Relation(c, s) # Relation(d, r)
    BY <1>1, ApartFromNamed
  <2> QED
    BY <1>10, <2>1, <2>2
<1>15. DateOnce'
  <2> SUFFICES ASSUME NEW d \in Dates
               PROVE  Entries(Date(d))' = {}
    BY <1>2, <1>3 DEF DateOnce
  <2>1. Entries(Date(d)) = {}
    BY <1>3 DEF Filing, DateOnce
  <2> QED
    BY <1>10, <2>1, ApartFromDates
<1>16. Filed'
  <2>1. \A i \in DOMAIN N : N[i].what # "edge"
    BY <1>4 DEF Wrote
  <2>2. ASSUME NEW x
        PROVE  /\ HasEdge(x)' <=> HasEdge(x)
               /\ EdgeFailed(x)' <=> EdgeFailed(x)
    <3>1. \A j \in DOMAIN log : j \in DOMAIN log' /\ log'[j] = log[j]
      BY <1>8
    <3>2. \A j \in DOMAIN log' : log'[j].what = "edge" => j \in DOMAIN log
      BY <1>8, <1>9, <2>1
    <3> QED
      BY <1>2, <3>1, <3>2 DEF HasEdge, EdgeFailed
  <2> QED
    BY <1>2, <2>2 DEF Filing, Filed
<1> QED
  BY <1>11, <1>12, <1>13, <1>14, <1>15, <1>16 DEF Filing

\* A step of the edges writes the one edge it takes, or finds it written.
LEMMA EdgeStepFiles ==
  ASSUME TypeOK, Filing, NEW done \in BOOLEAN, EdgeStep(done)
  PROVE  Filing'
<1> DEFINE e == Head(pending)
           key == EdgeKey(e.from, e.rel)
           of == Relation(e.from, e.rel)
           other == byUid[e.rel.to]
           named == Wrote("named", of, {e.owner})
           edge == Wrote("edge", of, {e.owner, other})
<1>0. PICK n : n = Len(log) + 1
  OBVIOUS
<1>1. /\ pending \in Seq([from : Card, owner : Slot, rel : Joining]) /\ pending # <<>>
      /\ pending' = Tail(pending)
  BY DEF EdgeStep, TypeOK, Joining
<1>2. DOMAIN pending = 1..Len(pending) /\ Len(pending) \in Nat \ {0} /\ e = pending[1]
  BY <1>1
<1>3. e \in [from : Card, owner : Slot, rel : Joining]
  BY <1>1, HeadTailProperties
<1>4. e.rel \in Says[e.from].related /\ byUid[e.from] = e.owner
  BY <1>2 DEF Filing, Owed
<1>5. /\ e.from \in Card /\ e.owner \in Slot /\ e.owner # None /\ e.rel.to # None
      /\ e.rel.to \in Card /\ e.rel \in Edges
  BY <1>3, <1>4, FileAssumption, PeopleAssumption DEF Joining
<1>6. other # None => other \in Slot
  BY <1>5 DEF TypeOK
<1>7. of \in Subject /\ log \in Seq(Entry)
  BY <1>5 DEF Relation, Subject, TypeOK
<1>8. named \in Entry /\ (other # None => edge \in Entry)
  BY <1>5, <1>6, <1>7 DEF Wrote, Entry
<1>9. /\ written' = written \cup {key} /\ todo = {} /\ todo' = todo /\ byUid' = byUid
      /\ pendingDates' = pendingDates /\ writtenDates' = writtenDates
  BY DEF EdgeStep
<1>10. writtenDates = {}
  BY <1>1 DEF Filing, Course
<1>11. \/ /\ key \in written /\ failed' = failed
          /\ log' = log /\ relIdByFileId' = relIdByFileId
       \/ /\ key \notin written /\ failed' = failed \cup {of} /\ log' = log
          /\ \/ relIdByFileId' = relIdByFileId
             \/ relIdByFileId' = relIdByFileId \cup ({e.rel.id} \ {None})
       \/ /\ key \notin written /\ failed' = failed /\ other = None
          /\ log' = Append(log, named) /\ relIdByFileId' = relIdByFileId
       \/ /\ key \notin written /\ failed' = failed /\ other # None
          /\ log' = Append(log, edge)
          /\ relIdByFileId' = relIdByFileId \cup ({e.rel.id} \ {None})
  BY DEF EdgeStep
<1>12. named.of = of /\ edge.of = of /\ named.what = "named" /\ edge.what = "edge"
       /\ edge.people = {e.owner, other} /\ of.id = e.rel.id
  BY DEF Wrote, Relation
<1>13. \A d \in Card : \A r \in Says[d].related : r.to # None =>
          (EdgeKey(d, r) = key <=> Relation(d, r) = of)
  BY <1>4, <1>5, SameEdge
<1>14. ASSUME NEW d \in Card, NEW r \in Says[d].related, r.to # None, Relation(d, r) = of
       PROVE  {d, r.to} = {e.from, e.rel.to}
  BY <1>14 DEF Relation
<1> HIDE DEF key, of, named, edge
<1>15. \/ log' = log
       \/ log' = Append(log, named) /\ named \in Entry
       \/ log' = Append(log, edge) /\ edge \in Entry
  BY <1>8, <1>11
<1>16. /\ \A i \in DOMAIN log : i \in DOMAIN log' /\ log'[i] = log[i]
       /\ \A x : x # of => Entries(x)' = Entries(x)
       /\ \A i \in DOMAIN log' : log'[i].of # of => i \in DOMAIN log
  <2>1. CASE log' = log
    BY <2>1 DEF Entries
  <2>2. CASE log' = Append(log, named) /\ named \in Entry
    BY <1>7, <1>12, <2>2, EntryAppended
  <2>3. CASE log' = Append(log, edge) /\ edge \in Entry
    BY <1>7, <1>12, <2>3, EntryAppended
  <2> QED
    BY <1>15, <2>1, <2>2, <2>3
<1>17. Course'
  BY <1>9, <1>10 DEF Course
<1>18. Owed'
  <2>1. /\ \A i \in DOMAIN pending' : i + 1 \in DOMAIN pending /\ pending'[i] = pending[i + 1]
        /\ \A i \in DOMAIN pending : i = 1 \/ (i - 1 \in DOMAIN pending'
                                                /\ pending'[i - 1] = pending[i])
    BY <1>1
  <2>2. ASSUME NEW i \in DOMAIN pending'
        PROVE  /\ pending'[i].rel \in Says[pending'[i].from].related
               /\ byUid[pending'[i].from] = pending'[i].owner
    BY <2>1 DEF Filing, Owed
  <2>3. ASSUME NEW d \in Card, byUid[d] # None, NEW r \in Says[d].related, r.to # None
        PROVE  \/ EdgeKey(d, r) \in written'
               \/ \E i \in DOMAIN pending' : pending'[i].from = d /\ pending'[i].rel = r
    <3>1. CASE EdgeKey(d, r) \in written
      BY <1>9, <3>1
    <3>2. CASE \E i \in DOMAIN pending : pending[i].from = d /\ pending[i].rel = r
      <4>1. PICK i \in DOMAIN pending : pending[i].from = d /\ pending[i].rel = r
        BY <3>2
      <4>2. CASE i = 1
        BY <1>2, <1>9, <4>1, <4>2 DEF key
      <4>3. CASE i # 1
        BY <2>1, <4>1, <4>3
      <4> QED
        BY <4>2, <4>3
    <3> QED
      BY <2>3, <3>1, <3>2 DEF Filing, Owed
  <2>4. \A d \in Card : byUid[d] # None => \A f \in Says[d].dates :
           \/ f.id \in writtenDates
           \/ \E i \in DOMAIN pendingDates : pendingDates[i].date = f
    BY DEF Filing, Owed
  <2> QED
    BY <1>9, <2>2, <2>3, <2>4 DEF Owed
<1>19. NamedOnce'
  <2> SUFFICES ASSUME NEW d \in Card, NEW r \in Says[d].related, r.to = None
               PROVE  IF byUid[d] = None THEN Entries(Relation(d, r))' = {}
                      ELSE \E i \in DOMAIN log' :
                              Entries(Relation(d, r))' = {i} /\ log'[i].what = "named"
    BY <1>9 DEF NamedOnce
  <2>1. IF byUid[d] = None THEN Entries(Relation(d, r)) = {}
        ELSE \E i \in DOMAIN log : Entries(Relation(d, r)) = {i} /\ log[i].what = "named"
    BY DEF Filing, NamedOnce
  <2>2. Relation(d, r) # of
    BY <1>4, <1>5, ApartFromNamed DEF of
  <2>3. Entries(Relation(d, r))' = Entries(Relation(d, r))
    BY <1>16, <2>2
  <2> QED
    BY <1>16, <2>1, <2>3
<1>20. EdgeOnce'
  <2> SUFFICES ASSUME NEW d \in Card, NEW r \in Says[d].related, r.to # None
               PROVE  IF EdgeKey(d, r) \notin written' THEN Entries(Relation(d, r))' = {}
                      ELSE (byUid'[d] # None /\ Relation(d, r) \notin failed') =>
                              \E i \in DOMAIN log' :
                                 Entries(Relation(d, r))' = {i} /\ Joins(i, d, r)'
    BY DEF EdgeOnce
  <2>1. IF EdgeKey(d, r) \notin written THEN Entries(Relation(d, r)) = {}
        ELSE (byUid[d] # None /\ Relation(d, r) \notin failed) =>
                \E i \in DOMAIN log : Entries(Relation(d, r)) = {i} /\ Joins(i, d, r)
    BY DEF Filing, EdgeOnce
  <2>2. \A i \in DOMAIN log : Joins(i, d, r) => Joins(i, d, r)'
    BY <1>9, <1>16 DEF Joins
  <2>3. CASE Relation(d, r) # of
    <3>1. Entries(Relation(d, r))' = Entries(Relation(d, r))
      BY <1>16, <2>3
    <3>2. EdgeKey(d, r) # key
      BY <1>13, <2>3
    <3>3. Relation(d, r) \in failed' <=> Relation(d, r) \in failed
      BY <1>11, <2>3
    <3> QED
      BY <1>9, <1>16, <2>1, <2>2, <3>1, <3>2, <3>3
  <2>4. CASE Relation(d, r) = of /\ key \in written
    <3>1. log' = log /\ failed' = failed /\ EdgeKey(d, r) \in written
      BY <1>11, <1>13, <2>4
    <3>2. Entries(Relation(d, r))' = Entries(Relation(d, r))
      BY <3>1 DEF Entries
    <3> QED
      BY <1>9, <1>16, <2>1, <2>2, <3>1, <3>2
  <2>5. CASE Relation(d, r) = of /\ key \notin written
    <3>1. EdgeKey(d, r) = key /\ Entries(of) = {}
      BY <1>13, <2>1, <2>5
    <3>2. CASE of \in failed'
      BY <1>9, <2>5, <3>1, <3>2
    <3>3. ASSUME of \notin failed', byUid[d] # None
          PROVE  \E i \in DOMAIN log' :
                    Entries(Relation(d, r))' = {i} /\ Joins(i, d, r)'
      <4>1. {d, r.to} = {e.from, e.rel.to}
        BY <1>14, <2>5
      <4>2. CASE other = None /\ log' = Append(log, named)
        <5>1. n \in DOMAIN log' /\ log'[n] = named /\ Entries(Relation(d, r))' = {n}
          BY <1>0, <1>7, <1>8, <1>12, <2>5, <3>1, <4>2, EntryAppended
        <5>2. d = e.from /\ r.to = e.rel.to
          BY <1>5, <3>3, <4>1, <4>2
        <5>3. Joins(n, d, r)'
          BY <1>9, <1>12, <4>2, <5>1, <5>2 DEF Joins
        <5> QED
          BY <5>1, <5>3
      <4>3. CASE other # None /\ log' = Append(log, edge)
        <5>1. n \in DOMAIN log' /\ log'[n] = edge /\ Entries(Relation(d, r))' = {n}
          BY <1>0, <1>7, <1>8, <1>12, <2>5, <3>1, <4>3, EntryAppended
        <5>2. {byUid[d], byUid[r.to]} = {e.owner, other} /\ byUid[r.to] # None
          BY <1>4, <1>5, <3>3, <4>1, <4>3
        <5>3. Joins(n, d, r)'
          BY <1>9, <1>12, <5>1, <5>2 DEF Joins
        <5> QED
          BY <5>1, <5>3
      <4> QED
        BY <1>11, <2>5, <3>3, <4>2, <4>3
    <3> QED
      BY <1>9, <2>5, <3>1, <3>2, <3>3
  <2> QED
    BY <2>3, <2>4, <2>5
<1>21. DateOnce'
  <2> SUFFICES ASSUME NEW f \in Dates
               PROVE  Entries(Date(f))' = {}
    BY <1>9, <1>10 DEF DateOnce
  <2>1. Entries(Date(f)) = {}
    BY <1>10 DEF Filing, DateOnce
  <2>2. Date(f) # of
    BY ApartFromDates DEF of
  <2> QED
    BY <1>16, <2>1, <2>2
<1>22. Filed'
  <2> SUFFICES ASSUME NEW f \in Dates
               PROVE  /\ HasEdge(f.rel)' => f.rel \in relIdByFileId'
                      /\ f.rel \in relIdByFileId' => HasEdge(f.rel)' \/ EdgeFailed(f.rel)'
    BY DEF Filed
  <2>1. f.rel # None
    BY FileAssumption DEF Dates
  <2>2. /\ HasEdge(f.rel) => f.rel \in relIdByFileId
        /\ f.rel \in relIdByFileId => HasEdge(f.rel) \/ EdgeFailed(f.rel)
    BY DEF Filing, Filed
  <2>3. HasEdge(f.rel) => HasEdge(f.rel)'
    BY <1>16 DEF HasEdge
  <2>4. EdgeFailed(f.rel) => EdgeFailed(f.rel)'
    BY <1>11 DEF EdgeFailed
  <2>5. CASE log' = log /\ relIdByFileId' = relIdByFileId
    <3>1. HasEdge(f.rel)' => HasEdge(f.rel)
      BY <2>5 DEF HasEdge
    <3> QED
      BY <2>2, <2>3, <2>4, <2>5, <3>1
  <2>6. CASE /\ log' = log /\ failed' = failed \cup {of}
             /\ relIdByFileId' = relIdByFileId \cup ({e.rel.id} \ {None})
    <3>1. HasEdge(f.rel)' => HasEdge(f.rel)
      BY <2>6 DEF HasEdge
    <3>2. of \in failed' /\ of.cards # {}
      BY <2>6 DEF of, Relation
    <3>3. f.rel = e.rel.id => EdgeFailed(f.rel)'
      BY <1>12, <3>2 DEF EdgeFailed
    <3> QED
      BY <2>2, <2>3, <2>4, <2>6, <3>1, <3>3
  <2>7. CASE log' = Append(log, named) /\ relIdByFileId' = relIdByFileId
    <3>1. /\ DOMAIN log' = DOMAIN log \cup {n} /\ log'[n] = named
          /\ \A i \in DOMAIN log : log'[i] = log[i]
      BY <1>0, <1>7, <1>8, <2>7, EntryAppended
    <3>2. HasEdge(f.rel)' => HasEdge(f.rel)
      BY <1>12, <3>1 DEF HasEdge
    <3> QED
      BY <2>2, <2>3, <2>4, <2>7, <3>2
  <2>8. CASE /\ other # None /\ log' = Append(log, edge)
             /\ relIdByFileId' = relIdByFileId \cup ({e.rel.id} \ {None})
    <3>1. /\ DOMAIN log' = DOMAIN log \cup {n} /\ log'[n] = edge /\ n \notin DOMAIN log
          /\ \A i \in DOMAIN log : log'[i] = log[i]
      BY <1>0, <1>7, <1>8, <2>8, EntryAppended
    <3>2. CASE f.rel = e.rel.id
      <4>1. HasEdge(f.rel)'
        BY <1>12, <3>1, <3>2 DEF HasEdge
      <4> QED
        BY <2>1, <2>8, <3>2, <4>1
    <3>3. CASE f.rel # e.rel.id
      <4>1. HasEdge(f.rel)' => HasEdge(f.rel)
        BY <1>12, <3>1, <3>3 DEF HasEdge
      <4> QED
        BY <2>2, <2>3, <2>4, <2>8, <3>3, <4>1
    <3> QED
      BY <3>2, <3>3
  <2> QED
    BY <1>11, <2>5, <2>6, <2>7, <2>8
<1> QED
  BY <1>17, <1>18, <1>19, <1>20, <1>21, <1>22 DEF Filing

\* A step of the dates writes the one date it takes, or finds it written.
LEMMA DateStepFiles ==
  ASSUME TypeOK, Filing, NEW done \in BOOLEAN, DateStep(done)
  PROVE  Filing'
<1> DEFINE d == Head(pendingDates)
           key == d.date.id
           of == Date(d.date)
           borne == Wrote("edge's date", of, {})
           own == Wrote("date", of, {d.owner})
<1>0. PICK n : n = Len(log) + 1
  OBVIOUS
<1>1. /\ pendingDates \in Seq([owner : Slot, date : Dates]) /\ pendingDates # <<>>
      /\ pendingDates' = Tail(pendingDates)
  BY DEF DateStep, TypeOK
<1>2. /\ DOMAIN pendingDates = 1..Len(pendingDates) /\ Len(pendingDates) \in Nat \ {0}
      /\ d = pendingDates[1]
  BY <1>1
<1>3. d \in [owner : Slot, date : Dates]
  BY <1>1, HeadTailProperties
<1>4. d.date \in Dates /\ d.owner \in Slot
  BY <1>3
<1>5. of \in Subject /\ log \in Seq(Entry)
  BY <1>4 DEF Date, Subject, TypeOK
<1>6. borne \in Entry /\ own \in Entry
  BY <1>4, <1>5 DEF Wrote, Entry
<1>7. /\ writtenDates' = writtenDates \cup {key} /\ todo = {} /\ pending = <<>>
      /\ todo' = todo /\ pending' = pending /\ byUid' = byUid
      /\ written' = written /\ relIdByFileId' = relIdByFileId
  BY DEF DateStep
<1>8. \/ /\ key \in writtenDates \/ failed' = failed \cup {of}
         /\ log' = log
         /\ key \in writtenDates => failed' = failed
      \/ /\ key \notin writtenDates /\ failed' = failed
         /\ \/ d.date.rel \in relIdByFileId /\ log' = Append(log, borne)
            \/ d.date.rel \notin relIdByFileId /\ log' = Append(log, own)
  BY DEF DateStep
<1>9. /\ borne.of = of /\ borne.what = "edge's date"
      /\ own.of = of /\ own.what = "date"
  BY DEF Wrote
<1>10. \A f \in Dates : /\ f.id = key <=> Date(f) = of
                        /\ f.id = key => f.rel = d.date.rel
  <2>1. \A f \in Dates : f.id = key <=> Date(f) = of
    BY DEF Date
  <2>2. \A f \in Dates : f.id = key => f.rel = d.date.rel
    BY <1>4, FileAssumption DEF Dates
  <2> QED
    BY <2>1, <2>2
<1> HIDE DEF borne, own
<1>11. \/ log' = log
       \/ log' = Append(log, borne)
       \/ log' = Append(log, own)
  BY <1>8
<1>12. /\ \A i \in DOMAIN log : i \in DOMAIN log' /\ log'[i] = log[i]
       /\ \A x : x # of => Entries(x)' = Entries(x)
       /\ \A i \in DOMAIN log' : log'[i].what = "edge" => i \in DOMAIN log
  <2>1. CASE log' = log
    BY <2>1 DEF Entries
  <2>2. CASE log' = Append(log, borne)
    BY <1>5, <1>6, <1>9, <2>2, EntryAppended
  <2>3. CASE log' = Append(log, own)
    BY <1>5, <1>6, <1>9, <2>3, EntryAppended
  <2> QED
    BY <1>11, <2>1, <2>2, <2>3
<1>13. Course'
  BY <1>7 DEF Course
<1>14. Owed'
  <2>1. \A i \in DOMAIN pendingDates :
           i = 1 \/ (i - 1 \in DOMAIN pendingDates' /\ pendingDates'[i - 1] = pendingDates[i])
    BY <1>1
  <2>2. ASSUME NEW c \in Card, byUid[c] # None, NEW f \in Says[c].dates
        PROVE  \/ f.id \in writtenDates'
               \/ \E i \in DOMAIN pendingDates' : pendingDates'[i].date = f
    <3>1. CASE f.id \in writtenDates
      BY <1>7, <3>1
    <3>2. CASE \E i \in DOMAIN pendingDates : pendingDates[i].date = f
      <4>1. PICK i \in DOMAIN pendingDates : pendingDates[i].date = f
        BY <3>2
      <4>2. CASE i = 1
        BY <1>2, <1>7, <4>1, <4>2
      <4>3. CASE i # 1
        BY <2>1, <4>1, <4>3
      <4> QED
        BY <4>2, <4>3
    <3> QED
      BY <2>2, <3>1, <3>2 DEF Filing, Owed
  <2>3. \A i \in DOMAIN pending :
          /\ pending[i].rel \in Says[pending[i].from].related
          /\ byUid[pending[i].from] = pending[i].owner
    BY DEF Filing, Owed
  <2>4. \A c \in Card : byUid[c] # None =>
          \A r \in Says[c].related : r.to # None =>
              \/ EdgeKey(c, r) \in written
              \/ \E i \in DOMAIN pending : pending[i].from = c /\ pending[i].rel = r
    BY DEF Filing, Owed
  <2> QED
    BY <1>7, <2>2, <2>3, <2>4 DEF Owed
<1>15. ASSUME NEW c \in Card, NEW r \in Says[c].related
       PROVE  Entries(Relation(c, r))' = Entries(Relation(c, r))
  <2>1. Relation(c, r) # of
    BY ApartFromDates
  <2> QED
    BY <1>12, <2>1
<1>16. NamedOnce'
  BY <1>7, <1>12, <1>15 DEF Filing, NamedOnce
<1>17. EdgeOnce'
  <2>1. ASSUME NEW c \in Card, NEW r \in Says[c].related
        PROVE  Relation(c, r) \in failed' <=> Relation(c, r) \in failed
    <3>1. Relation(c, r) # of
      BY ApartFromDates
    <3> QED
      BY <1>8, <3>1
  <2>2. \A c \in Card : \A r \in Says[c].related : \A i \in DOMAIN log :
           Joins(i, c, r) => Joins(i, c, r)'
    BY <1>7, <1>12 DEF Joins
  <2> QED
    BY <1>7, <1>12, <1>15, <2>1, <2>2 DEF Filing, EdgeOnce
<1>18. DateOnce'
  <2> SUFFICES ASSUME NEW f \in Dates
               PROVE  IF f.id \notin writtenDates' THEN Entries(Date(f))' = {}
                      ELSE Date(f) \notin failed' =>
                              \E i \in DOMAIN log' :
                                 /\ Entries(Date(f))' = {i}
                                 /\ log'[i].what = "edge's date" <=> f.rel \in relIdByFileId'
    BY DEF DateOnce
  <2>1. IF f.id \notin writtenDates THEN Entries(Date(f)) = {}
        ELSE Date(f) \notin failed =>
                \E i \in DOMAIN log :
                   /\ Entries(Date(f)) = {i}
                   /\ log[i].what = "edge's date" <=> f.rel \in relIdByFileId
    BY DEF Filing, DateOnce
  <2>2. CASE f.id # key
    <3>1. /\ Date(f) # of
          /\ f.id \in writtenDates' <=> f.id \in writtenDates
          /\ Date(f) \in failed' <=> Date(f) \in failed
      BY <1>7, <1>8, <1>10, <2>2
    <3>2. Entries(Date(f))' = Entries(Date(f))
      BY <1>12, <3>1
    <3> QED
      BY <1>7, <1>12, <2>1, <3>1, <3>2
  <2>3. CASE f.id = key /\ key \in writtenDates
    <3>1. log' = log /\ failed' = failed
      BY <1>8, <2>3
    <3>2. Entries(Date(f))' = Entries(Date(f))
      BY <3>1 DEF Entries
    <3> QED
      BY <1>7, <2>1, <2>3, <3>1, <3>2
  <2>4. CASE f.id = key /\ key \notin writtenDates
    <3>1. Date(f) = of /\ f.rel = d.date.rel /\ f.id \in writtenDates'
      BY <1>7, <1>10, <2>4
    <3>2. Entries(Date(f)) = {}
      BY <2>1, <2>4
    <3>3. CASE Date(f) \in failed'
      BY <3>1, <3>3
    <3>4. CASE d.date.rel \in relIdByFileId /\ log' = Append(log, borne)
      <4>1. n \in DOMAIN log' /\ log'[n] = borne /\ Entries(Date(f))' = {n}
        BY <1>0, <1>5, <1>6, <1>9, <3>1, <3>2, <3>4, EntryAppended
      <4> QED
        BY <1>7, <1>9, <3>1, <3>4, <4>1
    <3>5. CASE d.date.rel \notin relIdByFileId /\ log' = Append(log, own)
      <4>1. n \in DOMAIN log' /\ log'[n] = own /\ Entries(Date(f))' = {n}
        BY <1>0, <1>5, <1>6, <1>9, <3>1, <3>2, <3>5, EntryAppended
      <4> QED
        BY <1>7, <1>9, <3>1, <3>5, <4>1
    <3> QED
      BY <1>8, <2>4, <3>1, <3>3, <3>4, <3>5
  <2> QED
    BY <2>2, <2>3, <2>4
<1>19. Filed'
  <2> SUFFICES ASSUME NEW f \in Dates
               PROVE  /\ HasEdge(f.rel)' => f.rel \in relIdByFileId'
                      /\ f.rel \in relIdByFileId' => HasEdge(f.rel)' \/ EdgeFailed(f.rel)'
    BY DEF Filed
  <2>1. /\ HasEdge(f.rel) => f.rel \in relIdByFileId
        /\ f.rel \in relIdByFileId => HasEdge(f.rel) \/ EdgeFailed(f.rel)
    BY DEF Filing, Filed
  <2>2. HasEdge(f.rel)' <=> HasEdge(f.rel)
    BY <1>12 DEF HasEdge
  <2>3. EdgeFailed(f.rel) => EdgeFailed(f.rel)'
    BY <1>8 DEF EdgeFailed
  <2> QED
    BY <1>7, <2>1, <2>2, <2>3
<1> QED
  BY <1>13, <1>14, <1>16, <1>17, <1>18, <1>19 DEF Filing

\* An import begins with nothing held or written.
LEMMA BeginFiles ==
  ASSUME TypeOK, NEW cards \in SUBSET Card, Begin(cards)
  PROVE  Filing'
<1>1. /\ byUid' = [c \in Card |-> None] /\ pending' = <<>> /\ pendingDates' = <<>>
      /\ written' = {} /\ relIdByFileId' = {} /\ writtenDates' = {} /\ log' = <<>>
      /\ todo' = cards
  BY DEF Begin
<1>2. \A of : Entries(of)' = {}
  BY <1>1 DEF Entries
<1>3. Course'
  BY <1>1 DEF Course
<1>4. Filed'
  BY <1>1 DEF Filed, HasEdge
<1> QED
  BY <1>1, <1>2, <1>3, <1>4 DEF Filing, Owed, NamedOnce, EdgeOnce, DateOnce

\* An import ends with nothing held: all that is stated has its key written.
LEMMA EndGraph ==
  ASSUME TypeOK, Filing, End
  PROVE  GraphOnce'
<1>1. /\ pending = <<>> /\ pendingDates = <<>> /\ byUid' = byUid /\ log' = log
      /\ failed' = failed
  BY DEF End, second
<1>2. DOMAIN pending = {} /\ DOMAIN pendingDates = {}
  BY <1>1
<1>3. \A of : Entries(of)' = Entries(of)
  BY <1>1 DEF Entries
<1>4. ASSUME NEW c \in Card, byUid[c] # None, NEW r \in Says[c].related,
             Relation(c, r) \notin failed
      PROVE  LET other == IF r.to = None THEN None ELSE byUid[r.to]
             IN  \E i \in DOMAIN log :
                   /\ Entries(Relation(c, r)) = {i}
                   /\ IF other = None THEN log[i].what = "named"
                      ELSE log[i].people = {byUid[c], other}
  <2>1. CASE r.to = None
    BY <1>4, <2>1 DEF Filing, NamedOnce
  <2>2. CASE r.to # None
    <3>1. EdgeKey(c, r) \in written
      BY <1>2, <1>4, <2>2 DEF Filing, Owed
    <3> QED
      BY <1>4, <2>2, <3>1 DEF Filing, EdgeOnce, Joins
  <2> QED
    BY <2>1, <2>2
<1>5. ASSUME NEW c \in Card, byUid[c] # None, NEW d \in Says[c].dates, Date(d) \notin failed
      PROVE  \E i \in DOMAIN log :
               /\ Entries(Date(d)) = {i}
               /\ HasEdge(d.rel) => log[i].what = "edge's date"
               /\ log[i].what = "edge's date" => HasEdge(d.rel) \/ EdgeFailed(d.rel)
  <2>1. d \in Dates /\ d.id \in writtenDates
    BY <1>2, <1>5 DEF Filing, Owed, Dates
  <2> QED
    BY <1>5, <2>1 DEF Filing, DateOnce, Filed
<1>6. \A id : (HasEdge(id)' <=> HasEdge(id)) /\ (EdgeFailed(id)' <=> EdgeFailed(id))
  BY <1>1 DEF HasEdge, EdgeFailed
<1> QED
  BY <1>1, <1>3, <1>4, <1>5, <1>6 DEF GraphOnce

\* A card left out or rolled back holds nothing.
LEMMA SkipFiles ==
  ASSUME TypeOK, Filing, NEW c \in todo, LeaveOut(c) \/ CardFails(c)
  PROVE  Filing'
<1>1. todo' = todo \ {c} /\ byUid' = byUid /\ UNCHANGED second
  BY DEF LeaveOut, CardFails
<1>2. \A of : Entries(of)' = Entries(of)
  BY <1>1 DEF Entries, second
<1>3. \A i, d, r : Joins(i, d, r)' <=> Joins(i, d, r)
  BY <1>1 DEF Joins, second
<1>4. Course'
  BY <1>1 DEF Filing, Course, second
<1>5. Owed' /\ Filed'
  BY <1>1 DEF Filing, Owed, Filed, HasEdge, EdgeFailed, second
<1> QED
  BY <1>1, <1>2, <1>3, <1>4, <1>5 DEF Filing, NamedOnce, EdgeOnce, DateOnce, second

\* Nothing of an import changes: its user's writes, and steps that do nothing.
LEMMA OutsideFiles ==
  ASSUME GInv, UNCHANGED <<at, todo, byUid, second>>
  PROVE  GInv'
<1>1. \A of : Entries(of)' = Entries(of)
  BY DEF Entries, second
<1>2. \A i, d, r : Joins(i, d, r)' <=> Joins(i, d, r)
  BY DEF Joins, second
<1>3. Filing' <=> Filing
  <2>1. Course' /\ Owed' /\ Filed' <=> Course /\ Owed /\ Filed
    BY DEF Course, Owed, Filed, HasEdge, EdgeFailed, second
  <2> QED
    BY <1>1, <1>2, <2>1 DEF Filing, NamedOnce, EdgeOnce, DateOnce, second
<1>4. GraphOnce => GraphOnce'
  <2> DEFINE Once(c) ==
        /\ \A r \in {s \in Says[c].related : Relation(c, s) \notin failed} :
              LET other == IF r.to = None THEN None ELSE byUid[r.to]
              IN  \E i \in DOMAIN log :
                    /\ Entries(Relation(c, r)) = {i}
                    /\ IF other = None THEN log[i].what = "named"
                       ELSE log[i].people = {byUid[c], other}
        /\ \A d \in {e \in Says[c].dates : Date(e) \notin failed} :
              \E i \in DOMAIN log :
                /\ Entries(Date(d)) = {i}
                /\ HasEdge(d.rel) => log[i].what = "edge's date"
                /\ log[i].what = "edge's date" => HasEdge(d.rel) \/ EdgeFailed(d.rel)
  <2>0. \A id : (HasEdge(id)' <=> HasEdge(id)) /\ (EdgeFailed(id)' <=> EdgeFailed(id))
    BY DEF HasEdge, EdgeFailed, second
  <2>1. \A c \in Card : Once(c) => Once(c)'
    BY <1>1, <2>0 DEF second
  <2>2. GraphOnce <=> (at = "done" => \A c \in Card : byUid[c] # None => Once(c))
    BY DEF GraphOnce
  <2>3. GraphOnce' <=> (at' = "done" => \A c \in Card : byUid'[c] # None => Once(c)')
    BY DEF GraphOnce
  <2> HIDE DEF Once
  <2> QED
    BY <2>1, <2>2, <2>3 DEF second
<1> QED
  BY <1>3, <1>4 DEF GInv

\* Every step keeps it.
LEMMA NextGraph ==
  ASSUME TypeOK, GInv, [Next]_vars
  PROVE  GInv'
<1>0. ASSUME at' # "done" PROVE GraphOnce'
  BY <1>0 DEF GraphOnce
<1>1. CASE BeginSync \/ BeginFile
  <2>1. PICK cards \in SUBSET Card : Begin(cards)
    BY <1>1 DEF BeginSync, BeginFile, Card
  <2>2. Filing' /\ at' = "busy"
    BY <2>1, BeginFiles DEF Begin
  <2> QED
    BY <1>0, <2>2 DEF GInv
<1>2. CASE Write \/ WriteFails
  <2>1. PICK done \in BOOLEAN : EdgeStep(done) \/ DateStep(done)
    BY <1>2 DEF Write, WriteFails
  <2>2. at = "busy" /\ at' = "busy"
    BY <2>1 DEF EdgeStep, DateStep
  <2>3. Filing'
    BY <2>1, <2>2, EdgeStepFiles, DateStepFiles DEF GInv
  <2> QED
    BY <1>0, <2>2, <2>3 DEF GInv
<1>3. CASE End
  <2>1. at = "busy" /\ at' = "done"
    BY <1>3 DEF End
  <2> QED
    BY <1>3, <2>1, EndGraph DEF GInv
<1>4. CASE Kill
  <2>1. at' = "idle"
    BY <1>4 DEF Kill
  <2> QED
    BY <1>0, <2>1 DEF GInv
<1>5. ASSUME NEW c \in todo, LandNew(c) \/ LandOn(c)
      PROVE  GInv'
  <2>1. PICK p \in Slot : Landed(c, p)
    <3>1. CASE LandNew(c)
      <4> DEFINE free == {p \in Slot : stored[p] = None}
                 new == CHOOSE p \in free : TRUE
      <4>1. free # {} /\ Landed(c, new)
        BY <3>1 DEF LandNew
      <4>2. new \in Slot
        BY <4>1
      <4> QED
        BY <4>1, <4>2
    <3>2. CASE LandOn(c)
      BY <3>2, TargetType DEF LandOn
    <3> QED
      BY <1>5, <3>1, <3>2
  <2>2. at = "busy" /\ at' = "busy"
    BY <2>1 DEF Landed
  <2>3. Filing'
    BY <2>1, <2>2, LandedFiles DEF GInv
  <2> QED
    BY <1>0, <2>2, <2>3 DEF GInv
<1>6. ASSUME NEW c \in todo, LeaveOut(c) \/ CardFails(c)
      PROVE  GInv'
  <2>1. at = "busy" /\ at' = "busy"
    BY <1>6 DEF LeaveOut, CardFails
  <2>2. Filing'
    BY <1>6, <2>1, SkipFiles DEF GInv
  <2> QED
    BY <1>0, <2>1, <2>2 DEF GInv
<1>7. CASE \E p \in Slot : Delete(p) \/ \E q \in Slot : Merge(p, q)
  <2>1. UNCHANGED <<at, todo, byUid, second>>
    BY <1>7 DEF Delete, Merge, Edit
  <2> QED
    BY <2>1, OutsideFiles
<1>8. CASE UNCHANGED vars
  BY <1>8, OutsideFiles DEF vars
<1> QED
  BY <1>1, <1>2, <1>3, <1>4, <1>5, <1>6, <1>7, <1>8 DEF Next

-----------------------------------------------------------------------------
(* The theorems.                                                           *)

\* Both invariants hold in every state of an import, and between imports.
LEMMA ImportInductive == Spec => [](RInv /\ GInv)
<1>1. Init => RInv /\ GInv
  BY InitRecords DEF Init, GInv, GraphOnce
<1>2. RInv /\ GInv /\ [Next]_vars => (RInv /\ GInv)'
  BY NextRecords, NextGraph DEF RInv
<1> QED
  BY <1>1, <1>2, PTL DEF Spec

\* Every variable of the import has its type: who is stored is a person, what is
\* held is stated by a card that landed, what is written is about a relation or
\* date of a card.
THEOREM ImportTypeCorrect == Spec => []TypeOK
<1>1. RInv => TypeOK
  BY DEF RInv
<1> QED
  BY <1>1, ImportInductive, PTL

\* What a contact remembered as imported said is held by whoever it became
\* (syncOnce, attach.into and mergePeople), for any contacts, people and faults.
THEOREM ImportedIsKept == Spec => []RecordsKept
<1>1. RInv => RecordsKept
  BY DEF RInv
<1> QED
  BY <1>1, ImportInductive, PTL

\* Once an import is over each relation and date its cards state is there once
\* (ingestContacts' edgeKey, written and relIdByFileId), but for those whose own
\* write failed, and a date is on its relation just when that was written, or it
\* may be when that failed: for any file whose ids are kept apart.
THEOREM StatedOnce == Spec => []GraphOnce
<1>1. GInv => GraphOnce
  BY DEF GInv
<1> QED
  BY <1>1, ImportInductive, PTL

=============================================================================
