---------------------------- MODULE SharedProofs ----------------------------
(***************************************************************************)
(* What the devices of an account share.  People's invariants for any      *)
(* devices, people, relationships and milestones and any number of         *)
(* operations, and Relay's for any devices, usernames, lives of a session, *)
(* clocks, windows, resets and faults.                                     *)
(***************************************************************************)
EXTENDS People, Relay, TLAPS

-----------------------------------------------------------------------------
(* People: rows and stores.                                                *)

\* What a row names is there, a relationship that is not removed has two ends,
\* and no copy hangs from a relationship.
Known(s) ==
    /\ \A e \in Edge : s[e] # None =>
          /\ s[e].ends # {}
          /\ \A p \in s[e].ends : s[p] # None
          /\ ~s[e].gone => \E p, q \in Person : p # q /\ s[e].ends = {p, q}
    /\ \A f \in Milestone : s[f] # None => s[s[f].bearer] # None
    /\ \A c \in Copy : s[c] # None => s[c].bearer \in Person

LEMMA Tables ==
  /\ Person \subseteq Item /\ Edge \subseteq Item /\ Milestone \subseteq Item
  /\ Fact \subseteq Milestone /\ Copy \subseteq Milestone
  /\ \A i \in Item : i \in Person \/ i \in Edge \/ i \in Milestone
  /\ \A i \in Milestone : i \in Fact \/ i \in Copy
  /\ \A i \in Person : i \notin Edge /\ i \notin Milestone
  /\ \A i \in Edge : i \notin Person /\ i \notin Milestone
  /\ \A i \in Milestone : i \notin Person /\ i \notin Edge
  /\ \A i \in Fact : i \notin Copy
BY RowsAssumption DEF RowsAssumption, Item, Milestone

\* A row of each table.
LEMMA RowTypes ==
  ASSUME NEW s \in Store
  PROVE  /\ \A i \in Item : s[i] = None \/ (s[i] # None /\ s[i].at \in Nat /\ s[i].gone \in BOOLEAN)
         /\ \A p \in Person : s[p] # None => s[p] \in PersonRow
         /\ \A e \in Edge : s[e] # None => s[e] \in EdgeRow
         /\ \A f \in Milestone : s[f] # None => s[f] \in FactRow
<1>1. /\ \A p \in Person : s[p] # None => s[p] \in PersonRow
      /\ \A e \in Edge : s[e] # None => s[e] \in EdgeRow
      /\ \A f \in Milestone : s[f] # None => s[f] \in FactRow
  BY Tables DEF Store, Row
<1>2. \A r : r \in PersonRow \/ r \in EdgeRow \/ r \in FactRow => r.at \in Nat /\ r.gone \in BOOLEAN
  BY DEF PersonRow, EdgeRow, FactRow
<1> QED
  BY <1>1, <1>2, Tables

\* No row is none.
LEMMA Rows ==
  /\ \A r \in PersonRow : r # None /\ r.at \in Nat /\ r.gone \in BOOLEAN /\ r.standing \in Standing
  /\ \A r \in EdgeRow : r # None /\ r.at \in Nat /\ r.gone \in BOOLEAN /\ r.ends \subseteq Person
  /\ \A r \in FactRow : r # None /\ r.at \in Nat /\ r.gone \in BOOLEAN /\ r.bearer \in Person \cup Edge
BY NoRowAssumption DEF NoRowAssumption, PersonRow, EdgeRow, FactRow

LEMMA NewRows ==
  ASSUME NEW now \in Nat
  PROVE  /\ \A x \in Standing : [at |-> now, gone |-> FALSE, standing |-> x] \in PersonRow
         /\ \A x \in SUBSET Person : [at |-> now, gone |-> FALSE, ends |-> x] \in EdgeRow
         /\ \A x \in Person \cup Edge : [at |-> now, gone |-> FALSE, bearer |-> x] \in FactRow
BY DEF PersonRow, EdgeRow, FactRow

\* The fields of a new row.
LEMMA PutIs ==
  ASSUME NEW now \in Nat, NEW r
  PROVE  /\ \A x \in Standing : r = [at |-> now, gone |-> FALSE, standing |-> x]
               => r # None /\ r.at = now /\ ~r.gone /\ r.standing = x
         /\ \A x \in SUBSET Person : r = [at |-> now, gone |-> FALSE, ends |-> x]
               => r # None /\ r.at = now /\ ~r.gone /\ r.ends = x
BY NewRows, Rows

\* A store is made of rows.
LEMMA StoreOf ==
  ASSUME NEW s, s = [i \in Item |-> s[i]],
         \A p \in Person : s[p] = None \/ s[p] \in PersonRow,
         \A e \in Edge : s[e] = None \/ s[e] \in EdgeRow,
         \A f \in Milestone : s[f] = None \/ s[f] \in FactRow
  PROVE  s \in Store
<1>1. \A i \in Item : s[i] \in Row(i) \cup {None} /\ s[i] \in PersonRow \cup EdgeRow \cup FactRow \cup {None}
  BY Tables DEF Row
<1> QED
  BY <1>1 DEF Store

\* The rows of the tables differ in their fields.
LEMMA RowKinds ==
  /\ \A r \in PersonRow : r \notin EdgeRow /\ r \notin FactRow
  /\ \A r \in EdgeRow : r \notin FactRow
<1>1. \A r \in PersonRow : DOMAIN r = {"at", "gone", "standing"}
  BY DEF PersonRow
<1>2. \A r \in EdgeRow : DOMAIN r = {"at", "gone", "ends"}
  BY DEF EdgeRow
<1>3. \A r \in FactRow : DOMAIN r = {"at", "gone", "bearer"}
  BY DEF FactRow
<1> QED
  BY <1>1, <1>2, <1>3

\* A tombstone keeps what it was of.
LEMMA TombIs ==
  ASSUME NEW row, NEW now \in Nat
  PROVE  /\ row \in PersonRow =>
              /\ Tomb(row, now) \in PersonRow /\ Tomb(row, now).gone
              /\ Tomb(row, now).standing = row.standing /\ Tomb(row, now).at = Stamp(row, now)
         /\ row \in EdgeRow =>
              /\ Tomb(row, now) \in EdgeRow /\ Tomb(row, now).gone
              /\ Tomb(row, now).ends = row.ends /\ Tomb(row, now).at = Stamp(row, now)
         /\ row \in FactRow =>
              /\ Tomb(row, now) \in FactRow /\ Tomb(row, now).gone
              /\ Tomb(row, now).bearer = row.bearer /\ Tomb(row, now).at = Stamp(row, now)
<1>1. ASSUME row.at \in Nat PROVE Stamp(row, now) \in Nat
  BY <1>1 DEF Stamp
<1>2. CASE row \in PersonRow
  <2>1. row.at \in Nat /\ Stamp(row, now) \in Nat
    BY <1>1, <1>2 DEF PersonRow
  <2> QED
    BY <1>2, <2>1, RowKinds DEF Tomb, PersonRow
<1>3. CASE row \in EdgeRow
  <2>1. row.at \in Nat /\ Stamp(row, now) \in Nat
    BY <1>1, <1>3 DEF EdgeRow
  <2> QED
    BY <1>3, <2>1, RowKinds DEF Tomb, EdgeRow
<1>4. CASE row \in FactRow
  <2>1. row.at \in Nat /\ Stamp(row, now) \in Nat
    BY <1>1, <1>4 DEF FactRow
  <2> QED
    BY <1>4, <2>1, RowKinds DEF Tomb, FactRow
<1> QED
  BY <1>2, <1>3, <1>4

LEMMA MovedIs ==
  ASSUME NEW row \in FactRow, NEW now \in Nat, NEW to \in Person \cup Edge
  PROVE  /\ Moved(row, to, now) \in FactRow /\ Moved(row, to, now).gone = row.gone
         /\ Moved(row, to, now).bearer = to /\ Moved(row, to, now).at = Stamp(row, now)
<1>1. row.at \in Nat
  BY DEF FactRow
<1>2. Stamp(row, now) \in Nat
  BY <1>1 DEF Stamp
<1> QED
  BY <1>2 DEF Moved, FactRow

\* A row written before now is stamped now; one written now, a millisecond on.
LEMMA StampIs ==
  ASSUME NEW row, row.at \in Nat, NEW now \in Nat, row.at <= now
  PROVE  Stamp(row, now) \in {now, now + 1}
BY DEF Stamp

-----------------------------------------------------------------------------
(* People: what an operation comes to, row by row.                         *)

LEMMA BuriedAt ==
  ASSUME NEW s, NEW rows, NEW now, NEW i \in Item
  PROVE  Buried(s, rows, now)[i] = IF i \in rows THEN Tomb(s[i], now) ELSE s[i]
BY DEF Buried

LEMMA EndingIs ==
  ASSUME NEW s, NEW gone, NEW e
  PROVE  e \in Ending(s, gone) <=> e \in Edge /\ Live(s[e]) /\ \E p \in gone : p \in s[e].ends
BY DEF Ending, EdgesOf

\* Only the rows of relationships tell what ends.
LEMMA EndingSame ==
  ASSUME NEW s, NEW t, NEW gone, \A e \in Edge : s[e] = t[e]
  PROVE  Ending(s, gone) = Ending(t, gone)
<1>1. \A e : e \in Ending(s, gone) <=> e \in Ending(t, gone)
  BY EndingIs
<1> QED
  BY <1>1

\* Only the rows of milestones tell what hangs from whom.
LEMMA FactsOnIs ==
  ASSUME NEW s, NEW b, NEW f
  PROVE  f \in FactsOn(s, b) <=> f \in Milestone /\ Live(s[f]) /\ s[f].bearer = b
BY DEF FactsOn

LEMMA HandedOverAt ==
  ASSUME NEW s, NEW gone, NEW now
  PROVE  /\ \A i \in Item : (i \notin Milestone \/ ~Live(s[i]) \/ s[i].bearer \notin Ending(s, gone)
                             \/ s[s[i].bearer].ends \subseteq gone)
               => HandedOver(s, gone, now)[i] = s[i]
         /\ \A i \in Milestone : Live(s[i]) /\ s[i].bearer \in Ending(s, gone) /\ ~(s[s[i].bearer].ends \subseteq gone)
               => \E q \in s[s[i].bearer].ends : q \notin gone /\ HandedOver(s, gone, now)[i] = Moved(s[i], q, now)
<1> DEFINE h == HandedOver(s, gone, now)
<1>1. ASSUME NEW i \in Item,
             \/ i \notin Milestone \/ ~Live(s[i]) \/ s[i].bearer \notin Ending(s, gone)
             \/ s[s[i].bearer].ends \subseteq gone
      PROVE  h[i] = s[i]
  BY <1>1 DEF HandedOver
<1>2. ASSUME NEW i \in Milestone, Live(s[i]), s[i].bearer \in Ending(s, gone),
             ~(s[s[i].bearer].ends \subseteq gone)
      PROVE  \E q \in s[s[i].bearer].ends : q \notin gone /\ h[i] = Moved(s[i], q, now)
  <2> DEFINE to == CHOOSE q \in s[s[i].bearer].ends : q \notin gone
  <2>1. \E q \in s[s[i].bearer].ends : q \notin gone
    BY <1>2
  <2>2. to \in s[s[i].bearer].ends /\ to \notin gone
    BY <2>1
  <2>3. h[i] = Moved(s[i], to, now)
    BY <1>2, <2>1, Tables DEF HandedOver
  <2> QED
    BY <2>2, <2>3
<1> QED
  BY <1>1, <1>2

\* Whether a milestone goes with those who are removed, or is handed on.
Lost(s, gone, f) ==
    /\ Live(s[f])
    /\ \/ s[f].bearer \in gone
       \/ s[f].bearer \in Ending(s, gone) /\ s[s[f].bearer].ends \subseteq gone
Handed(s, gone, f) ==
    Live(s[f]) /\ s[f].bearer \in Ending(s, gone) /\ ~(s[s[f].bearer].ends \subseteq gone)

LEMMA RemovedAt ==
  ASSUME NEW s \in Store, NEW gone \in SUBSET Person, NEW now \in Nat,
         NEW r, r = Removed(s, gone, now)
  PROVE  /\ r = [i \in Item |-> r[i]]
         /\ \A p \in Person : r[p] = IF p \in gone THEN Tomb(s[p], now) ELSE s[p]
         /\ \A e \in Edge : r[e] = IF e \in Ending(s, gone) THEN Tomb(s[e], now) ELSE s[e]
         /\ \A f \in Milestone :
               /\ Lost(s, gone, f) => r[f] = Tomb(s[f], now)
               /\ Handed(s, gone, f) =>
                     \E q \in s[s[f].bearer].ends : q \notin gone /\ r[f] = Moved(s[f], q, now)
               /\ ~Lost(s, gone, f) /\ ~Handed(s, gone, f) => r[f] = s[f]
<1> DEFINE b == Buried(s, gone, now)
           h == HandedOver(b, gone, now)
           ending == Ending(s, gone)
           rows == ending \cup UNION {FactsOn(h, x) : x \in gone \cup ending}
<1>1. /\ \A i \in Item : i \notin Person => b[i] = s[i]
      /\ \A p \in Person : b[p] = IF p \in gone THEN Tomb(s[p], now) ELSE s[p]
  BY BuriedAt, Tables
<1>2. Ending(b, gone) = ending
  <2>1. \A e \in Edge : b[e] = s[e]
    BY <1>1, Tables
  <2> HIDE DEF b
  <2> QED
    BY <2>1, EndingSame
<1>3. r = Buried(h, rows, now)
  BY <1>2 DEF Removed, FactsRemoved
<1>4. \A i \in Item : r[i] = IF i \in rows THEN Tomb(h[i], now) ELSE h[i]
  <2> HIDE DEF h, rows
  <2> QED
    BY <1>3, BuriedAt
<1>5. \A i \in Item : i \in rows <=> i \in ending \/ \E x \in gone \cup ending : i \in FactsOn(h, x)
  OBVIOUS
<1>6. \A i \in Item : i \notin Milestone => h[i] = b[i]
  <2> HIDE DEF b
  <2> QED
    BY HandedOverAt
<1>7. ending \subseteq Edge
  BY EndingIs
<1>8. \A p \in Person : r[p] = IF p \in gone THEN Tomb(s[p], now) ELSE s[p]
  <2> TAKE p \in Person
  <2>1. p \notin rows
    BY <1>5, <1>7, FactsOnIs, Tables
  <2> HIDE DEF rows, h, b
  <2> QED
    BY <2>1, <1>1, <1>4, <1>6, Tables
<1>9. \A e \in Edge : r[e] = IF e \in ending THEN Tomb(s[e], now) ELSE s[e]
  <2> TAKE e \in Edge
  <2>1. e \in rows <=> e \in ending
    BY <1>5, FactsOnIs, Tables
  <2> HIDE DEF rows, h, b
  <2> QED
    BY <2>1, <1>1, <1>4, <1>6, Tables
<1>10. ASSUME NEW f \in Milestone
       PROVE  /\ Lost(s, gone, f) => r[f] = Tomb(s[f], now)
              /\ Handed(s, gone, f) =>
                    \E q \in s[s[f].bearer].ends : q \notin gone /\ r[f] = Moved(s[f], q, now)
              /\ ~Lost(s, gone, f) /\ ~Handed(s, gone, f) => r[f] = s[f]
  <2>1. b[f] = s[f] /\ f \notin ending
    BY <1>1, <1>7, Tables
  <2>2. f \in rows <=> Live(h[f]) /\ h[f].bearer \in gone \cup ending
    BY <2>1, <1>5, FactsOnIs, Tables
  <2>3. Live(s[f]) /\ s[f].bearer \in ending => b[s[f].bearer] = s[s[f].bearer]
    BY <1>1, <1>7, Tables
  <2>4. ~Handed(s, gone, f) => h[f] = s[f]
    <3> HIDE DEF b
    <3> QED
      BY <2>1, <2>3, <1>2, HandedOverAt, Tables DEF Handed
  <2>5. ASSUME Handed(s, gone, f)
        PROVE  \E q \in s[s[f].bearer].ends : q \notin gone /\ h[f] = Moved(s[f], q, now)
    <3> HIDE DEF b
    <3> QED
      BY <2>1, <2>3, <2>5, <1>2, HandedOverAt, Tables DEF Handed
  <2> HIDE DEF b, h, rows
  <2>6. CASE Handed(s, gone, f)
    <3>1. PICK q \in s[s[f].bearer].ends : q \notin gone /\ h[f] = Moved(s[f], q, now)
      BY <2>5, <2>6
    <3>2. s[f] \in FactRow
      BY <2>6, RowTypes DEF Handed, Live
    <3>3. q \in Person
      <4>1. s[f].bearer \in Edge /\ s[s[f].bearer] # None
        BY <2>6, EndingIs DEF Handed, Live
      <4> QED
        BY <4>1, RowTypes, Rows
    <3>4. h[f].bearer = q
      BY <3>1, <3>2, <3>3, MovedIs
    <3>5. f \notin rows
      BY <2>2, <3>1, <3>3, <3>4, <1>7, Tables
    <3>6. ~Lost(s, gone, f)
      BY <2>6, <1>7, Tables DEF Lost, Handed
    <3> QED
      BY <1>4, <2>6, <3>1, <3>5, <3>6, Tables
  <2>7. CASE ~Handed(s, gone, f)
    <3>1. Lost(s, gone, f) <=> f \in rows
      BY <2>2, <2>4, <2>7 DEF Lost, Handed
    <3> QED
      BY <1>4, <2>4, <2>7, <3>1, Tables
  <2> QED
    BY <2>6, <2>7
<1>11. r = [i \in Item |-> r[i]]
  BY <1>3 DEF Buried
<1> QED
  BY <1>8, <1>9, <1>10, <1>11

\* The copies a relationship's end makes.
Made(s, e) == {c \in Copy : s[c] = None /\ c[1] \in FactsOn(s, e) /\ c[2] \in Staying(s, e)}

LEMMA UnrelatedAt ==
  ASSUME NEW s \in Store, NEW e \in Edge, Live(s[e]), NEW now \in Nat,
         NEW u, u = Unrelated(s, e, now), NEW gone, gone = Leaving(s, e)
  PROVE  /\ u = [i \in Item |-> u[i]]
         /\ gone \subseteq s[e].ends /\ gone \subseteq People(s)
         /\ \A p \in Person : u[p] = IF p \in gone THEN Tomb(s[p], now) ELSE s[p]
         /\ \A d \in Edge : u[d] = IF d = e \/ d \in Ending(s, gone) THEN Tomb(s[d], now) ELSE s[d]
         /\ \A f \in Milestone :
               /\ f \in FactsOn(s, e) => u[f] = Tomb(s[f], now)
               /\ f \notin FactsOn(s, e) =>
                     /\ Lost(s, gone, f) => u[f] = Tomb(s[f], now)
                     /\ Handed(s, gone, f) =>
                           \E q \in s[s[f].bearer].ends : q \notin gone /\ u[f] = Moved(s[f], q, now)
                     /\ f \in Made(s, e) =>
                           u[f] = [at |-> now, gone |-> FALSE, bearer |-> f[2]]
                     /\ f \notin Made(s, e) /\ ~Lost(s, gone, f) /\ ~Handed(s, gone, f) => u[f] = s[f]
<1> DEFINE b == Buried(s, {e}, now)
           r == Removed(b, gone, now)
           shared == FactsOn(s, e)
           c == Copied(r, shared, Staying(s, e), now)
<1>1. gone \subseteq s[e].ends /\ gone \subseteq People(s) /\ gone \subseteq Person
  BY DEF Leaving, People
<1>2. \A i \in Item : b[i] = IF i = e THEN Tomb(s[i], now) ELSE s[i]
  BY BuriedAt
<1>3. s[e] \in EdgeRow /\ b[e] \in EdgeRow /\ b[e].gone /\ b[e] = Tomb(s[e], now)
  <2> HIDE DEF b
  <2>1. s[e] \in EdgeRow
    BY RowTypes DEF Live
  <2>2. b[e] = Tomb(s[e], now)
    BY <1>2, Tables
  <2>3. Tomb(s[e], now) \in EdgeRow /\ Tomb(s[e], now).gone
    BY <2>1, TombIs
  <2> QED
    BY <2>1, <2>2, <2>3
<1>4. b \in Store
  <2>1. b = [i \in Item |-> b[i]]
    BY DEF Buried
  <2> HIDE DEF b
  <2> QED
    BY <2>1, <1>2, <1>3, RowTypes, Tables, StoreOf
<1>5. u = Buried(c, shared, now)
  BY DEF Unrelated
<1>6. /\ \A p \in Person : r[p] = IF p \in gone THEN Tomb(b[p], now) ELSE b[p]
      /\ \A d \in Edge : r[d] = IF d \in Ending(b, gone) THEN Tomb(b[d], now) ELSE b[d]
      /\ \A f \in Milestone :
            /\ Lost(b, gone, f) => r[f] = Tomb(b[f], now)
            /\ Handed(b, gone, f) =>
                  \E q \in b[b[f].bearer].ends : q \notin gone /\ r[f] = Moved(b[f], q, now)
            /\ ~Lost(b, gone, f) /\ ~Handed(b, gone, f) => r[f] = b[f]
  <2> HIDE DEF b, r
  <2>1. r = Removed(b, gone, now)
    BY DEF r
  <2> QED
    BY <2>1, <1>1, <1>4, RemovedAt
<1> HIDE DEF b, r
<1>7. \A i \in Item : c[i] = IF i \in Copy /\ i[1] \in shared /\ i[2] \in Staying(s, e) /\ r[i] = None
                             THEN [at |-> now, gone |-> FALSE, bearer |-> i[2]] ELSE r[i]
  BY DEF Copied
<1> HIDE DEF c
<1>8. \A i \in Item : u[i] = IF i \in shared THEN Tomb(c[i], now) ELSE c[i]
  BY <1>5, BuriedAt
<1>9. shared \subseteq Milestone
  BY DEF FactsOn
<1>10. \A d \in Ending(b, gone) : d \in Ending(s, gone) /\ d # e
  BY <1>2, <1>3, EndingIs, Tables DEF Live
<1>11. \A d \in Ending(s, gone) : d = e \/ d \in Ending(b, gone)
  BY <1>2, EndingIs, Tables
<1>12. /\ \A p \in Person : u[p] = IF p \in gone THEN Tomb(s[p], now) ELSE s[p]
       /\ \A d \in Edge : u[d] = IF d = e \/ d \in Ending(s, gone) THEN Tomb(s[d], now) ELSE s[d]
  <2>1. \A i \in Person \cup Edge : u[i] = r[i]
    BY <1>7, <1>8, <1>9, Tables
  <2> QED
    BY <2>1, <1>2, <1>3, <1>6, <1>10, <1>11, Tables
<1>13. ASSUME NEW f \in Milestone
       PROVE  /\ f \in shared => u[f] = Tomb(s[f], now)
              /\ f \notin shared =>
                    /\ Lost(s, gone, f) => u[f] = Tomb(s[f], now)
                    /\ Handed(s, gone, f) =>
                          \E q \in s[s[f].bearer].ends : q \notin gone /\ u[f] = Moved(s[f], q, now)
                    /\ f \in Made(s, e) => u[f] = [at |-> now, gone |-> FALSE, bearer |-> f[2]]
                    /\ f \notin Made(s, e) /\ ~Lost(s, gone, f) /\ ~Handed(s, gone, f) => u[f] = s[f]
  <2>1. b[f] = s[f] /\ f \in Item
    BY <1>2, Tables
  <2>2. f \in shared <=> Live(s[f]) /\ s[f].bearer = e
    BY FactsOnIs
  <2>3. ASSUME f \in shared PROVE ~Lost(b, gone, f) /\ ~Handed(b, gone, f)
    BY <2>1, <2>2, <2>3, <1>1, <1>10, Tables DEF Lost, Handed
  <2>4. ASSUME f \notin shared
        PROVE  (Lost(b, gone, f) <=> Lost(s, gone, f)) /\ (Handed(b, gone, f) <=> Handed(s, gone, f))
    <3>1. CASE ~Live(s[f])
      BY <2>1, <3>1 DEF Lost, Handed
    <3>2. CASE Live(s[f])
      <4>1. s[f].bearer # e
        BY <2>2, <2>4, <3>2
      <4>2. s[f].bearer \in Ending(b, gone) <=> s[f].bearer \in Ending(s, gone)
        BY <4>1, <1>10, <1>11
      <4>3. s[f].bearer \in Ending(s, gone) => b[s[f].bearer] = s[s[f].bearer]
        BY <4>1, <1>2, EndingIs, Tables
      <4> QED
        BY <2>1, <4>2, <4>3 DEF Lost, Handed
    <3> QED
      BY <3>1, <3>2
  <2>5. Lost(s, gone, f) \/ Handed(s, gone, f) \/ f \in shared => s[f] # None
    BY <2>2 DEF Lost, Handed, Live
  <2>6. CASE f \in shared
    <3>1. r[f] = s[f] /\ s[f] # None
      BY <2>1, <2>3, <2>5, <2>6, <1>6
    <3> QED
      BY <2>1, <2>6, <3>1, <1>7, <1>8
  <2>7. CASE f \notin shared
    <3>1. /\ Lost(s, gone, f) => r[f] = Tomb(s[f], now)
          /\ Handed(s, gone, f) =>
                \E q \in s[s[f].bearer].ends : q \notin gone /\ r[f] = Moved(s[f], q, now)
          /\ ~Lost(s, gone, f) /\ ~Handed(s, gone, f) => r[f] = s[f]
      <4>1. Handed(s, gone, f) => b[s[f].bearer] = s[s[f].bearer]
        BY <2>2, <2>7, <1>2, EndingIs, Tables DEF Handed
      <4> QED
        BY <2>1, <2>4, <2>7, <4>1, <1>6
    <3>2. Lost(s, gone, f) \/ Handed(s, gone, f) => r[f] # None
      <4>1. ASSUME Lost(s, gone, f) \/ Handed(s, gone, f) PROVE s[f] \in FactRow
        BY <4>1, <2>5, RowTypes
      <4>2. ASSUME Lost(s, gone, f) PROVE r[f] # None
        BY <4>1, <4>2, <3>1, TombIs, Rows
      <4>3. ASSUME Handed(s, gone, f) PROVE r[f] # None
        <5>1. s[f].bearer \in Edge /\ s[s[f].bearer] # None
          BY <4>3, EndingIs DEF Handed, Live
        <5>2. s[s[f].bearer].ends \subseteq Person
          BY <5>1, RowTypes, Rows
        <5> QED
          BY <4>1, <4>3, <5>2, <3>1, MovedIs, Rows
      <4> QED
        BY <4>2, <4>3
    <3>3. u[f] = c[f]
      BY <2>1, <2>7, <1>8
    <3>4. f \in Made(s, e) <=> f \in Copy /\ f[1] \in shared /\ f[2] \in Staying(s, e) /\ s[f] = None
      BY DEF Made
    <3>5. f \in Made(s, e) => ~Lost(s, gone, f) /\ ~Handed(s, gone, f)
      BY <3>4, <2>5
    <3>6. CASE f \in Made(s, e)
      BY <2>1, <2>7, <3>1, <3>3, <3>4, <3>5, <3>6, <1>7
    <3>7. CASE f \notin Made(s, e)
      <4>1. c[f] = r[f]
        BY <2>1, <3>1, <3>2, <3>4, <3>7, <1>7
      <4> QED
        BY <2>7, <3>1, <3>3, <3>7, <4>1
    <3> QED
      BY <3>6, <3>7
  <2> QED
    BY <2>6, <2>7
<1>14. u = [i \in Item |-> u[i]]
  BY <1>5 DEF Buried
<1> QED
  BY <1>1, <1>12, <1>13, <1>14

LEMMA MergedAt ==
  ASSUME NEW s \in Store, NEW survivor \in People(s), NEW loser \in People(s), survivor # loser,
         NEW now \in Nat, NEW m, m = Merged(s, survivor, loser, now),
         NEW moved, moved = EdgesRepointed(s, loser, survivor, now)
  PROVE  /\ m = [i \in Item |-> m[i]]
         /\ m[loser] = Tomb(s[loser], now)
         /\ m[survivor] = [at |-> now, gone |-> FALSE,
               standing |-> IF s[loser].standing = Mine THEN Mine ELSE s[survivor].standing]
         /\ \A p \in Person \ {survivor, loser} : m[p] = s[p]
         /\ \A e \in Edge :
               /\ e \notin EdgesOf(s, loser) => moved[e] = s[e]
               /\ e \in EdgesOf(s, loser) =>
                     /\ moved[e] \in EdgeRow /\ ~moved[e].gone
                     /\ moved[e].ends = (s[e].ends \ {loser}) \cup {survivor}
                     /\ moved[e].at = Stamp(s[e], now)
               /\ m[e] = IF e \in Redundant(moved, survivor) THEN Tomb(moved[e], now) ELSE moved[e]
         /\ \A f \in Milestone :
               m[f] = IF f \in FactsOn(s, loser) THEN Moved(s[f], survivor, now) ELSE s[f]
<1> DEFINE edges == Buried(moved, Redundant(moved, survivor), now)
           facts == [f \in Item |-> IF f \in FactsOn(s, loser)
                                    THEN Moved(edges[f], survivor, now) ELSE edges[f]]
           standing == IF s[loser].standing = Mine THEN Mine ELSE s[survivor].standing
           w == WithPerson(facts, survivor, standing, now)
<1>1. survivor \in Person /\ loser \in Person /\ Redundant(moved, survivor) \subseteq Edge
  BY DEF People, Redundant, EdgesOf
<1>2. m = Buried(w, {loser}, now)
  BY DEF Merged
<1>3. \A i \in Item : moved[i] = IF i \in EdgesOf(s, loser)
         THEN [s[i] EXCEPT !.ends = (@ \ {loser}) \cup {survivor}, !.at = Stamp(s[i], now)] ELSE s[i]
  BY DEF EdgesRepointed
<1>4. \A i \in Item : edges[i] = IF i \in Redundant(moved, survivor) THEN Tomb(moved[i], now) ELSE moved[i]
  BY BuriedAt
<1> HIDE DEF edges
<1>5. \A i \in Item : facts[i] = IF i \in FactsOn(s, loser) THEN Moved(edges[i], survivor, now) ELSE edges[i]
  OBVIOUS
<1>6. facts = [i \in Item |-> facts[i]]
  OBVIOUS
<1> HIDE DEF facts
<1>7. \A i \in Item : w[i] = IF i = survivor THEN [at |-> now, gone |-> FALSE, standing |-> standing] ELSE facts[i]
  BY <1>6 DEF WithPerson
<1> HIDE DEF w
<1>8. \A i \in Item : m[i] = IF i = loser THEN Tomb(w[i], now) ELSE w[i]
  BY <1>2, BuriedAt
<1>9. FactsOn(s, loser) \subseteq Milestone /\ EdgesOf(s, loser) \subseteq Edge
  BY DEF FactsOn, EdgesOf
<1>10. \A i \in Item : i \notin Edge => edges[i] = s[i]
  BY <1>1, <1>3, <1>4, <1>9
<1>11. \A p \in Person : p # survivor => w[p] = s[p]
  BY <1>5, <1>7, <1>9, <1>10, Tables
<1>12. \A e \in Edge : m[e] = edges[e]
  BY <1>1, <1>5, <1>7, <1>8, <1>9, Tables
<1>13. \A f \in Milestone : m[f] = IF f \in FactsOn(s, loser) THEN Moved(s[f], survivor, now) ELSE s[f]
  BY <1>1, <1>5, <1>7, <1>8, <1>10, Tables
<1>14. ASSUME NEW e \in EdgesOf(s, loser)
       PROVE  /\ moved[e] \in EdgeRow /\ ~moved[e].gone
              /\ moved[e].ends = (s[e].ends \ {loser}) \cup {survivor}
              /\ moved[e].at = Stamp(s[e], now)
  <2>1. e \in Edge /\ s[e] \in EdgeRow /\ ~s[e].gone
    BY RowTypes DEF EdgesOf, Live
  <2>2. moved[e] = [s[e] EXCEPT !.ends = (@ \ {loser}) \cup {survivor}, !.at = Stamp(s[e], now)]
    BY <2>1, <1>3, Tables
  <2> DEFINE row == s[e]
             z == moved[e]
  <2>3. row \in EdgeRow /\ z = [row EXCEPT !.ends = (@ \ {loser}) \cup {survivor}, !.at = Stamp(row, now)]
    BY <2>1, <2>2
  <2>4. ~row.gone
    BY <2>1
  <2>5. /\ z \in EdgeRow /\ ~z.gone /\ z.ends = (row.ends \ {loser}) \cup {survivor}
        /\ z.at = Stamp(row, now)
    <3> HIDE DEF row, z
    <3> DEFINE stamp == Stamp(row, now)
    <3>1. row.at \in Nat
      BY <2>3 DEF EdgeRow
    <3>2. stamp \in Nat
      BY <3>1 DEF Stamp
    <3>3. z = [row EXCEPT !.ends = (@ \ {loser}) \cup {survivor}, !.at = stamp]
      BY <2>3
    <3> HIDE DEF stamp
    <3> DEFINE ends == (row.ends \ {loser}) \cup {survivor}
    <3>4. ends \in SUBSET Person
      BY <1>1, <2>3, Rows
    <3>5. z = [row EXCEPT !.ends = ends, !.at = stamp]
      BY <3>3
    <3> HIDE DEF ends
    <3>6. z \in EdgeRow /\ z.gone = row.gone /\ z.ends = ends /\ z.at = stamp
      BY <2>3, <3>2, <3>4, <3>5 DEF EdgeRow
    <3> QED
      BY <2>4, <3>6 DEF stamp, ends
  <2> QED
    BY <2>5
<1>15. m = [i \in Item |-> m[i]]
  BY <1>2 DEF Buried
<1>16. m[loser] = Tomb(s[loser], now) /\ \A p \in Person \ {survivor, loser} : m[p] = s[p]
  BY <1>1, <1>8, <1>11, Tables
<1>17. m[survivor] = [at |-> now, gone |-> FALSE, standing |-> standing]
  BY <1>1, <1>7, <1>8, Tables
<1>18. \A e \in Edge : /\ e \notin EdgesOf(s, loser) => moved[e] = s[e]
                       /\ m[e] = IF e \in Redundant(moved, survivor) THEN Tomb(moved[e], now) ELSE moved[e]
  BY <1>3, <1>4, <1>12, Tables
<1> QED
  BY <1>13, <1>14, <1>15, <1>16, <1>17, <1>18

-----------------------------------------------------------------------------
(* People: what every operation keeps.                                     *)

Dated(s, now) == \A i \in Item : s[i] # None => s[i].at < now

\* A transaction from s to t stamps what it writes, keeps what is the user's
\* own so, copies a milestone only as it removes it, and moves a copy only to
\* somebody in a set.
Lawful(s, t, now, takers) ==
    /\ t \in Store /\ Known(t)
    /\ \A i \in Item : t[i] # s[i] => t[i] # None /\ t[i].at \in {now, now + 1}
    /\ \A p \in Person : s[p] # None /\ s[p].standing = Mine => t[p].standing = Mine
    /\ \A c \in Copy :
          /\ s[c] = None /\ t[c] # None => t[c].bearer = c[2] /\ t[c[1]] # None /\ t[c[1]].gone
          /\ s[c] # None => t[c].bearer \in {s[c].bearer} \cup takers

\* What concerns a person is whole: their relationships and milestones are
\* those of somebody there, and a milestone of a relationship hangs from one
\* that is, or that a merge removed.
Sound(s, p, merged) ==
    /\ EdgesOf(s, p) # {} => p \in People(s)
    /\ FactsOn(s, p) # {} => p \in People(s)
    /\ \A f \in Milestone : Live(s[f]) /\ s[f].bearer \in Edge /\ p \in s[s[f].bearer].ends
          => Live(s[s[f].bearer]) \/ s[f].bearer \in merged

\* A person who is only a name is one on the page of one of the user's own,
\* disputes aside.
Anchored(s, p, disputed) ==
    p \in People(s) /\ s[p].standing = Named =>
        /\ FactsOn(s, p) = {}
        /\ \E e \in Edge :
              /\ EdgesOf(s, p) = {e}
              /\ \A q \in s[e].ends : q # p => q \in disputed \/ (q \in People(s) /\ s[q].standing = Mine)

\* What a row that is written may be.
LEMMA Touched ==
  ASSUME NEW now \in Nat, NEW row, row # None, row.at < now
  PROVE  /\ row \in PersonRow => Tomb(row, now).at \in {now, now + 1}
         /\ row \in EdgeRow => Tomb(row, now).at \in {now, now + 1}
         /\ row \in FactRow => /\ Tomb(row, now).at \in {now, now + 1}
                               /\ \A x \in Person \cup Edge : Moved(row, x, now).at \in {now, now + 1}
<1>1. row.at \in Nat => Stamp(row, now) \in {now, now + 1}
  BY StampIs
<1> QED
  BY <1>1, TombIs, MovedIs, Rows

LEMMA LiveIs ==
  ASSUME NEW s, NEW p
  PROVE  /\ p \in People(s) <=> p \in Person /\ s[p] # None /\ ~s[p].gone
         /\ \A e : e \in EdgesOf(s, p) <=> e \in Edge /\ s[e] # None /\ ~s[e].gone /\ p \in s[e].ends
         /\ \A f : f \in FactsOn(s, p) <=> f \in Milestone /\ s[f] # None /\ ~s[f].gone /\ s[f].bearer = p
BY DEF People, EdgesOf, FactsOn, Live

\* A person's relationships, in a store whose live ones have two ends.
LEMMA Ends ==
  ASSUME NEW s \in Store, Known(s), NEW e \in Edge, Live(s[e])
  PROVE  /\ s[e].ends \subseteq Person /\ \A p \in s[e].ends : s[p] # None
         /\ \A p \in s[e].ends : \E q \in Person : q # p /\ s[e].ends = {p, q} /\ OtherEnd(s, e, p) = q
<1>1. s[e] \in EdgeRow /\ s[e] # None /\ ~s[e].gone
  BY RowTypes DEF Live
<1>2. s[e].ends \subseteq Person /\ \A p \in s[e].ends : s[p] # None
  BY <1>1, Rows DEF Known
<1>3. PICK a, b \in Person : a # b /\ s[e].ends = {a, b}
  BY <1>1 DEF Known
<1>4. ASSUME NEW p \in s[e].ends, NEW q \in Person, q # p, s[e].ends = {p, q}
      PROVE  OtherEnd(s, e, p) = q
  <2>1. \A x \in s[e].ends : s[e].ends = {p, x} => x = q
    BY <1>4
  <2> QED
    BY <1>4, <2>1 DEF OtherEnd
<1>5. \A p \in s[e].ends : \E q \in Person : q # p /\ s[e].ends = {p, q}
  BY <1>3
<1> QED
  BY <1>2, <1>4, <1>5

\* Removing people keeps the store lawful.
LEMMA RemovedLawful ==
  ASSUME NEW s \in Store, Known(s), NEW now \in Nat, Dated(s, now),
         NEW gone \in SUBSET People(s), NEW t, t = Removed(s, gone, now), NEW takers
  PROVE  Lawful(s, t, now, takers)
<1>1. gone \subseteq Person /\ \A p \in gone : s[p] # None
  BY DEF People, Live
<1>2. /\ t = [i \in Item |-> t[i]]
      /\ \A p \in Person : t[p] = IF p \in gone THEN Tomb(s[p], now) ELSE s[p]
      /\ \A e \in Edge : t[e] = IF e \in Ending(s, gone) THEN Tomb(s[e], now) ELSE s[e]
      /\ \A f \in Milestone :
            /\ Lost(s, gone, f) => t[f] = Tomb(s[f], now)
            /\ Handed(s, gone, f) =>
                  \E q \in s[s[f].bearer].ends : q \notin gone /\ t[f] = Moved(s[f], q, now)
            /\ ~Lost(s, gone, f) /\ ~Handed(s, gone, f) => t[f] = s[f]
  BY <1>1, RemovedAt
<1>3. ASSUME NEW p \in Person
      PROVE  /\ t[p] = s[p] \/ (t[p] \in PersonRow /\ t[p].standing = s[p].standing /\ t[p].at \in {now, now + 1})
             /\ s[p] = None => t[p] = None
  <2>1. CASE p \in gone
    <3>1. s[p] # None /\ s[p] \in PersonRow /\ s[p].at < now
      BY <2>1, <1>1, RowTypes, Tables DEF Dated
    <3>2. /\ Tomb(s[p], now) \in PersonRow /\ Tomb(s[p], now).standing = s[p].standing
          /\ Tomb(s[p], now).at \in {now, now + 1}
      BY <3>1, TombIs, Touched
    <3> QED
      BY <2>1, <3>1, <3>2, <1>2
  <2> QED
    BY <2>1, <1>2
<1>4. ASSUME NEW e \in Edge
      PROVE  \/ t[e] = s[e]
             \/ s[e] # None /\ t[e] \in EdgeRow /\ t[e].gone /\ t[e].ends = s[e].ends /\ t[e].at \in {now, now + 1}
  <2>1. e \in Ending(s, gone) => s[e] # None
    BY EndingIs DEF Live
  <2> QED
    BY <2>1, <1>2, RowTypes, TombIs, Touched, Tables DEF Dated
<1>5. ASSUME NEW f \in Milestone
      PROVE  \/ t[f] = s[f]
             \/ /\ s[f] # None /\ t[f] \in FactRow /\ t[f].at \in {now, now + 1}
                /\ \/ t[f].bearer = s[f].bearer
                   \/ s[f].bearer \in Edge /\ s[s[f].bearer] # None /\ t[f].bearer \in s[s[f].bearer].ends
                      /\ t[f].bearer \in Person
  <2>1. Lost(s, gone, f) \/ Handed(s, gone, f) => s[f] \in FactRow /\ s[f] # None /\ s[f].at < now
    BY RowTypes, Tables DEF Lost, Handed, Live, Dated
  <2>2. CASE Lost(s, gone, f)
    BY <2>1, <2>2, <1>2, TombIs, Touched
  <2>3. CASE Handed(s, gone, f)
    <3>1. s[f].bearer \in Edge /\ s[s[f].bearer] # None
      BY <2>3, EndingIs DEF Handed, Live
    <3>2. s[s[f].bearer].ends \subseteq Person
      BY <3>1, RowTypes, Rows
    <3>3. PICK q \in s[s[f].bearer].ends : t[f] = Moved(s[f], q, now)
      BY <2>3, <1>2
    <3>4. s[f] \in FactRow /\ s[f] # None /\ s[f].at < now /\ q \in Person /\ q \in Person \cup Edge
      BY <2>1, <2>3, <3>2
    <3>5. /\ Moved(s[f], q, now) \in FactRow /\ Moved(s[f], q, now).bearer = q
          /\ Moved(s[f], q, now).at \in {now, now + 1}
      BY <3>4, MovedIs, Touched
    <3> QED
      BY <3>1, <3>3, <3>4, <3>5
  <2> QED
    BY <2>2, <2>3, <1>2
<1>6. t \in Store
  <2>1. /\ \A p \in Person : t[p] = None \/ t[p] \in PersonRow
        /\ \A e \in Edge : t[e] = None \/ t[e] \in EdgeRow
        /\ \A f \in Milestone : t[f] = None \/ t[f] \in FactRow
    BY <1>3, <1>4, <1>5, RowTypes
  <2>2. t = [i \in Item |-> t[i]]
    BY <1>2
  <2> QED
    BY <2>1, <2>2, StoreOf
<1>7. \A i \in Item : t[i] # s[i] => t[i] # None /\ t[i].at \in {now, now + 1}
  BY <1>3, <1>4, <1>5, Rows, Tables
<1>8. Known(t)
  <2>1. ASSUME NEW e \in Edge, t[e] # None
        PROVE  /\ t[e].ends # {} /\ \A p \in t[e].ends : t[p] # None
               /\ ~t[e].gone => \E p, q \in Person : p # q /\ t[e].ends = {p, q}
    <3>1. s[e] # None /\ t[e].ends = s[e].ends /\ (t[e] = s[e] \/ t[e].gone)
      BY <2>1, <1>4
    <3>2. s[e].ends \subseteq Person
      BY <3>1, RowTypes, Rows
    <3>3. \A p \in s[e].ends : p \in Item /\ s[p] # None
      BY <3>1, <3>2, Tables DEF Known
    <3> QED
      BY <3>1, <3>3, <1>7 DEF Known
  <2>2. ASSUME NEW f \in Milestone, t[f] # None PROVE t[t[f].bearer] # None
    <3>1. s[f] # None /\ s[s[f].bearer] # None
      BY <2>2, <1>5 DEF Known
    <3>2. s[f].bearer \in Person \cup Edge
      BY <3>1, RowTypes, Rows
    <3>3. s[f].bearer \in Edge => \A p \in s[s[f].bearer].ends : s[p] # None
      BY <3>1 DEF Known
    <3>4. s[t[f].bearer] # None /\ t[f].bearer \in Item
      BY <3>1, <3>2, <3>3, <1>5, Tables
    <3> QED
      BY <3>4, <1>7
  <2>3. ASSUME NEW c \in Copy, t[c] # None PROVE t[c].bearer \in Person
    BY <2>3, <1>5, Tables DEF Known
  <2> QED
    BY <2>1, <2>2, <2>3 DEF Known
<1>9. \A p \in Person : s[p] # None /\ s[p].standing = Mine => t[p].standing = Mine
  BY <1>3
<1>10. \A c \in Copy :
          /\ s[c] = None => t[c] = None
          /\ s[c] # None => t[c].bearer = s[c].bearer
  <2> TAKE c \in Copy
  <2>1. c \in Milestone /\ (s[c] # None => s[c].bearer \in Person)
    BY Tables DEF Known
  <2> QED
    BY <2>1, <1>5, Tables
<1> QED
  BY <1>6, <1>7, <1>8, <1>9, <1>10 DEF Lawful

\* Those who are removed leave nothing of themselves behind.
LEMMA RemovedSound ==
  ASSUME NEW s \in Store, Known(s), NEW now \in Nat, NEW gone \in SUBSET People(s),
         NEW t, t = Removed(s, gone, now), NEW p \in Person, NEW merged, Sound(s, p, merged)
  PROVE  Sound(t, p, merged)
<1>1. gone \subseteq Person /\ \A x \in gone : s[x] # None
  BY DEF People, Live
<1> gone \in SUBSET Person
  BY <1>1
<1>2. /\ \A x \in Person : t[x] = IF x \in gone THEN Tomb(s[x], now) ELSE s[x]
      /\ \A e \in Edge : t[e] = IF e \in Ending(s, gone) THEN Tomb(s[e], now) ELSE s[e]
      /\ \A f \in Milestone :
            /\ Lost(s, gone, f) => t[f] = Tomb(s[f], now)
            /\ Handed(s, gone, f) =>
                  \E q \in s[s[f].bearer].ends : q \notin gone /\ t[f] = Moved(s[f], q, now)
            /\ ~Lost(s, gone, f) /\ ~Handed(s, gone, f) => t[f] = s[f]
  BY RemovedAt
<1>3. \A e \in Edge : Live(t[e]) => e \notin Ending(s, gone) /\ t[e] = s[e] /\ Live(s[e])
  BY <1>2, EndingIs, RowTypes, TombIs DEF Live
<1>4. p \in People(s) /\ p \notin gone => p \in People(t)
  BY <1>2 DEF People
<1>5. p \in gone => EdgesOf(t, p) = {}
  BY <1>3, EndingIs, LiveIs DEF Live
<1>6. EdgesOf(t, p) \subseteq EdgesOf(s, p)
  BY <1>3, LiveIs DEF Live
<1>7. ASSUME NEW f \in Milestone, Live(t[f]), t[f].bearer = p
      PROVE  p \in People(s) /\ p \notin gone
  <2>1. ~Lost(s, gone, f)
    BY <1>2, <1>7, RowTypes, TombIs DEF Lost, Live
  <2>2. CASE ~Handed(s, gone, f)
    <3>1. t[f] = s[f] /\ f \in FactsOn(s, p)
      BY <2>1, <2>2, <1>2, <1>7, FactsOnIs
    <3> QED
      BY <2>1, <3>1, <1>7 DEF Sound, Lost
  <2>3. CASE Handed(s, gone, f)
    <3>1. PICK q \in s[s[f].bearer].ends : q \notin gone /\ t[f] = Moved(s[f], q, now)
      BY <2>3, <1>2
    <3>2. s[f].bearer \in Edge /\ Live(s[s[f].bearer])
      BY <2>3, EndingIs DEF Handed
    <3>3. q \in Person /\ s[f] \in FactRow
      BY <2>3, <3>1, <3>2, RowTypes, Rows DEF Handed, Live
    <3>4. q = p
      BY <3>1, <3>3, <1>7, MovedIs
    <3>5. s[f].bearer \in EdgesOf(s, p)
      BY <3>1, <3>2, <3>4 DEF EdgesOf
    <3> QED
      BY <3>1, <3>4, <3>5 DEF Sound
  <2> QED
    BY <2>2, <2>3
<1>8. ASSUME NEW f \in Milestone, Live(t[f]), t[f].bearer \in Edge, p \in t[t[f].bearer].ends
      PROVE  Live(t[t[f].bearer]) \/ t[f].bearer \in merged
  <2>1. ~Lost(s, gone, f)
    BY <1>2, <1>8, RowTypes, TombIs DEF Lost, Live
  <2>2. ~Handed(s, gone, f)
    <3> SUFFICES ASSUME Handed(s, gone, f) PROVE FALSE
      OBVIOUS
    <3>1. PICK q \in s[s[f].bearer].ends : q \notin gone /\ t[f] = Moved(s[f], q, now)
      BY <1>2
    <3>2. s[f].bearer \in Edge /\ Live(s[s[f].bearer])
      BY EndingIs DEF Handed
    <3>3. q \in Person /\ s[f] \in FactRow
      BY <3>1, <3>2, RowTypes, Rows DEF Handed, Live
    <3> QED
      BY <3>1, <3>3, <1>8, MovedIs, Tables
  <2>3. t[f] = s[f] /\ s[f].bearer \notin Ending(s, gone)
    <3>1. t[f] = s[f]
      BY <2>1, <2>2, <1>2
    <3>2. Live(s[f])
      BY <3>1, <1>8
    <3> QED
      BY <2>1, <2>2, <3>1, <3>2 DEF Handed, Lost
  <2>4. t[s[f].bearer] = s[s[f].bearer]
    BY <2>3, <1>2, <1>8
  <2> QED
    BY <2>3, <2>4, <1>8 DEF Sound
<1> QED
  BY <1>4, <1>5, <1>6, <1>7, <1>8, LiveIs DEF Sound, Live

\* Whom a change of a row concerns is changed.
LEMMA ChangedIf ==
  ASSUME NEW s, NEW t, NEW p \in Person, NEW i \in Item, s[i] # t[i],
         i \in About(s, p) \/ i \in About(t, p)
  PROVE  p \in Changed(s, t)
BY DEF Changed

LEMMA AboutIs ==
  ASSUME NEW s, NEW p \in Person, NEW i
  PROVE  i \in About(s, p) <=>
            /\ i \in Item /\ s[i] # None
            /\ \/ i = p
               \/ i \in Edge /\ p \in s[i].ends
               \/ i \in Milestone /\ s[i].bearer = p
               \/ i \in Milestone /\ s[i].bearer \in Edge /\ p \in s[s[i].bearer].ends
BY DEF About

\* Nobody is left a name on the page of somebody removed.
LEMMA CascadeAnchored ==
  ASSUME NEW s \in Store, Known(s), NEW now \in Nat, NEW ps \in SUBSET People(s),
         NEW gone \in SUBSET Person,
         \A q : q \in gone <=> q \in ps \/ \E x \in ps : q \in Attached(s, x),
         NEW t, t = Removed(s, gone, now), NEW disputed, Changed(s, t) \cap disputed = {},
         NEW p \in Person, Anchored(s, p, disputed)
  PROVE  Anchored(t, p, disputed)
<1>0. \A q : q \in gone <=> q \in ps \/ \E x \in ps : q \in Attached(s, x)
  OBVIOUS
<1>1. gone \subseteq People(s) /\ gone \subseteq Person /\ \A x \in gone : s[x] # None /\ ~s[x].gone
  BY DEF People, Live, Attached
<1>2. /\ \A x \in Person : t[x] = IF x \in gone THEN Tomb(s[x], now) ELSE s[x]
      /\ \A e \in Edge : t[e] = IF e \in Ending(s, gone) THEN Tomb(s[e], now) ELSE s[e]
      /\ \A f \in Milestone :
            /\ Lost(s, gone, f) => t[f] = Tomb(s[f], now)
            /\ Handed(s, gone, f) =>
                  \E q \in s[s[f].bearer].ends : q \notin gone /\ t[f] = Moved(s[f], q, now)
            /\ ~Lost(s, gone, f) /\ ~Handed(s, gone, f) => t[f] = s[f]
  BY RemovedAt
<1> SUFFICES ASSUME p \in People(t), t[p].standing = Named
             PROVE  /\ FactsOn(t, p) = {}
                    /\ \E e \in Edge :
                          /\ EdgesOf(t, p) = {e}
                          /\ \A q \in t[e].ends : q # p =>
                                q \in disputed \/ (q \in People(t) /\ t[q].standing = Mine)
  BY DEF Anchored
<1>3. p \notin gone /\ t[p] = s[p] /\ p \in People(s) /\ s[p].standing = Named
  <2>1. \A x \in gone : t[x].gone
    BY <1>1, <1>2, RowTypes, TombIs
  <2> QED
    BY <2>1, <1>2, LiveIs
<1>4. PICK e \in Edge : /\ EdgesOf(s, p) = {e}
                        /\ \A q \in s[e].ends : q # p => q \in disputed \/ (q \in People(s) /\ s[q].standing = Mine)
  BY <1>3 DEF Anchored
<1>5. FactsOn(s, p) = {}
  BY <1>3 DEF Anchored
<1>6. Live(s[e]) /\ p \in s[e].ends
  BY <1>4 DEF EdgesOf
<1>7. PICK q \in Person : q # p /\ s[e].ends = {p, q} /\ OtherEnd(s, e, q) = p
  BY <1>6, Ends
<1>8. q \in gone => q \in Changed(s, t)
  <2> SUFFICES ASSUME q \in gone PROVE q \in Changed(s, t)
    OBVIOUS
  <2>1. t[q].gone /\ ~s[q].gone /\ s[q] # None
    BY <1>1, <1>2, RowTypes, TombIs
  <2> QED
    BY <2>1, ChangedIf, AboutIs, Tables
<1>9. q \notin gone
  <2> SUFFICES ASSUME q \in gone PROVE FALSE
    OBVIOUS
  <2>1. s[q].standing = Mine
    BY <1>4, <1>7, <1>8
  <2>2. \A x \in ps : q \notin Attached(s, x)
    BY <2>1, RowsAssumption DEF Attached, RowsAssumption
  <2>3. q \in ps
    BY <2>2, <1>0
  <2>4. p \in Attached(s, q)
    BY <1>3, <1>6, <1>7 DEF Attached, EdgesOf
  <2> QED
    BY <2>3, <2>4, <1>0, <1>3
<1>10. e \notin Ending(s, gone) /\ t[e] = s[e]
  BY <1>2, <1>3, <1>7, <1>9, EndingIs
<1>11. EdgesOf(t, p) = {e}
  <2>1. \A d \in EdgesOf(t, p) : d \in EdgesOf(s, p)
    <3> TAKE d \in EdgesOf(t, p)
    <3>1. d \in Edge /\ ~t[d].gone
      BY LiveIs
    <3>2. t[d] = s[d]
      BY <3>1, <1>2, EndingIs, RowTypes, TombIs DEF Live
    <3> QED
      BY <3>2, LiveIs
  <2> QED
    BY <2>1, <1>4, <1>6, <1>10 DEF EdgesOf
<1>12. FactsOn(t, p) = {}
  <2> SUFFICES ASSUME NEW f \in Milestone, Live(t[f]), t[f].bearer = p PROVE FALSE
    BY DEF FactsOn
  <2>1. ~Lost(s, gone, f)
    BY <1>2, RowTypes, TombIs DEF Lost, Live
  <2>2. Handed(s, gone, f)
    BY <2>1, <1>2, <1>5, FactsOnIs
  <2>3. PICK x \in s[s[f].bearer].ends : x \notin gone /\ t[f] = Moved(s[f], x, now)
    BY <2>2, <1>2
  <2>4. s[f].bearer \in Edge /\ Live(s[s[f].bearer])
    BY <2>2, EndingIs DEF Handed
  <2>5. x \in Person /\ s[f] \in FactRow
    BY <2>2, <2>3, <2>4, RowTypes, Rows DEF Handed, Live
  <2>6. x = p
    BY <2>3, <2>5, MovedIs
  <2>7. s[f].bearer \in EdgesOf(s, p)
    BY <2>3, <2>4, <2>6 DEF EdgesOf
  <2>8. s[f].bearer = e
    BY <2>7, <1>4
  <2> QED
    BY <2>2, <2>8, <1>10 DEF Handed
<1>13. \A x \in t[e].ends : x # p => x \in disputed \/ (x \in People(t) /\ t[x].standing = Mine)
  BY <1>2, <1>4, <1>7, <1>9, <1>10 DEF People
<1> QED
  BY <1>11, <1>12, <1>13

LEMMA UnrelatedLawful ==
  ASSUME NEW s \in Store, Known(s), NEW now \in Nat, Dated(s, now), NEW e \in Edge, Live(s[e]),
         NEW t, t = Unrelated(s, e, now), NEW takers
  PROVE  Lawful(s, t, now, takers)
<1> DEFINE gone == Leaving(s, e)
<1>1. /\ t = [i \in Item |-> t[i]]
      /\ gone \subseteq s[e].ends /\ gone \subseteq People(s)
      /\ \A p \in Person : t[p] = IF p \in gone THEN Tomb(s[p], now) ELSE s[p]
      /\ \A d \in Edge : t[d] = IF d = e \/ d \in Ending(s, gone) THEN Tomb(s[d], now) ELSE s[d]
  BY UnrelatedAt
<1>2. \A f \in Milestone :
         /\ f \in FactsOn(s, e) => t[f] = Tomb(s[f], now)
         /\ f \notin FactsOn(s, e) =>
               /\ Lost(s, gone, f) => t[f] = Tomb(s[f], now)
               /\ Handed(s, gone, f) =>
                     \E q \in s[s[f].bearer].ends : q \notin gone /\ t[f] = Moved(s[f], q, now)
               /\ f \in Made(s, e) => t[f] = [at |-> now, gone |-> FALSE, bearer |-> f[2]]
               /\ f \notin Made(s, e) /\ ~Lost(s, gone, f) /\ ~Handed(s, gone, f) => t[f] = s[f]
  BY UnrelatedAt
<1> HIDE DEF gone
<1>3. gone \subseteq Person /\ \A p \in gone : s[p] # None
  BY <1>1 DEF People, Live
<1>4. ASSUME NEW p \in Person
      PROVE  /\ t[p] = s[p] \/ (t[p] \in PersonRow /\ t[p].standing = s[p].standing /\ t[p].at \in {now, now + 1})
             /\ s[p] = None => t[p] = None
  <2>1. CASE p \in gone
    <3>1. s[p] # None /\ s[p] \in PersonRow /\ s[p].at < now
      BY <2>1, <1>3, RowTypes, Tables DEF Dated
    <3>2. /\ Tomb(s[p], now) \in PersonRow /\ Tomb(s[p], now).standing = s[p].standing
          /\ Tomb(s[p], now).at \in {now, now + 1}
      BY <3>1, TombIs, Touched
    <3> QED
      BY <2>1, <3>1, <3>2, <1>1
  <2> QED
    BY <2>1, <1>1
<1>5. ASSUME NEW d \in Edge
      PROVE  \/ t[d] = s[d]
             \/ s[d] # None /\ t[d] \in EdgeRow /\ t[d].gone /\ t[d].ends = s[d].ends /\ t[d].at \in {now, now + 1}
  <2>1. CASE d = e \/ d \in Ending(s, gone)
    <3>1. s[d] # None
      BY <2>1, EndingIs DEF Live
    <3>2. s[d] \in EdgeRow /\ s[d].at < now
      BY <3>1, RowTypes, Tables DEF Dated
    <3>3. t[d] = Tomb(s[d], now)
      BY <2>1, <1>1
    <3>4. /\ Tomb(s[d], now) \in EdgeRow /\ Tomb(s[d], now).gone /\ Tomb(s[d], now).ends = s[d].ends
          /\ Tomb(s[d], now).at \in {now, now + 1}
      BY <3>1, <3>2, TombIs, Touched
    <3> QED
      BY <3>1, <3>3, <3>4
  <2>2. CASE ~(d = e \/ d \in Ending(s, gone))
    BY <2>2, <1>1
  <2> QED
    BY <2>1, <2>2
<1>6. ASSUME NEW f \in Milestone
      PROVE  \/ t[f] = s[f]
             \/ /\ s[f] # None /\ t[f] \in FactRow /\ t[f].at \in {now, now + 1}
                /\ \/ t[f].bearer = s[f].bearer
                   \/ s[f].bearer \in Edge /\ s[s[f].bearer] # None /\ t[f].bearer \in s[s[f].bearer].ends
                      /\ t[f].bearer \in Person
             \/ f \in Made(s, e) /\ t[f] = [at |-> now, gone |-> FALSE, bearer |-> f[2]]
  <2>1. Lost(s, gone, f) \/ Handed(s, gone, f) \/ f \in FactsOn(s, e)
           => s[f] \in FactRow /\ s[f] # None /\ s[f].at < now
    BY RowTypes, Tables DEF Lost, Handed, Live, Dated, FactsOn
  <2>2. CASE f \in FactsOn(s, e) \/ Lost(s, gone, f)
    BY <2>1, <2>2, <1>2, TombIs, Touched
  <2>3. CASE Handed(s, gone, f) /\ f \notin FactsOn(s, e)
    <3>1. s[f].bearer \in Edge /\ s[s[f].bearer] # None
      BY <2>3, EndingIs DEF Handed, Live
    <3>2. s[s[f].bearer].ends \subseteq Person
      BY <3>1, RowTypes, Rows
    <3>3. PICK q \in s[s[f].bearer].ends : t[f] = Moved(s[f], q, now)
      BY <2>3, <1>2
    <3>4. s[f] \in FactRow /\ s[f] # None /\ s[f].at < now /\ q \in Person /\ q \in Person \cup Edge
      BY <2>1, <2>3, <3>2
    <3>5. /\ Moved(s[f], q, now) \in FactRow /\ Moved(s[f], q, now).bearer = q
          /\ Moved(s[f], q, now).at \in {now, now + 1}
      BY <3>4, MovedIs, Touched
    <3> QED
      BY <3>1, <3>3, <3>4, <3>5
  <2> QED
    BY <2>2, <2>3, <1>2
<1>7. ASSUME NEW f \in Made(s, e)
      PROVE  /\ f \in Copy /\ f \in Milestone /\ s[f] = None
             /\ f[1] \in FactsOn(s, e) /\ f[2] \in Person /\ s[f[2]] # None
             /\ t[f] \in FactRow /\ t[f].at = now /\ t[f].bearer = f[2]
  <2>1. f \in Copy /\ f \in Milestone /\ s[f] = None /\ f[1] \in FactsOn(s, e) /\ f[2] \in Staying(s, e)
    BY Tables DEF Made
  <2>2. f[2] \in Person /\ s[f[2]] # None
    BY <2>1 DEF Staying, People, Live
  <2>3. f \notin FactsOn(s, e)
    BY <2>1 DEF FactsOn, Live
  <2>4. t[f] = [at |-> now, gone |-> FALSE, bearer |-> f[2]]
    BY <2>1, <2>3, <1>2
  <2> QED
    BY <2>1, <2>2, <2>4, NewRows
<1>8. t \in Store
  <2>1. \A p \in Person : t[p] = None \/ t[p] \in PersonRow
    BY <1>4, RowTypes
  <2>2. \A d \in Edge : t[d] = None \/ t[d] \in EdgeRow
    BY <1>5, RowTypes
  <2>3. \A f \in Milestone : t[f] = None \/ t[f] \in FactRow
    BY <1>6, <1>7, RowTypes
  <2>4. t = [i \in Item |-> t[i]]
    BY <1>1
  <2> QED
    BY <2>1, <2>2, <2>3, <2>4, StoreOf
<1>9. \A i \in Item : t[i] # s[i] => t[i] # None /\ t[i].at \in {now, now + 1}
  BY <1>4, <1>5, <1>6, <1>7, Rows, Tables
<1>10. Known(t)
  <2>1. ASSUME NEW d \in Edge, t[d] # None
        PROVE  /\ t[d].ends # {} /\ \A p \in t[d].ends : t[p] # None
               /\ ~t[d].gone => \E p, q \in Person : p # q /\ t[d].ends = {p, q}
    <3>1. s[d] # None /\ t[d].ends = s[d].ends /\ (t[d] = s[d] \/ t[d].gone)
      BY <2>1, <1>5
    <3>2. s[d].ends \subseteq Person
      BY <3>1, RowTypes, Rows
    <3>3. \A p \in s[d].ends : p \in Item /\ s[p] # None
      BY <3>1, <3>2, Tables DEF Known
    <3> QED
      BY <3>1, <3>3, <1>9 DEF Known
  <2>2. ASSUME NEW f \in Milestone, t[f] # None PROVE t[t[f].bearer] # None
    <3>1. CASE f \in Made(s, e)
      BY <3>1, <1>7, <1>9, Tables
    <3>2. CASE f \notin Made(s, e)
      <4>1. s[f] # None /\ s[s[f].bearer] # None
        BY <2>2, <3>2, <1>6 DEF Known
      <4>2. s[f].bearer \in Person \cup Edge
        BY <4>1, RowTypes, Rows
      <4>3. s[f].bearer \in Edge => \A p \in s[s[f].bearer].ends : s[p] # None
        BY <4>1 DEF Known
      <4>4. s[t[f].bearer] # None /\ t[f].bearer \in Item
        BY <3>2, <4>1, <4>2, <4>3, <1>6, Tables
      <4> QED
        BY <4>4, <1>9
    <3> QED
      BY <3>1, <3>2
  <2>3. ASSUME NEW c \in Copy, t[c] # None PROVE t[c].bearer \in Person
    BY <2>3, <1>6, <1>7, Tables DEF Known
  <2> QED
    BY <2>1, <2>2, <2>3 DEF Known
<1>11. \A p \in Person : s[p] # None /\ s[p].standing = Mine => t[p].standing = Mine
  BY <1>4
<1>12. ASSUME NEW c \in Copy
       PROVE  /\ s[c] = None /\ t[c] # None => t[c].bearer = c[2] /\ t[c[1]] # None /\ t[c[1]].gone
              /\ s[c] # None => t[c].bearer = s[c].bearer
  <2>1. c \in Milestone /\ (s[c] # None => s[c].bearer \in Person)
    BY Tables DEF Known
  <2>2. s[c] # None => c \notin Made(s, e)
    BY DEF Made
  <2>3. s[c] # None => t[c].bearer = s[c].bearer
    BY <2>1, <2>2, <1>6, Tables
  <2>4. ASSUME s[c] = None, t[c] # None PROVE t[c].bearer = c[2] /\ t[c[1]] # None /\ t[c[1]].gone
    <3>1. c \in Made(s, e)
      BY <2>1, <2>4, <1>6
    <3>2. c[1] \in FactsOn(s, e) /\ t[c].bearer = c[2]
      BY <3>1, <1>7
    <3>3. c[1] \in Milestone /\ s[c[1]] \in FactRow
      BY <3>2, RowTypes DEF FactsOn, Live
    <3>4. t[c[1]] = Tomb(s[c[1]], now)
      BY <3>2, <3>3, <1>2
    <3> QED
      BY <3>2, <3>3, <3>4, TombIs, Rows
  <2> QED
    BY <2>3, <2>4
<1> QED
  BY <1>8, <1>9, <1>10, <1>11, <1>12 DEF Lawful

LEMMA UnrelatedSound ==
  ASSUME NEW s \in Store, Known(s), NEW now \in Nat, NEW e \in Edge, Live(s[e]),
         NEW t, t = Unrelated(s, e, now), NEW p \in Person, NEW merged, Sound(s, p, merged)
  PROVE  Sound(t, p, merged)
<1> DEFINE gone == Leaving(s, e)
<1>1. /\ gone \subseteq s[e].ends /\ gone \subseteq People(s)
      /\ \A x \in Person : t[x] = IF x \in gone THEN Tomb(s[x], now) ELSE s[x]
      /\ \A d \in Edge : t[d] = IF d = e \/ d \in Ending(s, gone) THEN Tomb(s[d], now) ELSE s[d]
  BY UnrelatedAt
<1>2. \A f \in Milestone :
         /\ f \in FactsOn(s, e) => t[f] = Tomb(s[f], now)
         /\ f \notin FactsOn(s, e) =>
               /\ Lost(s, gone, f) => t[f] = Tomb(s[f], now)
               /\ Handed(s, gone, f) =>
                     \E q \in s[s[f].bearer].ends : q \notin gone /\ t[f] = Moved(s[f], q, now)
               /\ f \in Made(s, e) => t[f] = [at |-> now, gone |-> FALSE, bearer |-> f[2]]
               /\ f \notin Made(s, e) /\ ~Lost(s, gone, f) /\ ~Handed(s, gone, f) => t[f] = s[f]
  BY UnrelatedAt
<1>3. \A x \in Staying(s, e) : x \in People(s) /\ x \notin gone
  BY DEF Staying, Leaving
<1> HIDE DEF gone
<1>4. \A d \in Edge : Live(t[d]) => d # e /\ d \notin Ending(s, gone) /\ t[d] = s[d] /\ Live(s[d])
  <2>1. Tomb(s[e], now).gone
    BY RowTypes, TombIs DEF Live
  <2> QED
    BY <2>1, <1>1, EndingIs, RowTypes, TombIs DEF Live
<1>5. p \in People(s) /\ p \notin gone => p \in People(t)
  BY <1>1 DEF People
<1>6. p \in gone => EdgesOf(t, p) = {}
  BY <1>4, EndingIs, LiveIs DEF Live
<1>7. EdgesOf(t, p) \subseteq EdgesOf(s, p)
  BY <1>4, LiveIs DEF Live
<1>8. \A f \in Milestone : Live(t[f]) =>
         /\ f \notin FactsOn(s, e) /\ ~Lost(s, gone, f)
         /\ f \in Made(s, e) => t[f].bearer = f[2] /\ f[2] \in Staying(s, e)
  <2> SUFFICES ASSUME NEW f \in Milestone, Live(t[f])
               PROVE  /\ f \notin FactsOn(s, e) /\ ~Lost(s, gone, f)
                      /\ f \in Made(s, e) => t[f].bearer = f[2] /\ f[2] \in Staying(s, e)
    OBVIOUS
  <2>0. Live(s[f]) => Tomb(s[f], now).gone
    BY RowTypes, TombIs DEF Live
  <2>1. f \notin FactsOn(s, e)
    <3> SUFFICES ASSUME f \in FactsOn(s, e) PROVE FALSE
      OBVIOUS
    <3>1. t[f] = Tomb(s[f], now) /\ Live(s[f])
      BY <1>2, FactsOnIs
    <3> QED
      BY <2>0, <3>1 DEF Live
  <2>2. ~Lost(s, gone, f)
    <3> SUFFICES ASSUME Lost(s, gone, f) PROVE FALSE
      OBVIOUS
    <3>1. t[f] = Tomb(s[f], now)
      BY <2>1, <1>2
    <3>2. Live(s[f])
      BY DEF Lost
    <3> QED
      BY <2>0, <3>1, <3>2 DEF Live
  <2>3. ASSUME f \in Made(s, e) PROVE t[f].bearer = f[2] /\ f[2] \in Staying(s, e)
    <3>1. t[f] = [at |-> now, gone |-> FALSE, bearer |-> f[2]]
      BY <2>1, <2>3, <1>2
    <3> QED
      BY <2>3, <3>1 DEF Made
  <2> QED
    BY <2>1, <2>2, <2>3
<1>9. ASSUME NEW f \in Milestone, Live(t[f]), Handed(s, gone, f)
      PROVE  /\ t[f].bearer \in Person /\ t[f].bearer \notin gone
             /\ s[f].bearer \in EdgesOf(s, t[f].bearer)
  <2>1. PICK q \in s[s[f].bearer].ends : q \notin gone /\ t[f] = Moved(s[f], q, now)
    BY <1>2, <1>8, <1>9
  <2>2. s[f].bearer \in Edge /\ Live(s[s[f].bearer])
    BY <1>9, EndingIs DEF Handed
  <2>3. q \in Person /\ s[f] \in FactRow
    BY <2>1, <2>2, <1>9, RowTypes, Rows DEF Handed, Live
  <2>4. q = t[f].bearer
    <3>1. Moved(s[f], q, now).bearer = q
      BY <2>3, MovedIs
    <3> QED
      BY <2>1, <3>1
  <2> QED
    BY <2>1, <2>2, <2>3, <2>4 DEF EdgesOf
<1>10. ASSUME NEW f \in Milestone, Live(t[f]), t[f].bearer = p
       PROVE  p \in People(s) /\ p \notin gone
  <2>1. CASE f \in Made(s, e)
    BY <2>1, <1>3, <1>8, <1>10
  <2>2. CASE Handed(s, gone, f)
    BY <2>2, <1>9, <1>10 DEF Sound
  <2>3. CASE f \notin Made(s, e) /\ ~Handed(s, gone, f)
    <3>1. t[f] = s[f] /\ f \in FactsOn(s, p)
      BY <2>3, <1>2, <1>8, <1>10, FactsOnIs
    <3> QED
      BY <3>1, <1>8, <1>10 DEF Sound, Lost
  <2> QED
    BY <2>1, <2>2, <2>3
<1>11. ASSUME NEW f \in Milestone, Live(t[f]), t[f].bearer \in Edge, p \in t[t[f].bearer].ends
       PROVE  Live(t[t[f].bearer]) \/ t[f].bearer \in merged
  <2>1. f \notin Made(s, e)
    BY <1>8, <1>11, Tables DEF Staying, People
  <2>2. ~Handed(s, gone, f)
    BY <1>9, <1>11, Tables
  <2>3. t[f] = s[f] /\ s[f].bearer \notin Ending(s, gone) /\ s[f].bearer # e
    BY <2>1, <2>2, <1>2, <1>8, <1>11 DEF Handed, Lost, FactsOn
  <2>4. t[s[f].bearer] = s[s[f].bearer]
    BY <2>3, <1>1, <1>11
  <2> QED
    BY <2>3, <2>4, <1>11 DEF Sound
<1> QED
  BY <1>5, <1>6, <1>7, <1>10, <1>11, LiveIs DEF Sound, Live

LEMMA UnrelatedAnchored ==
  ASSUME NEW s \in Store, Known(s), NEW now \in Nat, NEW e \in Edge, Live(s[e]),
         NEW t, t = Unrelated(s, e, now), NEW disputed, Changed(s, t) \cap disputed = {},
         NEW p \in Person, Anchored(s, p, disputed)
  PROVE  Anchored(t, p, disputed)
<1> DEFINE gone == Leaving(s, e)
<1>1. /\ gone \subseteq s[e].ends /\ gone \subseteq People(s)
      /\ \A x \in Person : t[x] = IF x \in gone THEN Tomb(s[x], now) ELSE s[x]
      /\ \A d \in Edge : t[d] = IF d = e \/ d \in Ending(s, gone) THEN Tomb(s[d], now) ELSE s[d]
  BY UnrelatedAt
<1>2. \A f \in Milestone :
         /\ f \in FactsOn(s, e) => t[f] = Tomb(s[f], now)
         /\ f \notin FactsOn(s, e) =>
               /\ Lost(s, gone, f) => t[f] = Tomb(s[f], now)
               /\ Handed(s, gone, f) =>
                     \E q \in s[s[f].bearer].ends : q \notin gone /\ t[f] = Moved(s[f], q, now)
               /\ f \in Made(s, e) => t[f] = [at |-> now, gone |-> FALSE, bearer |-> f[2]]
               /\ f \notin Made(s, e) /\ ~Lost(s, gone, f) /\ ~Handed(s, gone, f) => t[f] = s[f]
  BY UnrelatedAt
<1>3. gone \subseteq Person /\ \A x \in gone : s[x] # None /\ ~s[x].gone /\ s[x].standing # Mine
  BY DEF Leaving, People, Live
<1>4. \A x \in s[e].ends : x \in People(s) /\ s[x].standing # Mine => x \in gone
  BY DEF Leaving
<1> HIDE DEF gone
<1> SUFFICES ASSUME p \in People(t), t[p].standing = Named
             PROVE  /\ FactsOn(t, p) = {}
                    /\ \E d \in Edge :
                          /\ EdgesOf(t, p) = {d}
                          /\ \A q \in t[d].ends : q # p =>
                                q \in disputed \/ (q \in People(t) /\ t[q].standing = Mine)
  BY DEF Anchored
<1>5. p \notin gone /\ t[p] = s[p] /\ p \in People(s) /\ s[p].standing = Named
  <2>1. \A x \in gone : t[x].gone
    BY <1>1, <1>3, RowTypes, TombIs
  <2> QED
    BY <2>1, <1>1, LiveIs
<1>6. PICK d \in Edge : /\ EdgesOf(s, p) = {d}
                        /\ \A q \in s[d].ends : q # p => q \in disputed \/ (q \in People(s) /\ s[q].standing = Mine)
  BY <1>5 DEF Anchored
<1>7. FactsOn(s, p) = {}
  BY <1>5 DEF Anchored
<1>8. Live(s[d]) /\ p \in s[d].ends
  BY <1>6 DEF EdgesOf
<1>9. d # e
  <2>1. s[p].standing # Mine
    BY <1>5, RowsAssumption DEF RowsAssumption
  <2> QED
    BY <2>1, <1>4, <1>5, <1>8
<1>10. PICK q \in Person : q # p /\ s[d].ends = {p, q}
  BY <1>8, Ends
<1>11. q \in gone => q \in Changed(s, t)
  <2> SUFFICES ASSUME q \in gone PROVE q \in Changed(s, t)
    OBVIOUS
  <2>1. t[q].gone /\ ~s[q].gone /\ s[q] # None
    BY <1>1, <1>3, RowTypes, TombIs
  <2> QED
    BY <2>1, ChangedIf, AboutIs, Tables
<1>12. q \notin gone
  BY <1>3, <1>6, <1>10, <1>11
<1>13. d \notin Ending(s, gone) /\ t[d] = s[d]
  BY <1>1, <1>5, <1>9, <1>10, <1>12, EndingIs
<1>14. EdgesOf(t, p) = {d}
  <2>1. \A x \in EdgesOf(t, p) : x \in EdgesOf(s, p)
    <3> TAKE x \in EdgesOf(t, p)
    <3>1. x \in Edge /\ ~t[x].gone
      BY LiveIs
    <3>2. t[x] = s[x]
      <4>1. Tomb(s[e], now).gone
        BY RowTypes, TombIs DEF Live
      <4> QED
        BY <3>1, <4>1, <1>1, EndingIs, RowTypes, TombIs DEF Live
    <3> QED
      BY <3>2, LiveIs
  <2> QED
    BY <2>1, <1>6, <1>8, <1>13 DEF EdgesOf
<1>15. FactsOn(t, p) = {}
  <2> SUFFICES ASSUME NEW f \in Milestone, Live(t[f]), t[f].bearer = p PROVE FALSE
    BY DEF FactsOn
  <2>0. Live(s[f]) => Tomb(s[f], now).gone
    BY RowTypes, TombIs DEF Live
  <2>1. f \notin FactsOn(s, e)
    <3> SUFFICES ASSUME f \in FactsOn(s, e) PROVE FALSE
      OBVIOUS
    <3>1. t[f] = Tomb(s[f], now) /\ Live(s[f])
      BY <1>2, FactsOnIs
    <3> QED
      BY <2>0, <3>1 DEF Live
  <2>2. ~Lost(s, gone, f)
    <3> SUFFICES ASSUME Lost(s, gone, f) PROVE FALSE
      OBVIOUS
    <3>1. t[f] = Tomb(s[f], now)
      BY <2>1, <1>2
    <3>2. Live(s[f])
      BY DEF Lost
    <3> QED
      BY <2>0, <3>1, <3>2 DEF Live
  <2>3. f \notin Made(s, e)
    <3> SUFFICES ASSUME f \in Made(s, e) PROVE FALSE
      OBVIOUS
    <3>1. t[f].bearer = f[2]
      <4>1. t[f] = [at |-> now, gone |-> FALSE, bearer |-> f[2]]
        BY <2>1, <1>2
      <4> QED
        BY <4>1
    <3>2. s[p].standing = Mine
      BY <3>1 DEF Made, Staying
    <3> QED
      BY <3>2, <1>5, RowsAssumption DEF RowsAssumption
  <2>4. Handed(s, gone, f)
    BY <2>1, <2>2, <2>3, <1>2, <1>7, FactsOnIs
  <2>5. PICK x \in s[s[f].bearer].ends : x \notin gone /\ t[f] = Moved(s[f], x, now)
    BY <2>1, <2>4, <1>2
  <2>6. s[f].bearer \in Edge /\ Live(s[s[f].bearer])
    BY <2>4, EndingIs DEF Handed
  <2>7. x \in Person /\ s[f] \in FactRow
    BY <2>4, <2>5, <2>6, RowTypes, Rows DEF Handed, Live
  <2>8. x = p
    BY <2>5, <2>7, MovedIs
  <2>9. s[f].bearer \in EdgesOf(s, p)
    BY <2>5, <2>6, <2>8 DEF EdgesOf
  <2>10. s[f].bearer = d
    BY <2>9, <1>6
  <2> QED
    BY <2>4, <2>10, <1>13 DEF Handed
<1>16. \A x \in t[d].ends : x # p => x \in disputed \/ (x \in People(t) /\ t[x].standing = Mine)
  BY <1>1, <1>6, <1>10, <1>12, <1>13 DEF People
<1> QED
  BY <1>14, <1>15, <1>16

LEMMA MergedLawful ==
  ASSUME NEW s \in Store, Known(s), NEW now \in Nat, Dated(s, now),
         NEW survivor \in People(s), NEW loser \in People(s), survivor # loser,
         NEW t, t = Merged(s, survivor, loser, now), NEW takers, survivor \in takers
  PROVE  Lawful(s, t, now, takers)
<1> DEFINE moved == EdgesRepointed(s, loser, survivor, now)
           standing == IF s[loser].standing = Mine THEN Mine ELSE s[survivor].standing
<1>1. /\ t = [i \in Item |-> t[i]]
      /\ t[loser] = Tomb(s[loser], now)
      /\ t[survivor] = [at |-> now, gone |-> FALSE, standing |-> standing]
      /\ \A p \in Person \ {survivor, loser} : t[p] = s[p]
      /\ \A e \in Edge :
            /\ e \notin EdgesOf(s, loser) => moved[e] = s[e]
            /\ e \in EdgesOf(s, loser) =>
                  /\ moved[e] \in EdgeRow /\ ~moved[e].gone
                  /\ moved[e].ends = (s[e].ends \ {loser}) \cup {survivor}
                  /\ moved[e].at = Stamp(s[e], now)
            /\ t[e] = IF e \in Redundant(moved, survivor) THEN Tomb(moved[e], now) ELSE moved[e]
      /\ \A f \in Milestone :
            t[f] = IF f \in FactsOn(s, loser) THEN Moved(s[f], survivor, now) ELSE s[f]
  BY MergedAt
<1> HIDE DEF moved
<1>2. /\ survivor \in Person /\ loser \in Person /\ s[survivor] \in PersonRow /\ s[loser] \in PersonRow
      /\ s[survivor] # None /\ s[loser] # None /\ ~s[loser].gone /\ standing \in Standing
  BY RowTypes, Rows DEF People, Live, Standing
<1>3. /\ t[survivor] \in PersonRow /\ t[survivor].at = now /\ t[survivor].standing = standing
      /\ t[loser] \in PersonRow /\ t[loser].at \in {now, now + 1} /\ t[loser].standing = s[loser].standing
  BY <1>1, <1>2, NewRows, TombIs, Touched, Tables DEF Dated
<1>4. ASSUME NEW p \in Person
      PROVE  /\ t[p] = s[p] \/ (s[p] # None /\ t[p] \in PersonRow /\ t[p].at \in {now, now + 1})
             /\ s[p] # None /\ s[p].standing = Mine => t[p].standing = Mine
  BY <1>1, <1>2, <1>3
<1>5. \A e \in Edge : moved[e] = None \/ moved[e] \in EdgeRow
  BY <1>1, RowTypes
<1>6. Redundant(moved, survivor) \subseteq Edge /\ \A e \in Redundant(moved, survivor) : moved[e] # None /\ ~moved[e].gone
  BY LiveIs DEF Redundant
<1>7. ASSUME NEW e \in Edge
      PROVE  \/ t[e] = s[e]
             \/ /\ s[e] # None /\ t[e] \in EdgeRow /\ t[e].at \in {now, now + 1}
                /\ t[e].ends = s[e].ends \/ t[e].ends = (s[e].ends \ {loser}) \cup {survivor}
                /\ t[e].gone \/ (~s[e].gone /\ t[e].ends = (s[e].ends \ {loser}) \cup {survivor}
                                 /\ loser \in s[e].ends /\ e \notin Redundant(moved, survivor) /\ t[e] = moved[e])
  <2>1. CASE e \in EdgesOf(s, loser)
    <3>1. s[e] # None /\ ~s[e].gone /\ s[e].at < now /\ s[e].at \in Nat /\ s[e] \in EdgeRow /\ loser \in s[e].ends
      BY <2>1, LiveIs, RowTypes, Rows, Tables DEF Dated
    <3>2. moved[e].at = now
      BY <3>1, <2>1, <1>1 DEF Stamp
    <3>3. moved[e] \in EdgeRow /\ ~moved[e].gone /\ moved[e].ends = (s[e].ends \ {loser}) \cup {survivor}
      BY <2>1, <1>1
    <3>4. /\ Tomb(moved[e], now) \in EdgeRow /\ Tomb(moved[e], now).gone
          /\ Tomb(moved[e], now).ends = moved[e].ends /\ Tomb(moved[e], now).at = Stamp(moved[e], now)
      BY <3>3, TombIs
    <3>5. Stamp(moved[e], now) \in {now, now + 1}
      BY <3>2, StampIs
    <3>6. t[e] = IF e \in Redundant(moved, survivor) THEN Tomb(moved[e], now) ELSE moved[e]
      BY <1>1
    <3> QED
      BY <3>1, <3>2, <3>3, <3>4, <3>5, <3>6
  <2>2. CASE e \notin EdgesOf(s, loser)
    <3>1. moved[e] = s[e]
      BY <2>2, <1>1
    <3>2. CASE e \in Redundant(moved, survivor)
      <4>1. s[e] # None /\ s[e] \in EdgeRow /\ s[e].at < now
        BY <3>1, <3>2, <1>6, RowTypes, Tables DEF Dated
      <4>2. /\ Tomb(s[e], now) \in EdgeRow /\ Tomb(s[e], now).gone /\ Tomb(s[e], now).ends = s[e].ends
            /\ Tomb(s[e], now).at \in {now, now + 1}
        BY <4>1, TombIs, Touched
      <4>3. t[e] = Tomb(s[e], now)
        BY <3>1, <3>2, <1>1
      <4> QED
        BY <4>1, <4>2, <4>3
    <3> QED
      BY <3>1, <3>2, <1>1
  <2> QED
    BY <2>1, <2>2
<1>8. ASSUME NEW f \in Milestone
      PROVE  \/ t[f] = s[f]
             \/ s[f] # None /\ t[f] \in FactRow /\ t[f].at \in {now, now + 1} /\ t[f].bearer = survivor
  <2>1. CASE f \in FactsOn(s, loser)
    <3>1. s[f] # None /\ s[f] \in FactRow /\ s[f].at < now
      BY <2>1, LiveIs, RowTypes, Tables DEF Dated
    <3>2. t[f] = Moved(s[f], survivor, now) /\ survivor \in Person \cup Edge
      BY <2>1, <1>1, <1>2
    <3>3. /\ Moved(s[f], survivor, now) \in FactRow /\ Moved(s[f], survivor, now).bearer = survivor
          /\ Moved(s[f], survivor, now).at \in {now, now + 1}
      BY <3>1, <3>2, MovedIs, Touched
    <3> QED
      BY <3>1, <3>2, <3>3
  <2> QED
    BY <2>1, <1>1
<1>9. t \in Store
  <2>1. /\ \A p \in Person : t[p] = None \/ t[p] \in PersonRow
        /\ \A e \in Edge : t[e] = None \/ t[e] \in EdgeRow
        /\ \A f \in Milestone : t[f] = None \/ t[f] \in FactRow
    BY <1>4, <1>7, <1>8, RowTypes
  <2>2. t = [i \in Item |-> t[i]]
    BY <1>1
  <2> QED
    BY <2>1, <2>2, StoreOf
<1>10. \A i \in Item : t[i] # s[i] => t[i] # None /\ t[i].at \in {now, now + 1}
  BY <1>4, <1>7, <1>8, Rows, Tables
<1>11. Known(t)
  <2>1. ASSUME NEW e \in Edge, t[e] # None
        PROVE  /\ t[e].ends # {} /\ \A p \in t[e].ends : t[p] # None
               /\ ~t[e].gone => \E p, q \in Person : p # q /\ t[e].ends = {p, q}
    <3>1. s[e] # None /\ s[e].ends # {} /\ \A p \in s[e].ends : s[p] # None
      BY <2>1, <1>7 DEF Known
    <3>2. s[e].ends \subseteq Person
      BY <3>1, RowTypes, Rows
    <3>3. t[e].ends # {} /\ \A p \in t[e].ends : p \in Item /\ t[p] # None
      <4>1. \A p \in t[e].ends : p \in Person /\ s[p] # None
        BY <3>1, <3>2, <1>2, <1>7
      <4>2. t[e].ends # {}
        BY <3>1, <1>7
      <4> QED
        BY <4>1, <4>2, <1>10, Tables
    <3>4. ASSUME ~t[e].gone PROVE \E p, q \in Person : p # q /\ t[e].ends = {p, q}
      <4>1. CASE t[e] = s[e]
        BY <3>1, <3>4, <4>1 DEF Known
      <4>2. CASE t[e] # s[e]
        <5>1. /\ ~s[e].gone /\ t[e].ends = (s[e].ends \ {loser}) \cup {survivor}
              /\ loser \in s[e].ends /\ e \notin Redundant(moved, survivor) /\ t[e] = moved[e]
          BY <3>4, <4>2, <1>7
        <5>2. PICK q \in Person : q # loser /\ s[e].ends = {loser, q}
          BY <3>1, <5>1, Ends DEF Live
        <5>3. t[e].ends = {survivor, q}
          BY <5>1, <5>2
        <5>4. q # survivor
          <6>1. e \in EdgesOf(moved, survivor)
            BY <2>1, <3>4, <5>1, LiveIs
          <6> QED
            BY <5>1, <5>3, <6>1 DEF Redundant
        <5> QED
          BY <5>3, <5>4, <1>2
      <4> QED
        BY <4>1, <4>2
    <3> QED
      BY <3>3, <3>4
  <2>2. ASSUME NEW f \in Milestone, t[f] # None PROVE t[t[f].bearer] # None
    <3>1. s[f] # None /\ s[s[f].bearer] # None /\ s[f].bearer \in Person \cup Edge
      BY <2>2, <1>8, RowTypes, Rows DEF Known
    <3>2. t[f].bearer \in Item /\ s[t[f].bearer] # None
      BY <3>1, <1>2, <1>8, Tables
    <3> QED
      BY <3>2, <1>10
  <2>3. \A c \in Copy : t[c] # None => t[c].bearer \in Person
    BY <1>2, <1>8, Tables DEF Known
  <2> QED
    BY <2>1, <2>2, <2>3 DEF Known
<1>12. \A c \in Copy :
          /\ s[c] = None => t[c] = None
          /\ s[c] # None => t[c].bearer \in {s[c].bearer} \cup takers
  BY <1>8, Tables
<1> QED
  BY <1>4, <1>9, <1>10, <1>11, <1>12 DEF Lawful

LEMMA MergedSound ==
  ASSUME NEW s \in Store, Known(s), NEW now \in Nat,
         NEW survivor \in People(s), NEW loser \in People(s), survivor # loser,
         NEW t, t = Merged(s, survivor, loser, now), NEW merged, NEW more,
         more = merged \cup Redundant(EdgesRepointed(s, loser, survivor, now), survivor),
         NEW p \in Person, Sound(s, p, merged)
  PROVE  Sound(t, p, more)
<1> DEFINE moved == EdgesRepointed(s, loser, survivor, now)
           standing == IF s[loser].standing = Mine THEN Mine ELSE s[survivor].standing
<1>1. /\ t[loser] = Tomb(s[loser], now)
      /\ t[survivor] = [at |-> now, gone |-> FALSE, standing |-> standing]
      /\ \A x \in Person \ {survivor, loser} : t[x] = s[x]
      /\ \A e \in Edge :
            /\ e \notin EdgesOf(s, loser) => moved[e] = s[e]
            /\ e \in EdgesOf(s, loser) =>
                  /\ moved[e] \in EdgeRow /\ ~moved[e].gone
                  /\ moved[e].ends = (s[e].ends \ {loser}) \cup {survivor}
            /\ t[e] = IF e \in Redundant(moved, survivor) THEN Tomb(moved[e], now) ELSE moved[e]
      /\ \A f \in Milestone :
            t[f] = IF f \in FactsOn(s, loser) THEN Moved(s[f], survivor, now) ELSE s[f]
  BY MergedAt
<1>2. more = merged \cup Redundant(moved, survivor)
  OBVIOUS
<1> HIDE DEF moved
<1>3. survivor \in Person /\ loser \in Person /\ t[survivor] \in PersonRow
  <2>1. survivor \in Person /\ s[survivor] # None /\ loser \in Person
    BY LiveIs
  <2>2. s[survivor].standing \in Standing
    BY <2>1, RowTypes, Rows
  <2>3. standing \in Standing
    BY <2>2 DEF Standing
  <2> HIDE DEF standing
  <2>4. [at |-> now, gone |-> FALSE, standing |-> standing] \in PersonRow
    BY <2>3, NewRows
  <2>5. t[survivor] \in PersonRow
    BY <1>1, <2>4 DEF standing
  <2> QED
    BY <2>1, <2>5
<1>4. survivor \in People(t)
  BY <1>1, <1>3, Rows, LiveIs
<1>5. \A x \in People(s) : x # loser => x \in People(t)
  BY <1>1, <1>4, LiveIs
<1>6. ASSUME NEW e \in Edge, Live(t[e])
      PROVE  /\ e \notin Redundant(moved, survivor) /\ t[e] = moved[e] /\ Live(s[e])
             /\ loser \notin t[e].ends
             /\ \A x \in t[e].ends : x = survivor \/ x \in s[e].ends
  <2>1. \A d \in Redundant(moved, survivor) : d \in Edge /\ moved[d] \in EdgeRow
    <3> TAKE d \in Redundant(moved, survivor)
    <3>1. d \in Edge /\ moved[d] # None
      BY LiveIs DEF Redundant
    <3> QED
      BY <3>1, <1>1, RowTypes
  <2>2. e \notin Redundant(moved, survivor) /\ t[e] = moved[e]
    BY <2>1, <1>1, <1>6, TombIs DEF Live
  <2> QED
    BY <2>2, <1>1, <1>6, LiveIs DEF Live
<1>7. EdgesOf(t, p) # {} => p \in People(t)
  <2> SUFFICES ASSUME NEW e \in EdgesOf(t, p) PROVE p \in People(t)
    OBVIOUS
  <2>1. e \in Edge /\ Live(t[e]) /\ p \in t[e].ends
    BY DEF EdgesOf
  <2>2. p # loser /\ (p = survivor \/ e \in EdgesOf(s, p))
    BY <2>1, <1>6 DEF EdgesOf
  <2> QED
    BY <2>2, <1>4, <1>5 DEF Sound
<1>8. \A f \in Milestone : f \in FactsOn(s, loser) => s[f] \in FactRow /\ t[f] \in FactRow /\ t[f].bearer = survivor
  <2> TAKE f \in Milestone
  <2> SUFFICES ASSUME f \in FactsOn(s, loser)
               PROVE  s[f] \in FactRow /\ t[f] \in FactRow /\ t[f].bearer = survivor
    OBVIOUS
  <2>1. s[f] \in FactRow
    BY LiveIs, RowTypes
  <2>2. t[f] = Moved(s[f], survivor, now) /\ survivor \in Person \cup Edge
    BY <1>1, <1>3
  <2>3. Moved(s[f], survivor, now) \in FactRow /\ Moved(s[f], survivor, now).bearer = survivor
    BY <2>1, <2>2, MovedIs
  <2> QED
    BY <2>1, <2>2, <2>3
<1>9. FactsOn(t, p) # {} => p \in People(t)
  <2> SUFFICES ASSUME NEW f \in FactsOn(t, p) PROVE p \in People(t)
    OBVIOUS
  <2>1. f \in Milestone /\ Live(t[f]) /\ t[f].bearer = p
    BY DEF FactsOn
  <2>2. CASE f \in FactsOn(s, loser)
    BY <2>1, <2>2, <1>4, <1>8
  <2>3. CASE f \notin FactsOn(s, loser)
    <3>1. t[f] = s[f] /\ p # loser
      BY <2>1, <2>3, <1>1, FactsOnIs
    <3>2. f \in FactsOn(s, p)
      BY <2>1, <3>1, FactsOnIs
    <3> QED
      BY <3>1, <3>2, <1>5 DEF Sound
  <2> QED
    BY <2>2, <2>3
<1>10. ASSUME NEW f \in Milestone, Live(t[f]), t[f].bearer \in Edge, p \in t[t[f].bearer].ends
       PROVE  Live(t[t[f].bearer]) \/ t[f].bearer \in more
  <2> DEFINE b == t[f].bearer
  <2>1. t[f] = s[f]
    BY <1>1, <1>3, <1>8, <1>10, Tables
  <2>2. Live(s[b]) => Live(t[b]) \/ b \in more
    BY <1>1, <1>2, <1>10, LiveIs, Rows DEF Live
  <2>3. b \in Redundant(moved, survivor) => b \in more
    BY <1>2
  <2>4. ASSUME b \notin EdgesOf(s, loser), b \notin Redundant(moved, survivor)
        PROVE  t[b] = s[b]
    BY <2>4, <1>1, <1>10
  <2>5. b \in EdgesOf(s, loser) => Live(s[b])
    BY DEF EdgesOf
  <2>6. t[b] = s[b] => Live(s[b]) \/ b \in merged
    BY <2>1, <1>10 DEF Sound
  <2> QED
    BY <2>2, <2>3, <2>4, <2>5, <2>6, <1>2
<1> QED
  BY <1>7, <1>9, <1>10 DEF Sound

LEMMA MergedAnchored ==
  ASSUME NEW s \in Store, Known(s), NEW now \in Nat,
         NEW survivor \in People(s), NEW loser \in People(s), survivor # loser, s[loser].standing = Mine,
         NEW t, t = Merged(s, survivor, loser, now), NEW disputed,
         NEW p \in Person, Anchored(s, p, disputed)
  PROVE  Anchored(t, p, disputed)
<1> DEFINE moved == EdgesRepointed(s, loser, survivor, now)
           standing == IF s[loser].standing = Mine THEN Mine ELSE s[survivor].standing
<1>1. /\ t[loser] = Tomb(s[loser], now)
      /\ t[survivor] = [at |-> now, gone |-> FALSE, standing |-> Mine]
      /\ \A x \in Person \ {survivor, loser} : t[x] = s[x]
      /\ \A e \in Edge :
            /\ e \notin EdgesOf(s, loser) => moved[e] = s[e]
            /\ e \in EdgesOf(s, loser) =>
                  /\ moved[e] \in EdgeRow /\ ~moved[e].gone
                  /\ moved[e].ends = (s[e].ends \ {loser}) \cup {survivor}
            /\ t[e] = IF e \in Redundant(moved, survivor) THEN Tomb(moved[e], now) ELSE moved[e]
      /\ \A f \in Milestone :
            t[f] = IF f \in FactsOn(s, loser) THEN Moved(s[f], survivor, now) ELSE s[f]
  BY MergedAt
<1> HIDE DEF moved
<1>2. /\ survivor \in Person /\ loser \in Person /\ t[survivor] \in PersonRow
      /\ t[survivor].standing = Mine /\ ~t[survivor].gone /\ t[loser].gone
  <2>1. survivor \in Person /\ loser \in Person /\ s[loser] # None
    BY LiveIs
  <2>2. [at |-> now, gone |-> FALSE, standing |-> Mine] \in PersonRow
    BY NewRows DEF Standing
  <2>3. t[survivor] \in PersonRow /\ t[survivor].standing = Mine /\ ~t[survivor].gone
    BY <1>1, <2>2
  <2>4. Tomb(s[loser], now).gone
    BY <2>1, RowTypes, TombIs
  <2> QED
    BY <1>1, <2>1, <2>3, <2>4
<1>3. survivor \in People(t)
  BY <1>2, Rows, LiveIs
<1> SUFFICES ASSUME p \in People(t), t[p].standing = Named
             PROVE  /\ FactsOn(t, p) = {}
                    /\ \E e \in Edge :
                          /\ EdgesOf(t, p) = {e}
                          /\ \A q \in t[e].ends : q # p =>
                                q \in disputed \/ (q \in People(t) /\ t[q].standing = Mine)
  BY DEF Anchored
<1>4. p # survivor /\ p # loser /\ t[p] = s[p] /\ p \in People(s) /\ s[p].standing = Named
  BY <1>1, <1>2, LiveIs, RowsAssumption DEF RowsAssumption
<1>5. PICK e \in Edge : /\ EdgesOf(s, p) = {e}
                        /\ \A q \in s[e].ends : q # p => q \in disputed \/ (q \in People(s) /\ s[q].standing = Mine)
  BY <1>4 DEF Anchored
<1>6. FactsOn(s, p) = {}
  BY <1>4 DEF Anchored
<1>7. Live(s[e]) /\ p \in s[e].ends
  BY <1>5 DEF EdgesOf
<1>8. \A d \in Edge : d \in EdgesOf(moved, p) <=> d \in EdgesOf(s, p)
  <2> TAKE d \in Edge
  <2>1. CASE d \notin EdgesOf(s, loser)
    BY <2>1, <1>1, LiveIs
  <2>2. CASE d \in EdgesOf(s, loser)
    <3>1. moved[d] # None /\ ~moved[d].gone /\ s[d] # None /\ ~s[d].gone
      BY <2>2, <1>1, Rows, LiveIs
    <3>2. p \in moved[d].ends <=> p \in s[d].ends
      BY <2>2, <1>1, <1>4
    <3> QED
      BY <3>1, <3>2, LiveIs
  <2> QED
    BY <2>1, <2>2
<1>9. e \notin Redundant(moved, survivor)
  <2>1. p \in moved[e].ends
    BY <1>5, <1>7, <1>8 DEF EdgesOf
  <2>2. \A d \in Edge : d # e => d \notin EdgesOf(moved, p)
    BY <1>5, <1>8
  <2>3. \A d \in EdgesOf(moved, survivor) : moved[d].ends = moved[e].ends => d = e
    BY <2>1, <2>2, LiveIs
  <2> QED
    BY <2>1, <2>3, <1>4 DEF Redundant
<1>10. t[e] = moved[e]
  BY <1>1, <1>9
<1>11. EdgesOf(t, p) = {e}
  <2>1. \A d \in Redundant(moved, survivor) : d \in Edge /\ moved[d] \in EdgeRow
    <3> TAKE d \in Redundant(moved, survivor)
    <3>1. d \in Edge /\ moved[d] # None
      BY LiveIs DEF Redundant
    <3> QED
      BY <3>1, <1>1, RowTypes
  <2>2. \A d \in EdgesOf(t, p) : d \in EdgesOf(moved, p)
    BY <2>1, <1>1, TombIs, LiveIs
  <2> QED
    BY <2>2, <1>5, <1>8, <1>10, LiveIs
<1>12. FactsOn(t, p) = {}
  <2> SUFFICES ASSUME NEW f \in Milestone, Live(t[f]), t[f].bearer = p PROVE FALSE
    BY DEF FactsOn
  <2>1. f \in FactsOn(s, loser) => t[f].bearer = survivor
    <3> SUFFICES ASSUME f \in FactsOn(s, loser) PROVE t[f].bearer = survivor
      OBVIOUS
    <3>1. s[f] \in FactRow
      BY LiveIs, RowTypes
    <3>2. t[f] = Moved(s[f], survivor, now) /\ survivor \in Person \cup Edge
      BY <1>1, <1>2
    <3>3. Moved(s[f], survivor, now).bearer = survivor
      BY <3>1, <3>2, MovedIs
    <3> QED
      BY <3>2, <3>3
  <2>2. t[f] = s[f]
    BY <2>1, <1>1, <1>4
  <2> QED
    BY <2>2, <1>6, FactsOnIs
<1>13. ASSUME NEW q \in t[e].ends, q # p
       PROVE  q \in disputed \/ (q \in People(t) /\ t[q].standing = Mine)
  <2>1. q = survivor \/ (q \in s[e].ends /\ q # loser)
    BY <1>1, <1>7, <1>10, <1>13, LiveIs DEF EdgesOf
  <2>2. q \in s[e].ends /\ q # loser /\ q # survivor => t[q] = s[q] \/ q \in disputed
    BY <1>1, <1>5, <1>13, LiveIs
  <2> QED
    BY <2>1, <2>2, <1>2, <1>3, <1>5, <1>13, LiveIs
<1> QED
  BY <1>11, <1>12, <1>13

-----------------------------------------------------------------------------
(* People: the operations that only add.                                   *)

\* What the user adds or writes anew, between people who are there.
Grown(s, t, now) ==
    /\ t \in Store
    /\ \A p \in Person : t[p] # s[p] =>
          /\ t[p] # None /\ ~t[p].gone /\ t[p].at = now
          /\ s[p] = None \/ (~s[p].gone /\ t[p].standing \in {s[p].standing, Mine})
    /\ \A e \in Edge : t[e] # s[e] =>
          /\ s[e] = None /\ t[e] # None /\ ~t[e].gone /\ t[e].at = now
          /\ \E p, q \in People(t) : p # q /\ t[e].ends = {p, q}
    /\ \A f \in Milestone : t[f] # s[f] =>
          /\ f \in Fact /\ s[f] = None /\ t[f] # None /\ ~t[f].gone /\ t[f].at = now
          /\ t[f].bearer \in People(t) \/ (t[f].bearer \in Edge /\ Live(t[t[f].bearer]))

LEMMA GrownLawful ==
  ASSUME NEW s \in Store, Known(s), NEW now \in Nat, NEW t, Grown(s, t, now), NEW takers
  PROVE  Lawful(s, t, now, takers)
<1>1. t \in Store
  BY DEF Grown
<1>2. \A i \in Item : t[i] # s[i] => t[i] # None /\ t[i].at = now
  BY Tables DEF Grown
<1>3. \A i \in Item : s[i] # None => t[i] # None
  BY <1>2
<1>4. \A p \in Person : s[p] # None /\ s[p].standing = Mine => t[p].standing = Mine
  BY DEF Grown
<1>5. \A c \in Copy : t[c] = s[c]
  BY Tables DEF Grown
<1>6. Known(t)
  <2>1. ASSUME NEW e \in Edge, t[e] # None
        PROVE  /\ t[e].ends # {} /\ \A p \in t[e].ends : t[p] # None
               /\ ~t[e].gone => \E p, q \in Person : p # q /\ t[e].ends = {p, q}
    <3>1. CASE t[e] = s[e]
      <4>1. t[e].ends \subseteq Person
        BY <2>1, <1>1, RowTypes, Rows
      <4> QED
        BY <2>1, <3>1, <4>1, <1>3, Tables DEF Known
    <3>2. CASE t[e] # s[e]
      <4>1. PICK p, q \in People(t) : p # q /\ t[e].ends = {p, q}
        BY <3>2 DEF Grown
      <4> QED
        BY <4>1, LiveIs
    <3> QED
      BY <3>1, <3>2
  <2>2. ASSUME NEW f \in Milestone, t[f] # None PROVE t[t[f].bearer] # None
    <3>1. CASE t[f] = s[f]
      <4>1. t[f].bearer \in Item
        BY <2>2, <1>1, RowTypes, Rows, Tables
      <4> QED
        BY <2>2, <3>1, <4>1, <1>3 DEF Known
    <3>2. CASE t[f] # s[f]
      BY <3>2, LiveIs DEF Grown, Live
    <3> QED
      BY <3>1, <3>2
  <2>3. \A c \in Copy : t[c] # None => t[c].bearer \in Person
    BY <1>5 DEF Known
  <2> QED
    BY <2>1, <2>2, <2>3 DEF Known
<1> QED
  BY <1>1, <1>2, <1>4, <1>5, <1>6 DEF Lawful

LEMMA GrownSound ==
  ASSUME NEW s \in Store, Known(s), NEW now \in Nat, NEW t, Grown(s, t, now),
         NEW p \in Person, NEW merged, Sound(s, p, merged)
  PROVE  Sound(t, p, merged)
<1>1. People(s) \subseteq People(t)
  BY LiveIs DEF Grown
<1>2. EdgesOf(t, p) # {} => p \in People(t)
  <2> SUFFICES ASSUME NEW e \in EdgesOf(t, p) PROVE p \in People(t)
    OBVIOUS
  <2>1. e \in Edge /\ p \in t[e].ends
    BY LiveIs
  <2>2. CASE t[e] = s[e]
    BY <2>2, <1>1, LiveIs DEF Sound
  <2>3. CASE t[e] # s[e]
    BY <2>1, <2>3 DEF Grown
  <2> QED
    BY <2>2, <2>3
<1>3. FactsOn(t, p) # {} => p \in People(t)
  <2> SUFFICES ASSUME NEW f \in FactsOn(t, p) PROVE p \in People(t)
    OBVIOUS
  <2>1. f \in Milestone /\ t[f].bearer = p
    BY LiveIs
  <2>2. CASE t[f] = s[f]
    BY <2>2, <1>1, LiveIs DEF Sound
  <2>3. CASE t[f] # s[f]
    BY <2>1, <2>3, Tables DEF Grown
  <2> QED
    BY <2>2, <2>3
<1>4. ASSUME NEW f \in Milestone, Live(t[f]), t[f].bearer \in Edge, p \in t[t[f].bearer].ends
      PROVE  Live(t[t[f].bearer]) \/ t[f].bearer \in merged
  <2>1. CASE t[f] = s[f]
    <3>1. s[s[f].bearer] # None
      BY <1>4, <2>1 DEF Known, Live
    <3>2. t[t[f].bearer] = s[s[f].bearer]
      BY <1>4, <2>1, <3>1 DEF Grown
    <3> QED
      BY <1>4, <2>1, <3>2 DEF Sound
  <2>2. CASE t[f] # s[f]
    BY <1>4, <2>2, LiveIs, Tables DEF Grown
  <2> QED
    BY <2>1, <2>2
<1> QED
  BY <1>2, <1>3, <1>4 DEF Sound

\* A person to whom nothing is added stays a name on the same page.
LEMMA GrownAnchored ==
  ASSUME NEW s \in Store, Known(s), NEW now \in Nat, NEW t, Grown(s, t, now),
         NEW p \in Person, s[p] # None,
         t[p].standing = Named =>
            /\ \A e \in Edge : t[e] # s[e] => p \notin t[e].ends
            /\ \A f \in Milestone : t[f] # s[f] => t[f].bearer # p,
         NEW disputed, Anchored(s, p, disputed)
  PROVE  Anchored(t, p, disputed)
<1> SUFFICES ASSUME p \in People(t), t[p].standing = Named
             PROVE  /\ FactsOn(t, p) = {}
                    /\ \E e \in Edge :
                          /\ EdgesOf(t, p) = {e}
                          /\ \A q \in t[e].ends : q # p =>
                                q \in disputed \/ (q \in People(t) /\ t[q].standing = Mine)
  BY DEF Anchored
<1>1. p \in People(s) /\ s[p].standing = Named
  BY LiveIs, RowsAssumption DEF Grown, RowsAssumption
<1>2. FactsOn(t, p) = {}
  BY <1>1, LiveIs DEF Anchored
<1>3. PICK e \in Edge : /\ EdgesOf(s, p) = {e}
                        /\ \A q \in s[e].ends : q # p => q \in disputed \/ (q \in People(s) /\ s[q].standing = Mine)
  BY <1>1 DEF Anchored
<1>4. t[e] = s[e]
  BY <1>3, LiveIs DEF Grown
<1>5. EdgesOf(t, p) = {e}
  <2>1. \A d \in Edge : d \in EdgesOf(t, p) => d \in EdgesOf(s, p)
    BY LiveIs
  <2>2. e \in EdgesOf(t, p)
    BY <1>3, <1>4, LiveIs
  <2> QED
    BY <1>3, <2>1, <2>2, LiveIs
<1>6. \A q \in People(s) : s[q].standing = Mine => q \in People(t) /\ t[q].standing = Mine
  BY LiveIs DEF Grown
<1> QED
  BY <1>2, <1>3, <1>4, <1>5, <1>6

-----------------------------------------------------------------------------
(* People: timelines.                                                      *)

Gone(s, p) == s[p] # None /\ s[p].gone

\* A milestone left on a relationship that a merge removed, of one of two.
Stranded(s, f, p, q, merged) ==
    /\ f \in Fact /\ Live(s[f]) /\ s[f].bearer \in Edge /\ s[f].bearer \in merged
    /\ Gone(s, s[f].bearer)
    /\ p \in s[s[f].bearer].ends \/ q \in s[s[f].bearer].ends

\* The timeline of p in s is on that of q in t, but for what is left so.
Carried(s, p, t, q, merged) ==
    \A f \in Timeline(s, p) : f \in Timeline(t, q) \/ Stranded(t, f, p, q, merged)

\* The copies that p kept hang from p.
Keeps(s, p) ==
    \A c \in Copy : c[2] = p /\ s[c] # None => Live(s[c]) /\ s[c].bearer = p

\* Tombstones stay as they are, nothing begins as one, a relationship gets no
\* end but somebody there, and a milestone of somebody who stays, or of a
\* relationship that is not, is left alone.
Steady(s, t) ==
    /\ \A i \in Item : Gone(s, i) => t[i] = s[i]
    /\ \A i \in Item : s[i] = None => ~Gone(t, i)
    /\ \A e \in Edge : s[e] # None => t[e].ends \subseteq s[e].ends \cup People(t)
    /\ \A f \in Milestone : Live(s[f]) =>
          /\ s[f].bearer \in People(t) => t[f] = s[f]
          /\ s[f].bearer \in Edge /\ ~Live(s[s[f].bearer]) => t[f] = s[f]
          /\ t[f].gone \/ t[f].bearer \in Edge => t[f].bearer = s[f].bearer
    /\ \A f \in Milestone : s[f] = None /\ t[f] # None /\ t[f].bearer \in Edge => Live(t[t[f].bearer])

LEMMA ShownIs ==
  ASSUME NEW s, NEW p, NEW f
  PROVE  f \in ShownOn(s, p) <=>
            /\ f \in Milestone /\ Live(s[f])
            /\ \/ s[f].bearer = p
               \/ s[f].bearer \in Edge /\ Live(s[s[f].bearer]) /\ p \in s[s[f].bearer].ends
BY DEF ShownOn, FactsOn, EdgesOf

LEMMA CarriedIf ==
  ASSUME NEW s, NEW p, NEW t, NEW q, NEW merged,
         \A f \in ShownOn(s, p) :
            \/ \E g \in ShownOn(t, q) : Original(g) = Original(f)
            \/ f \in Fact /\ Stranded(t, f, p, q, merged)
  PROVE  Carried(s, p, t, q, merged)
<1> SUFFICES ASSUME NEW f \in ShownOn(s, p)
             PROVE  Original(f) \in Timeline(t, q) \/ Stranded(t, Original(f), p, q, merged)
  BY DEF Carried, Timeline
<1>1. CASE \E g \in ShownOn(t, q) : Original(g) = Original(f)
  BY <1>1 DEF Timeline
<1>2. CASE f \in Fact /\ Stranded(t, f, p, q, merged)
  BY <1>2 DEF Original
<1> QED
  BY <1>1, <1>2

\* A milestone that stays on its bearer is still shown.
LEMMA ShownStill ==
  ASSUME NEW s, NEW t, NEW p, NEW q, NEW f \in ShownOn(s, p), t[f] = s[f],
         s[f].bearer = p => q = p,
         s[f].bearer \in Edge => Live(t[s[f].bearer]) /\ q \in t[s[f].bearer].ends
  PROVE  f \in ShownOn(t, q)
BY ShownIs

-----------------------------------------------------------------------------
(* People: what each operation does to the timelines.                      *)

LEMMA GrownSteady ==
  ASSUME NEW s \in Store, Known(s), NEW now \in Nat, NEW t, Grown(s, t, now), NEW merged
  PROVE  /\ Steady(s, t)
         /\ \A x \in People(s) : x \in People(t) /\ Carried(s, x, t, x, merged)
<1>1. /\ \A p \in Person : t[p] # s[p] => ~t[p].gone /\ (s[p] = None \/ ~s[p].gone)
      /\ \A p \in Person : s[p] # None => t[p] # None
  BY DEF Grown
<1>2. \A e \in Edge : t[e] # s[e] => s[e] = None /\ ~t[e].gone
  BY DEF Grown
<1>3. \A f \in Milestone : t[f] # s[f] =>
         /\ s[f] = None /\ ~t[f].gone
         /\ t[f].bearer \in People(t) \/ (t[f].bearer \in Edge /\ Live(t[t[f].bearer]))
  BY DEF Grown
<1>4. \A f \in Milestone : Live(s[f]) => t[f] = s[f]
  BY <1>3 DEF Live
<1>5. \A f \in Milestone : s[f] = None /\ t[f] # None /\ t[f].bearer \in Edge => Live(t[t[f].bearer])
  BY <1>3, LiveIs, Tables
<1>6. Steady(s, t)
  <2>1. \A i \in Item : Gone(s, i) => t[i] = s[i]
    BY <1>1, <1>2, <1>3, Tables DEF Gone
  <2>2. \A i \in Item : s[i] = None => ~Gone(t, i)
    BY <1>1, <1>2, <1>3, Tables DEF Gone
  <2> QED
    BY <2>1, <2>2, <1>2, <1>4, <1>5 DEF Steady
<1>7. ASSUME NEW x \in People(s) PROVE x \in People(t) /\ Carried(s, x, t, x, merged)
  <2>1. x \in People(t)
    BY <1>1, LiveIs
  <2>2. ASSUME NEW f \in ShownOn(s, x) PROVE f \in ShownOn(t, x)
    <3>1. /\ t[f] = s[f]
          /\ s[f].bearer \in Edge => s[f].bearer = x \/ (Live(s[s[f].bearer]) /\ x \in s[s[f].bearer].ends)
      BY <1>4, ShownIs
    <3>2. s[f].bearer \in Edge => Live(t[s[f].bearer]) /\ x \in t[s[f].bearer].ends
      BY <3>1, <1>2, LiveIs, Tables DEF Live
    <3> QED
      BY <3>1, <3>2, ShownStill
  <2> QED
    BY <2>1, <2>2, CarriedIf
<1> QED
  BY <1>6, <1>7

\* What goes with those removed is theirs alone; a milestone they shared is
\* handed to the other.
LEMMA RemovedSteady ==
  ASSUME NEW s \in Store, Known(s), NEW gone \in SUBSET People(s), NEW now \in Nat,
         NEW t, t = Removed(s, gone, now), NEW merged
  PROVE  /\ Steady(s, t)
         /\ \A x \in People(s) : x \in People(t) => Carried(s, x, t, x, merged)
<1>0. \A x \in gone : x \in Person /\ s[x] # None /\ ~s[x].gone
  BY LiveIs
<1>1. gone \subseteq Person
  BY <1>0
<1>2. /\ t = [i \in Item |-> t[i]]
      /\ \A p \in Person : t[p] = IF p \in gone THEN Tomb(s[p], now) ELSE s[p]
      /\ \A e \in Edge : t[e] = IF e \in Ending(s, gone) THEN Tomb(s[e], now) ELSE s[e]
      /\ \A f \in Milestone :
            /\ Lost(s, gone, f) => t[f] = Tomb(s[f], now)
            /\ Handed(s, gone, f) =>
                  \E q \in s[s[f].bearer].ends : q \notin gone /\ t[f] = Moved(s[f], q, now)
            /\ ~Lost(s, gone, f) /\ ~Handed(s, gone, f) => t[f] = s[f]
  BY <1>1, RemovedAt
<1>3. \A x \in gone : x \notin People(t)
  <2> TAKE x \in gone
  <2>1. s[x] \in PersonRow /\ t[x] = Tomb(s[x], now)
    BY <1>0, <1>2, RowTypes
  <2>2. t[x].gone
    BY <2>1, TombIs
  <2> QED
    BY <2>2, LiveIs
<1>4. ASSUME NEW e \in Ending(s, gone)
      PROVE  e \in Edge /\ Live(s[e]) /\ t[e].gone /\ t[e].ends = s[e].ends
             /\ \E p \in gone : p \in s[e].ends
  BY <1>2, EndingIs, RowTypes, TombIs DEF Live
<1>5. ASSUME NEW f \in Milestone, Lost(s, gone, f)
      PROVE  t[f].gone /\ t[f].bearer = s[f].bearer
  BY <1>2, <1>5, RowTypes, TombIs DEF Lost, Live
<1>6. ASSUME NEW f \in Milestone, Handed(s, gone, f)
      PROVE  \E q \in s[s[f].bearer].ends :
                q \in Person \ gone /\ t[f].bearer = q /\ ~t[f].gone /\ t[f] # None
  <2>1. PICK q \in s[s[f].bearer].ends : q \notin gone /\ t[f] = Moved(s[f], q, now)
    BY <1>2, <1>6
  <2>2. s[f] \in FactRow /\ ~s[f].gone
    BY <1>6, RowTypes DEF Handed, Live
  <2>3. q \in Person
    BY <1>4, <1>6, Ends DEF Handed
  <2> QED
    BY <2>1, <2>2, <2>3, MovedIs, Rows
<1>7. Steady(s, t)
  <2>1. ASSUME NEW i \in Item, Gone(s, i) PROVE t[i] = s[i]
    BY <1>0, <1>2, <1>4, <2>1, Tables DEF Gone, Lost, Handed, Live
  <2>2. ASSUME NEW i \in Item, s[i] = None PROVE ~Gone(t, i)
    BY <1>0, <1>2, <1>4, <2>2, Tables DEF Gone, Lost, Handed, Live
  <2>3. \A e \in Edge : t[e].ends \subseteq s[e].ends
    BY <1>2, <1>4
  <2>4. ASSUME NEW f \in Milestone, Live(s[f])
        PROVE  /\ s[f].bearer \in People(t) => t[f] = s[f]
               /\ s[f].bearer \in Edge /\ ~Live(s[s[f].bearer]) => t[f] = s[f]
               /\ t[f].gone \/ t[f].bearer \in Edge => t[f].bearer = s[f].bearer
    <3>1. Lost(s, gone, f) => s[f].bearer \in gone \/ s[f].bearer \in Ending(s, gone)
      BY DEF Lost
    <3>2. Handed(s, gone, f) => s[f].bearer \in Ending(s, gone)
      BY DEF Handed
    <3>3. \A x \in People(t) : x \notin Ending(s, gone) /\ x \notin gone
      BY <1>3, <1>4, LiveIs, Tables
    <3>4. \A x \in Edge : x \notin gone
      BY <1>0, Tables
    <3>5. s[f].bearer \in People(t) => t[f] = s[f]
      BY <3>1, <3>2, <3>3, <1>2
    <3>6. s[f].bearer \in Edge /\ ~Live(s[s[f].bearer]) => t[f] = s[f]
      BY <3>1, <3>2, <3>4, <1>2, <1>4
    <3>7. t[f].gone \/ t[f].bearer \in Edge => t[f].bearer = s[f].bearer
      BY <1>2, <1>5, <1>6, Tables
    <3> QED
      BY <3>5, <3>6, <3>7
  <2>5. \A f \in Milestone : s[f] = None => t[f] = None
    BY <1>2 DEF Lost, Handed, Live
  <2> QED
    BY <2>1, <2>2, <2>3, <2>4, <2>5 DEF Steady
<1>8. ASSUME NEW x \in People(s), x \in People(t), NEW f \in ShownOn(s, x)
      PROVE  f \in ShownOn(t, x)
  <2>1. /\ f \in Milestone /\ Live(s[f]) /\ x \in Person /\ x \notin gone
        /\ \/ s[f].bearer = x
           \/ s[f].bearer \in Edge /\ Live(s[s[f].bearer]) /\ x \in s[s[f].bearer].ends
    BY <1>3, <1>8, ShownIs, LiveIs
  <2>2. CASE s[f].bearer = x
    <3>1. t[f] = s[f]
      BY <2>1, <2>2, <1>7, <1>8 DEF Steady
    <3> QED
      BY <3>1, <2>1, <2>2, <1>8, ShownStill, Tables
  <2>3. CASE s[f].bearer \in Edge /\ s[f].bearer \notin Ending(s, gone)
    <3>1. s[f].bearer \notin gone
      BY <2>3, <1>0, Tables
    <3>2. t[f] = s[f]
      BY <2>1, <2>3, <3>1, <1>2 DEF Lost, Handed
    <3>3. t[s[f].bearer] = s[s[f].bearer]
      BY <2>3, <1>2
    <3> QED
      BY <3>2, <3>3, <2>1, <2>3, <1>8, ShownStill, Tables
  <2>4. CASE s[f].bearer \in Ending(s, gone)
    <3>1. Handed(s, gone, f)
      BY <2>1, <2>4, <1>4, Tables DEF Handed
    <3>2. PICK q \in s[s[f].bearer].ends :
             q \in Person \ gone /\ t[f].bearer = q /\ ~t[f].gone /\ t[f] # None
      BY <3>1, <2>1, <1>6
    <3>3. q = x
      <4>1. PICK z \in gone : z \in s[s[f].bearer].ends
        BY <2>4, <1>4
      <4>2. \E y \in Person : s[s[f].bearer].ends = {z, y}
        BY <2>4, <4>1, <1>4, Ends
      <4>3. x \in s[s[f].bearer].ends
        BY <2>1, <2>4, <1>4, Tables
      <4> QED
        BY <4>1, <4>2, <4>3, <3>2, <2>1
    <3> QED
      BY <3>2, <3>3, <2>1, ShownIs DEF Live
  <2> QED
    BY <2>1, <2>2, <2>3, <2>4
<1>9. \A x \in People(s) : x \in People(t) => Carried(s, x, t, x, merged)
  BY <1>8, CarriedIf
<1> QED
  BY <1>7, <1>9

\* Whoever is left by a relationship that ends has a copy of what it bore.
LEMMA UnrelatedSteady ==
  ASSUME NEW s \in Store, Known(s), NEW e \in Edge, Live(s[e]), NEW now \in Nat,
         NEW t, t = Unrelated(s, e, now), NEW merged
  PROVE  /\ Steady(s, t)
         /\ \A x \in People(s) : x \in People(t) /\ Keeps(s, x) => Carried(s, x, t, x, merged)
<1> DEFINE gone == Leaving(s, e)
<1> HIDE DEF gone
<1>1. /\ t = [i \in Item |-> t[i]]
      /\ gone \subseteq s[e].ends /\ gone \subseteq People(s)
      /\ \A p \in Person : t[p] = IF p \in gone THEN Tomb(s[p], now) ELSE s[p]
      /\ \A d \in Edge : t[d] = IF d = e \/ d \in Ending(s, gone) THEN Tomb(s[d], now) ELSE s[d]
      /\ \A f \in Milestone :
            /\ f \in FactsOn(s, e) => t[f] = Tomb(s[f], now)
            /\ f \notin FactsOn(s, e) =>
                  /\ Lost(s, gone, f) => t[f] = Tomb(s[f], now)
                  /\ Handed(s, gone, f) =>
                        \E q \in s[s[f].bearer].ends : q \notin gone /\ t[f] = Moved(s[f], q, now)
                  /\ f \in Made(s, e) => t[f] = [at |-> now, gone |-> FALSE, bearer |-> f[2]]
                  /\ f \notin Made(s, e) /\ ~Lost(s, gone, f) /\ ~Handed(s, gone, f) => t[f] = s[f]
  BY UnrelatedAt DEF gone
<1>2. \A x \in gone : x \in Person /\ s[x] # None /\ ~s[x].gone
  BY <1>1, LiveIs
<1>3. \A x \in gone : x \notin People(t)
  <2> TAKE x \in gone
  <2>1. s[x] \in PersonRow /\ t[x] = Tomb(s[x], now)
    BY <1>1, <1>2, RowTypes
  <2>2. t[x].gone
    BY <2>1, TombIs
  <2> QED
    BY <2>2, LiveIs
<1>4. ASSUME NEW d \in Ending(s, gone) \cup {e}
      PROVE  d \in Edge /\ Live(s[d]) /\ t[d].gone /\ t[d].ends = s[d].ends
             /\ (d # e => \E p \in gone : p \in s[d].ends)
  <2>1. d \in Edge /\ Live(s[d]) /\ (d # e => \E p \in gone : p \in s[d].ends)
    BY EndingIs
  <2>2. s[d] \in EdgeRow /\ t[d] = Tomb(s[d], now)
    BY <2>1, <1>1, RowTypes DEF Live
  <2> QED
    BY <2>1, <2>2, TombIs
<1>5. ASSUME NEW f \in Milestone, f \in FactsOn(s, e) \/ Lost(s, gone, f)
      PROVE  t[f].gone /\ t[f].bearer = s[f].bearer
  <2>1. f \in FactsOn(s, e) => Live(s[f])
    BY DEF FactsOn
  <2>2. Lost(s, gone, f) => Live(s[f])
    BY DEF Lost
  <2>3. s[f] \in FactRow
    BY <1>5, <2>1, <2>2, RowTypes DEF Live
  <2>4. t[f] = Tomb(s[f], now)
    <3>1. CASE f \in FactsOn(s, e)
      BY <3>1, <1>1
    <3>2. CASE f \notin FactsOn(s, e)
      BY <3>2, <1>1, <1>5
    <3> QED
      BY <3>1, <3>2
  <2> QED
    BY <2>3, <2>4, TombIs
<1>6. ASSUME NEW f \in Milestone, Handed(s, gone, f), f \notin FactsOn(s, e)
      PROVE  \E q \in s[s[f].bearer].ends :
                q \in Person \ gone /\ t[f].bearer = q /\ ~t[f].gone /\ t[f] # None
  <2>0. \E q \in s[s[f].bearer].ends : q \notin gone /\ t[f] = Moved(s[f], q, now)
    BY <1>1, <1>6
  <2>1. PICK q \in s[s[f].bearer].ends : q \notin gone /\ t[f] = Moved(s[f], q, now)
    BY <2>0
  <2>2. s[f] \in FactRow /\ ~s[f].gone
    BY <1>6, RowTypes DEF Handed, Live
  <2>3. q \in Person
    BY <1>4, <1>6, Ends DEF Handed
  <2>4. t[f] \in FactRow /\ ~t[f].gone /\ t[f].bearer = q
    BY <2>1, <2>2, <2>3, MovedIs
  <2>5. t[f] # None
    BY <2>4, Rows
  <2> QED
    BY <2>1, <2>3, <2>4, <2>5
<1>7. ASSUME NEW f \in Made(s, e)
      PROVE  /\ f \in Milestone /\ s[f] = None /\ t[f] # None /\ ~t[f].gone
             /\ t[f].bearer = f[2] /\ f[2] \in Person
  <2>1. f \in Copy /\ f \in Milestone /\ s[f] = None /\ f \notin FactsOn(s, e)
    BY LiveIs, Tables DEF Made
  <2>2. t[f] = [at |-> now, gone |-> FALSE, bearer |-> f[2]] /\ f[2] \in Person
    BY <2>1, <1>1 DEF Copy
  <2>3. t[f] \in FactRow
    BY <2>2, NewRows
  <2>4. t[f] # None
    BY <2>3, Rows
  <2>5. ~t[f].gone /\ t[f].bearer = f[2]
    BY <2>2
  <2> QED
    BY <2>1, <2>2, <2>4, <2>5
<1>8. ASSUME NEW f \in Milestone, ~Live(s[f]), f \notin Made(s, e)
      PROVE  t[f] = s[f]
  <2>1. ~Lost(s, gone, f) /\ ~Handed(s, gone, f)
    BY <1>8 DEF Lost, Handed
  <2>2. f \notin FactsOn(s, e)
    BY <1>8 DEF FactsOn
  <2> QED
    BY <2>1, <2>2, <1>1, <1>8
<1>9. Steady(s, t)
  <2>1. ASSUME NEW i \in Item, Gone(s, i) PROVE t[i] = s[i]
    <3>1. CASE i \in Person
      BY <3>1, <2>1, <1>1, <1>2 DEF Gone
    <3>2. CASE i \in Edge
      BY <3>2, <2>1, <1>1, <1>4 DEF Gone, Live
    <3>3. CASE i \in Milestone
      BY <3>3, <2>1, <1>7, <1>8 DEF Gone, Live
    <3> QED
      BY <3>1, <3>2, <3>3, Tables
  <2>2. ASSUME NEW i \in Item, s[i] = None PROVE ~Gone(t, i)
    <3>1. CASE i \in Person
      BY <3>1, <2>2, <1>1, <1>2 DEF Gone
    <3>2. CASE i \in Edge
      BY <3>2, <2>2, <1>1, <1>4 DEF Gone, Live
    <3>3. CASE i \in Milestone
      BY <3>3, <2>2, <1>7, <1>8 DEF Gone, Live
    <3> QED
      BY <3>1, <3>2, <3>3, Tables
  <2>3. \A d \in Edge : t[d].ends \subseteq s[d].ends
    BY <1>1, <1>4
  <2>4. ASSUME NEW f \in Milestone, Live(s[f])
        PROVE  /\ s[f].bearer \in People(t) => t[f] = s[f]
               /\ s[f].bearer \in Edge /\ ~Live(s[s[f].bearer]) => t[f] = s[f]
               /\ t[f].gone \/ t[f].bearer \in Edge => t[f].bearer = s[f].bearer
    <3>1. f \notin Made(s, e)
      BY <2>4, <1>7 DEF Live
    <3>2. f \in FactsOn(s, e) => s[f].bearer = e
      BY LiveIs
    <3>3. Lost(s, gone, f) => s[f].bearer \in gone \/ s[f].bearer \in Ending(s, gone)
      BY DEF Lost
    <3>4. Handed(s, gone, f) => s[f].bearer \in Ending(s, gone)
      BY DEF Handed
    <3>5. \A x \in People(t) : x \notin Ending(s, gone) /\ x \notin gone /\ x # e
      BY <1>3, <1>4, LiveIs, Tables
    <3>6. \A x \in Edge : x \notin gone
      BY <1>2, Tables
    <3>7. f \in FactsOn(s, e) \/ Lost(s, gone, f) \/ Handed(s, gone, f) \/ t[f] = s[f]
      BY <3>1, <1>1
    <3>8. s[f].bearer \in People(t) => t[f] = s[f]
      BY <3>2, <3>3, <3>4, <3>5, <3>7
    <3>9. s[f].bearer \in Edge /\ ~Live(s[s[f].bearer]) => t[f] = s[f]
      BY <3>2, <3>3, <3>4, <3>6, <3>7, <1>4
    <3>10. t[f].gone \/ t[f].bearer \in Edge => t[f].bearer = s[f].bearer
      BY <3>7, <1>5, <1>6, Tables
    <3> QED
      BY <3>8, <3>9, <3>10
  <2>5. ASSUME NEW f \in Milestone, s[f] = None, t[f] # None PROVE t[f].bearer \notin Edge
    BY <2>5, <1>7, <1>8, Tables DEF Live
  <2> QED
    BY <2>1, <2>2, <2>3, <2>4, <2>5 DEF Steady
<1>10. ASSUME NEW x \in People(s), x \in People(t), Keeps(s, x), NEW f \in ShownOn(s, x)
       PROVE  \E g \in ShownOn(t, x) : Original(g) = Original(f)
  <2>1. /\ f \in Milestone /\ Live(s[f]) /\ x \in Person /\ x \notin gone
        /\ \/ s[f].bearer = x
           \/ s[f].bearer \in Edge /\ Live(s[s[f].bearer]) /\ x \in s[s[f].bearer].ends
    BY <1>3, <1>10, ShownIs, LiveIs
  <2>2. f \notin Made(s, e)
    BY <2>1, <1>7 DEF Live
  <2>3. CASE s[f].bearer = x
    <3>1. t[f] = s[f]
      BY <2>1, <2>3, <1>9, <1>10 DEF Steady
    <3>2. f \in ShownOn(t, x)
      BY <3>1, <2>1, <2>3, <1>10, ShownStill, Tables
    <3> QED
      BY <3>2
  <2>4. CASE s[f].bearer \in Edge /\ s[f].bearer \notin Ending(s, gone) /\ s[f].bearer # e
    <3>1. s[f].bearer \notin gone /\ f \notin FactsOn(s, e)
      BY <2>4, <1>2, LiveIs, Tables
    <3>2. t[f] = s[f]
      BY <2>1, <2>2, <2>4, <3>1, <1>1 DEF Lost, Handed
    <3>3. t[s[f].bearer] = s[s[f].bearer]
      BY <2>4, <1>1
    <3>4. f \in ShownOn(t, x)
      BY <3>2, <3>3, <2>1, <2>4, <1>10, ShownStill, Tables
    <3> QED
      BY <3>4
  <2>5. CASE s[f].bearer \in Ending(s, gone) /\ s[f].bearer # e
    <3>1. Handed(s, gone, f) /\ f \notin FactsOn(s, e)
      BY <2>1, <2>5, <1>4, LiveIs, Tables DEF Handed
    <3>2. PICK q \in s[s[f].bearer].ends :
             q \in Person \ gone /\ t[f].bearer = q /\ ~t[f].gone /\ t[f] # None
      BY <3>1, <2>1, <1>6
    <3>3. q = x
      <4>1. PICK z \in gone : z \in s[s[f].bearer].ends
        BY <2>5, <1>4
      <4>2. \E y \in Person : s[s[f].bearer].ends = {z, y}
        BY <2>5, <4>1, <1>4, Ends
      <4>3. x \in s[s[f].bearer].ends
        BY <2>1, <2>5, <1>4, Tables
      <4> QED
        BY <4>1, <4>2, <4>3, <3>2, <2>1
    <3>4. f \in ShownOn(t, x)
      BY <3>2, <3>3, <2>1, ShownIs DEF Live
    <3> QED
      BY <3>4
  <2>6. CASE s[f].bearer = e
    <3> DEFINE c == <<f, x>>
    <3>1. f \in Fact /\ f \in FactsOn(s, e) /\ x \in s[e].ends
      BY <2>1, <2>6, LiveIs, Tables DEF Known, Live
    <3>2. x \in Staying(s, e)
      BY <2>1, <3>1, <1>10 DEF Staying, Leaving, gone
    <3>3. c \in Copy /\ c \in Milestone /\ c[1] = f /\ c[2] = x /\ Original(c) = Original(f)
      <4>1. c \in Copy
        BY <3>1, <2>1 DEF Copy
      <4> QED
        BY <4>1, <3>1, Tables DEF Original
    <3> HIDE DEF c
    <3>4. CASE s[c] = None
      <4>1. c \in Made(s, e)
        BY <3>1, <3>2, <3>3, <3>4 DEF Made
      <4>2. c \in ShownOn(t, x)
        BY <4>1, <3>3, <1>7, ShownIs DEF Live
      <4> QED
        BY <4>2, <3>3
    <3>5. CASE s[c] # None
      <4>1. Live(s[c]) /\ s[c].bearer = x
        BY <3>3, <3>5, <1>10 DEF Keeps
      <4>2. t[c] = s[c]
        BY <4>1, <3>3, <1>9, <1>10 DEF Steady
      <4>3. c \in ShownOn(t, x)
        BY <4>1, <4>2, <3>3, ShownIs
      <4> QED
        BY <4>3, <3>3
    <3> QED
      BY <3>4, <3>5
  <2> QED
    BY <2>1, <2>3, <2>4, <2>5, <2>6
<1>11. \A x \in People(s) : x \in People(t) /\ Keeps(s, x) => Carried(s, x, t, x, merged)
  BY <1>10, CarriedIf
<1> QED
  BY <1>9, <1>11

\* A merge takes the loser's timeline to the survivor, and nothing from anybody
\* but what it leaves on the relationships it removes.
LEMMA MergedSteady ==
  ASSUME NEW s \in Store, Known(s), NEW survivor \in People(s), NEW loser \in People(s), survivor # loser,
         NEW now \in Nat, Dated(s, now), NEW t, t = Merged(s, survivor, loser, now),
         NEW cut, Redundant(EdgesRepointed(s, loser, survivor, now), survivor) \subseteq cut
  PROVE  /\ Steady(s, t)
         /\ \A x \in People(s) : x \in People(t) => Carried(s, x, t, x, cut)
         /\ Carried(s, loser, t, survivor, cut)
         /\ loser \notin People(t) /\ survivor \in People(t)
         /\ loser \in Changed(s, t) /\ survivor \in Changed(s, t)
<1> DEFINE moved == EdgesRepointed(s, loser, survivor, now)
<1> HIDE DEF moved
<1>1. /\ t = [i \in Item |-> t[i]]
      /\ t[loser] = Tomb(s[loser], now)
      /\ t[survivor] = [at |-> now, gone |-> FALSE,
            standing |-> IF s[loser].standing = Mine THEN Mine ELSE s[survivor].standing]
      /\ \A p \in Person \ {survivor, loser} : t[p] = s[p]
      /\ \A e \in Edge :
            /\ e \notin EdgesOf(s, loser) => moved[e] = s[e]
            /\ e \in EdgesOf(s, loser) =>
                  /\ moved[e] \in EdgeRow /\ ~moved[e].gone
                  /\ moved[e].ends = (s[e].ends \ {loser}) \cup {survivor}
                  /\ moved[e].at = Stamp(s[e], now)
            /\ t[e] = IF e \in Redundant(moved, survivor) THEN Tomb(moved[e], now) ELSE moved[e]
      /\ \A f \in Milestone :
            t[f] = IF f \in FactsOn(s, loser) THEN Moved(s[f], survivor, now) ELSE s[f]
  BY MergedAt DEF moved
<1>2. /\ survivor \in Person /\ loser \in Person /\ survivor \in Item /\ loser \in Item
      /\ s[survivor] \in PersonRow /\ s[loser] \in PersonRow
      /\ ~s[survivor].gone /\ ~s[loser].gone /\ s[survivor] # None /\ s[loser] # None
      /\ s[survivor].standing \in Standing
  BY LiveIs, RowTypes, Rows, Tables
<1>3. t[survivor] # None /\ ~t[survivor].gone /\ t[survivor].at = now
  <2> DEFINE k == IF s[loser].standing = Mine THEN Mine ELSE s[survivor].standing
  <2>1. k \in Standing
    BY <1>2 DEF Standing
  <2>2. t[survivor] = [at |-> now, gone |-> FALSE, standing |-> k]
    BY <1>1
  <2> HIDE DEF k
  <2> QED
    BY <2>1, <2>2, PutIs
<1>4. t[loser].gone
  BY <1>1, <1>2, TombIs
<1>5. loser \notin People(t) /\ survivor \in People(t)
  BY <1>2, <1>3, <1>4, LiveIs
<1>6. loser \in Changed(s, t) /\ survivor \in Changed(s, t)
  <2>1. loser \in About(s, loser) /\ survivor \in About(s, survivor)
    BY <1>2, AboutIs
  <2>2. s[loser] # t[loser]
    BY <1>2, <1>4
  <2>3. s[survivor].at < now
    BY <1>2 DEF Dated
  <2>4. s[survivor].at \in Nat
    BY <1>2, Rows
  <2>5. s[survivor] # t[survivor]
    BY <2>3, <2>4, <1>3
  <2> QED
    BY <2>1, <2>2, <2>5, <1>2, ChangedIf
<1>7. \A e \in Redundant(moved, survivor) : e \in Edge /\ Live(moved[e]) /\ survivor \in moved[e].ends
  BY DEF Redundant, EdgesOf
<1>8. ASSUME NEW e \in Edge, Live(s[e])
      PROVE  /\ t[e].ends \subseteq s[e].ends \cup {survivor}
             /\ \A x \in s[e].ends : x # loser => x \in t[e].ends
             /\ loser \in s[e].ends => survivor \in t[e].ends
             /\ e \notin Redundant(moved, survivor) => Live(t[e])
             /\ e \in Redundant(moved, survivor) => t[e].gone /\ t[e] # None
  <2>1. moved[e] \in EdgeRow /\ ~moved[e].gone
    BY <1>1, <1>8, RowTypes DEF Live
  <2>2. /\ moved[e].ends \subseteq s[e].ends \cup {survivor}
        /\ \A x \in s[e].ends : x # loser => x \in moved[e].ends
        /\ loser \in s[e].ends => survivor \in moved[e].ends
    BY <1>1, <1>8, LiveIs DEF Live
  <2>3. CASE e \in Redundant(moved, survivor)
    <3>1. t[e] = Tomb(moved[e], now)
      BY <2>3, <1>1
    <3>2. t[e] \in EdgeRow /\ t[e].gone /\ t[e].ends = moved[e].ends
      BY <3>1, <2>1, TombIs
    <3> QED
      BY <3>2, <2>2, <2>3, Rows
  <2>4. CASE e \notin Redundant(moved, survivor)
    <3>1. t[e] = moved[e]
      BY <2>4, <1>1
    <3> QED
      BY <3>1, <2>1, <2>2, <2>4, Rows DEF Live
  <2> QED
    BY <2>3, <2>4
<1>9. ASSUME NEW e \in Edge, ~Live(s[e]) PROVE t[e] = s[e]
  <2>1. moved[e] = s[e]
    BY <1>1, <1>9 DEF EdgesOf
  <2> QED
    BY <2>1, <1>1, <1>7, <1>9
<1>10. \A f \in Milestone : f \notin FactsOn(s, loser) => t[f] = s[f]
  BY <1>1
<1>11. ASSUME NEW f \in FactsOn(s, loser)
       PROVE  /\ f \in Milestone /\ s[f].bearer = loser
              /\ t[f] # None /\ ~t[f].gone /\ t[f].bearer = survivor
  <2>1. f \in Milestone /\ s[f] # None /\ ~s[f].gone /\ s[f].bearer = loser
    BY LiveIs
  <2>2. s[f] \in FactRow
    BY <2>1, RowTypes
  <2>3. t[f] = Moved(s[f], survivor, now)
    BY <2>1, <1>1
  <2> QED
    BY <2>1, <2>2, <2>3, <1>2, MovedIs, Rows
<1>12. Steady(s, t)
  <2>1. ASSUME NEW i \in Item, Gone(s, i) PROVE t[i] = s[i]
    <3>1. CASE i \in Person
      BY <3>1, <2>1, <1>1, <1>2 DEF Gone
    <3>2. CASE i \in Edge
      BY <3>2, <2>1, <1>9 DEF Gone, Live
    <3>3. CASE i \in Milestone
      BY <3>3, <2>1, <1>10, LiveIs DEF Gone
    <3> QED
      BY <3>1, <3>2, <3>3, Tables
  <2>2. ASSUME NEW i \in Item, s[i] = None PROVE ~Gone(t, i)
    <3>1. CASE i \in Person
      BY <3>1, <2>2, <1>1, <1>2 DEF Gone
    <3>2. CASE i \in Edge
      BY <3>2, <2>2, <1>9 DEF Gone, Live
    <3>3. CASE i \in Milestone
      BY <3>3, <2>2, <1>10, LiveIs DEF Gone
    <3> QED
      BY <3>1, <3>2, <3>3, Tables
  <2>3. \A e \in Edge : t[e].ends \subseteq s[e].ends \cup People(t)
    BY <1>5, <1>8, <1>9
  <2>4. ASSUME NEW f \in Milestone, Live(s[f])
        PROVE  /\ s[f].bearer \in People(t) => t[f] = s[f]
               /\ s[f].bearer \in Edge /\ ~Live(s[s[f].bearer]) => t[f] = s[f]
               /\ t[f].gone \/ t[f].bearer \in Edge => t[f].bearer = s[f].bearer
    BY <1>2, <1>5, <1>10, <1>11, Tables
  <2>5. \A f \in Milestone : s[f] = None => t[f] = None
    BY <1>10, LiveIs
  <2> QED
    BY <2>1, <2>2, <2>3, <2>4, <2>5 DEF Steady
<1>13. ASSUME NEW x \in People(s), NEW y \in People(t), x # loser => y = x, x = loser => y = survivor
       PROVE  Carried(s, x, t, y, cut)
  <2> SUFFICES ASSUME NEW f \in ShownOn(s, x)
               PROVE  f \in ShownOn(t, y) \/ (f \in Fact /\ Stranded(t, f, x, y, cut))
    BY CarriedIf
  <2>1. /\ f \in Milestone /\ Live(s[f]) /\ x \in Person
        /\ \/ s[f].bearer = x
           \/ s[f].bearer \in Edge /\ Live(s[s[f].bearer]) /\ x \in s[s[f].bearer].ends
    BY ShownIs, LiveIs
  <2>2. CASE s[f].bearer = x /\ x = loser
    <3>1. f \in FactsOn(s, loser)
      BY <2>1, <2>2, LiveIs DEF Live
    <3> QED
      BY <3>1, <2>2, <1>11, <1>13, ShownIs DEF Live
  <2>3. CASE s[f].bearer = x /\ x # loser
    <3>1. t[f] = s[f]
      BY <2>1, <2>3, <1>10, LiveIs
    <3> QED
      BY <3>1, <2>1, <2>3, <1>13, ShownIs
  <2>4. CASE s[f].bearer \in Edge
    <3> DEFINE e == s[f].bearer
    <3>1. e \in Edge /\ Live(s[e]) /\ x \in s[e].ends /\ s[f].bearer = e
      BY <2>1, <2>4, Tables
    <3>2. t[f] = s[f]
      BY <2>1, <2>4, <1>2, <1>10, LiveIs, Tables
    <3> HIDE DEF e
    <3>3. y \in t[e].ends
      BY <3>1, <1>8, <1>13
    <3>4. CASE e \notin Redundant(moved, survivor)
      BY <3>1, <3>2, <3>3, <3>4, <2>1, <1>8, ShownIs
    <3>5. CASE e \in Redundant(moved, survivor)
      <4>1. e \in cut
        BY <3>5 DEF moved
      <4>2. f \in Fact
        BY <2>1, <3>1, Tables DEF Known, Live
      <4>3. Gone(t, e)
        BY <3>1, <3>5, <1>8 DEF Gone
      <4> QED
        BY <4>1, <4>2, <4>3, <3>1, <3>2, <3>3, <2>1 DEF Stranded
    <3> QED
      BY <3>4, <3>5
  <2> QED
    BY <2>1, <2>2, <2>3, <2>4
<1>14. \A x \in People(s) : x \in People(t) => Carried(s, x, t, x, cut)
  BY <1>5, <1>13
<1>15. Carried(s, loser, t, survivor, cut)
  BY <1>5, <1>13
<1> QED
  BY <1>5, <1>6, <1>12, <1>14, <1>15

-----------------------------------------------------------------------------
(* People: the invariant.                                                  *)

\* A version of a row at least as late as another.
Covers(a, b) == b = None \/ (a # None /\ a.at >= b.at)

Kept == \A h \in Holder : Known(store[h])

\* Stamps do not run ahead of the clock, and tell the versions of a row apart.
Stamped ==
    /\ \A h \in Holder : \A i \in Item : store[h][i] # None => store[h][i].at <= clock
    /\ \A g, h \in Holder : \A i \in Item :
          store[g][i] # None /\ store[h][i] # None /\ store[g][i].at = store[h][i].at
             => store[g][i] = store[h][i]

SeenBound == \A h \in Holder : \A p \in Person : seen[h][p] <= clock

\* Who has the last change of an undisputed person has every row about them.
Ahead ==
    \A g, h \in Holder : \A p \in Person \ contested : seen[g][p] >= seen[h][p] =>
        \A i \in About(store[g], p) \cup About(store[h], p) : Covers(store[g][i], store[h][i])

\* A row about a disputed and, perhaps elsewhere, an undisputed person is the
\* same everywhere.
Apart ==
    \A g, h \in Holder : \A y \in Person \ contested : \A z \in contested :
        \A i \in About(store[g], y) \cap About(store[h], z) :
            \A k \in Holder : store[k][i] = store[g][i]

\* No later version of an undisputed person takes a publication back.
Standings ==
    \A g, h \in Holder : \A p \in Person \ contested :
        store[h][p] # None /\ store[h][p].standing = Mine /\ Covers(store[g][p], store[h][p])
            => store[g][p].standing = Mine

\* Only a merge moves a copy.
Copies ==
    \A h \in Holder : \A c \in Copy : store[h][c] # None => store[h][c].bearer \in {c[2]} \cup survivors

Sounds == \A h \in Holder : \A p \in Person \ contested : Sound(store[h], p, pruned)

Anchors == \A h \in Holder : \A p \in Person \ (contested \cup chained) : Anchored(store[h], p, contested)

\* Who has a copy knows the milestone to be removed.
Once ==
    \A h \in Holder : \A c \in Copy :
        store[h][c] # None /\ c[1] \notin revived => store[h][c[1]] # None /\ store[h][c[1]].gone

\* The removal of a milestone is the last of its versions.
Removal ==
    \A g, h \in Holder : \A f \in Fact \ revived :
        store[g][f] # None /\ store[g][f].gone /\ Live(store[h][f]) => store[g][f].at > store[h][f].at

Rooted == PeopleTypeOK /\ Kept /\ Stamped

PeopleInvariant ==
    /\ Rooted /\ SeenBound /\ Ahead /\ Apart /\ Standings /\ Copies
    /\ Sounds /\ Anchors /\ Once /\ Removal

\* What an operation on s conveys to t: the timeline of everybody who stays and
\* whose copies are theirs, and to its heir that of whom it merged.
Conveys(s, t) ==
    /\ Steady(s, t)
    /\ \A x \in People(s) : x \in People(t) /\ Keeps(s, x) => Carried(s, x, t, x, pruned')
    /\ \A x \in Person : heir'[x] # heir[x] =>
          /\ x \in People(s) /\ x \notin People(t) /\ heir'[x] \in People(t)
          /\ x \in Changed(s, t) /\ heir'[x] \in Changed(s, t)
          /\ Carried(s, x, t, heir'[x], pruned')

\* What the rest of the proof needs of an operation.
Transaction(d, t) ==
    /\ Commit(d, t) /\ ops < MaxOps
    /\ Lawful(store[d], t, clock + 1, survivors')
    /\ survivors' \subseteq Person /\ survivors \subseteq survivors' /\ heir' \in [Person -> Person]
    /\ pruned' \subseteq Edge /\ pruned \subseteq pruned'
    /\ chained' \subseteq Person /\ chained \subseteq chained'
    /\ \A p \in Person : Sound(store[d], p, pruned) => Sound(t, p, pruned')
    /\ Changed(store[d], t) \cap contested = {} =>
          \A p \in Person \ chained' : Anchored(store[d], p, contested) => Anchored(t, p, contested)
    /\ Conveys(store[d], t)

LEMMA RootedIs ==
  ASSUME Rooted, NEW d \in Devices
  PROVE  /\ d \in Holder /\ store[d] \in Store /\ Known(store[d]) /\ Dated(store[d], clock + 1)
         /\ clock \in Nat /\ clock + 1 \in Nat
         /\ survivors \subseteq Person /\ heir \in [Person -> Person] /\ pruned \subseteq Edge
         /\ chained \subseteq Person
<1>1. d \in Holder /\ store[d] \in Store /\ clock \in Nat
  BY DEF Rooted, PeopleTypeOK, Devices
<1>2. Dated(store[d], clock + 1)
  BY <1>1, RowTypes DEF Rooted, Stamped, Dated
<1> QED
  BY <1>1, <1>2 DEF Rooted, PeopleTypeOK, Kept

\* An id that nobody has used.
LEMMA FreshIs ==
  ASSUME NEW table, Unused(table) # {}
  PROVE  Fresh(table) \in table /\ \A h \in Holder : store[h][Fresh(table)] = None
<1>1. Fresh(table) \in Unused(table)
  BY DEF Fresh
<1> QED
  BY <1>1 DEF Unused

\* The rows an addition writes.
LEMMA RowPut ==
  ASSUME NEW s \in Store, NEW i \in Item, NEW t, t = [k \in Item |-> t[k]],
         t[i] \in Row(i), \A k \in Item : k # i => t[k] = s[k]
  PROVE  t \in Store
<1>1. \A k \in Item : t[k] \in Row(k) \cup {None} /\ t[k] \in PersonRow \cup EdgeRow \cup FactRow \cup {None}
  BY Tables DEF Store, Row
<1> QED
  BY <1>1 DEF Store

LEMMA PersonPut ==
  ASSUME NEW s \in Store, NEW now \in Nat, NEW p \in Person, NEW x \in Standing,
         NEW t, t = WithPerson(s, p, x, now)
  PROVE  /\ t \in Store /\ t[p] = [at |-> now, gone |-> FALSE, standing |-> x]
         /\ \A k \in Item : k # p => t[k] = s[k]
<1> DEFINE r == [at |-> now, gone |-> FALSE, standing |-> x]
<1>1. r \in Row(p) /\ p \in Item
  BY NewRows, Tables DEF Row
<1>2. t = [s EXCEPT ![p] = r] /\ s = [k \in Item |-> s[k]]
  BY DEF WithPerson, Store
<1> HIDE DEF r
<1>3. t = [k \in Item |-> t[k]] /\ t[p] = r /\ \A k \in Item : k # p => t[k] = s[k]
  BY <1>1, <1>2
<1>4. t \in Store
  BY <1>1, <1>3, RowPut
<1> QED
  BY <1>3, <1>4 DEF r

LEMMA EdgePut ==
  ASSUME NEW s \in Store, NEW now \in Nat, NEW e \in Edge, NEW x \in SUBSET Person,
         NEW t, t = WithEdge(s, e, x, now)
  PROVE  /\ t \in Store /\ t[e] = [at |-> now, gone |-> FALSE, ends |-> x]
         /\ \A k \in Item : k # e => t[k] = s[k]
<1> DEFINE r == [at |-> now, gone |-> FALSE, ends |-> x]
<1>1. r \in Row(e) /\ e \in Item
  BY NewRows, Tables DEF Row
<1>2. t = [s EXCEPT ![e] = r] /\ s = [k \in Item |-> s[k]]
  BY DEF WithEdge, Store
<1> HIDE DEF r
<1>3. t = [k \in Item |-> t[k]] /\ t[e] = r /\ \A k \in Item : k # e => t[k] = s[k]
  BY <1>1, <1>2
<1>4. t \in Store
  BY <1>1, <1>3, RowPut
<1> QED
  BY <1>3, <1>4 DEF r

LEMMA FactPut ==
  ASSUME NEW s \in Store, NEW now \in Nat, NEW f \in Milestone, NEW x \in Person \cup Edge,
         NEW t, t = WithFact(s, f, x, now)
  PROVE  /\ t \in Store /\ t[f] = [at |-> now, gone |-> FALSE, bearer |-> x]
         /\ \A k \in Item : k # f => t[k] = s[k]
<1> DEFINE r == [at |-> now, gone |-> FALSE, bearer |-> x]
<1>1. r \in Row(f) /\ f \in Item
  BY NewRows, Tables DEF Row
<1>2. t = [s EXCEPT ![f] = r] /\ s = [k \in Item |-> s[k]]
  BY DEF WithFact, Store
<1> HIDE DEF r
<1>3. t = [k \in Item |-> t[k]] /\ t[f] = r /\ \A k \in Item : k # f => t[k] = s[k]
  BY <1>1, <1>2
<1>4. t \in Store
  BY <1>1, <1>3, RowPut
<1> QED
  BY <1>3, <1>4 DEF r

LEMMA PublishedIs ==
  ASSUME NEW s \in Store, NEW p \in People(s), NEW now \in Nat, NEW t, t = Published(s, p, now)
  PROVE  /\ t \in Store
         /\ \A i \in Item : i # p => t[i] = s[i]
         /\ t[p] = IF s[p].standing = Named THEN [at |-> now, gone |-> FALSE, standing |-> Mine] ELSE s[p]
<1>1. p \in Person /\ p \in Item /\ Mine \in Standing /\ s = [i \in Item |-> s[i]]
  BY Tables DEF People, Standing, Store
<1>2. CASE s[p].standing = Named
  <2>1. t = WithPerson(s, p, Mine, now)
    BY <1>2 DEF Published
  <2>2. /\ t \in Store /\ t[p] = [at |-> now, gone |-> FALSE, standing |-> Mine]
        /\ \A k \in Item : k # p => t[k] = s[k]
    BY <2>1, <1>1, PersonPut
  <2> QED
    BY <2>2, <1>2
<1>3. CASE s[p].standing # Named
  BY <1>1, <1>3 DEF Published
<1> QED
  BY <1>2, <1>3

-----------------------------------------------------------------------------
(* People: each operation is such a transaction.                           *)

\* An addition is one when nobody it names or gives a milestone to stays a
\* mere name, but on a page of the user's own.
LEMMA GrownTransaction ==
  ASSUME Rooted, NEW d \in Devices, NEW t, Grown(store[d], t, clock + 1), Commit(d, t), ops < MaxOps,
         UNCHANGED merges, chained' \subseteq Person, chained \subseteq chained',
         \A p \in Person \ chained' : p \in People(t) /\ t[p].standing = Named =>
            \/ /\ store[d][p] # None
               /\ \A e \in Edge : t[e] # store[d][e] => p \notin t[e].ends
               /\ \A f \in Milestone : t[f] # store[d][f] => t[f].bearer # p
            \/ Anchored(t, p, contested)
  PROVE  Transaction(d, t)
<1> DEFINE s == store[d]
<1>1. /\ s \in Store /\ Known(s) /\ clock + 1 \in Nat
      /\ survivors \subseteq Person /\ heir \in [Person -> Person] /\ pruned \subseteq Edge
  BY RootedIs
<1>2. survivors' = survivors /\ heir' = heir /\ pruned' = pruned
  BY DEF merges
<1> HIDE DEF s
<1>3. Grown(s, t, clock + 1)
  BY DEF s
<1>4. Lawful(s, t, clock + 1, survivors')
  BY <1>1, <1>3, GrownLawful
<1>5. ASSUME NEW p \in Person, Sound(s, p, pruned) PROVE Sound(t, p, pruned')
  BY <1>1, <1>2, <1>3, <1>5, GrownSound
<1>6. ASSUME NEW p \in Person \ chained', Anchored(s, p, contested) PROVE Anchored(t, p, contested)
  <2>1. CASE ~(p \in People(t) /\ t[p].standing = Named)
    BY <2>1 DEF Anchored
  <2>2. CASE Anchored(t, p, contested)
    BY <2>2
  <2>3. CASE /\ s[p] # None
             /\ \A e \in Edge : t[e] # s[e] => p \notin t[e].ends
             /\ \A f \in Milestone : t[f] # s[f] => t[f].bearer # p
    BY <2>3, <1>1, <1>3, <1>6, GrownAnchored
  <2> QED
    BY <2>1, <2>2, <2>3 DEF s
<1>7. Conveys(s, t)
  <2>1. Steady(s, t) /\ \A x \in People(s) : x \in People(t) /\ Carried(s, x, t, x, pruned')
    BY <1>1, <1>3, GrownSteady
  <2> QED
    BY <2>1, <1>2 DEF Conveys
<1> QED
  BY <1>1, <1>2, <1>4, <1>5, <1>6, <1>7 DEF Transaction, s

LEMMA AddOtherStep ==
  ASSUME Rooted, NEW d \in Devices, NEW p \in People(store[d]), AddOther(d, p), ops < MaxOps
  PROVE  \E t : Transaction(d, t)
<1> DEFINE s == store[d]
           now == clock + 1
           q == Fresh(Person)
           e == Fresh(Edge)
           u == WithPerson(s, q, Named, now)
           t == WithEdge(u, e, {p, q}, now)
<1>1. s \in Store /\ Known(s) /\ now \in Nat /\ chained \subseteq Person /\ d \in Holder
  BY RootedIs
<1>2. q \in Person /\ e \in Edge /\ s[q] = None /\ s[e] = None
  BY <1>1, FreshIs DEF AddOther
<1>3. p \in Person /\ s[p] # None /\ ~s[p].gone /\ p # q
  BY <1>2, LiveIs
<1>4. Commit(d, t) /\ UNCHANGED merges
  BY DEF AddOther
<1>5. chained' = IF s[p].standing = Mine THEN chained ELSE chained \cup {p, q}
  BY DEF AddOther
<1> HIDE DEF s, q, e, now
<1>6. /\ u \in Store /\ u[q] = [at |-> now, gone |-> FALSE, standing |-> Named]
      /\ \A i \in Item : i # q => u[i] = s[i]
  <2> Named \in Standing
    BY DEF Standing
  <2> QED
    BY <1>1, <1>2, PersonPut
<1> HIDE DEF u
<1>7. /\ t \in Store /\ t[e] = [at |-> now, gone |-> FALSE, ends |-> {p, q}]
      /\ \A i \in Item : i # e => t[i] = u[i]
  <2> DEFINE x == {p, q}
  <2>1. x \in SUBSET Person /\ t = WithEdge(u, e, x, now)
    BY <1>2, <1>3
  <2> HIDE DEF x, t
  <2>2. t \in Store /\ t[e] = [at |-> now, gone |-> FALSE, ends |-> x]
        /\ \A i \in Item : i # e => t[i] = u[i]
    BY <2>1, <1>1, <1>2, <1>6, EdgePut
  <2> QED
    BY <2>2 DEF x
<1> HIDE DEF t
<1>8. /\ t[q] = [at |-> now, gone |-> FALSE, standing |-> Named]
      /\ t[e] = [at |-> now, gone |-> FALSE, ends |-> {p, q}]
      /\ \A i \in Item : i # q /\ i # e => t[i] = s[i]
  BY <1>2, <1>6, <1>7, Tables
<1>9. t[q] \in PersonRow /\ t[e] \in EdgeRow
  BY <1>1, <1>2, <1>3, <1>8, NewRows DEF Standing
<1>10. q \in People(t) /\ p \in People(t)
  BY <1>2, <1>3, <1>8, <1>9, Rows, LiveIs, Tables
<1>11. Grown(s, t, now)
  <2>1. \A x \in Person : t[x] # s[x] =>
          /\ t[x] # None /\ ~t[x].gone /\ t[x].at = now
          /\ s[x] = None \/ (~s[x].gone /\ t[x].standing \in {s[x].standing, Mine})
    BY <1>2, <1>8, <1>9, Rows, Tables
  <2>2. \A k \in Edge : t[k] # s[k] =>
          /\ s[k] = None /\ t[k] # None /\ ~t[k].gone /\ t[k].at = now
          /\ \E x, y \in People(t) : x # y /\ t[k].ends = {x, y}
    BY <1>2, <1>3, <1>8, <1>9, <1>10, Rows, Tables
  <2>3. \A f \in Milestone : t[f] = s[f]
    BY <1>2, <1>8, Tables
  <2> QED
    BY <2>1, <2>2, <2>3, <1>7 DEF Grown
<1>12. ASSUME NEW x \in Person \ chained', x \in People(t), t[x].standing = Named
       PROVE  \/ /\ s[x] # None
                 /\ \A k \in Edge : t[k] # s[k] => x \notin t[k].ends
                 /\ \A f \in Milestone : t[f] # s[f] => t[f].bearer # x
              \/ Anchored(t, x, contested)
  <2>1. \A f \in Milestone : t[f] = s[f]
    BY <1>2, <1>8, Tables
  <2>2. \A k \in Edge : k # e => t[k] = s[k]
    BY <1>2, <1>8, Tables
  <2>3. CASE x # p /\ x # q
    <3>1. s[x] # None
      BY <1>2, <1>8, <1>12, <2>3, LiveIs, Tables
    <3> QED
      BY <3>1, <2>1, <2>2, <2>3, <1>8
  <2>4. CASE x = p
    <3>1. t[p] = s[p]
      BY <1>2, <1>3, <1>8, Tables
    <3> QED
      BY <3>1, <2>4, <1>5, <1>12, RowsAssumption DEF RowsAssumption
  <2>5. CASE x = q
    <3>1. t[p] = s[p] /\ s[p].standing = Mine
      BY <2>5, <1>2, <1>3, <1>5, <1>8, <1>12, Tables
    <3>2. FactsOn(t, q) = {}
      BY <2>1, <1>1, <1>2, Tables, LiveIs DEF Known
    <3>3. \A k \in Edge : k # e => k \notin EdgesOf(t, q)
      BY <2>2, <1>1, <1>2, LiveIs DEF Known
    <3>4. EdgesOf(t, q) = {e}
      BY <3>3, <1>2, <1>8, <1>9, Rows, LiveIs
    <3>5. \A k \in t[e].ends : k # q => k \in People(t) /\ t[k].standing = Mine
      BY <3>1, <1>8, <1>10
    <3> QED
      BY <2>5, <3>2, <3>4, <3>5, <1>2 DEF Anchored
  <2> QED
    BY <2>3, <2>4, <2>5
<1>13. chained' \subseteq Person /\ chained \subseteq chained'
  BY <1>1, <1>2, <1>3, <1>5
<1>14. Grown(store[d], t, clock + 1)
  BY <1>11 DEF s, now
<1>15. \A x \in Person \ chained' : x \in People(t) /\ t[x].standing = Named =>
            \/ /\ store[d][x] # None
               /\ \A k \in Edge : t[k] # store[d][k] => x \notin t[k].ends
               /\ \A f \in Milestone : t[f] # store[d][f] => t[f].bearer # x
            \/ Anchored(t, x, contested)
  BY <1>12 DEF s
<1>16. Transaction(d, t)
  BY <1>4, <1>13, <1>14, <1>15, GrownTransaction
<1> QED
  BY <1>16

LEMMA RelateStep ==
  ASSUME Rooted, NEW d \in Devices, NEW p \in People(store[d]), NEW q \in Here(d, {Mine, Named}),
         Relate(d, p, q), ops < MaxOps
  PROVE  \E t : Transaction(d, t)
<1> DEFINE s == store[d]
           now == clock + 1
           e == Fresh(Edge)
           u == WithEdge(s, e, {p, q}, now)
           v == Published(u, p, now)
           t == Published(v, q, now)
<1>1. s \in Store /\ Known(s) /\ now \in Nat /\ chained \subseteq Person /\ d \in Holder
  BY RootedIs
<1>2. e \in Edge /\ s[e] = None
  BY <1>1, FreshIs DEF Relate
<1>3. p \in People(s) /\ q \in People(s) /\ p # q
  BY DEF Relate, Here
<1>4. p \in Person /\ q \in Person /\ s[p] # None /\ ~s[p].gone /\ s[q] # None /\ ~s[q].gone
  BY <1>3, LiveIs
<1>5. Commit(d, t) /\ UNCHANGED merges /\ chained' = chained
  BY DEF Relate
<1> HIDE DEF s, e, now
<1>6. /\ u \in Store /\ u[e] = [at |-> now, gone |-> FALSE, ends |-> {p, q}]
      /\ \A i \in Item : i # e => u[i] = s[i]
  <2> DEFINE x == {p, q}
  <2>1. x \in SUBSET Person /\ u = WithEdge(s, e, x, now)
    BY <1>4
  <2> HIDE DEF x, u
  <2>2. u \in Store /\ u[e] = [at |-> now, gone |-> FALSE, ends |-> x]
        /\ \A i \in Item : i # e => u[i] = s[i]
    BY <2>1, <1>1, <1>2, EdgePut
  <2> QED
    BY <2>2 DEF x
<1> HIDE DEF u
<1>7. \A i \in Item : i # e => u[i] = s[i]
  BY <1>6
<1>8. p \in People(u) /\ q \in People(u)
  BY <1>2, <1>4, <1>7, LiveIs, Tables
<1>9. /\ v \in Store
      /\ \A i \in Item : i # p => v[i] = u[i]
      /\ v[p] = IF u[p].standing = Named THEN [at |-> now, gone |-> FALSE, standing |-> Mine] ELSE u[p]
  BY <1>1, <1>6, <1>8, PublishedIs
<1> HIDE DEF v
<1>10. q \in People(v)
  BY <1>3, <1>4, <1>8, <1>9, LiveIs, Tables
<1>11. /\ t \in Store
       /\ \A i \in Item : i # q => t[i] = v[i]
       /\ t[q] = IF v[q].standing = Named THEN [at |-> now, gone |-> FALSE, standing |-> Mine] ELSE v[q]
  BY <1>1, <1>9, <1>10, PublishedIs
<1> HIDE DEF t
<1>12. /\ \A i \in Item : i # p /\ i # q /\ i # e => t[i] = s[i]
       /\ \A x \in {p, q} : t[x] = IF s[x].standing = Named
                                   THEN [at |-> now, gone |-> FALSE, standing |-> Mine] ELSE s[x]
       /\ t[e] = [at |-> now, gone |-> FALSE, ends |-> {p, q}]
  BY <1>1, <1>2, <1>3, <1>4, <1>6, <1>7, <1>9, <1>11, Tables
<1>13. [at |-> now, gone |-> FALSE, standing |-> Mine] \in PersonRow /\ t[e] \in EdgeRow
  BY <1>1, <1>4, <1>12, NewRows DEF Standing
<1>14. q \in People(t) /\ p \in People(t)
  BY <1>4, <1>12, <1>13, Rows, LiveIs
<1>15. Grown(s, t, now)
  <2>1. \A x \in Person : t[x] # s[x] =>
          /\ t[x] # None /\ ~t[x].gone /\ t[x].at = now
          /\ s[x] = None \/ (~s[x].gone /\ t[x].standing \in {s[x].standing, Mine})
    BY <1>2, <1>4, <1>12, <1>13, Rows, Tables
  <2>2. \A k \in Edge : t[k] # s[k] =>
          /\ s[k] = None /\ t[k] # None /\ ~t[k].gone /\ t[k].at = now
          /\ \E x, y \in People(t) : x # y /\ t[k].ends = {x, y}
    BY <1>2, <1>3, <1>4, <1>12, <1>13, <1>14, Rows, Tables
  <2>3. \A f \in Milestone : t[f] = s[f]
    BY <1>2, <1>4, <1>12, Tables
  <2> QED
    BY <2>1, <2>2, <2>3, <1>11 DEF Grown
<1>16. ASSUME NEW x \in Person \ chained', x \in People(t), t[x].standing = Named
       PROVE  /\ s[x] # None
              /\ \A k \in Edge : t[k] # s[k] => x \notin t[k].ends
              /\ \A f \in Milestone : t[f] # s[f] => t[f].bearer # x
  <2>1. x # p /\ x # q
    BY <1>12, <1>16, RowsAssumption DEF RowsAssumption
  <2>2. s[x] # None
    BY <2>1, <1>2, <1>12, <1>16, LiveIs, Tables
  <2>3. \A k \in Edge : t[k] # s[k] => k = e
    BY <1>4, <1>12, Tables
  <2>4. \A f \in Milestone : t[f] = s[f]
    BY <1>2, <1>4, <1>12, Tables
  <2> QED
    BY <2>1, <2>2, <2>3, <2>4, <1>12
<1>17. chained' \subseteq Person /\ chained \subseteq chained'
  BY <1>1, <1>5
<1>18. Grown(store[d], t, clock + 1)
  BY <1>15 DEF s, now
<1>19. \A x \in Person \ chained' : x \in People(t) /\ t[x].standing = Named =>
               /\ store[d][x] # None
               /\ \A k \in Edge : t[k] # store[d][k] => x \notin t[k].ends
               /\ \A f \in Milestone : t[f] # store[d][f] => t[f].bearer # x
  BY <1>16 DEF s
<1>20. Transaction(d, t)
  BY <1>5, <1>17, <1>18, <1>19, GrownTransaction
<1> QED
  BY <1>20

LEMMA AddFactStep ==
  ASSUME Rooted, NEW d \in Devices, NEW b, AddFact(d, b), ops < MaxOps,
         b \in People(store[d]) \/ (b \in Edge /\ Live(store[d][b]))
  PROVE  \E t : Transaction(d, t)
<1> DEFINE s == store[d]
           now == clock + 1
           f == Fresh(Fact)
           u == WithFact(s, f, b, now)
           t == IF b \in Person THEN Published(u, b, now) ELSE u
<1>1. s \in Store /\ Known(s) /\ now \in Nat /\ chained \subseteq Person /\ d \in Holder
  BY RootedIs
<1>2. f \in Fact /\ f \in Milestone /\ s[f] = None
  BY <1>1, FreshIs, Tables DEF AddFact
<1>3. Commit(d, t) /\ UNCHANGED merges /\ chained' = chained
  BY DEF AddFact
<1>4. b \in People(s) \/ (b \in Edge /\ Live(s[b]))
  OBVIOUS
<1>5. b \in Person \cup Edge /\ s[b] # None /\ ~s[b].gone
  BY <1>4, LiveIs DEF Live
<1> HIDE DEF s, f, now
<1>6. /\ u \in Store /\ u[f] = [at |-> now, gone |-> FALSE, bearer |-> b]
      /\ \A i \in Item : i # f => u[i] = s[i]
  BY <1>1, <1>2, <1>5, FactPut
<1> HIDE DEF u
<1>7. b \in Person => b \in People(u)
  BY <1>2, <1>5, <1>6, LiveIs, Tables
<1>8. /\ t \in Store
      /\ \A i \in Item : i # b => t[i] = u[i]
      /\ b \in Person =>
            t[b] = IF u[b].standing = Named THEN [at |-> now, gone |-> FALSE, standing |-> Mine] ELSE u[b]
      /\ b \notin Person => t[b] = u[b]
  <2>1. CASE b \in Person
    <3>1. t = Published(u, b, now)
      BY <2>1
    <3> HIDE DEF t
    <3> QED
      BY <3>1, <2>1, <1>1, <1>6, <1>7, PublishedIs
  <2>2. CASE b \notin Person
    BY <2>2, <1>6
  <2> QED
    BY <2>1, <2>2
<1> HIDE DEF t
<1>9. /\ \A i \in Item : i # b /\ i # f => t[i] = s[i]
      /\ b \in Person =>
            t[b] = IF s[b].standing = Named THEN [at |-> now, gone |-> FALSE, standing |-> Mine] ELSE s[b]
      /\ b \notin Person => t[b] = s[b]
      /\ t[f] = [at |-> now, gone |-> FALSE, bearer |-> b]
  BY <1>2, <1>5, <1>6, <1>8, Tables
<1>10. [at |-> now, gone |-> FALSE, standing |-> Mine] \in PersonRow /\ t[f] \in FactRow
  BY <1>1, <1>5, <1>9, NewRows DEF Standing
<1>11. b \in People(t) \/ (b \in Edge /\ Live(t[b]))
  BY <1>5, <1>9, <1>10, Rows, LiveIs DEF Live
<1>12. Grown(s, t, now)
  <2>1. \A x \in Person : t[x] # s[x] =>
          /\ t[x] # None /\ ~t[x].gone /\ t[x].at = now
          /\ s[x] = None \/ (~s[x].gone /\ t[x].standing \in {s[x].standing, Mine})
    BY <1>2, <1>5, <1>9, <1>10, Rows, Tables
  <2>2. \A k \in Edge : t[k] = s[k]
    BY <1>2, <1>9, Tables
  <2>3. \A k \in Milestone : t[k] # s[k] => k = f
    BY <1>5, <1>9, Tables
  <2>4. /\ t[f] # None /\ ~t[f].gone /\ t[f].at = now
        /\ t[f].bearer \in People(t) \/ (t[f].bearer \in Edge /\ Live(t[t[f].bearer]))
    <3>1. t[f].bearer = b
      BY <1>9
    <3>2. ~t[f].gone /\ t[f].at = now
      BY <1>9
    <3>3. t[f] # None
      BY <1>10, Rows
    <3> QED
      BY <3>1, <3>2, <3>3, <1>11
  <2> QED
    BY <2>1, <2>2, <2>3, <2>4, <1>2, <1>8 DEF Grown
<1>13. ASSUME NEW x \in Person \ chained', x \in People(t), t[x].standing = Named
       PROVE  /\ s[x] # None
              /\ \A k \in Edge : t[k] # s[k] => x \notin t[k].ends
              /\ \A k \in Milestone : t[k] # s[k] => t[k].bearer # x
  <2>1. x # b
    BY <1>9, <1>10, <1>13, RowsAssumption DEF RowsAssumption
  <2>2. s[x] # None
    BY <2>1, <1>2, <1>9, <1>13, LiveIs, Tables
  <2>3. \A k \in Edge : t[k] = s[k]
    BY <1>2, <1>9, Tables
  <2>4. \A k \in Milestone : t[k] # s[k] => k = f
    BY <1>5, <1>9, Tables
  <2> QED
    BY <2>1, <2>2, <2>3, <2>4, <1>9
<1>14. chained' \subseteq Person /\ chained \subseteq chained'
  BY <1>1, <1>3
<1>15. Grown(store[d], t, clock + 1)
  BY <1>12 DEF s, now
<1>16. \A x \in Person \ chained' : x \in People(t) /\ t[x].standing = Named =>
               /\ store[d][x] # None
               /\ \A k \in Edge : t[k] # store[d][k] => x \notin t[k].ends
               /\ \A k \in Milestone : t[k] # store[d][k] => t[k].bearer # x
  BY <1>13 DEF s
<1>17. Transaction(d, t)
  BY <1>3, <1>14, <1>15, <1>16, GrownTransaction
<1> QED
  BY <1>17

\* An operation that writes one person's row anew.
LEMMA PersonStep ==
  ASSUME Rooted, NEW d \in Devices, NEW p \in Person, NEW x \in Standing, ops < MaxOps,
         NEW t, \A i \in Item : i # p => t[i] = store[d][i], t \in Store,
         t[p] = [at |-> clock + 1, gone |-> FALSE, standing |-> x],
         (store[d][p] = None /\ x # Named) \/
            (store[d][p] # None /\ ~store[d][p].gone /\ x \in {store[d][p].standing, Mine}),
         Commit(d, t), UNCHANGED <<merges, chained>>
  PROVE  Transaction(d, t)
<1> DEFINE s == store[d]
           now == clock + 1
<1>1. s \in Store /\ Known(s) /\ now \in Nat /\ chained \subseteq Person /\ d \in Holder
  BY RootedIs
<1> HIDE DEF now
<1>2. t[p] = [at |-> now, gone |-> FALSE, standing |-> x]
  BY DEF now
<1>3. t[p] \in PersonRow
  BY <1>1, <1>2, NewRows
<1>4. (\A e \in Edge : t[e] = s[e]) /\ (\A f \in Milestone : t[f] = s[f])
  BY Tables
<1>5. \A y \in Person : t[y] # s[y] =>
          /\ t[y] # None /\ ~t[y].gone /\ t[y].at = now
          /\ s[y] = None \/ (~s[y].gone /\ t[y].standing \in {s[y].standing, Mine})
  BY <1>2, <1>3, Rows, Tables
<1>6. Grown(s, t, now)
  BY <1>4, <1>5 DEF Grown
<1>7. \A y \in Person \ chained' : y \in People(t) /\ t[y].standing = Named => s[y] # None
  BY <1>2, LiveIs, Tables
<1>8. chained' \subseteq Person /\ chained \subseteq chained' /\ UNCHANGED merges
  BY <1>1
<1> HIDE DEF s
<1>9. Grown(store[d], t, clock + 1)
  BY <1>6 DEF s, now
<1>10. \A y \in Person \ chained' : y \in People(t) /\ t[y].standing = Named =>
               /\ store[d][y] # None
               /\ \A k \in Edge : t[k] # store[d][k] => y \notin t[k].ends
               /\ \A k \in Milestone : t[k] # store[d][k] => t[k].bearer # y
  BY <1>4, <1>7 DEF s
<1> QED
  BY <1>8, <1>9, <1>10, GrownTransaction

LEMMA UpdateStep ==
  ASSUME Rooted, NEW d \in Devices, NEW p \in People(store[d]), NEW more \in BOOLEAN,
         Update(d, p, more), ops < MaxOps
  PROVE  \E t : Transaction(d, t)
<1> DEFINE s == store[d]
           now == clock + 1
           u == WithPerson(s, p, s[p].standing, now)
           t == IF more THEN Published(u, p, now) ELSE u
           x == IF more /\ s[p].standing = Named THEN Mine ELSE s[p].standing
<1>1. s \in Store /\ now \in Nat
  BY RootedIs
<1>2. p \in Person /\ s[p] # None /\ ~s[p].gone /\ s[p] \in PersonRow
  BY <1>1, LiveIs, RowTypes
<1>3. s[p].standing \in Standing
  BY <1>2, Rows
<1>4. Commit(d, t) /\ UNCHANGED <<merges, chained>>
  BY DEF Update
<1> HIDE DEF s, now
<1>5. /\ u \in Store /\ u[p] = [at |-> now, gone |-> FALSE, standing |-> s[p].standing]
      /\ \A k \in Item : k # p => u[k] = s[k]
  BY <1>1, <1>2, <1>3, PersonPut
<1> HIDE DEF u
<1>6. u[p] \in PersonRow /\ u[p].standing = s[p].standing
  BY <1>1, <1>3, <1>5, NewRows
<1>7. p \in People(u)
  BY <1>2, <1>5, <1>6, Rows, LiveIs
<1>8. /\ t \in Store /\ t[p] = [at |-> now, gone |-> FALSE, standing |-> x]
      /\ \A k \in Item : k # p => t[k] = s[k]
  <2>1. CASE more
    <3>1. t = Published(u, p, now)
      BY <2>1
    <3> HIDE DEF t
    <3>2. /\ t \in Store /\ \A i \in Item : i # p => t[i] = u[i]
          /\ t[p] = IF u[p].standing = Named THEN [at |-> now, gone |-> FALSE, standing |-> Mine] ELSE u[p]
      BY <3>1, <1>1, <1>5, <1>7, PublishedIs
    <3> QED
      BY <3>2, <2>1, <1>5, <1>6
  <2>2. CASE ~more
    BY <2>2, <1>5
  <2> QED
    BY <2>1, <2>2
<1>9. x \in Standing /\ x \in {s[p].standing, Mine}
  BY <1>3 DEF Standing
<1> HIDE DEF t, x
<1>10. \A k \in Item : k # p => t[k] = store[d][k]
  BY <1>8 DEF s
<1>11. t[p] = [at |-> clock + 1, gone |-> FALSE, standing |-> x]
  BY <1>8 DEF now
<1>12. store[d][p] # None /\ ~store[d][p].gone /\ x \in {store[d][p].standing, Mine}
  BY <1>2, <1>9 DEF s
<1>13. Transaction(d, t)
  BY <1>2, <1>4, <1>8, <1>9, <1>10, <1>11, <1>12, PersonStep
<1> QED
  BY <1>13

LEMMA StartDraftStep ==
  ASSUME Rooted, NEW d \in Devices, StartDraft(d), ops < MaxOps
  PROVE  \E t : Transaction(d, t)
<1> DEFINE now == clock + 1
           p == Fresh(Person)
           t == WithPerson(store[d], p, Adding, now)
<1>1. store[d] \in Store /\ now \in Nat /\ d \in Holder
  BY RootedIs
<1>2. p \in Person /\ store[d][p] = None
  BY <1>1, FreshIs DEF StartDraft
<1>3. Commit(d, t) /\ UNCHANGED <<merges, chained>>
  BY DEF StartDraft
<1>4. Adding \in Standing /\ Adding # Named
  BY RowsAssumption DEF Standing, RowsAssumption
<1> HIDE DEF now, p
<1>5. /\ t \in Store /\ t[p] = [at |-> now, gone |-> FALSE, standing |-> Adding]
      /\ \A k \in Item : k # p => t[k] = store[d][k]
  BY <1>1, <1>2, <1>4, PersonPut
<1> HIDE DEF t
<1>6. t[p] = [at |-> clock + 1, gone |-> FALSE, standing |-> Adding]
  BY <1>5 DEF now
<1>7. Transaction(d, t)
  BY <1>2, <1>3, <1>4, <1>5, <1>6, PersonStep
<1> QED
  BY <1>7

LEMMA PublishDraftStep ==
  ASSUME Rooted, NEW d \in Devices, NEW p \in Here(d, {Adding}), PublishDraft(d, p), ops < MaxOps
  PROVE  \E t : Transaction(d, t)
<1> DEFINE now == clock + 1
           t == WithPerson(store[d], p, Mine, now)
<1>1. store[d] \in Store /\ now \in Nat /\ d \in Holder
  BY RootedIs
<1>2. p \in Person /\ store[d][p] # None /\ ~store[d][p].gone
  BY LiveIs DEF Here
<1>3. Commit(d, t) /\ UNCHANGED <<merges, chained>>
  BY DEF PublishDraft
<1>4. Mine \in Standing
  BY DEF Standing
<1> HIDE DEF now
<1>5. /\ t \in Store /\ t[p] = [at |-> now, gone |-> FALSE, standing |-> Mine]
      /\ \A k \in Item : k # p => t[k] = store[d][k]
  BY <1>1, <1>2, <1>4, PersonPut
<1> HIDE DEF t
<1>6. t[p] = [at |-> clock + 1, gone |-> FALSE, standing |-> Mine]
  BY <1>5 DEF now
<1>7. Transaction(d, t)
  BY <1>2, <1>3, <1>4, <1>5, <1>6, PersonStep
<1> QED
  BY <1>7

LEMMA CascadeStep ==
  ASSUME Rooted, NEW d \in Devices, NEW ps \in SUBSET People(store[d]), ops < MaxOps,
         NEW t, t = Cascade(store[d], ps, clock + 1), Commit(d, t), UNCHANGED <<merges, chained>>
  PROVE  Transaction(d, t)
<1> DEFINE s == store[d]
           now == clock + 1
           gone == ps \cup UNION {Attached(s, x) : x \in ps}
<1>1. /\ s \in Store /\ Known(s) /\ now \in Nat /\ Dated(s, now)
      /\ survivors \subseteq Person /\ heir \in [Person -> Person] /\ pruned \subseteq Edge
      /\ chained \subseteq Person
  BY RootedIs
<1>2. /\ survivors' = survivors /\ heir' = heir /\ pruned' = pruned /\ chained' = chained
      /\ ps \in SUBSET People(s)
  BY DEF merges
<1>3. gone \in SUBSET People(s)
  BY <1>2 DEF Attached
<1>4. t = Removed(s, gone, now)
  BY DEF Cascade
<1>5. /\ gone \in SUBSET Person
      /\ \A q : q \in gone <=> q \in ps \/ \E x \in ps : q \in Attached(s, x)
  BY <1>2 DEF Attached, People
<1> HIDE DEF s, now, gone
<1>6. Lawful(s, t, now, survivors')
  BY <1>1, <1>3, <1>4, RemovedLawful
<1>7. \A p \in Person : Sound(s, p, pruned) => Sound(t, p, pruned')
  BY <1>1, <1>2, <1>3, <1>4, RemovedSound
<1>8. Changed(s, t) \cap contested = {} =>
         \A p \in Person \ chained' : Anchored(s, p, contested) => Anchored(t, p, contested)
  BY <1>1, <1>2, <1>4, <1>5, CascadeAnchored
<1>9. Conveys(s, t)
  <2>1. Steady(s, t) /\ \A x \in People(s) : x \in People(t) => Carried(s, x, t, x, pruned')
    BY <1>1, <1>3, <1>4, RemovedSteady
  <2> QED
    BY <2>1, <1>2 DEF Conveys
<1> QED
  BY <1>1, <1>2, <1>6, <1>7, <1>8, <1>9 DEF Transaction, s, now

LEMMA DeleteStep ==
  ASSUME Rooted, NEW d \in Devices, NEW p \in People(store[d]), Delete(d, p), ops < MaxOps
  PROVE  \E t : Transaction(d, t)
<1> DEFINE t == Cascade(store[d], {p}, clock + 1)
<1>1. {p} \in SUBSET People(store[d])
  OBVIOUS
<1>2. Commit(d, t) /\ UNCHANGED <<merges, chained>>
  BY DEF Delete
<1>3. Transaction(d, t)
  BY <1>1, <1>2, CascadeStep
<1> QED
  BY <1>3

LEMMA DiscardStep ==
  ASSUME Rooted, NEW d \in Devices, NEW drafts \in SUBSET People(store[d]),
         DiscardDrafts(d, drafts), ops < MaxOps
  PROVE  \E t : Transaction(d, t)
<1> DEFINE t == Cascade(store[d], drafts, clock + 1)
<1>1. Commit(d, t) /\ UNCHANGED <<merges, chained>>
  BY DEF DiscardDrafts
<1>2. Transaction(d, t)
  BY <1>1, CascadeStep
<1> QED
  BY <1>2

LEMMA UnrelateStep ==
  ASSUME Rooted, NEW d \in Devices, NEW e \in Edge, Unrelate(d, e), ops < MaxOps
  PROVE  \E t : Transaction(d, t)
<1> DEFINE s == store[d]
           now == clock + 1
           t == Unrelated(s, e, now)
<1>1. /\ s \in Store /\ Known(s) /\ now \in Nat /\ Dated(s, now)
      /\ survivors \subseteq Person /\ heir \in [Person -> Person] /\ pruned \subseteq Edge
      /\ chained \subseteq Person
  BY RootedIs
<1>2. Commit(d, t) /\ Live(s[e])
  BY DEF Unrelate
<1>3. survivors' = survivors /\ heir' = heir /\ pruned' = pruned /\ chained' = chained
  BY DEF Unrelate, merges
<1> HIDE DEF s, now
<1>4. t = Unrelated(s, e, now)
  OBVIOUS
<1> HIDE DEF t
<1>5. Lawful(s, t, now, survivors')
  BY <1>1, <1>2, <1>4, UnrelatedLawful
<1>6. \A p \in Person : Sound(s, p, pruned) => Sound(t, p, pruned')
  BY <1>1, <1>2, <1>3, <1>4, UnrelatedSound
<1>7. Changed(s, t) \cap contested = {} =>
         \A p \in Person \ chained' : Anchored(s, p, contested) => Anchored(t, p, contested)
  BY <1>1, <1>2, <1>4, UnrelatedAnchored
<1>8. Conveys(s, t)
  <2>1. Steady(s, t) /\ \A x \in People(s) : x \in People(t) /\ Keeps(s, x) => Carried(s, x, t, x, pruned')
    BY <1>1, <1>2, <1>4, UnrelatedSteady
  <2> QED
    BY <2>1, <1>3 DEF Conveys
<1>9. Transaction(d, t)
  BY <1>1, <1>2, <1>3, <1>5, <1>6, <1>7, <1>8 DEF Transaction, s, now
<1> QED
  BY <1>9

LEMMA MergeStep ==
  ASSUME Rooted, NEW d \in Devices, NEW survivor \in People(store[d]), NEW loser \in Here(d, {Mine}),
         Merge(d, survivor, loser), ops < MaxOps
  PROVE  \E t : Transaction(d, t)
<1> DEFINE s == store[d]
           now == clock + 1
           t == Merged(s, survivor, loser, now)
           cut == Redundant(EdgesRepointed(s, loser, survivor, now), survivor)
<1>1. /\ s \in Store /\ Known(s) /\ now \in Nat /\ Dated(s, now)
      /\ survivors \subseteq Person /\ heir \in [Person -> Person] /\ pruned \subseteq Edge
      /\ chained \subseteq Person
  BY RootedIs
<1>2. Commit(d, t) /\ survivor # loser
  BY DEF Merge
<1>3. /\ survivors' = survivors \cup {survivor} /\ heir' = [heir EXCEPT ![loser] = survivor]
      /\ pruned' = pruned \cup cut /\ chained' = chained
  BY DEF Merge
<1>4. /\ survivor \in People(s) /\ loser \in People(s) /\ s[loser].standing = Mine
      /\ survivor \in Person /\ loser \in Person
  BY DEF Here, People
<1>5. cut \subseteq Edge
  BY DEF Redundant, EdgesOf
<1>6. pruned' = pruned \cup Redundant(EdgesRepointed(s, loser, survivor, now), survivor)
  BY <1>3
<1> HIDE DEF s, now, cut
<1>7. t = Merged(s, survivor, loser, now)
  OBVIOUS
<1> HIDE DEF t
<1>8. survivor \in survivors'
  BY <1>3
<1>9. Lawful(s, t, now, survivors')
  BY <1>1, <1>2, <1>4, <1>7, <1>8, MergedLawful
<1>10. \A p \in Person : Sound(s, p, pruned) => Sound(t, p, pruned')
  BY <1>1, <1>2, <1>4, <1>6, <1>7, MergedSound
<1>11. \A p \in Person : Anchored(s, p, contested) => Anchored(t, p, contested)
  BY <1>1, <1>2, <1>4, <1>7, MergedAnchored
<1>12. survivors' \subseteq Person /\ heir' \in [Person -> Person] /\ pruned' \subseteq Edge
  BY <1>1, <1>3, <1>4, <1>5
<1>13. Conveys(s, t)
  <2>1. /\ Steady(s, t)
        /\ \A x \in People(s) : x \in People(t) => Carried(s, x, t, x, pruned')
        /\ Carried(s, loser, t, survivor, pruned')
        /\ loser \notin People(t) /\ survivor \in People(t)
        /\ loser \in Changed(s, t) /\ survivor \in Changed(s, t)
    BY <1>1, <1>2, <1>4, <1>6, <1>7, MergedSteady
  <2>2. \A x \in Person : heir'[x] # heir[x] => x = loser /\ heir'[x] = survivor
    BY <1>1, <1>3, <1>4
  <2> QED
    BY <2>1, <2>2, <1>4 DEF Conveys
<1>14. Transaction(d, t)
  BY <1>1, <1>2, <1>3, <1>9, <1>10, <1>11, <1>12, <1>13 DEF Transaction, s, now
<1> QED
  BY <1>14

LEMMA OperateStep ==
  ASSUME Rooted, NEW d \in Devices, Operate(d)
  PROVE  \E t : Transaction(d, t)
<1>1. ops < MaxOps
  BY DEF Operate
<1>2. Here(d, {Mine, Named}) \subseteq People(store[d]) /\ Here(d, {Adding}) \subseteq People(store[d])
  BY DEF Here
<1>3. CASE StartDraft(d)
  BY <1>1, <1>3, StartDraftStep
<1>4. ASSUME NEW p \in People(store[d]), AddOther(d, p) PROVE \E t : Transaction(d, t)
  BY <1>1, <1>4, AddOtherStep
<1>5. ASSUME NEW b, AddFact(d, b), b \in People(store[d]) \/ (b \in Edge /\ Live(store[d][b]))
      PROVE \E t : Transaction(d, t)
  BY <1>1, <1>5, AddFactStep
<1>6. ASSUME NEW p \in People(store[d]), NEW q \in Here(d, {Mine, Named}), Relate(d, p, q)
      PROVE \E t : Transaction(d, t)
  BY <1>1, <1>6, RelateStep
<1>7. ASSUME NEW p \in People(store[d]), NEW more \in BOOLEAN, Update(d, p, more)
      PROVE \E t : Transaction(d, t)
  BY <1>1, <1>7, UpdateStep
<1>8. ASSUME NEW p \in Here(d, {Mine, Named}), Delete(d, p) PROVE \E t : Transaction(d, t)
  BY <1>1, <1>2, <1>8, DeleteStep
<1>9. ASSUME NEW p \in Here(d, {Mine, Named}), NEW q \in Here(d, {Mine}), Merge(d, p, q)
      PROVE \E t : Transaction(d, t)
  BY <1>1, <1>2, <1>9, MergeStep
<1>10. ASSUME NEW e \in Edge, Unrelate(d, e) PROVE \E t : Transaction(d, t)
  BY <1>1, <1>10, UnrelateStep
<1>11. ASSUME NEW p \in Here(d, {Adding}), PublishDraft(d, p) PROVE \E t : Transaction(d, t)
  BY <1>1, <1>11, PublishDraftStep
<1>12. ASSUME NEW drafts \in SUBSET Here(d, {Adding}), DiscardDrafts(d, drafts)
       PROVE \E t : Transaction(d, t)
  BY <1>1, <1>2, <1>12, DiscardStep
<1>13. /\ \A p \in Here(d, {Adding}) : {p} \in SUBSET Here(d, {Adding})
       /\ Here(d, {Adding}) \in SUBSET Here(d, {Adding})
  OBVIOUS
<1> QED
  BY <1>3, <1>4, <1>5, <1>6, <1>7, <1>8, <1>9, <1>10, <1>11, <1>12, <1>13 DEF Operate

-----------------------------------------------------------------------------
(* People: what one holder has of a person and another has not.            *)

LEMMA LaterIs ==
  ASSUME NEW a, NEW b, a = None \/ a.at \in Nat, b = None \/ b.at \in Nat
  PROVE  /\ Later(a, b) = a <=> Covers(a, b)
         /\ Later(a, b) \in {a, b}
         /\ Covers(Later(a, b), a) /\ Covers(Later(a, b), b)
         /\ Later(a, b) = None <=> a = None /\ b = None
BY DEF Later, Covers

LEMMA HeldRows ==
  ASSUME Rooted, NEW h \in Holder
  PROVE  /\ store[h] \in Store /\ Known(store[h])
         /\ \A i \in Item : store[h][i] = None \/ store[h][i].at \in Nat
         /\ \A i \in Item : store[h][i] # None => store[h][i].at <= clock
<1>1. store[h] \in Store
  BY DEF Rooted, PeopleTypeOK
<1> QED
  BY <1>1, RowTypes DEF Rooted, Kept, Stamped

\* Two versions neither of which is later are one.
LEMMA CoversBoth ==
  ASSUME Rooted, NEW g \in Holder, NEW h \in Holder, NEW i \in Item,
         Covers(store[g][i], store[h][i]), Covers(store[h][i], store[g][i])
  PROVE  store[g][i] = store[h][i]
<1>1. CASE store[g][i] = None \/ store[h][i] = None
  BY <1>1 DEF Covers
<1>2. CASE store[g][i] # None /\ store[h][i] # None
  <2>1. store[g][i].at \in Nat /\ store[h][i].at \in Nat
    BY <1>2, HeldRows
  <2>2. store[g][i].at = store[h][i].at
    BY <1>2, <2>1 DEF Covers
  <2> QED
    BY <1>2, <2>2 DEF Rooted, Stamped
<1> QED
  BY <1>1, <1>2

\* Every row is about somebody.
LEMMA AboutSome ==
  ASSUME NEW s \in Store, Known(s), NEW i \in Item, s[i] # None
  PROVE  \E w \in Person : i \in About(s, w)
<1>1. CASE i \in Person
  BY <1>1, AboutIs
<1>2. CASE i \in Edge
  <2>1. s[i].ends # {} /\ s[i].ends \subseteq Person
    BY <1>2, RowTypes, Rows DEF Known
  <2> QED
    BY <1>2, <2>1, AboutIs
<1>3. CASE i \in Milestone
  <2>1. s[i].bearer \in Person \cup Edge /\ s[s[i].bearer] # None
    BY <1>3, RowTypes, Rows DEF Known
  <2>2. CASE s[i].bearer \in Person
    BY <1>3, <2>2, AboutIs
  <2>3. CASE s[i].bearer \in Edge
    <3>1. s[s[i].bearer].ends # {} /\ s[s[i].bearer].ends \subseteq Person
      BY <2>1, <2>3, RowTypes, Rows DEF Known
    <3> QED
      BY <1>3, <2>3, <3>1, AboutIs
  <2> QED
    BY <2>1, <2>2, <2>3
<1> QED
  BY <1>1, <1>2, <1>3, Tables

\* A milestone of a relationship is about whom the relationship is about.
LEMMA AboutOf ==
  ASSUME NEW s \in Store, Known(s), NEW i \in Milestone, s[i] # None, s[i].bearer \in Edge
  PROVE  /\ s[s[i].bearer] # None /\ s[i].bearer \in Item /\ i \in Item
         /\ \E w \in Person : w \in s[s[i].bearer].ends
         /\ \A w \in Person : w \in s[s[i].bearer].ends
                => i \in About(s, w) /\ s[i].bearer \in About(s, w)
         /\ \A w \in Person : i \in About(s, w) => w \in s[s[i].bearer].ends
<1>1. s[s[i].bearer] # None
  BY DEF Known
<1>2. s[s[i].bearer].ends # {} /\ s[s[i].bearer].ends \subseteq Person
  BY <1>1, RowTypes, Rows DEF Known
<1>3. s[i].bearer \in Item /\ i \in Item /\ s[i].bearer \notin Person /\ i \notin Person /\ i \notin Edge
  BY Tables
<1> QED
  BY <1>1, <1>2, <1>3, AboutIs

\* Of whom neither store has a row the other has not, both have the same.
LEMMA AboutSame ==
  ASSUME NEW s \in Store, Known(s), NEW t \in Store, Known(t), NEW p \in Person,
         \A i \in About(s, p) \cup About(t, p) : t[i] = s[i]
  PROVE  About(t, p) = About(s, p)
<1>1. ASSUME NEW i \in About(s, p) PROVE i \in About(t, p)
  <2>1. t[i] = s[i] /\ s[i] # None /\ i \in Item
    BY <1>1, AboutIs
  <2>2. CASE i \in Milestone /\ s[i].bearer \in Edge
    <3>1. p \in s[s[i].bearer].ends /\ s[i].bearer \in About(s, p)
      BY <1>1, <2>1, <2>2, AboutOf
    <3>2. t[s[i].bearer] = s[s[i].bearer]
      BY <3>1
    <3> QED
      BY <2>1, <2>2, <3>1, <3>2, AboutIs
  <2>3. CASE ~(i \in Milestone /\ s[i].bearer \in Edge)
    BY <1>1, <2>1, <2>3, AboutIs
  <2> QED
    BY <2>2, <2>3
<1>2. ASSUME NEW i \in About(t, p) PROVE i \in About(s, p)
  <2>1. t[i] = s[i] /\ t[i] # None /\ i \in Item
    BY <1>2, AboutIs
  <2>2. CASE i \in Milestone /\ t[i].bearer \in Edge
    <3>1. p \in t[t[i].bearer].ends /\ t[i].bearer \in About(t, p)
      BY <1>2, <2>1, <2>2, AboutOf
    <3>2. t[t[i].bearer] = s[t[i].bearer]
      BY <3>1
    <3> QED
      BY <2>1, <2>2, <3>1, <3>2, AboutIs
  <2>3. CASE ~(i \in Milestone /\ t[i].bearer \in Edge)
    BY <1>2, <2>1, <2>3, AboutIs
  <2> QED
    BY <2>2, <2>3
<1> QED
  BY <1>1, <1>2

LEMMA Unchanged ==
  ASSUME NEW s \in Store, Known(s), NEW t \in Store, Known(t), NEW p \in Person, p \notin Changed(s, t)
  PROVE  About(t, p) = About(s, p) /\ \A i \in About(s, p) : t[i] = s[i]
<1>1. \A i \in About(s, p) \cup About(t, p) : t[i] = s[i]
  BY DEF Changed
<1> QED
  BY <1>1, AboutSame

\* What everybody has seen of a person is the same to everybody.
LEMMA Agreed ==
  ASSUME Rooted, Ahead, NEW p \in Person \ contested, NEW g \in Holder, NEW h \in Holder,
         seen[g][p] = seen[h][p]
  PROVE  About(store[h], p) = About(store[g], p) /\ \A i \in About(store[g], p) : store[h][i] = store[g][i]
<1>1. seen[g][p] >= seen[h][p] /\ seen[h][p] >= seen[g][p]
  BY DEF Rooted, PeopleTypeOK
<1>2. ASSUME NEW i \in About(store[g], p) \cup About(store[h], p) PROVE store[h][i] = store[g][i]
  <2>1. Covers(store[g][i], store[h][i]) /\ Covers(store[h][i], store[g][i]) /\ i \in Item
    BY <1>1, <1>2, AboutIs DEF Ahead
  <2> QED
    BY <2>1, CoversBoth
<1>3. store[g] \in Store /\ Known(store[g]) /\ store[h] \in Store /\ Known(store[h])
  BY HeldRows
<1> QED
  BY <1>2, <1>3, AboutSame

LEMMA NotOutrun ==
  ASSUME Rooted, NEW d \in Devices, NEW t, ~Outrun(d, t), NEW h \in Holder
  PROVE  /\ \A p \in Changed(store[d], t) : seen[d][p] >= seen[h][p]
         /\ \A i \in Item : t[i] # store[d][i] => Covers(store[d][i], store[h][i])
<1>1. \A p \in Changed(store[d], t) : ~(seen[h][p] > seen[d][p])
  BY DEF Outrun
<1>2. \A i \in Item : t[i] # store[d][i] => Later(store[d][i], store[h][i]) = store[d][i]
  BY DEF Outrun
<1>3. \A p \in Person : seen[d][p] \in Nat /\ seen[h][p] \in Nat
  BY RootedIs DEF Rooted, PeopleTypeOK
<1>4. \A i \in Item : Later(store[d][i], store[h][i]) = store[d][i] <=> Covers(store[d][i], store[h][i])
  BY RootedIs, HeldRows, LaterIs
<1> QED
  BY <1>1, <1>2, <1>3, <1>4 DEF Changed

LEMMA TransactionIs ==
  ASSUME Rooted, NEW d \in Devices, NEW t, Transaction(d, t)
  PROVE  /\ d \in Holder /\ t \in Store /\ Known(t)
         /\ store'[d] = t /\ \A h \in Holder : h # d => store'[h] = store[h]
         /\ clock' = clock + 2 /\ clock \in Nat
         /\ \A p \in Changed(store[d], t) : seen'[d][p] = clock + 1
         /\ \A p \in Person : p \notin Changed(store[d], t) => seen'[d][p] = seen[d][p]
         /\ \A h \in Holder : h # d => seen'[h] = seen[h]
         /\ \/ /\ contested' = contested /\ ~Outrun(d, t) /\ Changed(store[d], t) \cap contested = {}
            \/ contested' = contested \cup Changed(store[d], t) \cup InTransit
         /\ \A i \in Item : t[i] # store[d][i] => t[i] # None /\ t[i].at \in {clock + 1, clock + 2}
         /\ PeopleTypeOK'
<1>1. d \in Holder /\ store \in [Holder -> Store] /\ seen \in [Holder -> [Person -> Nat]] /\ clock \in Nat
  BY RootedIs DEF Rooted, PeopleTypeOK
<1>2. t \in Store /\ Known(t)
  BY DEF Transaction, Lawful
<1>3. /\ ops' = ops + 1 /\ clock' = clock + 2 /\ store' = [store EXCEPT ![d] = t]
      /\ seen' = [seen EXCEPT ![d] = [p \in Person |->
                    IF p \in Changed(store[d], t) THEN clock + 1 ELSE seen[d][p]]]
      /\ contested' = IF Outrun(d, t) \/ Changed(store[d], t) \cap contested # {}
                      THEN contested \cup Changed(store[d], t) \cup InTransit ELSE contested
      /\ revived' = revived \cup {f \in Fact : /\ t[f] # store[d][f] /\ Live(t[f])
                                               /\ \E h \in Holder : store[h][f] # None /\ store[h][f].gone}
  BY <1>1 DEF Transaction, Commit
<1>4. Changed(store[d], t) \subseteq Person /\ InTransit \subseteq Person
  BY DEF Changed, InTransit
<1>5. PeopleTypeOK'
  <2>1. store' \in [Holder -> Store]
    BY <1>1, <1>2, <1>3
  <2>2. seen' \in [Holder -> [Person -> Nat]]
    <3>1. [p \in Person |-> IF p \in Changed(store[d], t) THEN clock + 1 ELSE seen[d][p]] \in [Person -> Nat]
      BY <1>1
    <3> QED
      BY <1>1, <1>3, <3>1
  <2>3. ops' \in 0 .. MaxOps /\ clock' \in Nat
    BY <1>1, <1>3, RowsAssumption DEF Transaction, Rooted, PeopleTypeOK, RowsAssumption
  <2>4. contested' \subseteq Person /\ revived' \subseteq Fact
    BY <1>3, <1>4 DEF Rooted, PeopleTypeOK
  <2> QED
    BY <2>1, <2>2, <2>3, <2>4 DEF PeopleTypeOK, Transaction
<1>6. \A i \in Item : t[i] # store[d][i] => t[i] # None /\ t[i].at \in {clock + 1, clock + 2}
  BY <1>1 DEF Transaction, Lawful
<1>7. /\ \A p \in Changed(store[d], t) : seen'[d][p] = clock + 1
      /\ \A p \in Person : p \notin Changed(store[d], t) => seen'[d][p] = seen[d][p]
      /\ \A h \in Holder : h # d => seen'[h] = seen[h]
  BY <1>1, <1>3, <1>4
<1>8. store'[d] = t /\ \A h \in Holder : h # d => store'[h] = store[h]
  BY <1>1, <1>3
<1>9. \/ contested' = contested /\ ~Outrun(d, t) /\ Changed(store[d], t) \cap contested = {}
      \/ contested' = contested \cup Changed(store[d], t) \cup InTransit
  BY <1>3
<1> QED
  BY <1>1, <1>2, <1>3, <1>5, <1>6, <1>7, <1>8, <1>9

-----------------------------------------------------------------------------
(* People: an operation preserves the invariant.                           *)

LEMMA OperateRooted ==
  ASSUME Rooted, SeenBound, NEW d \in Devices, NEW t, Transaction(d, t)
  PROVE  Rooted' /\ SeenBound'
<1>1. /\ d \in Holder /\ Known(t) /\ store'[d] = t /\ \A h \in Holder : h # d => store'[h] = store[h]
      /\ clock' = clock + 2 /\ clock \in Nat /\ PeopleTypeOK'
      /\ \A i \in Item : t[i] # store[d][i] => t[i] # None /\ t[i].at \in {clock + 1, clock + 2}
      /\ \A p \in Changed(store[d], t) : seen'[d][p] = clock + 1
      /\ \A p \in Person : p \notin Changed(store[d], t) => seen'[d][p] = seen[d][p]
      /\ \A h \in Holder : h # d => seen'[h] = seen[h]
  BY TransactionIs
<1>2. \A h \in Holder : \A i \in Item :
         store[h][i] # None => store[h][i].at \in Nat /\ store[h][i].at <= clock
  BY HeldRows
<1>3. Kept'
  BY <1>1 DEF Kept, Rooted
<1>4. ASSUME NEW h \in Holder, NEW i \in Item, store'[h][i] # None
      PROVE  \/ store'[h][i] = store[h][i]
             \/ h = d /\ store'[h][i].at \in {clock + 1, clock + 2}
  BY <1>1, <1>4
<1>5. ASSUME NEW h \in Holder, NEW i \in Item, store'[h][i] # None PROVE store'[h][i].at <= clock'
  BY <1>1, <1>2, <1>4, <1>5
<1>6. ASSUME NEW g \in Holder, NEW h \in Holder, NEW i \in Item, store'[g][i] # None, store'[h][i] # None,
             store'[g][i].at = store'[h][i].at
      PROVE  store'[g][i] = store'[h][i]
  <2>1. CASE store'[g][i] = store[g][i] /\ store'[h][i] = store[h][i]
    BY <1>6, <2>1 DEF Rooted, Stamped
  <2>2. CASE g = h
    BY <2>2
  <2>3. CASE g # h /\ g = d /\ store'[g][i].at \in {clock + 1, clock + 2}
    BY <2>3, <1>1, <1>2, <1>6
  <2>4. CASE g # h /\ h = d /\ store'[h][i].at \in {clock + 1, clock + 2}
    BY <2>4, <1>1, <1>2, <1>6
  <2> QED
    BY <2>1, <2>2, <2>3, <2>4, <1>4, <1>6
<1>7. Stamped'
  BY <1>5, <1>6 DEF Stamped
<1>8. SeenBound'
  <2> SUFFICES ASSUME NEW h \in Holder, NEW p \in Person PROVE seen'[h][p] <= clock'
    BY DEF SeenBound
  <2>1. seen[h][p] \in Nat /\ seen[h][p] <= clock
    BY DEF SeenBound, Rooted, PeopleTypeOK
  <2> QED
    BY <2>1, <1>1
<1> QED
  BY <1>1, <1>3, <1>7, <1>8 DEF Rooted

LEMMA OperateSounds ==
  ASSUME Rooted, Sounds, Anchors, NEW d \in Devices, NEW t, Transaction(d, t)
  PROVE  Sounds' /\ Anchors'
<1> DEFINE s == store[d]
<1>1. /\ d \in Holder /\ Known(t) /\ store'[d] = t /\ \A h \in Holder : h # d => store'[h] = store[h]
      /\ \/ contested' = contested /\ ~Outrun(d, t) /\ Changed(s, t) \cap contested = {}
         \/ contested' = contested \cup Changed(s, t) \cup InTransit
      /\ s \in Store /\ Known(s) /\ t \in Store
  BY TransactionIs, RootedIs
<1>2. contested \subseteq contested' /\ pruned \subseteq pruned' /\ chained \subseteq chained'
  BY <1>1 DEF Transaction
<1>3. ASSUME NEW h \in Holder, NEW p \in Person \ contested' PROVE Sound(store'[h], p, pruned')
  <2>1. Sound(store[h], p, pruned)
    BY <1>2 DEF Sounds
  <2>2. CASE h = d
    BY <2>1, <2>2, <1>1 DEF Transaction
  <2>3. CASE h # d
    BY <2>1, <2>3, <1>1, <1>2 DEF Sound
  <2> QED
    BY <2>2, <2>3
<1>4. ASSUME NEW h \in Holder, NEW p \in Person \ (contested' \cup chained')
      PROVE  Anchored(store'[h], p, contested')
  <2>1. Anchored(store[h], p, contested)
    BY <1>2 DEF Anchors
  <2>2. CASE h # d
    BY <2>1, <2>2, <1>1, <1>2 DEF Anchored
  <2>3. CASE h = d /\ Changed(s, t) \cap contested = {} /\ contested' = contested
    BY <2>1, <2>3, <1>1 DEF Transaction
  <2>4. CASE h = d /\ contested' = contested \cup Changed(s, t) \cup InTransit
    <3>1. p \notin Changed(s, t) /\ p \in Person
      BY <2>4
    <3>2. About(t, p) = About(s, p) /\ \A i \in About(s, p) : t[i] = s[i]
      BY <3>1, <1>1, Unchanged
    <3> SUFFICES ASSUME p \in People(t), t[p].standing = Named
                 PROVE  /\ FactsOn(t, p) = {}
                        /\ \E e \in Edge :
                              /\ EdgesOf(t, p) = {e}
                              /\ \A q \in t[e].ends : q # p =>
                                    q \in contested' \/ (q \in People(t) /\ t[q].standing = Mine)
      BY <2>4, <1>1 DEF Anchored
    <3>3. p \in About(t, p)
      BY LiveIs, AboutIs, Tables
    <3>4. p \in People(s) /\ s[p].standing = Named
      BY <3>2, <3>3, LiveIs
    <3>5. Anchored(s, p, contested)
      BY <2>1, <2>4
    <3>6. FactsOn(t, p) = {}
      <4> SUFFICES ASSUME NEW f \in FactsOn(t, p) PROVE FALSE
        OBVIOUS
      <4>1. f \in About(t, p) /\ f \in Milestone /\ t[f] # None /\ ~t[f].gone /\ t[f].bearer = p
        BY LiveIs, AboutIs, Tables
      <4>2. f \in FactsOn(s, p)
        BY <4>1, <3>2, LiveIs
      <4> QED
        BY <4>2, <3>4, <3>5 DEF Anchored
    <3>7. EdgesOf(t, p) = EdgesOf(s, p)
      <4>1. \A e : e \in EdgesOf(t, p) => e \in About(t, p)
        BY LiveIs, AboutIs, Tables
      <4>2. \A e : e \in EdgesOf(s, p) => e \in About(s, p)
        BY LiveIs, AboutIs, Tables
      <4>3. ASSUME NEW e \in EdgesOf(t, p) PROVE e \in EdgesOf(s, p)
        <5>1. t[e] = s[e]
          BY <4>1, <3>2
        <5> QED
          BY <5>1, LiveIs
      <4>4. ASSUME NEW e \in EdgesOf(s, p) PROVE e \in EdgesOf(t, p)
        <5>1. t[e] = s[e]
          BY <4>2, <3>2
        <5> QED
          BY <5>1, LiveIs
      <4> QED
        BY <4>3, <4>4
    <3>8. PICK e \in Edge : /\ EdgesOf(s, p) = {e}
                            /\ \A q \in s[e].ends : q # p =>
                                  q \in contested \/ (q \in People(s) /\ s[q].standing = Mine)
      BY <3>4, <3>5 DEF Anchored
    <3>9. e \in About(s, p) /\ t[e] = s[e] /\ t[e].ends \subseteq Person
      <4>1. e \in About(s, p)
        BY <3>8, LiveIs, AboutIs, Tables
      <4>2. t[e] = s[e] /\ s[e] # None
        BY <4>1, <3>2, AboutIs
      <4> QED
        BY <4>1, <4>2, <1>1, RowTypes, Rows
    <3>10. ASSUME NEW q \in t[e].ends, q # p
           PROVE  q \in contested' \/ (q \in People(t) /\ t[q].standing = Mine)
      <4>1. q \in Person
        BY <3>9
      <4>2. CASE q \in contested \/ q \in Changed(s, t)
        BY <4>2, <2>4
      <4>3. CASE q \notin contested /\ q \notin Changed(s, t)
        <5>1. q \in People(s) /\ s[q].standing = Mine
          BY <4>3, <3>8, <3>9, <3>10
        <5>2. q \in About(s, q)
          BY <5>1, <4>1, LiveIs, AboutIs, Tables
        <5>3. t[q] = s[q]
          BY <5>2, <4>1, <4>3, <1>1, Unchanged
        <5> QED
          BY <5>1, <5>3, LiveIs
      <4> QED
        BY <4>2, <4>3
    <3> QED
      BY <3>6, <3>7, <3>8, <3>10
  <2> QED
    BY <2>2, <2>3, <2>4, <1>1
<1> QED
  BY <1>3, <1>4 DEF Sounds, Anchors

\* In a store that is not disputed, what is written covers what others have.
LEMMA OperateStandings ==
  ASSUME Rooted, Standings, NEW d \in Devices, NEW t, Transaction(d, t)
  PROVE  Standings'
<1> DEFINE s == store[d]
<1>1. /\ d \in Holder /\ t \in Store /\ store'[d] = t /\ \A h \in Holder : h # d => store'[h] = store[h]
      /\ \/ contested' = contested /\ ~Outrun(d, t) /\ Changed(s, t) \cap contested = {}
         \/ contested' = contested \cup Changed(s, t) \cup InTransit
      /\ \A i \in Item : t[i] # s[i] => t[i] # None /\ t[i].at \in {clock + 1, clock + 2}
      /\ clock \in Nat
  BY TransactionIs
<1>2. \A h \in Holder : \A i \in Item :
         store[h][i] # None => store[h][i].at \in Nat /\ store[h][i].at <= clock
  BY HeldRows
<1> SUFFICES ASSUME NEW g \in Holder, NEW h \in Holder, NEW p \in Person \ contested',
                    store'[h][p] # None, store'[h][p].standing = Mine, Covers(store'[g][p], store'[h][p])
             PROVE  store'[g][p].standing = Mine
  BY DEF Standings
<1>3. p \in Person \ contested /\ p \in Item
  BY <1>1, Tables
<1>4. CASE g = h
  BY <1>4
<1>5. CASE store'[g][p] = store[g][p] /\ store'[h][p] = store[h][p]
  BY <1>3, <1>5 DEF Standings
<1>6. CASE h = d /\ g # d /\ t[p] # s[p]
  BY <1>1, <1>2, <1>3, <1>6 DEF Covers
<1>7. CASE g = d /\ h # d /\ t[p] # s[p]
  <2>1. p \in Changed(s, t)
    <3>1. p \in About(t, p)
      BY <1>1, <1>3, <1>7, AboutIs
    <3> QED
      BY <3>1, <1>3, <1>7, ChangedIf
  <2>2. ~Outrun(d, t)
    BY <2>1, <1>1
  <2>3. Covers(s[p], store[h][p])
    BY <2>2, <1>3, <1>7, NotOutrun
  <2>4. s[p] # None /\ s[p].standing = Mine
    BY <2>3, <1>1, <1>3, <1>7 DEF Standings, Covers
  <2> QED
    BY <2>4, <1>1, <1>3, <1>7 DEF Transaction, Lawful
<1> QED
  BY <1>1, <1>4, <1>5, <1>6, <1>7

LEMMA OperateOnce ==
  ASSUME Rooted, Copies, Once, Removal, NEW d \in Devices, NEW t, Transaction(d, t)
  PROVE  Copies' /\ Once' /\ Removal'
<1> DEFINE s == store[d]
<1>1. /\ d \in Holder /\ t \in Store /\ store'[d] = t /\ \A h \in Holder : h # d => store'[h] = store[h]
      /\ \A i \in Item : t[i] # s[i] => t[i] # None /\ t[i].at \in {clock + 1, clock + 2}
      /\ clock \in Nat
  BY TransactionIs
<1>2. \A h \in Holder : \A i \in Item :
         store[h][i] # None => store[h][i].at \in Nat /\ store[h][i].at <= clock
  BY HeldRows
<1>3. /\ \A c \in Copy :
            /\ s[c] = None /\ t[c] # None => t[c].bearer = c[2] /\ t[c[1]] # None /\ t[c[1]].gone
            /\ s[c] # None => t[c].bearer \in {s[c].bearer} \cup survivors'
      /\ survivors \subseteq survivors'
  BY DEF Transaction, Lawful
<1>4. revived' = revived \cup {f \in Fact : /\ t[f] # s[f] /\ Live(t[f])
                                            /\ \E h \in Holder : store[h][f] # None /\ store[h][f].gone}
  BY DEF Transaction, Commit
<1>5. \A c \in Copy : c \in Item /\ c[1] \in Fact /\ c[1] \in Item
  BY Tables DEF Copy
<1>6. Copies'
  BY <1>1, <1>3 DEF Copies
<1>7. ASSUME NEW h \in Holder, NEW c \in Copy, store'[h][c] # None, c[1] \notin revived'
      PROVE  store'[h][c[1]] # None /\ store'[h][c[1]].gone
  <2>1. CASE h # d
    BY <2>1, <1>1, <1>4, <1>7 DEF Once
  <2>2. CASE h = d /\ s[c] = None
    BY <2>2, <1>1, <1>3, <1>7
  <2>3. CASE h = d /\ s[c] # None
    <3>1. s[c[1]] # None /\ s[c[1]].gone
      BY <2>3, <1>1, <1>4, <1>7 DEF Once
    <3>2. CASE t[c[1]] = s[c[1]]
      BY <3>1, <3>2, <2>3, <1>1
    <3>3. CASE t[c[1]] # s[c[1]]
      <4>1. t[c[1]] # None
        BY <3>3, <1>1, <1>5
      <4>2. ~Live(t[c[1]])
        BY <3>1, <3>3, <1>1, <1>4, <1>5, <1>7
      <4> QED
        BY <4>1, <4>2, <2>3, <1>1 DEF Live
    <3> QED
      BY <3>2, <3>3
  <2> QED
    BY <2>1, <2>2, <2>3
<1>8. ASSUME NEW g \in Holder, NEW h \in Holder, NEW f \in Fact \ revived',
             store'[g][f] # None, store'[g][f].gone, Live(store'[h][f])
      PROVE  store'[g][f].at > store'[h][f].at
  <2>1. f \in Item /\ f \in Fact \ revived
    BY <1>4, Tables
  <2>2. g # h
    BY <1>8 DEF Live
  <2>3. CASE store'[g][f] = store[g][f] /\ store'[h][f] = store[h][f]
    BY <2>1, <2>3, <1>8 DEF Removal
  <2>4. CASE g = d /\ t[f] # s[f]
    BY <2>1, <2>2, <2>4, <1>1, <1>2, <1>8 DEF Live
  <2>5. CASE h = d /\ t[f] # s[f]
    <3>1. store[g][f] # None /\ store[g][f].gone /\ Live(t[f])
      BY <2>2, <2>5, <1>1, <1>8
    <3> QED
      BY <3>1, <2>5, <1>4, <1>8
  <2> QED
    BY <2>3, <2>4, <2>5, <1>1
<1> QED
  BY <1>6, <1>7, <1>8 DEF Once, Removal

\* Where nothing is disputed, a device changes only persons and rows of which
\* it has the last change.
LEMMA AheadUndisputed ==
  ASSUME Rooted, SeenBound, Ahead, NEW d \in Devices, NEW t, Transaction(d, t),
         ~Outrun(d, t), Changed(store[d], t) \cap contested = {},
         NEW p \in Person \ contested, NEW h \in Holder, h # d
  PROVE  /\ seen'[d][p] >= seen[h][p] =>
               \A i \in About(t, p) \cup About(store[h], p) : Covers(t[i], store[h][i])
         /\ seen[h][p] >= seen'[d][p] =>
               \A i \in About(t, p) \cup About(store[h], p) : Covers(store[h][i], t[i])
<1> DEFINE s == store[d]
           o == store[h]
<1>1. /\ d \in Holder /\ t \in Store /\ Known(t) /\ s \in Store /\ Known(s) /\ o \in Store /\ Known(o)
      /\ \A i \in Item : t[i] # s[i] => t[i] # None /\ t[i].at \in {clock + 1, clock + 2}
      /\ clock \in Nat
      /\ \A x \in Changed(s, t) : seen'[d][x] = clock + 1
      /\ \A x \in Person : x \notin Changed(s, t) => seen'[d][x] = seen[d][x]
  BY TransactionIs, RootedIs, HeldRows
<1>2. \A i \in Item : o[i] # None => o[i].at \in Nat /\ o[i].at <= clock
  BY HeldRows
<1>3. \A x \in Person : seen[h][x] \in Nat /\ seen[d][x] \in Nat /\ seen[h][x] <= clock
  BY <1>1 DEF Rooted, PeopleTypeOK, SeenBound
<1>4. \A x \in Changed(s, t) : x \in Person \ contested /\ seen[d][x] >= seen[h][x]
  BY NotOutrun DEF Changed
<1>5. \A i \in Item : t[i] # s[i] => Covers(s[i], o[i])
  BY NotOutrun
<1>6. \A x \in Person \ contested :
         /\ seen[d][x] >= seen[h][x] => \A i \in About(s, x) \cup About(o, x) : Covers(s[i], o[i])
         /\ seen[h][x] >= seen[d][x] => \A i \in About(s, x) \cup About(o, x) : Covers(o[i], s[i])
  BY <1>1 DEF Ahead
<1>7. \A i \in Item : Covers(s[i], o[i]) /\ Covers(o[i], s[i]) => s[i] = o[i]
  BY <1>1, CoversBoth
<1>8. \A i \in Item : t[i] # s[i] => Covers(t[i], o[i])
  BY <1>1, <1>2 DEF Covers
<1> HIDE DEF s, o
<1>9. CASE p \in Changed(s, t)
  <2>1. ASSUME NEW i \in About(t, p) \cup About(o, p) PROVE Covers(t[i], o[i])
    <3>1. i \in Item
      BY <2>1, AboutIs
    <3>2. CASE t[i] # s[i]
      BY <3>1, <3>2, <1>8
    <3>3. CASE t[i] = s[i] /\ (i \in About(s, p) \/ i \in About(o, p))
      BY <3>3, <1>4, <1>6, <1>9
    <3>4. CASE t[i] = s[i] /\ i \notin About(s, p) /\ i \in About(t, p)
      <4>1. i \in Milestone /\ t[i] # None /\ t[i].bearer \in Edge /\ p \in t[t[i].bearer].ends
        BY <3>4, AboutIs
      <4>2. /\ s[s[i].bearer] # None /\ s[i].bearer \in Item
            /\ \E w \in Person : w \in s[s[i].bearer].ends
            /\ \A w \in Person : w \in s[s[i].bearer].ends
                  => i \in About(s, w) /\ s[i].bearer \in About(s, w)
        BY <3>4, <4>1, <1>1, AboutOf
      <4>3. PICK w \in Person : i \in About(s, w) /\ s[i].bearer \in About(s, w)
        BY <4>2
      <4>4. s[s[i].bearer] # t[s[i].bearer]
        BY <3>1, <3>4, <4>1, AboutIs
      <4>5. w \in Changed(s, t)
        BY <4>2, <4>3, <4>4, ChangedIf
      <4> QED
        BY <3>4, <4>3, <4>5, <1>4, <1>6
    <3> QED
      BY <2>1, <3>2, <3>3, <3>4
  <2>2. ~(seen[h][p] >= seen'[d][p])
    BY <1>1, <1>3, <1>9
  <2> QED
    BY <2>1, <2>2 DEF o
<1>10. CASE p \notin Changed(s, t)
  <2>1. About(t, p) = About(s, p) /\ \A i \in About(s, p) : t[i] = s[i]
    BY <1>1, <1>10, Unchanged
  <2>2. seen'[d][p] = seen[d][p]
    BY <1>1, <1>10
  <2>3. ASSUME seen'[d][p] >= seen[h][p], NEW i \in About(t, p) \cup About(o, p)
        PROVE  Covers(t[i], o[i])
    <3>1. i \in Item
      BY <2>3, AboutIs
    <3> QED
      BY <2>1, <2>2, <2>3, <3>1, <1>6, <1>8
  <2>4. ASSUME seen[h][p] >= seen'[d][p], NEW i \in About(t, p) \cup About(o, p)
        PROVE  Covers(o[i], t[i])
    <3>1. i \in Item
      BY <2>4, AboutIs
    <3>2. Covers(o[i], s[i])
      BY <2>1, <2>2, <2>4, <1>6
    <3>3. CASE t[i] = s[i]
      BY <3>2, <3>3
    <3>4. CASE t[i] # s[i]
      <4>1. s[i] = o[i]
        BY <3>1, <3>2, <3>4, <1>5, <1>7
      <4>2. i \notin About(s, p) /\ i \in About(o, p)
        BY <3>4, <2>1, <2>4
      <4>3. s[i] # None /\ i \in Milestone /\ s[i].bearer \in Edge /\ p \in o[s[i].bearer].ends
            /\ p \notin s[s[i].bearer].ends
        BY <4>1, <4>2, AboutIs
      <4>4. /\ s[i].bearer \in Item /\ s[i].bearer \in About(o, p)
            /\ \E w \in Person : w \in s[s[i].bearer].ends
            /\ \A w \in Person : w \in s[s[i].bearer].ends
                  => i \in About(s, w) /\ s[i].bearer \in About(s, w)
        BY <4>1, <4>3, <1>1, AboutOf
      <4>5. PICK w \in Person : i \in About(s, w) /\ s[i].bearer \in About(s, w)
        BY <4>4
      <4>6. w \in Changed(s, t)
        BY <3>1, <3>4, <4>5, ChangedIf
      <4>7. Covers(s[s[i].bearer], o[s[i].bearer])
        BY <4>5, <4>6, <1>4, <1>6
      <4>8. Covers(o[s[i].bearer], s[s[i].bearer])
        BY <4>4, <2>2, <2>4, <1>6
      <4> QED
        BY <4>3, <4>4, <4>7, <4>8, <1>7
    <3> QED
      BY <3>3, <3>4
  <2> QED
    BY <2>3, <2>4 DEF o
<1> QED
  BY <1>9, <1>10

LEMMA OperateAhead ==
  ASSUME Rooted, SeenBound, Ahead, NEW d \in Devices, NEW t, Transaction(d, t)
  PROVE  Ahead'
<1> DEFINE s == store[d]
<1>1. /\ d \in Holder /\ t \in Store /\ Known(t) /\ s \in Store /\ Known(s)
      /\ store'[d] = t /\ \A h \in Holder : h # d => store'[h] = store[h]
      /\ \A x \in Person : x \notin Changed(s, t) => seen'[d][x] = seen[d][x]
      /\ \A h \in Holder : h # d => seen'[h] = seen[h]
      /\ \/ contested' = contested /\ ~Outrun(d, t) /\ Changed(s, t) \cap contested = {}
         \/ contested' = contested \cup Changed(s, t) \cup InTransit
  BY TransactionIs, RootedIs
<1>2. \A h \in Holder : \A i \in Item : store'[h][i] = None \/ store'[h][i].at \in Nat
  <2>1. \A h \in Holder : store'[h] \in Store
    BY <1>1, HeldRows
  <2> QED
    BY <2>1, RowTypes
<1> SUFFICES ASSUME NEW g \in Holder, NEW h \in Holder, NEW p \in Person \ contested',
                    seen'[g][p] >= seen'[h][p],
                    NEW i \in About(store'[g], p) \cup About(store'[h], p)
             PROVE  Covers(store'[g][i], store'[h][i])
  BY DEF Ahead
<1>3. p \in Person \ contested /\ i \in Item
  BY <1>1, AboutIs
<1>4. CASE g = h
  BY <1>2, <1>3, <1>4 DEF Covers
<1>5. CASE g # d /\ h # d
  BY <1>1, <1>3, <1>5 DEF Ahead
<1>6. CASE contested' = contested \cup Changed(s, t) \cup InTransit
  <2>1. p \notin Changed(s, t) /\ p \notin InTransit /\ p \in Person
    BY <1>6
  <2>2. About(t, p) = About(s, p) /\ \A k \in About(s, p) : t[k] = s[k]
    BY <2>1, <1>1, Unchanged
  <2>3. ASSUME NEW k \in Holder
        PROVE  About(store'[k], p) = About(s, p) /\ \A x \in About(s, p) : store'[k][x] = s[x]
    <3>1. CASE k = d
      BY <3>1, <2>2, <1>1
    <3>2. CASE k # d
      <4>1. seen[d][p] = seen[k][p]
        BY <2>1, <1>1 DEF InTransit
      <4>2. About(store[k], p) = About(s, p) /\ \A x \in About(s, p) : store[k][x] = s[x]
        BY <4>1, <1>1, <1>3, Agreed
      <4> QED
        BY <4>2, <3>2, <1>1
    <3> QED
      BY <3>1, <3>2
  <2>4. store'[g][i] = store'[h][i]
    BY <2>3
  <2> QED
    BY <2>4, <1>2, <1>3 DEF Covers
<1>7. CASE g # h /\ ~Outrun(d, t) /\ Changed(s, t) \cap contested = {}
  <2>1. CASE g = d
    <3>1. seen'[d][p] >= seen[h][p] /\ i \in About(t, p) \cup About(store[h], p)
      BY <2>1, <1>1, <1>7
    <3>2. Covers(t[i], store[h][i])
      BY <3>1, <2>1, <1>3, <1>7, AheadUndisputed
    <3> QED
      BY <3>2, <2>1, <1>1, <1>7
  <2>2. CASE h = d
    <3>1. seen[g][p] >= seen'[d][p] /\ i \in About(t, p) \cup About(store[g], p)
      BY <2>2, <1>1, <1>7
    <3>2. Covers(store[g][i], t[i])
      BY <3>1, <2>2, <1>3, <1>7, AheadUndisputed
    <3> QED
      BY <3>2, <2>2, <1>1, <1>7
  <2> QED
    BY <2>1, <2>2, <1>5
<1> QED
  BY <1>1, <1>4, <1>6, <1>7

\* What a device changes where nothing is disputed is about nobody disputed.
LEMMA ApartUndisputed ==
  ASSUME Rooted, Apart, NEW d \in Devices, NEW t, Transaction(d, t),
         ~Outrun(d, t), Changed(store[d], t) \cap contested = {},
         NEW w \in Person \ contested, NEW z \in contested, NEW h \in Holder,
         NEW i \in About(store[d], w) \cap About(store[h], z)
  PROVE  t[i] = store[d][i]
<1> DEFINE s == store[d]
           o == store[h]
<1>1. /\ d \in Holder /\ s \in Store /\ Known(s) /\ o \in Store /\ Known(o) /\ z \in Person
  BY RootedIs, HeldRows DEF Rooted, PeopleTypeOK
<1>2. \A k \in About(s, w) \cap About(o, z) : s[k] = o[k]
  BY <1>1 DEF Apart
<1> HIDE DEF s, o
<1>3. i \in About(s, w) /\ i \in About(o, z) /\ i \in Item /\ s[i] # None /\ s[i] = o[i]
  BY <1>2, AboutIs DEF s, o
<1>4. i \in About(s, z)
  <2>1. CASE i \in Milestone /\ s[i].bearer \in Edge
    <3>1. w \in s[s[i].bearer].ends /\ s[i].bearer \in About(s, w)
      BY <2>1, <1>1, <1>3, AboutOf
    <3>2. z \in o[s[i].bearer].ends /\ s[i].bearer \in About(o, z)
      BY <2>1, <1>1, <1>3, AboutOf
    <3>3. s[s[i].bearer] = o[s[i].bearer]
      BY <3>1, <3>2, <1>2
    <3> QED
      BY <2>1, <3>2, <3>3, <1>1, <1>3, AboutIs
  <2>2. CASE ~(i \in Milestone /\ s[i].bearer \in Edge)
    BY <2>2, <1>1, <1>3, AboutIs
  <2> QED
    BY <2>1, <2>2
<1>5. z \notin Changed(s, t)
  BY DEF s
<1>6. t[i] = s[i]
  BY <1>1, <1>3, <1>4, <1>5, ChangedIf
<1> QED
  BY <1>6 DEF s

LEMMA OperateApart ==
  ASSUME Rooted, Ahead, Apart, NEW d \in Devices, NEW t, Transaction(d, t)
  PROVE  Apart'
<1> DEFINE s == store[d]
<1>1. /\ d \in Holder /\ t \in Store /\ Known(t) /\ s \in Store /\ Known(s)
      /\ store'[d] = t /\ \A h \in Holder : h # d => store'[h] = store[h]
      /\ \/ contested' = contested /\ ~Outrun(d, t) /\ Changed(s, t) \cap contested = {}
         \/ contested' = contested \cup Changed(s, t) \cup InTransit
      /\ contested \subseteq Person
  BY TransactionIs, RootedIs DEF Rooted, PeopleTypeOK
<1> SUFFICES ASSUME NEW g \in Holder, NEW h \in Holder, NEW y \in Person \ contested', NEW z \in contested',
                    NEW i \in About(store'[g], y) \cap About(store'[h], z), NEW k \in Holder
             PROVE  store'[k][i] = store'[g][i]
  BY DEF Apart
<1>2. y \in Person \ contested
  BY <1>1
<1>3. CASE contested' = contested \cup Changed(s, t) \cup InTransit
  <2>1. y \notin Changed(s, t) /\ y \notin InTransit /\ y \in Person
    BY <1>3
  <2>2. About(t, y) = About(s, y) /\ \A x \in About(s, y) : t[x] = s[x]
    BY <2>1, <1>1, Unchanged
  <2>3. ASSUME NEW n \in Holder
        PROVE  About(store'[n], y) = About(s, y) /\ \A x \in About(s, y) : store'[n][x] = s[x]
    <3>1. CASE n = d
      BY <3>1, <2>2, <1>1
    <3>2. CASE n # d
      <4>1. seen[d][y] = seen[n][y]
        BY <2>1, <1>1 DEF InTransit
      <4>2. About(store[n], y) = About(s, y) /\ \A x \in About(s, y) : store[n][x] = s[x]
        BY <4>1, <1>1, <1>2, Agreed
      <4> QED
        BY <4>2, <3>2, <1>1
    <3> QED
      BY <3>1, <3>2
  <2> QED
    BY <2>3
<1>4. CASE contested' = contested /\ ~Outrun(d, t) /\ Changed(s, t) \cap contested = {}
  <2>1. z \in Person /\ z \in contested /\ z \notin Changed(s, t)
    BY <1>1, <1>4
  <2>2. About(t, z) = About(s, z) /\ \A x \in About(s, z) : t[x] = s[x]
    BY <2>1, <1>1, Unchanged
  <2>3. i \in About(store[h], z) /\ i \in Item /\ store[h][i] # None
    BY <2>1, <2>2, <1>1, AboutIs
  <2>4. \E w \in Person \ contested : \E n \in Holder : i \in About(store[n], w)
    <3>1. CASE g # d
      BY <3>1, <1>1, <1>2
    <3>2. CASE g = d
      <4>1. i \in About(t, y) /\ t[i] # None
        BY <3>2, <1>1, AboutIs
      <4>2. s[i] # None
        <5> SUFFICES ASSUME s[i] = None PROVE FALSE
          OBVIOUS
        <5>1. Covers(s[i], store[h][i])
          BY <4>1, <2>3, <1>4, NotOutrun
        <5> QED
          BY <5>1, <2>3 DEF Covers
      <4>3. PICK w \in Person : i \in About(s, w)
        BY <4>2, <2>3, <1>1, AboutSome
      <4>4. CASE t[i] # s[i]
        <5>1. w \in Changed(s, t)
          BY <4>3, <4>4, <2>3, ChangedIf
        <5> QED
          BY <5>1, <4>3, <1>1, <1>4
      <4>5. CASE i \in About(s, y)
        BY <4>5, <1>1, <1>2
      <4>6. CASE t[i] = s[i] /\ i \notin About(s, y)
        <5>1. i \in Milestone /\ s[i].bearer \in Edge /\ y \in t[s[i].bearer].ends
              /\ y \notin s[s[i].bearer].ends
          BY <4>1, <4>2, <4>6, <1>2, AboutIs
        <5>2. PICK n \in Person : i \in About(s, n) /\ s[i].bearer \in About(s, n)
          BY <5>1, <4>2, <1>1, AboutOf
        <5>3. s[i].bearer \in Item /\ s[s[i].bearer] # t[s[i].bearer]
          BY <5>1, <5>2, AboutIs
        <5>4. n \in Changed(s, t)
          BY <5>2, <5>3, ChangedIf
        <5> QED
          BY <5>2, <5>4, <1>1, <1>4
      <4> QED
        BY <4>4, <4>5, <4>6
    <3> QED
      BY <3>1, <3>2
  <2>5. PICK w \in Person \ contested, n \in Holder : i \in About(store[n], w)
    BY <2>4
  <2>6. \A x \in Holder : store[x][i] = store[n][i]
    BY <2>1, <2>3, <2>5 DEF Apart
  <2>7. t[i] = s[i]
    <3>1. s[i] # None
      BY <2>3, <2>6, <1>1
    <3>2. PICK x \in Person : i \in About(s, x)
      BY <3>1, <2>3, <1>1, AboutSome
    <3>3. CASE x \in contested
      <4>1. x \notin Changed(s, t)
        BY <3>3, <1>4
      <4> QED
        BY <4>1, <3>2, <2>3, ChangedIf
    <3>4. CASE x \notin contested
      <4>1. i \in About(store[d], x) \cap About(store[h], z)
        BY <3>2, <2>3
      <4> QED
        BY <4>1, <3>4, <2>1, <1>4, ApartUndisputed
    <3> QED
      BY <3>3, <3>4
  <2>8. \A x \in Holder : store'[x][i] = store[x][i]
    BY <2>7, <1>1
  <2> QED
    BY <2>6, <2>8
<1> QED
  BY <1>1, <1>3, <1>4

-----------------------------------------------------------------------------
(* People: a sync preserves the invariant.                                 *)

\* After a sync the device and the relay have the later version of each row.
LEMMA SyncIs ==
  ASSUME Rooted, NEW d \in Devices, Sync(d), NEW j, j = Joined(store[Server], store[d])
  PROVE  /\ d \in Holder /\ Server \in Holder /\ d # Server /\ j \in Store
         /\ \A h \in {d, Server} : store'[h] = j
         /\ \A h \in Holder \ {d, Server} : store'[h] = store[h] /\ seen'[h] = seen[h]
         /\ \A h \in {d, Server} : \A p \in Person :
               /\ seen'[h][p] \in {seen[d][p], seen[Server][p]}
               /\ seen'[h][p] >= seen[d][p] /\ seen'[h][p] >= seen[Server][p]
         /\ \A i \in Item :
               /\ j[i] = store[d][i] \/ j[i] = store[Server][i]
               /\ \A h \in {d, Server} : Covers(j[i], store[h][i])
               /\ j[i] = None <=> store[d][i] = None /\ store[Server][i] = None
         /\ UNCHANGED <<clock, survivors, heir, pruned, contested, revived, chained>>
         /\ PeopleTypeOK'
<1>1. /\ d \in Holder /\ Server \in Holder /\ d # Server /\ store[d] \in Store /\ store[Server] \in Store
      /\ store \in [Holder -> Store] /\ seen \in [Holder -> [Person -> Nat]]
  BY RowsAssumption DEF Devices, Rooted, PeopleTypeOK, RowsAssumption
<1>2. \A i \in Item : j[i] = Later(store[Server][i], store[d][i])
  BY DEF Joined
<1>3. \A i \in Item : /\ store[d][i] = None \/ store[d][i].at \in Nat
                      /\ store[Server][i] = None \/ store[Server][i].at \in Nat
  BY <1>1, RowTypes
<1>4. \A i \in Item : /\ j[i] = store[d][i] \/ j[i] = store[Server][i]
                      /\ \A h \in {d, Server} : Covers(j[i], store[h][i])
                      /\ j[i] = None <=> store[d][i] = None /\ store[Server][i] = None
  BY <1>2, <1>3, LaterIs
<1>5. j \in Store
  <2>1. j = [i \in Item |-> j[i]]
    BY DEF Joined
  <2>2. /\ \A p \in Person : j[p] = None \/ j[p] \in PersonRow
        /\ \A e \in Edge : j[e] = None \/ j[e] \in EdgeRow
        /\ \A f \in Milestone : j[f] = None \/ j[f] \in FactRow
    BY <1>1, <1>4, RowTypes, Tables
  <2> QED
    BY <2>1, <2>2, StoreOf
<1>6. /\ store' = [h \in Holder |-> IF h \in {d, Server} THEN j ELSE store[h]]
      /\ seen' = [h \in Holder |->
                  IF h \in {d, Server}
                  THEN [p \in Person |-> IF seen[d][p] > seen[Server][p] THEN seen[d][p] ELSE seen[Server][p]]
                  ELSE seen[h]]
      /\ UNCHANGED <<clock, ops, survivors, heir, pruned, contested, revived, chained>>
  BY DEF Sync, merges
<1>7. \A h \in {d, Server} : \A p \in Person :
         /\ seen'[h][p] \in {seen[d][p], seen[Server][p]}
         /\ seen'[h][p] >= seen[d][p] /\ seen'[h][p] >= seen[Server][p]
         /\ seen'[h][p] \in Nat
  BY <1>1, <1>6
<1>8. seen' \in [Holder -> [Person -> Nat]]
  <2>1. [p \in Person |-> IF seen[d][p] > seen[Server][p] THEN seen[d][p] ELSE seen[Server][p]]
           \in [Person -> Nat]
    BY <1>1
  <2> QED
    BY <1>1, <1>6, <2>1
<1>9. store' \in [Holder -> Store]
  BY <1>1, <1>5, <1>6
<1>10. PeopleTypeOK'
  BY <1>6, <1>8, <1>9 DEF Rooted, PeopleTypeOK
<1>11. /\ \A h \in {d, Server} : store'[h] = j
       /\ \A h \in Holder \ {d, Server} : store'[h] = store[h] /\ seen'[h] = seen[h]
  BY <1>1, <1>6
<1> QED
  BY <1>1, <1>4, <1>5, <1>6, <1>7, <1>10, <1>11

\* What holds of any two versions of a row still does.
LEMMA SyncRows ==
  ASSUME PeopleInvariant, NEW d \in Devices, Sync(d)
  PROVE  Rooted' /\ SeenBound' /\ Standings' /\ Copies' /\ Once' /\ Removal'
<1> DEFINE j == Joined(store[Server], store[d])
<1>1. /\ d \in Holder /\ Server \in Holder /\ j \in Store
      /\ \A h \in {d, Server} : store'[h] = j
      /\ \A h \in Holder \ {d, Server} : store'[h] = store[h] /\ seen'[h] = seen[h]
      /\ \A h \in {d, Server} : \A p \in Person : seen'[h][p] \in {seen[d][p], seen[Server][p]}
      /\ \A i \in Item :
            /\ j[i] = store[d][i] \/ j[i] = store[Server][i]
            /\ \A h \in {d, Server} : Covers(j[i], store[h][i])
            /\ j[i] = None <=> store[d][i] = None /\ store[Server][i] = None
      /\ UNCHANGED <<clock, survivors, heir, pruned, contested, revived, chained>>
      /\ PeopleTypeOK'
  BY SyncIs DEF PeopleInvariant
<1>2. Rooted
  BY DEF PeopleInvariant
<1> HIDE DEF j
<1>3. \A h \in Holder : \A i \in Item : \E k \in Holder : store'[h][i] = store[k][i]
  BY <1>1
<1>4. \A h \in Holder : \A p \in Person : \E k \in Holder : seen'[h][p] = seen[k][p]
  BY <1>1
<1>5. Stamped'
  <2>1. Stamped
    BY <1>2 DEF Rooted
  <2>2. ASSUME NEW h \in Holder, NEW i \in Item, store'[h][i] # None PROVE store'[h][i].at <= clock'
    BY <2>1, <2>2, <1>1, <1>3 DEF Stamped
  <2>3. ASSUME NEW g \in Holder, NEW h \in Holder, NEW i \in Item, store'[g][i] # None,
               store'[h][i] # None, store'[g][i].at = store'[h][i].at
        PROVE  store'[g][i] = store'[h][i]
    <3>1. PICK k \in Holder : store'[g][i] = store[k][i]
      BY <1>3
    <3>2. PICK n \in Holder : store'[h][i] = store[n][i]
      BY <1>3
    <3> QED
      BY <2>1, <2>3, <3>1, <3>2 DEF Stamped
  <2> QED
    BY <2>2, <2>3 DEF Stamped
<1>6. SeenBound'
  <2> SUFFICES ASSUME NEW h \in Holder, NEW p \in Person PROVE seen'[h][p] <= clock'
    BY DEF SeenBound
  <2>1. PICK k \in Holder : seen'[h][p] = seen[k][p]
    BY <1>4
  <2> QED
    BY <2>1, <1>1 DEF PeopleInvariant, SeenBound
<1>7. Known(j)
  <2>1. /\ store[d] \in Store /\ Known(store[d]) /\ store[Server] \in Store /\ Known(store[Server])
    BY <1>1, <1>2, HeldRows
  <2>2. ASSUME NEW i \in Item, store[d][i] # None \/ store[Server][i] # None PROVE j[i] # None
    BY <2>2, <1>1
  <2>3. ASSUME NEW e \in Edge, j[e] # None
        PROVE  /\ j[e].ends # {} /\ \A p \in j[e].ends : j[p] # None
               /\ ~j[e].gone => \E p, q \in Person : p # q /\ j[e].ends = {p, q}
    <3>1. PICK k \in {d, Server} : j[e] = store[k][e]
      BY <1>1, Tables
    <3>2. store[k] \in Store /\ Known(store[k]) /\ store[k][e] # None
      BY <2>1, <2>3, <3>1
    <3>3. store[k][e].ends \subseteq Person
      BY <3>2, RowTypes, Rows
    <3> QED
      BY <2>2, <3>1, <3>2, <3>3, Tables DEF Known
  <2>4. ASSUME NEW f \in Milestone, j[f] # None
        PROVE  j[j[f].bearer] # None /\ (f \in Copy => j[f].bearer \in Person)
    <3>1. PICK k \in {d, Server} : j[f] = store[k][f]
      BY <1>1, Tables
    <3>2. store[k] \in Store /\ Known(store[k]) /\ store[k][f] # None
      BY <2>1, <2>4, <3>1
    <3>3. store[k][f].bearer \in Item
      BY <3>2, RowTypes, Rows, Tables
    <3> QED
      BY <2>2, <3>1, <3>2, <3>3 DEF Known
  <2> QED
    BY <2>3, <2>4, Tables DEF Known
<1>8. Kept'
  <2> SUFFICES ASSUME NEW h \in Holder PROVE Known(store'[h])
    BY DEF Kept
  <2> QED
    BY <1>1, <1>2, <1>7, HeldRows
<1>9. Standings'
  <2> SUFFICES ASSUME NEW g \in Holder, NEW h \in Holder, NEW p \in Person \ contested',
                      store'[h][p] # None, store'[h][p].standing = Mine, Covers(store'[g][p], store'[h][p])
               PROVE  store'[g][p].standing = Mine
    BY DEF Standings
  <2>1. PICK k \in Holder : store'[g][p] = store[k][p]
    BY <1>3, Tables
  <2>2. PICK n \in Holder : store'[h][p] = store[n][p]
    BY <1>3, Tables
  <2> QED
    BY <2>1, <2>2, <1>1 DEF PeopleInvariant, Standings
<1>10. Copies'
  <2> SUFFICES ASSUME NEW h \in Holder, NEW c \in Copy, store'[h][c] # None
               PROVE  store'[h][c].bearer \in {c[2]} \cup survivors'
    BY DEF Copies
  <2>1. PICK k \in Holder : store'[h][c] = store[k][c]
    BY <1>3, Tables
  <2> QED
    BY <2>1, <1>1 DEF PeopleInvariant, Copies
<1>11. Removal'
  <2> SUFFICES ASSUME NEW g \in Holder, NEW h \in Holder, NEW f \in Fact \ revived',
                      store'[g][f] # None, store'[g][f].gone, Live(store'[h][f])
               PROVE  store'[g][f].at > store'[h][f].at
    BY DEF Removal
  <2>1. PICK k \in Holder : store'[g][f] = store[k][f]
    BY <1>3, Tables
  <2>2. PICK n \in Holder : store'[h][f] = store[n][f]
    BY <1>3, Tables
  <2> QED
    BY <2>1, <2>2, <1>1 DEF PeopleInvariant, Removal
<1>12. Once'
  <2> SUFFICES ASSUME NEW h \in Holder, NEW c \in Copy, store'[h][c] # None, c[1] \notin revived'
               PROVE  store'[h][c[1]] # None /\ store'[h][c[1]].gone
    BY DEF Once
  <2>1. c \in Item /\ c[1] \in Fact /\ c[1] \in Item /\ c[1] \in Fact \ revived
    BY <1>1, Tables DEF Copy
  <2>2. CASE h \notin {d, Server}
    BY <2>2, <1>1 DEF PeopleInvariant, Once
  <2>3. CASE h \in {d, Server}
    <3>1. PICK k \in {d, Server} : store[k][c] # None
      BY <2>1, <2>3, <1>1
    <3>2. store[k][c[1]] # None /\ store[k][c[1]].gone
      BY <2>1, <3>1, <1>1 DEF PeopleInvariant, Once
    <3>3. PICK n \in {d, Server} : j[c[1]] = store[n][c[1]]
      BY <2>1, <1>1
    <3>4. Covers(j[c[1]], store[k][c[1]])
      BY <2>1, <1>1
    <3>5. j[c[1]] # None /\ store[n][c[1]].at >= store[k][c[1]].at
      BY <3>2, <3>3, <3>4 DEF Covers
    <3>6. CASE Live(store[n][c[1]])
      <4>1. store[k][c[1]].at > store[n][c[1]].at
        BY <2>1, <3>2, <3>6, <1>1 DEF PeopleInvariant, Removal
      <4>2. store[k][c[1]].at \in Nat /\ store[n][c[1]].at \in Nat
        BY <2>1, <3>2, <3>6, <1>1, <1>2, HeldRows DEF Live
      <4> QED
        BY <3>5, <4>1, <4>2
    <3>7. CASE ~Live(store[n][c[1]])
      BY <3>3, <3>5, <3>7, <2>3, <1>1 DEF Live
    <3> QED
      BY <3>6, <3>7
  <2> QED
    BY <2>2, <2>3
<1> QED
  BY <1>1, <1>5, <1>6, <1>8, <1>9, <1>10, <1>11, <1>12 DEF Rooted

\* Of an undisputed person, who has their last change has all there is.
LEMMA JoinedAbout ==
  ASSUME Rooted, Ahead, Apart, NEW g \in Holder, NEW h \in Holder, NEW j \in Store, Known(j),
         \A i \in Item : /\ j[i] = store[g][i] \/ j[i] = store[h][i]
                         /\ Covers(j[i], store[g][i]) /\ Covers(j[i], store[h][i]),
         NEW p \in Person \ contested, seen[g][p] >= seen[h][p]
  PROVE  About(j, p) = About(store[g], p) /\ \A i \in About(j, p) : j[i] = store[g][i]
<1> DEFINE a == store[g]
           b == store[h]
<1>1. a \in Store /\ Known(a) /\ b \in Store /\ Known(b)
  BY HeldRows
<1>2. \A i \in Item : Covers(a[i], b[i]) /\ Covers(b[i], a[i]) => a[i] = b[i]
  BY CoversBoth
<1>3. \A i \in About(a, p) \cup About(b, p) : Covers(a[i], b[i])
  BY DEF Ahead
<1>4. \A i \in Item : (j[i] = a[i] \/ j[i] = b[i]) /\ Covers(j[i], a[i]) /\ Covers(j[i], b[i])
  OBVIOUS
<1>5. \A x \in Person \ contested :
         /\ seen[g][x] >= seen[h][x] => \A i \in About(b, x) : Covers(a[i], b[i])
         /\ seen[h][x] >= seen[g][x] => \A i \in About(b, x) : Covers(b[i], a[i])
  BY DEF Ahead
<1>6. \A x \in contested : \A i \in About(a, p) \cap About(b, x) : a[i] = b[i]
  BY DEF Apart
<1>7. \A x \in Person : seen[g][x] \in Nat /\ seen[h][x] \in Nat
  BY DEF Rooted, PeopleTypeOK
<1> HIDE DEF a, b
<1>8. \A i \in Item : Covers(a[i], b[i]) => j[i] = a[i]
  BY <1>2, <1>4
<1>9. \A i \in About(a, p) \cup About(b, p) : j[i] = a[i] /\ i \in Item
  BY <1>3, <1>8, AboutIs
<1>10. ASSUME NEW i \in About(j, p), ~(i \in Milestone /\ j[i].bearer \in Edge) PROVE j[i] = a[i]
  <2>1. i \in Item /\ j[i] # None
    BY AboutIs
  <2>2. CASE j[i] = b[i]
    <3>1. i \in About(b, p)
      BY <1>10, <2>1, <2>2, AboutIs
    <3> QED
      BY <3>1, <1>9
  <2> QED
    BY <2>1, <2>2, <1>4
<1>11. ASSUME NEW i \in About(j, p), i \in Milestone, j[i].bearer \in Edge, j[i] # a[i] PROVE FALSE
  <2> DEFINE e == j[i].bearer
  <2>1. i \in Item /\ j[i] # None /\ e \in About(j, p) /\ e \in Edge /\ e \in Item /\ p \in j[e].ends
    BY <1>11, AboutIs, AboutOf, Tables
  <2>2. j[e] = a[e]
    <3>1. ~(e \in Milestone /\ j[e].bearer \in Edge)
      BY <2>1, Tables
    <3> QED
      BY <3>1, <2>1, <1>10
  <2>3. j[i] = b[i] /\ ~Covers(a[i], b[i])
    BY <2>1, <1>4, <1>8, <1>11
  <2>4. /\ b[e] # None /\ \E w \in Person : w \in b[e].ends
        /\ \A w \in Person : w \in b[e].ends => i \in About(b, w) /\ e \in About(b, w)
    BY <2>1, <2>3, <1>1, <1>11, AboutOf
  <2>5. e \in About(a, p)
    BY <2>1, <2>2, AboutIs
  <2>6. p \notin b[e].ends
    <3> SUFFICES ASSUME p \in b[e].ends PROVE FALSE
      OBVIOUS
    <3>1. i \in About(b, p)
      BY <2>4
    <3> QED
      BY <3>1, <2>3, <1>3
  <2> HIDE DEF e
  <2>7. a[e] # b[e]
    BY <2>1, <2>2, <2>6
  <2>8. PICK w \in Person : i \in About(b, w) /\ e \in About(b, w)
    BY <2>4
  <2>9. w \notin contested
    BY <2>5, <2>7, <2>8, <1>6
  <2>10. CASE seen[g][w] >= seen[h][w]
    BY <2>3, <2>8, <2>9, <2>10, <1>5
  <2>11. CASE seen[h][w] >= seen[g][w]
    <3>1. Covers(b[e], a[e])
      BY <2>8, <2>9, <2>11, <1>5
    <3>2. Covers(a[e], b[e])
      BY <2>5, <1>3
    <3> QED
      BY <3>1, <3>2, <2>1, <2>7, <1>2
  <2> QED
    BY <2>10, <2>11, <1>7
<1>12. \A i \in About(a, p) \cup About(j, p) : j[i] = a[i]
  BY <1>9, <1>10, <1>11
<1>13. About(j, p) = About(a, p)
  BY <1>1, <1>12, AboutSame
<1> QED
  BY <1>12, <1>13 DEF a

LEMMA SyncAbout ==
  ASSUME PeopleInvariant, NEW d \in Devices, Sync(d), NEW p \in Person \ contested
  PROVE  \E g \in {d, Server} : \A h \in {d, Server} :
            /\ About(store'[h], p) = About(store[g], p) /\ \A i \in About(store[g], p) : store'[h][i] = store[g][i]
            /\ seen'[h][p] = seen[g][p]
            /\ seen[g][p] >= seen[h][p]
<1> DEFINE j == Joined(store[Server], store[d])
<1>1. /\ d \in Holder /\ Server \in Holder /\ j \in Store
      /\ \A h \in {d, Server} : store'[h] = j
      /\ \A h \in {d, Server} : /\ seen'[h][p] \in {seen[d][p], seen[Server][p]}
                                /\ seen'[h][p] >= seen[d][p] /\ seen'[h][p] >= seen[Server][p]
      /\ \A i \in Item :
            /\ j[i] = store[d][i] \/ j[i] = store[Server][i]
            /\ \A h \in {d, Server} : Covers(j[i], store[h][i])
  BY SyncIs DEF PeopleInvariant
<1>2. Rooted /\ Ahead /\ Apart
  BY DEF PeopleInvariant
<1>3. Known(j)
  <2>1. Kept'
    BY SyncRows DEF Rooted
  <2> HIDE DEF j
  <2> QED
    BY <2>1, <1>1 DEF Kept
<1> HIDE DEF j
<1>4. seen[d][p] \in Nat /\ seen[Server][p] \in Nat
  BY <1>1, <1>2 DEF Rooted, PeopleTypeOK
<1>5. ASSUME NEW g \in {d, Server}, NEW h \in {d, Server}, seen[g][p] >= seen[h][p],
             \A i \in Item : j[i] = store[g][i] \/ j[i] = store[h][i]
      PROVE  About(j, p) = About(store[g], p) /\ \A i \in About(j, p) : j[i] = store[g][i]
  <2>1. g \in Holder /\ h \in Holder
    BY <1>1
  <2>2. \A i \in Item : /\ j[i] = store[g][i] \/ j[i] = store[h][i]
                        /\ Covers(j[i], store[g][i]) /\ Covers(j[i], store[h][i])
    BY <1>1, <1>5
  <2> QED
    BY <2>1, <2>2, <1>1, <1>2, <1>3, <1>5, JoinedAbout
<1>6. CASE seen[d][p] >= seen[Server][p]
  <2>1. About(j, p) = About(store[d], p) /\ \A i \in About(j, p) : j[i] = store[d][i]
    BY <1>1, <1>5, <1>6
  <2> QED
    BY <2>1, <1>1, <1>4, <1>6
<1>7. CASE seen[Server][p] >= seen[d][p]
  <2>1. About(j, p) = About(store[Server], p) /\ \A i \in About(j, p) : j[i] = store[Server][i]
    BY <1>1, <1>5, <1>7
  <2> QED
    BY <2>1, <1>1, <1>4, <1>7
<1> QED
  BY <1>4, <1>6, <1>7

LEMMA SyncAhead ==
  ASSUME PeopleInvariant, NEW d \in Devices, Sync(d)
  PROVE  Ahead'
<1> DEFINE both == {d, Server}
           j == Joined(store[Server], store[d])
<1>1. /\ both \subseteq Holder /\ j \in Store
      /\ \A h \in both : store'[h] = j
      /\ \A h \in Holder \ both : store'[h] = store[h] /\ seen'[h] = seen[h]
      /\ \A h \in both : \A p \in Person : seen'[h][p] >= seen[d][p] /\ seen'[h][p] >= seen[Server][p]
      /\ \A i \in Item :
            /\ j[i] = store[d][i] \/ j[i] = store[Server][i]
            /\ \A h \in both : Covers(j[i], store[h][i])
      /\ contested' = contested
  BY SyncIs DEF PeopleInvariant
<1>2. Rooted /\ Ahead
  BY DEF PeopleInvariant
<1>3. \A h \in Holder : \A i \in Item :
         /\ store[h][i] = None \/ store[h][i].at \in Nat
         /\ j[i] = None \/ j[i].at \in Nat
  BY <1>1, <1>2, HeldRows, RowTypes
<1> HIDE DEF j
<1> SUFFICES ASSUME NEW g \in Holder, NEW h \in Holder, NEW p \in Person \ contested,
                    seen'[g][p] >= seen'[h][p],
                    NEW i \in About(store'[g], p) \cup About(store'[h], p)
             PROVE  Covers(store'[g][i], store'[h][i])
  BY <1>1 DEF Ahead
<1>4. i \in Item
  BY AboutIs
<1>5. PICK k \in both : \A n \in both :
            /\ About(store'[n], p) = About(store[k], p) /\ \A x \in About(store[k], p) : store'[n][x] = store[k][x]
            /\ seen'[n][p] = seen[k][p]
            /\ seen[k][p] >= seen[n][p]
  BY SyncAbout
<1>6. CASE g \notin both /\ h \notin both
  BY <1>1, <1>2, <1>6 DEF Ahead
<1>7. CASE g \in both /\ h \in both
  <2>1. store'[g][i] = store'[h][i] /\ (store'[g][i] = None \/ store'[g][i].at \in Nat)
    BY <1>1, <1>3, <1>4, <1>7
  <2> QED
    BY <2>1 DEF Covers
<1>8. CASE g \in both /\ h \notin both
  <2>1. seen[k][p] >= seen[h][p] /\ i \in About(store[k], p) \cup About(store[h], p) /\ k \in Holder
    BY <1>1, <1>5, <1>8
  <2>2. Covers(store[k][i], store[h][i])
    BY <2>1, <1>2 DEF Ahead
  <2>3. Covers(j[i], store[k][i]) /\ store'[g][i] = j[i] /\ store'[h][i] = store[h][i]
    BY <1>1, <1>4, <1>8
  <2>4. /\ store[k][i] = None \/ store[k][i].at \in Nat
        /\ store[h][i] = None \/ store[h][i].at \in Nat
        /\ j[i] = None \/ j[i].at \in Nat
    BY <2>1, <1>3, <1>4
  <2> QED
    BY <2>2, <2>3, <2>4 DEF Covers
<1>9. CASE g \notin both /\ h \in both
  <2>1. /\ seen[g][p] >= seen[k][p] /\ k \in Holder
        /\ i \in About(store[k], p) \cup About(store[g], p)
    BY <1>1, <1>5, <1>9
  <2>2. store'[g][i] = store[g][i] /\ store'[h][i] = j[i]
    BY <1>1, <1>9
  <2>3. CASE i \in About(store[k], p)
    <3>1. store'[h][i] = store[k][i]
      BY <2>3, <1>5, <1>9
    <3>2. Covers(store[g][i], store[k][i])
      BY <2>1, <1>2 DEF Ahead
    <3> QED
      BY <3>1, <3>2, <2>2
  <2>4. CASE i \in About(store[g], p)
    <3>1. PICK n \in both : j[i] = store[n][i]
      BY <1>1, <1>4
    <3>2. n \in Holder /\ seen[g][p] >= seen[n][p]
      <4>1. seen[k][p] >= seen[n][p] /\ n \in Holder
        BY <1>1, <1>5
      <4>2. seen[g][p] \in Nat /\ seen[k][p] \in Nat /\ seen[n][p] \in Nat
        BY <2>1, <4>1, <1>2 DEF Rooted, PeopleTypeOK
      <4> QED
        BY <2>1, <4>1, <4>2
    <3>3. Covers(store[g][i], store[n][i])
      BY <2>4, <3>2, <1>2 DEF Ahead
    <3> QED
      BY <3>1, <3>3, <2>2
  <2> QED
    BY <2>1, <2>3, <2>4
<1> QED
  BY <1>6, <1>7, <1>8, <1>9

LEMMA SyncApart ==
  ASSUME PeopleInvariant, NEW d \in Devices, Sync(d)
  PROVE  Apart'
<1> DEFINE both == {d, Server}
           j == Joined(store[Server], store[d])
<1>1. /\ both \subseteq Holder /\ j \in Store
      /\ \A h \in both : store'[h] = j
      /\ \A h \in Holder \ both : store'[h] = store[h] /\ seen'[h] = seen[h]
      /\ \A i \in Item : j[i] = store[d][i] \/ j[i] = store[Server][i]
      /\ contested' = contested
  BY SyncIs DEF PeopleInvariant
<1>2. Rooted /\ Apart /\ contested \subseteq Person
  BY DEF PeopleInvariant, Rooted, PeopleTypeOK
<1>3. Known(j)
  <2>1. Kept'
    BY SyncRows DEF Rooted
  <2> HIDE DEF j
  <2> QED
    BY <2>1, <1>1 DEF Kept
<1> HIDE DEF j
<1> SUFFICES ASSUME NEW g \in Holder, NEW h \in Holder, NEW y \in Person \ contested, NEW z \in contested,
                    NEW i \in About(store'[g], y) \cap About(store'[h], z), NEW k \in Holder
             PROVE  store'[k][i] = store'[g][i]
  BY <1>1 DEF Apart
<1>4. i \in Item /\ z \in Person
  BY <1>2, AboutIs
<1>5. \E n \in Holder : i \in About(store[n], y)
  <2>1. CASE g \notin both
    BY <2>1, <1>1
  <2>2. CASE g \in both
    <3>1. \E n \in both : About(store'[g], y) = About(store[n], y)
      BY <2>2, SyncAbout
    <3> QED
      BY <3>1, <1>1
  <2> QED
    BY <2>1, <2>2
<1>6. PICK n \in Holder : i \in About(store[n], y)
  BY <1>5
<1>7. ASSUME NEW m \in Holder, NEW x \in contested, i \in About(store[m], x)
      PROVE  \A o \in Holder : store[o][i] = store[n][i]
  BY <1>2, <1>6, <1>7 DEF Apart
<1>8. \A o \in Holder : store[o][i] = store[n][i]
  <2>1. CASE h \notin both
    BY <2>1, <1>1, <1>7
  <2>2. CASE h \in both
    <3>1. i \in About(j, z)
      BY <2>2, <1>1
    <3>2. PICK m \in both : j[i] = store[m][i]
      BY <1>1, <1>4
    <3>3. m \in Holder /\ store[m] \in Store /\ Known(store[m]) /\ store[m][i] # None
      BY <3>1, <3>2, <1>1, <1>2, <1>4, HeldRows, AboutIs
    <3>4. CASE ~(i \in Milestone /\ j[i].bearer \in Edge)
      <4>1. i \in About(store[m], z)
        BY <3>1, <3>2, <3>4, <1>4, AboutIs
      <4> QED
        BY <4>1, <3>3, <1>7
    <3>5. CASE i \in Milestone /\ j[i].bearer \in Edge
      <4> DEFINE e == j[i].bearer
      <4>1. e \in About(j, z) /\ e \in Edge /\ e \in Item /\ z \in j[e].ends
        BY <3>1, <3>5, <1>1, <1>3, <1>4, AboutIs, AboutOf, Tables
      <4>2. PICK q \in both : j[e] = store[q][e]
        BY <4>1, <1>1
      <4>3. e \in About(store[q], z) /\ q \in Holder
        BY <4>1, <4>2, <1>1, <1>4, AboutIs
      <4>4. PICK w \in Person : i \in About(store[m], w) /\ e \in About(store[m], w)
        BY <3>2, <3>3, <3>5, AboutOf
      <4>5. CASE w \in contested
        BY <4>4, <4>5, <3>3, <1>7
      <4>6. CASE w \notin contested
        <5>1. store[m][e] = store[q][e]
          BY <4>3, <4>4, <4>6, <3>3, <1>2 DEF Apart
        <5>2. z \in store[m][e].ends
          BY <5>1, <4>1, <4>2
        <5>3. i \in About(store[m], z)
          BY <5>2, <4>1, <3>2, <3>3, <3>5, <1>4, AboutIs
        <5> QED
          BY <5>3, <3>3, <1>7
      <4> QED
        BY <4>5, <4>6
    <3> QED
      BY <3>4, <3>5
  <2> QED
    BY <2>1, <2>2
<1>9. \A o \in Holder : store'[o][i] = store[n][i]
  BY <1>1, <1>4, <1>8
<1> QED
  BY <1>9

\* Whatever is about a person being the same, so is what is whole of them.
LEMMA SoundSame ==
  ASSUME NEW s \in Store, Known(s), NEW t \in Store, Known(t), NEW p \in Person,
         About(t, p) = About(s, p), \A i \in About(s, p) : t[i] = s[i]
  PROVE  /\ p \in People(t) <=> p \in People(s)
         /\ EdgesOf(t, p) = EdgesOf(s, p) /\ FactsOn(t, p) = FactsOn(s, p)
         /\ p \in People(s) => t[p] = s[p]
         /\ \A e \in EdgesOf(s, p) : t[e] = s[e]
         /\ \A merged : Sound(s, p, merged) => Sound(t, p, merged)
<1>1. ASSUME NEW u \in Store, Known(u)
      PROVE  /\ p \in People(u) => p \in About(u, p)
             /\ \A e \in EdgesOf(u, p) : e \in About(u, p)
             /\ \A f \in FactsOn(u, p) : f \in About(u, p)
  BY LiveIs, AboutIs, Tables
<1>2. p \in People(t) <=> p \in People(s)
  BY <1>1, LiveIs
<1>3. EdgesOf(t, p) = EdgesOf(s, p)
  <2>1. \A e \in EdgesOf(t, p) : e \in EdgesOf(s, p)
    BY <1>1, LiveIs
  <2>2. \A e \in EdgesOf(s, p) : e \in EdgesOf(t, p)
    BY <1>1, LiveIs
  <2> QED
    BY <2>1, <2>2
<1>4. FactsOn(t, p) = FactsOn(s, p)
  <2>1. \A f \in FactsOn(t, p) : f \in FactsOn(s, p)
    BY <1>1, LiveIs
  <2>2. \A f \in FactsOn(s, p) : f \in FactsOn(t, p)
    BY <1>1, LiveIs
  <2> QED
    BY <2>1, <2>2
<1>5. ASSUME NEW merged, Sound(s, p, merged), NEW f \in Milestone, Live(t[f]), t[f].bearer \in Edge,
             p \in t[t[f].bearer].ends
      PROVE  Live(t[t[f].bearer]) \/ t[f].bearer \in merged
  <2>1. f \in About(t, p) /\ t[f].bearer \in About(t, p)
    BY <1>5, AboutOf DEF Live
  <2>2. t[f] = s[f] /\ t[t[f].bearer] = s[t[f].bearer]
    BY <2>1
  <2> QED
    BY <2>2, <1>5 DEF Sound
<1>6. \A merged : Sound(s, p, merged) => Sound(t, p, merged)
  BY <1>2, <1>3, <1>4, <1>5 DEF Sound
<1> QED
  BY <1>1, <1>2, <1>3, <1>4, <1>6

LEMMA SyncSounds ==
  ASSUME PeopleInvariant, NEW d \in Devices, Sync(d)
  PROVE  Sounds' /\ Anchors'
<1> DEFINE both == {d, Server}
<1>1. /\ both \subseteq Holder
      /\ \A h \in Holder \ both : store'[h] = store[h]
      /\ UNCHANGED <<pruned, contested, chained>>
      /\ \A h \in both : \A i \in Item : \A k \in both : Covers(store'[h][i], store[k][i])
  BY SyncIs DEF PeopleInvariant
<1>2. Rooted' /\ Standings' /\ Rooted /\ Sounds /\ Anchors
  BY SyncRows DEF PeopleInvariant
<1>3. \A h \in Holder : /\ store[h] \in Store /\ Known(store[h])
                        /\ store'[h] \in Store /\ Known(store'[h])
  BY <1>2, HeldRows DEF Rooted, PeopleTypeOK, Kept
<1>4. ASSUME NEW h \in Holder, NEW p \in Person \ contested
      PROVE  \E k \in Holder :
                /\ p \in People(store'[h]) <=> p \in People(store[k])
                /\ EdgesOf(store'[h], p) = EdgesOf(store[k], p)
                /\ FactsOn(store'[h], p) = FactsOn(store[k], p)
                /\ p \in People(store[k]) => store'[h][p] = store[k][p]
                /\ \A e \in EdgesOf(store[k], p) : store'[h][e] = store[k][e]
                /\ Sound(store'[h], p, pruned)
                /\ h \in both => k \in both
                /\ h \notin both => k = h
  <2>1. CASE h \notin both
    BY <2>1, <1>1, <1>2 DEF Sounds
  <2>2. CASE h \in both
    <3>1. PICK k \in both : /\ About(store'[h], p) = About(store[k], p)
                            /\ \A i \in About(store[k], p) : store'[h][i] = store[k][i]
      BY <2>2, SyncAbout
    <3>2. k \in Holder
      BY <1>1
    <3>3. /\ p \in People(store'[h]) <=> p \in People(store[k])
          /\ EdgesOf(store'[h], p) = EdgesOf(store[k], p) /\ FactsOn(store'[h], p) = FactsOn(store[k], p)
          /\ p \in People(store[k]) => store'[h][p] = store[k][p]
          /\ \A e \in EdgesOf(store[k], p) : store'[h][e] = store[k][e]
          /\ \A merged : Sound(store[k], p, merged) => Sound(store'[h], p, merged)
      BY <3>1, <3>2, <1>3, SoundSame
    <3> QED
      BY <2>2, <3>2, <3>3, <1>2 DEF Sounds
  <2> QED
    BY <2>1, <2>2
<1>5. Sounds'
  BY <1>1, <1>4 DEF Sounds
<1>6. ASSUME NEW h \in Holder, NEW p \in Person \ (contested \cup chained),
             p \in People(store'[h]), store'[h][p].standing = Named
      PROVE  /\ FactsOn(store'[h], p) = {}
             /\ \E e \in Edge :
                   /\ EdgesOf(store'[h], p) = {e}
                   /\ \A q \in store'[h][e].ends : q # p =>
                         q \in contested \/ (q \in People(store'[h]) /\ store'[h][q].standing = Mine)
  <2>1. PICK k \in Holder :
                /\ p \in People(store'[h]) <=> p \in People(store[k])
                /\ EdgesOf(store'[h], p) = EdgesOf(store[k], p)
                /\ FactsOn(store'[h], p) = FactsOn(store[k], p)
                /\ p \in People(store[k]) => store'[h][p] = store[k][p]
                /\ \A e \in EdgesOf(store[k], p) : store'[h][e] = store[k][e]
                /\ h \in both => k \in both
                /\ h \notin both => k = h
    BY <1>4
  <2>2. Anchored(store[k], p, contested) /\ p \in People(store[k]) /\ store[k][p].standing = Named
    BY <2>1, <1>2, <1>6 DEF Anchors
  <2>3. PICK e \in Edge : /\ EdgesOf(store[k], p) = {e}
                          /\ \A q \in store[k][e].ends : q # p =>
                                q \in contested \/ (q \in People(store[k]) /\ store[k][q].standing = Mine)
    BY <2>2 DEF Anchored
  <2>4. FactsOn(store'[h], p) = {}
    BY <2>1, <2>2 DEF Anchored
  <2>5. store'[h][e] = store[k][e] /\ e \in EdgesOf(store'[h], p)
    BY <2>1, <2>3
  <2>6. ASSUME NEW q \in store'[h][e].ends, q # p, q \notin contested
        PROVE  q \in People(store'[h]) /\ store'[h][q].standing = Mine
    <3>1. q \in People(store[k]) /\ store[k][q].standing = Mine /\ q \in Person \ contested
      BY <2>3, <2>5, <2>6, LiveIs
    <3>2. CASE h \notin both
      BY <3>1, <3>2, <2>1, <1>1
    <3>3. CASE h \in both
      <4>1. e \in EdgesOf(store'[h], q)
        BY <2>5, <2>6, LiveIs
      <4>2. q \in People(store'[h])
        BY <3>1, <4>1, <1>4 DEF Sound
      <4>3. Covers(store'[h][q], store[k][q])
        BY <3>1, <3>3, <2>1, <1>1, Tables
      <4>4. PICK n \in Holder : q \in People(store[n]) /\ store'[h][q] = store[n][q]
        BY <3>1, <4>2, <1>4
      <4>5. store[n][q].standing = Mine
        BY <3>1, <4>3, <4>4, LiveIs DEF PeopleInvariant, Standings
      <4> QED
        BY <4>2, <4>4, <4>5
    <3> QED
      BY <3>2, <3>3
  <2> QED
    BY <2>1, <2>3, <2>4, <2>6
<1>7. Anchors'
  <2>1. ASSUME NEW h \in Holder, NEW p \in Person \ (contested \cup chained)
        PROVE  Anchored(store'[h], p, contested)
    BY <1>6 DEF Anchored
  <2> QED
    BY <1>1, <2>1 DEF Anchors
<1> QED
  BY <1>5, <1>7

-----------------------------------------------------------------------------
(* People: the first store.                                                *)

\* What the user starts from is whole: a couple, and perhaps a name on the page
\* of one of them.
LEMMA FirstWhole ==
  ASSUME NEW ids, ids[1] \in Person, ids[2] \in Person, ids[3] \in Person,
         ids[1] # ids[2], ids[1] # ids[3], ids[2] # ids[3],
         NEW edges, edges[1] \in Edge, edges[2] \in Edge, edges[1] # edges[2], NEW met \in BOOLEAN,
         NEW s, s = First(ids, edges, met)
  PROVE  /\ s \in Store /\ Known(s)
         /\ \A i \in Item : s[i] # None => s[i].at = 1 /\ ~s[i].gone
         /\ \A f \in Milestone : s[f] = None
         /\ \A p \in Person : Sound(s, p, {}) /\ Anchored(s, p, {})
<1> DEFINE p1 == ids[1]
           p2 == ids[2]
           p3 == ids[3]
           e1 == edges[1]
           e2 == edges[2]
           now == 1
           ends1 == {p1, p2}
           ends2 == {p1, p3}
           blank == [i \in Item |-> None]
           one == WithPerson(blank, p1, Mine, now)
           couple == WithPerson(one, p2, Mine, now)
           third == WithPerson(couple, p3, Named, now)
           wed == WithEdge(third, e1, ends1, now)
           all == WithEdge(wed, e2, ends2, now)
<1>1. /\ p1 \in Person /\ p2 \in Person /\ p3 \in Person /\ e1 \in Edge /\ e2 \in Edge
      /\ p1 # p2 /\ p1 # p3 /\ p2 # p3 /\ e1 # e2
      /\ \A p \in Person : p \in Item /\ p # e1 /\ p # e2
      /\ \A e \in Edge : e \in Item /\ e # p1 /\ e # p2 /\ e # p3
      /\ \A f \in Milestone : f \in Item /\ f \notin {p1, p2, p3, e1, e2}
  BY Tables
<1>2. s = all \/ s = couple
  BY DEF First
<1>3. now \in Nat /\ Mine \in Standing /\ Named \in Standing /\ now = 1
  BY DEF Standing
<1>4. ends1 \in SUBSET Person /\ ends2 \in SUBSET Person
  BY <1>1
<1>5. blank \in Store /\ \A i \in Item : blank[i] = None
  BY DEF Store
<1> HIDE DEF p1, p2, p3, e1, e2, now, blank
<1>6. ends1 = {p1, p2} /\ ends2 = {p1, p3}
  OBVIOUS
<1> HIDE DEF ends1, ends2
<1>7. /\ one \in Store /\ one[p1] = [at |-> now, gone |-> FALSE, standing |-> Mine]
      /\ \A k \in Item : k # p1 => one[k] = blank[k]
  BY <1>1, <1>3, <1>5, PersonPut
<1> HIDE DEF one
<1>8. /\ couple \in Store /\ couple[p2] = [at |-> now, gone |-> FALSE, standing |-> Mine]
      /\ \A k \in Item : k # p2 => couple[k] = one[k]
  <2>1. couple = WithPerson(one, p2, Mine, now)
    OBVIOUS
  <2>2. one \in Store /\ p2 \in Person /\ now \in Nat /\ Mine \in Standing
    BY <1>1, <1>3, <1>7
  <2> HIDE DEF couple
  <2> QED
    BY <2>1, <2>2, PersonPut
<1> HIDE DEF couple
<1>9. /\ third \in Store /\ third[p3] = [at |-> now, gone |-> FALSE, standing |-> Named]
      /\ \A k \in Item : k # p3 => third[k] = couple[k]
  <2>1. third = WithPerson(couple, p3, Named, now)
    OBVIOUS
  <2>2. couple \in Store /\ p3 \in Person /\ now \in Nat /\ Named \in Standing
    BY <1>1, <1>3, <1>8
  <2> HIDE DEF third
  <2> QED
    BY <2>1, <2>2, PersonPut
<1> HIDE DEF third
<1>10. /\ wed \in Store /\ wed[e1] = [at |-> now, gone |-> FALSE, ends |-> ends1]
       /\ \A k \in Item : k # e1 => wed[k] = third[k]
  BY <1>1, <1>3, <1>4, <1>9, EdgePut
<1> HIDE DEF wed
<1>11. /\ all \in Store /\ all[e2] = [at |-> now, gone |-> FALSE, ends |-> ends2]
       /\ \A k \in Item : k # e2 => all[k] = wed[k]
  BY <1>1, <1>3, <1>4, <1>10, EdgePut
<1> HIDE DEF all
<1>12. /\ couple[p1] # None /\ couple[p1].at = now /\ ~couple[p1].gone /\ couple[p1].standing = Mine
       /\ couple[p2] # None /\ couple[p2].at = now /\ ~couple[p2].gone /\ couple[p2].standing = Mine
       /\ \A i \in Item : i # p1 /\ i # p2 => couple[i] = None
  <2>1. couple[p1] = [at |-> now, gone |-> FALSE, standing |-> Mine]
    BY <1>1, <1>7, <1>8
  <2> QED
    BY <2>1, <1>3, <1>5, <1>7, <1>8, PutIs
<1>13. /\ third[p3] # None /\ third[p3].at = now /\ ~third[p3].gone
       /\ wed[e1] # None /\ wed[e1].at = now /\ ~wed[e1].gone /\ wed[e1].ends = ends1
       /\ all[e2] # None /\ all[e2].at = now /\ ~all[e2].gone /\ all[e2].ends = ends2
  BY <1>3, <1>4, <1>9, <1>10, <1>11, PutIs
<1>14. /\ s \in Store
       /\ s[p1] # None /\ s[p1].at = 1 /\ ~s[p1].gone /\ s[p1].standing = Mine
       /\ s[p2] # None /\ s[p2].at = 1 /\ ~s[p2].gone /\ s[p2].standing = Mine
       /\ \/ s[p3] = None /\ s[e1] = None /\ s[e2] = None
          \/ /\ s[p3] # None /\ s[p3].at = 1 /\ ~s[p3].gone
             /\ s[e1] # None /\ s[e1].at = 1 /\ ~s[e1].gone /\ s[e1].ends = {p1, p2}
             /\ s[e2] # None /\ s[e2].at = 1 /\ ~s[e2].gone /\ s[e2].ends = {p1, p3}
       /\ \A i \in Item : i \notin {p1, p2, p3, e1, e2} => s[i] = None
  <2>1. CASE s = couple
    BY <2>1, <1>1, <1>3, <1>8, <1>12
  <2>2. CASE s = all
    <3>1. /\ \A i \in Item : i # p3 /\ i # e1 /\ i # e2 => s[i] = couple[i]
          /\ s[p3] = third[p3] /\ s[e1] = wed[e1] /\ s[e2] = all[e2]
      BY <2>2, <1>1, <1>9, <1>10, <1>11
    <3> QED
      BY <2>2, <3>1, <1>1, <1>3, <1>6, <1>11, <1>12, <1>13
  <2> QED
    BY <1>2, <2>1, <2>2
<1>15. p1 \in People(s) /\ p2 \in People(s) /\ (s[p3] # None => p3 \in People(s))
  BY <1>1, <1>14, LiveIs
<1>16. \A e \in Edge : s[e] # None =>
         /\ s[e].at = 1 /\ ~s[e].gone /\ s[p3] # None
         /\ (e = e1 /\ s[e].ends = {p1, p2}) \/ (e = e2 /\ s[e].ends = {p1, p3})
  <2> TAKE e \in Edge
  <2>1. e # e1 /\ e # e2 => s[e] = None
    BY <1>1, <1>14
  <2>2. CASE e = e1
    <3>1. s[e1] # None => s[p3] # None /\ s[e1].at = 1 /\ ~s[e1].gone /\ s[e1].ends = {p1, p2}
      BY <1>14
    <3> QED
      BY <2>2, <3>1
  <2>3. CASE e = e2
    BY <2>3, <1>14
  <2> QED
    BY <2>1, <2>2, <2>3
<1>17. \A f \in Milestone : s[f] = None
  BY <1>1, <1>14
<1>18. \A i \in Item : s[i] # None => s[i].at = 1 /\ ~s[i].gone
  BY <1>14, <1>15
<1>19. Known(s)
  <2>1. ASSUME NEW e \in Edge, s[e] # None
        PROVE  /\ s[e].ends # {} /\ \A p \in s[e].ends : s[p] # None
               /\ ~s[e].gone => \E p, q \in Person : p # q /\ s[e].ends = {p, q}
    <3>1. CASE s[e].ends = {p1, p2}
      BY <3>1, <1>1, <1>14, <1>15
    <3>2. CASE s[e].ends = {p1, p3} /\ s[p3] # None
      BY <3>2, <1>1, <1>14, <1>15
    <3> QED
      BY <3>1, <3>2, <2>1, <1>16
  <2> QED
    BY <2>1, <1>17, Tables DEF Known
<1>20. ASSUME NEW p \in Person PROVE Sound(s, p, {})
  <2>1. \A e \in EdgesOf(s, p) : p \in People(s)
    BY <1>14, <1>15, <1>16, LiveIs
  <2>2. FactsOn(s, p) = {}
    BY <1>17, LiveIs
  <2>3. \A f \in Milestone : ~Live(s[f])
    BY <1>17 DEF Live
  <2> QED
    BY <2>1, <2>2, <2>3 DEF Sound
<1>21. ASSUME NEW p \in Person PROVE Anchored(s, p, {})
  <2> SUFFICES ASSUME p \in People(s), s[p].standing = Named
               PROVE  /\ FactsOn(s, p) = {}
                      /\ \E e \in Edge :
                            /\ EdgesOf(s, p) = {e}
                            /\ \A q \in s[e].ends : q # p =>
                                  q \in {} \/ (q \in People(s) /\ s[q].standing = Mine)
    BY DEF Anchored
  <2>1. FactsOn(s, p) = {}
    BY <1>17, LiveIs
  <2>2. p = p3 /\ s[p3] # None
    <3>1. p # p1 /\ p # p2
      BY <1>14, <1>15, RowsAssumption DEF RowsAssumption
    <3>2. s[p] # None
      BY LiveIs
    <3> QED
      BY <3>1, <3>2, <1>1, <1>14
  <2>3. s[e2] # None /\ ~s[e2].gone /\ s[e2].ends = {p1, p3}
    BY <2>2, <1>14
  <2>4. EdgesOf(s, p) = {e2}
    <3>1. \A e \in EdgesOf(s, p) : e = e2
      <4> TAKE e \in EdgesOf(s, p)
      <4>1. e \in Edge /\ s[e] # None /\ p \in s[e].ends
        BY LiveIs
      <4> QED
        BY <4>1, <2>2, <1>1, <1>16
    <3>2. e2 \in EdgesOf(s, p)
      BY <2>2, <2>3, <1>1, LiveIs
    <3> QED
      BY <3>1, <3>2
  <2>5. \A q \in s[e2].ends : q # p => q \in People(s) /\ s[q].standing = Mine
    BY <2>2, <2>3, <1>14, <1>15
  <2> QED
    BY <2>1, <2>4, <2>5, <1>1
<1> QED
  BY <1>14, <1>17, <1>18, <1>19, <1>20, <1>21

LEMMA FirstStore ==
  ASSUME PeopleInit
  PROVE  /\ \E s \in Store :
               /\ Known(s) /\ store = [h \in Holder |-> s]
               /\ \A i \in Item : s[i] # None => s[i].at = 1 /\ ~s[i].gone
               /\ \A f \in Milestone : s[f] = None
               /\ \A p \in Person : Sound(s, p, {}) /\ Anchored(s, p, {})
         /\ clock = 1 /\ ops = 0 /\ seen = [h \in Holder |-> [p \in Person |-> 0]]
         /\ survivors = {} /\ heir = [p \in Person |-> p]
         /\ contested = {} /\ revived = {} /\ pruned = {} /\ chained = {}
<1> DEFINE ids == CHOOSE t \in Person \X Person \X Person : t[1] # t[2] /\ t[1] # t[3] /\ t[2] # t[3]
           edges == CHOOSE t \in Edge \X Edge : t[1] # t[2]
<1>1. PICK met \in BOOLEAN : store = [h \in Holder |-> First(ids, edges, met)]
  BY DEF PeopleInit
<1>2. ids \in Person \X Person \X Person /\ ids[1] # ids[2] /\ ids[1] # ids[3] /\ ids[2] # ids[3]
  BY RowsAssumption DEF RowsAssumption
<1>3. edges \in Edge \X Edge /\ edges[1] # edges[2]
  BY RowsAssumption DEF RowsAssumption
<1> DEFINE s == First(ids, edges, met)
<1> HIDE DEF ids, edges
<1>4. /\ s \in Store /\ Known(s)
      /\ \A i \in Item : s[i] # None => s[i].at = 1 /\ ~s[i].gone
      /\ \A f \in Milestone : s[f] = None
      /\ \A p \in Person : Sound(s, p, {}) /\ Anchored(s, p, {})
  BY <1>2, <1>3, FirstWhole
<1>5. store = [h \in Holder |-> s]
  BY <1>1
<1> HIDE DEF s
<1> QED
  BY <1>4, <1>5 DEF PeopleInit

LEMMA FirstInvariant ==
  PeopleInit => PeopleInvariant
<1> SUFFICES ASSUME PeopleInit PROVE PeopleInvariant
  OBVIOUS
<1>1. PICK s \in Store :
         /\ Known(s) /\ store = [h \in Holder |-> s]
         /\ \A i \in Item : s[i] # None => s[i].at = 1 /\ ~s[i].gone
         /\ \A f \in Milestone : s[f] = None
         /\ \A p \in Person : Sound(s, p, {}) /\ Anchored(s, p, {})
  BY FirstStore
<1>2. store = [h \in Holder |-> s]
  BY <1>1
<1>3. /\ clock = 1 /\ ops = 0 /\ seen = [h \in Holder |-> [p \in Person |-> 0]]
      /\ survivors = {} /\ heir = [p \in Person |-> p]
      /\ contested = {} /\ revived = {} /\ pruned = {} /\ chained = {}
  BY DEF PeopleInit
<1>4. \A h \in Holder : store[h] = s
  BY <1>2
<1>5. PeopleTypeOK
  BY <1>1, <1>2, <1>3, RowsAssumption DEF PeopleTypeOK, RowsAssumption
<1>6. Kept /\ Stamped /\ SeenBound
  BY <1>1, <1>3, <1>4 DEF Kept, Stamped, SeenBound
<1>7. Ahead
  <2>1. \A i \in Item : Covers(s[i], s[i])
    BY <1>1 DEF Covers
  <2> QED
    BY <2>1, <1>4, AboutIs DEF Ahead
<1>8. Apart /\ Standings /\ Copies
  <2>1. \A c \in Copy : s[c] = None
    BY <1>1, Tables
  <2> QED
    BY <2>1, <1>3, <1>4 DEF Apart, Standings, Copies
<1>9. Sounds /\ Anchors
  BY <1>1, <1>3, <1>4 DEF Sounds, Anchors
<1>10. Once /\ Removal
  <2>1. (\A c \in Copy : s[c] = None) /\ (\A f \in Fact : s[f] = None)
    BY <1>1, Tables
  <2> QED
    BY <2>1, <1>4 DEF Once, Removal
<1> QED
  BY <1>5, <1>6, <1>7, <1>8, <1>9, <1>10 DEF PeopleInvariant, Rooted

LEMMA PeopleStuttering ==
  PeopleInvariant /\ UNCHANGED peopleVars => PeopleInvariant'
<1> SUFFICES ASSUME PeopleInvariant, UNCHANGED peopleVars PROVE PeopleInvariant'
  OBVIOUS
<1>1. UNCHANGED <<store, clock, ops, seen, survivors, heir, contested, revived, pruned, chained>>
  BY DEF peopleVars, history, merges
<1>2. Rooted' /\ SeenBound'
  BY <1>1 DEF PeopleInvariant, Rooted, PeopleTypeOK, Kept, Stamped, SeenBound
<1>3. Ahead' /\ Apart' /\ Standings' /\ Copies'
  BY <1>1 DEF PeopleInvariant, Ahead, Apart, Standings, Copies
<1>4. Sounds' /\ Anchors' /\ Once' /\ Removal'
  BY <1>1 DEF PeopleInvariant, Sounds, Anchors, Once, Removal
<1> QED
  BY <1>2, <1>3, <1>4 DEF PeopleInvariant

-----------------------------------------------------------------------------
(* People: timelines and the rows about a person.                          *)

\* A timeline is told by the rows about a person.
LEMMA TimelineSame ==
  ASSUME NEW s \in Store, Known(s), NEW t \in Store, Known(t), NEW p \in Person,
         About(t, p) = About(s, p), \A i \in About(s, p) : t[i] = s[i]
  PROVE  Timeline(t, p) = Timeline(s, p)
<1>1. ASSUME NEW u \in Store, Known(u), NEW f \in ShownOn(u, p)
      PROVE  f \in About(u, p) /\ (u[f].bearer \in Edge => u[f].bearer \in About(u, p))
  <2>1. /\ f \in Milestone /\ u[f] # None
        /\ \/ u[f].bearer = p
           \/ u[f].bearer \in Edge /\ p \in u[u[f].bearer].ends
    BY ShownIs DEF Live
  <2>2. CASE u[f].bearer = p
    BY <2>1, <2>2, AboutIs, Tables
  <2>3. CASE u[f].bearer \in Edge /\ p \in u[u[f].bearer].ends
    BY <1>1, <2>1, <2>3, AboutOf
  <2> QED
    BY <2>1, <2>2, <2>3
<1>2. \A f \in ShownOn(s, p) : f \in ShownOn(t, p)
  BY <1>1, ShownIs
<1>3. \A f \in ShownOn(t, p) : f \in ShownOn(s, p)
  <2> TAKE f \in ShownOn(t, p)
  <2>1. t[f] = s[f] /\ (t[f].bearer \in Edge => t[t[f].bearer] = s[t[f].bearer])
    BY <1>1
  <2> QED
    BY <2>1, ShownIs
<1>4. ShownOn(t, p) = ShownOn(s, p)
  BY <1>2, <1>3
<1> QED
  BY <1>4 DEF Timeline

\* What is left on a removed relationship stays there.
LEMMA StrandedStays ==
  ASSUME NEW s \in Store, NEW t, Steady(s, t), NEW f, NEW p, NEW q, NEW merged,
         Stranded(s, f, p, q, merged), NEW x, NEW y, {p, q} \subseteq {x, y},
         NEW cut, merged \subseteq cut
  PROVE  Stranded(t, f, x, y, cut)
<1>1. /\ f \in Fact /\ f \in Milestone /\ Live(s[f]) /\ s[f].bearer \in Edge /\ s[f].bearer \in merged
      /\ Gone(s, s[f].bearer) /\ (p \in s[s[f].bearer].ends \/ q \in s[s[f].bearer].ends)
  BY Tables DEF Stranded
<1>2. t[s[f].bearer] = s[s[f].bearer]
  BY <1>1, Tables DEF Steady
<1>3. t[f] = s[f]
  BY <1>1 DEF Steady, Live, Gone
<1> QED
  BY <1>1, <1>2, <1>3 DEF Stranded, Gone

LEMMA CarriedOn ==
  ASSUME NEW r, NEW s \in Store, NEW t, Steady(s, t), NEW p, NEW q, NEW x,
         NEW merged, NEW cut, merged \subseteq cut,
         Carried(r, p, s, q, merged), Carried(s, q, t, x, cut), q = p \/ q = x
  PROVE  Carried(r, p, t, x, cut)
<1> SUFFICES ASSUME NEW f \in Timeline(r, p)
             PROVE  f \in Timeline(t, x) \/ Stranded(t, f, p, x, cut)
  BY DEF Carried
<1>1. CASE f \in Timeline(s, q)
  <2>1. f \in Timeline(t, x) \/ Stranded(t, f, q, x, cut)
    BY <1>1 DEF Carried
  <2> QED
    BY <2>1 DEF Stranded
<1>2. CASE Stranded(s, f, p, q, merged)
  <2>1. {p, q} \subseteq {p, x}
    OBVIOUS
  <2> QED
    BY <1>2, <2>1, StrandedStays
<1> QED
  BY <1>1, <1>2 DEF Carried

\* What an operation may do to somebody removed: nothing.
LEMMA GoneStay ==
  ASSUME NEW s \in Store, Known(s), NEW t \in Store, Known(t), Steady(s, t), NEW p \in Person, Gone(s, p),
         NEW merged, Sound(s, p, merged), NEW cut, Sound(t, p, cut)
  PROVE  p \notin Changed(s, t)
<1>1. t[p] = s[p] /\ p \notin People(s) /\ p \notin People(t)
  BY Tables, LiveIs DEF Steady, Gone
<1>2. /\ \A e \in Edge : Live(s[e]) => p \notin s[e].ends
      /\ \A f \in Milestone : Live(s[f]) => s[f].bearer # p
      /\ \A e \in Edge : Live(t[e]) => p \notin t[e].ends
      /\ \A f \in Milestone : Live(t[f]) => t[f].bearer # p
  BY <1>1 DEF Sound, EdgesOf, FactsOn
<1>3. /\ \A i \in Item : s[i] # None /\ ~Live(s[i]) => t[i] = s[i]
      /\ \A i \in Item : t[i] # None /\ ~Live(t[i]) => s[i] # None
  BY DEF Steady, Gone, Live
<1>4. ASSUME NEW e \in Edge, t[e] # None, p \in t[e].ends
      PROVE  s[e] # None /\ ~Live(s[e]) /\ t[e] = s[e]
  <2>1. ~Live(t[e])
    BY <1>2, <1>4
  <2>2. s[e] # None
    BY <2>1, <1>3, <1>4, Tables
  <2>3. p \in s[e].ends
    BY <2>2, <1>1, <1>4 DEF Steady
  <2>4. ~Live(s[e])
    BY <2>3, <1>2
  <2> QED
    BY <2>2, <2>4, <1>3, Tables
<1>5. ASSUME NEW i \in About(s, p) PROVE t[i] = s[i]
  <2>1. i \in Item /\ s[i] # None
    BY <1>5, AboutIs
  <2>2. CASE i = p
    BY <2>2, <1>1
  <2>3. CASE i \in Edge /\ p \in s[i].ends
    BY <2>1, <2>3, <1>2, <1>3
  <2>4. CASE i \in Milestone /\ s[i].bearer = p
    BY <2>1, <2>4, <1>2, <1>3
  <2>5. CASE i \in Milestone /\ s[i].bearer \in Edge /\ p \in s[s[i].bearer].ends
    <3>1. ~Live(s[s[i].bearer])
      BY <2>5, <1>2
    <3> QED
      BY <3>1, <2>1, <2>5, <1>3 DEF Steady
  <2> QED
    BY <1>5, <2>2, <2>3, <2>4, <2>5, AboutIs
<1>6. ASSUME NEW i \in About(t, p) PROVE t[i] = s[i]
  <2>1. i \in Item /\ t[i] # None
    BY <1>6, AboutIs
  <2>2. CASE i = p
    BY <2>2, <1>1
  <2>3. CASE i \in Edge /\ p \in t[i].ends
    BY <2>1, <2>3, <1>4
  <2>4. CASE i \in Milestone /\ t[i].bearer = p
    <3>1. ~Live(t[i]) /\ s[i] # None
      BY <2>1, <2>4, <1>2, <1>3
    <3>2. Live(s[i]) => t[i].gone /\ s[i].bearer = p
      BY <2>1, <2>4, <3>1 DEF Steady, Live
    <3> QED
      BY <3>1, <3>2, <2>1, <2>4, <1>2, <1>3
  <2>5. CASE i \in Milestone /\ t[i].bearer \in Edge /\ p \in t[t[i].bearer].ends
    <3> DEFINE e == t[i].bearer
    <3>1. e \in Edge /\ t[e] # None /\ p \in t[e].ends
      BY <2>1, <2>5 DEF Known
    <3>2. ~Live(s[e]) /\ ~Live(t[e])
      BY <3>1, <1>4
    <3>3. s[i] # None
      BY <2>1, <2>5, <3>2 DEF Steady
    <3>4. Live(s[i]) => s[i].bearer = e
      BY <2>5 DEF Steady
    <3>5. Live(s[i]) => t[i] = s[i]
      BY <3>1, <3>2, <3>4, <2>5 DEF Steady
    <3> QED
      BY <3>3, <3>5, <2>1, <1>3
  <2> QED
    BY <1>6, <2>2, <2>3, <2>4, <2>5, AboutIs
<1> QED
  BY <1>5, <1>6 DEF Changed

\* The same timeline, seen from the same rows.
LEMMA CarriedSame ==
  ASSUME NEW r, NEW p \in Person, NEW q \in Person, NEW merged,
         NEW s \in Store, Known(s), NEW t \in Store, Known(t), Carried(r, p, s, q, merged),
         \A x \in {p, q} : About(t, x) = About(s, x) /\ \A i \in About(s, x) : t[i] = s[i]
  PROVE  Carried(r, p, t, q, merged)
<1>1. Timeline(t, q) = Timeline(s, q)
  BY TimelineSame
<1> SUFFICES ASSUME NEW f, Stranded(s, f, p, q, merged)
             PROVE  Stranded(t, f, p, q, merged)
  BY <1>1 DEF Carried
<1>2. /\ f \in Fact /\ Live(s[f]) /\ s[f].bearer \in Edge /\ s[f].bearer \in merged
      /\ Gone(s, s[f].bearer) /\ (p \in s[s[f].bearer].ends \/ q \in s[s[f].bearer].ends)
  BY DEF Stranded
<1>3. f \in Milestone /\ s[f] # None
  BY <1>2, Tables DEF Live
<1>4. PICK x \in {p, q} : x \in s[s[f].bearer].ends
  BY <1>2
<1>5. f \in About(s, x) /\ s[f].bearer \in About(s, x)
  BY <1>2, <1>3, <1>4, AboutOf
<1>6. t[f] = s[f] /\ t[s[f].bearer] = s[s[f].bearer]
  BY <1>5
<1> QED
  BY <1>2, <1>6 DEF Stranded, Gone

LEMMA CarriedSelf ==
  ASSUME NEW s, NEW p, NEW merged
  PROVE  Carried(s, p, s, p, merged)
BY DEF Carried

LEMMA CarriedMore ==
  ASSUME NEW s, NEW p, NEW t, NEW q, NEW merged, Carried(s, p, t, q, merged), NEW cut, merged \subseteq cut
  PROVE  Carried(s, p, t, q, cut)
BY DEF Carried, Stranded

-----------------------------------------------------------------------------
(* People: timelines across devices.                                       *)

\* No later version of an undisputed person takes their removal back, ...
Departed ==
    \A g, h \in Holder : \A p \in Person \ contested :
        Gone(store[h], p) /\ Covers(store[g][p], store[h][p]) => Gone(store[g], p)

\* ... and nobody learns of one without the rest: those who have it agree.
Settled ==
    \A g, h \in Holder : \A p \in Person \ contested :
        Gone(store[g], p) /\ Gone(store[h], p) => seen[g][p] = seen[h][p]

\* Who was merged is removed somewhere, and their heir was there.
Heirs ==
    \A p \in Person \ contested : heir[p] # p =>
        \E h \in Holder : Gone(store[h], p) /\ store[h][heir[p]] # None

\* Who has seen as much of the heir has seen the merge.
Inherited ==
    \A g, h \in Holder : \A p \in Person \ contested :
        heir[p] # p /\ heir[p] \notin contested /\ Gone(store[h], p)
        /\ seen[g][heir[p]] >= seen[h][heir[p]] => Gone(store[g], p)

\* A copy is where its bearer is, and theirs as long as they stay.
CopiesStay ==
    \A h \in Holder :
        /\ \A c \in Copy : store[h][c] # None => store[h][c[2]] # None
        /\ \A p \in People(store[h]) \ contested : Keeps(store[h], p)

\* What is on the timeline of an undisputed person is on it wherever as much of
\* them has been seen, and on their heir's wherever they are removed.
Onward ==
    \A g, h \in Holder : \A p \in People(store[g]) \ contested :
        /\ p \in People(store[h]) /\ seen[h][p] >= seen[g][p] =>
              Carried(store[g], p, store[h], p, pruned)
        /\ Gone(store[h], p) /\ heir[p] \in People(store[h]) \ contested =>
              Carried(store[g], p, store[h], heir[p], pruned)

TimelineInvariant ==
    /\ PeopleInvariant
    /\ Departed /\ Settled /\ Heirs /\ Inherited /\ CopiesStay /\ Onward

LEMMA LiveOrGone ==
  ASSUME NEW s, NEW p \in Person
  PROVE  /\ p \in People(s) <=> s[p] # None /\ ~Gone(s, p)
         /\ p \in About(s, p) <=> s[p] # None
BY LiveIs, AboutIs, Tables DEF Gone

-----------------------------------------------------------------------------
(* People: an operation preserves it.                                      *)

\* Of whom an operation leaves undisputed though it disputes others, everybody
\* has the same.
LEMMA OperateAgreed ==
  ASSUME PeopleInvariant, NEW d \in Devices, NEW t, Transaction(d, t),
         contested' = contested \cup Changed(store[d], t) \cup InTransit,
         NEW p \in Person \ contested', NEW g \in Holder, NEW h \in Holder
  PROVE  /\ p \notin contested /\ p \notin Changed(store[d], t)
         /\ About(store'[g], p) = About(store[h], p) /\ \A i \in About(store[h], p) : store'[g][i] = store[h][i]
         /\ seen'[g][p] = seen[h][p] /\ heir'[p] = heir[p]
<1> DEFINE s == store[d]
<1>0. Rooted /\ Ahead
  BY DEF PeopleInvariant
<1>1. /\ d \in Holder /\ t \in Store /\ Known(t)
      /\ store'[d] = t /\ \A k \in Holder : k # d => store'[k] = store[k]
      /\ \A x \in Person : x \notin Changed(s, t) => seen'[d][x] = seen[d][x]
      /\ \A k \in Holder : k # d => seen'[k] = seen[k]
  BY <1>0, TransactionIs
<1>2. p \notin contested /\ p \notin Changed(s, t) /\ p \notin InTransit
  OBVIOUS
<1>3. \A j, k \in Holder : seen[j][p] = seen[k][p]
  BY <1>2 DEF InTransit
<1>4. \A j, k \in Holder : About(store[j], p) = About(store[k], p) /\ \A i \in About(store[k], p) : store[j][i] = store[k][i]
  BY <1>0, <1>2, <1>3, Agreed
<1>5. About(store'[g], p) = About(store[g], p) /\ \A i \in About(store[g], p) : store'[g][i] = store[g][i]
  <2>1. CASE g = d
    <3>1. s \in Store /\ Known(s)
      BY <1>0, RootedIs
    <3> HIDE DEF s
    <3>2. About(t, p) = About(s, p) /\ \A i \in About(s, p) : t[i] = s[i]
      BY <3>1, <1>1, <1>2, Unchanged
    <3> QED
      BY <3>2, <2>1, <1>1 DEF s
  <2>2. CASE g # d
    BY <2>2, <1>1
  <2> QED
    BY <2>1, <2>2
<1>6. seen'[g][p] = seen[g][p]
  BY <1>1, <1>2
<1>7. heir'[p] = heir[p]
  BY <1>2 DEF Transaction, Conveys
<1> QED
  BY <1>2, <1>3, <1>4, <1>5, <1>6, <1>7

\* An operation that disputes nobody changes nobody removed elsewhere.
LEMMA OperateGone ==
  ASSUME PeopleInvariant, Departed, NEW d \in Devices, NEW t, Transaction(d, t), ~Outrun(d, t),
         NEW p \in Person \ contested, NEW h \in Holder, Gone(store[h], p)
  PROVE  p \notin Changed(store[d], t)
<1> SUFFICES ASSUME p \in Changed(store[d], t)
             PROVE  FALSE
  OBVIOUS
<1> DEFINE s == store[d]
<1>0. Rooted /\ Ahead /\ Sounds
  BY DEF PeopleInvariant
<1>1. d \in Holder /\ t \in Store /\ Known(t) /\ s \in Store /\ Known(s)
  BY <1>0, TransactionIs, RootedIs
<1>2. seen[d][p] >= seen[h][p]
  BY <1>0, NotOutrun
<1>3. Covers(store[d][p], store[h][p])
  <2>1. p \in About(store[h], p)
    BY LiveOrGone DEF Gone
  <2> QED
    BY <2>1, <1>0, <1>1, <1>2 DEF Ahead
<1>4. Gone(s, p)
  BY <1>1, <1>3 DEF Departed
<1>5. Sound(s, p, pruned)
  BY <1>0, <1>1 DEF Sounds
<1>6. Sound(t, p, pruned') /\ Steady(s, t)
  BY <1>5 DEF Transaction, Conveys
<1> HIDE DEF s
<1>7. p \notin Changed(s, t)
  BY <1>1, <1>4, <1>5, <1>6, GoneStay
<1> QED
  BY <1>7 DEF s

\* The rows about whom an operation does not change.
LEMMA OperateSame ==
  ASSUME Rooted, NEW d \in Devices, NEW t, Transaction(d, t), NEW p \in Person, p \notin Changed(store[d], t)
  PROVE  /\ About(t, p) = About(store[d], p) /\ \A i \in About(store[d], p) : t[i] = store[d][i]
         /\ t[p] = store[d][p] /\ Timeline(t, p) = Timeline(store[d], p)
         /\ seen'[d][p] = seen[d][p] /\ heir'[p] = heir[p]
<1> DEFINE s == store[d]
<1>1. t \in Store /\ Known(t) /\ s \in Store /\ Known(s) /\ seen'[d][p] = seen[d][p]
  BY TransactionIs, RootedIs
<1>2. heir'[p] = heir[p]
  BY DEF Transaction, Conveys
<1>3. p \notin Changed(s, t)
  OBVIOUS
<1> HIDE DEF s
<1>4. About(t, p) = About(s, p) /\ \A i \in About(s, p) : t[i] = s[i]
  BY <1>1, <1>3, Unchanged
<1>5. Timeline(t, p) = Timeline(s, p)
  BY <1>1, <1>4, TimelineSame
<1>6. t[p] = s[p]
  BY <1>4, LiveOrGone
<1> QED
  BY <1>1, <1>2, <1>4, <1>5, <1>6 DEF s

\* What each operation keeps of the invariant.
LEMMA OperateDeparted ==
  ASSUME PeopleInvariant, Departed, NEW d \in Devices, NEW t, Transaction(d, t)
  PROVE  Departed'
<1>0. Rooted
  BY DEF PeopleInvariant
<1> SUFFICES ASSUME NEW g \in Holder, NEW h \in Holder, NEW p \in Person \ contested',
                    Gone(store'[h], p), Covers(store'[g][p], store'[h][p])
             PROVE  Gone(store'[g], p)
  BY DEF Departed
<1>1. /\ d \in Holder /\ store'[d] = t /\ \A k \in Holder : k # d => store'[k] = store[k]
      /\ \A i \in Item : t[i] # store[d][i] => t[i] # None /\ t[i].at \in {clock + 1, clock + 2}
      /\ clock \in Nat /\ p \in Item
  BY <1>0, TransactionIs, Tables
<1>2. CASE contested' = contested \cup Changed(store[d], t) \cup InTransit
  <2>1. /\ About(store'[g], p) = About(store[h], p) /\ \A i \in About(store[h], p) : store'[g][i] = store[h][i]
        /\ About(store'[h], p) = About(store[h], p) /\ \A i \in About(store[h], p) : store'[h][i] = store[h][i]
    BY <1>2, OperateAgreed
  <2>2. p \in About(store'[h], p)
    BY LiveOrGone DEF Gone
  <2> QED
    BY <2>1, <2>2 DEF Gone
<1>3. CASE contested' = contested /\ ~Outrun(d, t)
  <2>1. CASE g # d /\ h # d
    BY <2>1, <1>1, <1>3 DEF Departed
  <2>2. CASE g = d /\ h # d
    <3>1. Gone(store[h], p) /\ p \notin contested
      BY <2>2, <1>1, <1>3
    <3>2. p \notin Changed(store[d], t)
      BY <3>1, <1>3, OperateGone
    <3>3. t[p] = store[d][p]
      BY <3>2, <1>0, OperateSame
    <3> QED
      BY <3>1, <3>3, <2>2, <1>1 DEF Departed, Gone
  <2>3. CASE g # d /\ h = d /\ t[p] = store[d][p]
    BY <2>3, <1>1, <1>3 DEF Departed, Gone
  <2>4. CASE g # d /\ h = d /\ t[p] # store[d][p]
    <3>1. t[p] # None /\ t[p].at \in {clock + 1, clock + 2} /\ store'[g] = store[g]
      BY <2>4, <1>1
    <3>2. store[g][p] = None \/ (store[g][p].at \in Nat /\ store[g][p].at <= clock)
      BY <1>0, <1>1, HeldRows
    <3> QED
      BY <3>1, <3>2, <2>4, <1>1 DEF Covers
  <2>5. CASE g = d /\ h = d
    BY <2>5
  <2> QED
    BY <2>1, <2>2, <2>3, <2>4, <2>5
<1> QED
  BY <1>0, <1>2, <1>3, TransactionIs

LEMMA OperateSettled ==
  ASSUME PeopleInvariant, Departed, Settled, NEW d \in Devices, NEW t, Transaction(d, t)
  PROVE  Settled'
<1>0. Rooted
  BY DEF PeopleInvariant
<1> SUFFICES ASSUME NEW g \in Holder, NEW h \in Holder, NEW p \in Person \ contested',
                    Gone(store'[g], p), Gone(store'[h], p)
             PROVE  seen'[g][p] = seen'[h][p]
  BY DEF Settled
<1>1. /\ d \in Holder /\ store'[d] = t /\ \A k \in Holder : k # d => store'[k] = store[k] /\ seen'[k] = seen[k]
  BY <1>0, TransactionIs
<1>2. CASE contested' = contested \cup Changed(store[d], t) \cup InTransit
  BY <1>2, OperateAgreed
<1>3. CASE contested' = contested /\ ~Outrun(d, t)
  <2>1. ASSUME NEW k \in Holder, k # d, Gone(store'[k], p), Gone(t, p)
        PROVE  seen'[d][p] = seen'[k][p]
    <3>1. Gone(store[k], p) /\ p \notin contested
      BY <2>1, <1>1, <1>3
    <3>2. p \notin Changed(store[d], t)
      BY <3>1, <1>3, OperateGone
    <3>3. t[p] = store[d][p] /\ seen'[d][p] = seen[d][p]
      BY <3>2, <1>0, OperateSame
    <3>4. Gone(store[d], p)
      BY <3>3, <2>1 DEF Gone
    <3> QED
      BY <3>1, <3>3, <3>4, <2>1, <1>1 DEF Settled
  <2>2. CASE g # d /\ h # d
    BY <2>2, <1>1, <1>3 DEF Settled
  <2>3. CASE g = d /\ h # d
    BY <2>1, <2>3, <1>1
  <2>4. CASE g # d /\ h = d
    BY <2>1, <2>4, <1>1
  <2> QED
    BY <2>2, <2>3, <2>4
<1> QED
  BY <1>0, <1>2, <1>3, TransactionIs

LEMMA OperateHeirs ==
  ASSUME PeopleInvariant, Heirs, NEW d \in Devices, NEW t, Transaction(d, t)
  PROVE  Heirs'
<1>0. Rooted
  BY DEF PeopleInvariant
<1> SUFFICES ASSUME NEW p \in Person \ contested', heir'[p] # p
             PROVE  \E h \in Holder : Gone(store'[h], p) /\ store'[h][heir'[p]] # None
  BY DEF Heirs
<1>1. /\ d \in Holder /\ store'[d] = t /\ \A k \in Holder : k # d => store'[k] = store[k]
      /\ \A i \in Item : t[i] # store[d][i] => t[i] # None
      /\ contested \subseteq contested' /\ heir \in [Person -> Person]
  BY <1>0, TransactionIs, RootedIs
<1>2. Conveys(store[d], t)
  BY DEF Transaction
<1>3. CASE heir'[p] = heir[p]
  <2>1. PICK h \in Holder : Gone(store[h], p) /\ store[h][heir[p]] # None
    BY <1>1, <1>3 DEF Heirs
  <2>2. heir[p] \in Item /\ p \in Item
    BY <1>1, Tables
  <2>3. Gone(store[d], p) => t[p] = store[d][p]
    BY <2>2, <1>2 DEF Conveys, Steady
  <2>4. Gone(store'[h], p) /\ store'[h][heir[p]] # None
    BY <2>1, <2>2, <2>3, <1>1 DEF Gone
  <2> QED
    BY <2>4, <1>3
<1>4. CASE heir'[p] # heir[p]
  <2>1. p \in People(store[d]) /\ p \notin People(t) /\ heir'[p] \in People(t)
    BY <1>2, <1>4 DEF Conveys
  <2>2. store[d][p] # None /\ t[heir'[p]] # None /\ p \in Item
    BY <2>1, LiveIs, Tables
  <2>3. t[p] # None
    BY <2>2, <1>1
  <2>4. Gone(t, p)
    BY <2>1, <2>3, LiveOrGone
  <2> QED
    BY <2>2, <2>4, <1>1
<1> QED
  BY <1>3, <1>4

\* Nobody merged somewhere is changed by an operation that disputes nobody, and
\* nobody is there again whom it finds removed.
LEMMA OperateHeir ==
  ASSUME PeopleInvariant, Departed, Heirs, NEW d \in Devices, NEW t, Transaction(d, t), ~Outrun(d, t),
         NEW p \in Person \ contested, heir[p] # p
  PROVE  p \notin Changed(store[d], t)
BY OperateGone DEF Heirs

LEMMA OperateInherited ==
  ASSUME PeopleInvariant, Departed, Heirs, Inherited, NEW d \in Devices, NEW t, Transaction(d, t)
  PROVE  Inherited'
<1>0. Rooted /\ SeenBound
  BY DEF PeopleInvariant
<1> SUFFICES ASSUME NEW g \in Holder, NEW h \in Holder, NEW p \in Person \ contested',
                    heir'[p] # p, heir'[p] \notin contested', Gone(store'[h], p),
                    seen'[g][heir'[p]] >= seen'[h][heir'[p]]
             PROVE  Gone(store'[g], p)
  BY DEF Inherited
<1>1. /\ d \in Holder /\ store'[d] = t /\ \A k \in Holder : k # d => store'[k] = store[k] /\ seen'[k] = seen[k]
      /\ \A x \in Changed(store[d], t) : seen'[d][x] = clock + 1
      /\ heir \in [Person -> Person] /\ clock \in Nat /\ seen \in [Holder -> [Person -> Nat]]
  BY <1>0, TransactionIs DEF Rooted, PeopleTypeOK
<1>2. CASE contested' = contested \cup Changed(store[d], t) \cup InTransit
  <2>1. /\ About(store'[g], p) = About(store[h], p) /\ \A i \in About(store[h], p) : store'[g][i] = store[h][i]
        /\ About(store'[h], p) = About(store[h], p) /\ \A i \in About(store[h], p) : store'[h][i] = store[h][i]
    BY <1>2, OperateAgreed
  <2>2. p \in About(store'[h], p)
    BY LiveOrGone DEF Gone
  <2> QED
    BY <2>1, <2>2 DEF Gone
<1>3. CASE contested' = contested /\ ~Outrun(d, t)
  <2>1. CASE g = h
    BY <2>1
  <2>2. CASE heir'[p] # heir[p] /\ g # h
    <3>1. /\ p \in People(store[d]) /\ p \notin People(t)
          /\ p \in Changed(store[d], t) /\ heir'[p] \in Changed(store[d], t)
      BY <2>2 DEF Transaction, Conveys
    <3>2. \A k \in Holder : ~Gone(store[k], p)
      BY <3>1, <1>3, OperateGone
    <3>3. h = d
      BY <3>2, <1>1
    <3>4. g # d /\ seen'[d][heir'[p]] = clock + 1 /\ seen'[g] = seen[g] /\ heir'[p] \in Person
      BY <3>1, <3>3, <2>2, <1>1 DEF Changed
    <3>5. seen[g][heir'[p]] <= clock /\ seen[g][heir'[p]] \in Nat
      BY <3>4, <1>0, <1>1 DEF SeenBound
    <3> QED
      BY <3>3, <3>4, <3>5, <1>1
  <2>3. CASE heir'[p] = heir[p] /\ g # h
    <3> DEFINE q == heir[p]
    <3>1. q \in Person \ contested /\ q # p /\ p \notin contested
      BY <2>3, <1>1, <1>3
    <3>2. p \notin Changed(store[d], t)
      BY <3>1, <1>3, OperateHeir
    <3>3. t[p] = store[d][p]
      BY <3>2, <1>0, OperateSame
    <3>4. Gone(store[h], p)
      BY <3>3, <1>1 DEF Gone
    <3>5. q \notin Changed(store[d], t) => seen'[d][q] = seen[d][q]
      BY <3>1, <1>0, TransactionIs
    <3>6. \A k \in Holder : seen[k][q] \in Nat /\ seen[k][q] <= clock
      BY <3>1, <1>0, <1>1 DEF SeenBound
    <3>7. q \in Changed(store[d], t) => seen[d][q] >= seen[h][q]
      BY <1>0, <1>3, NotOutrun
    <3>8. seen[g][q] >= seen[h][q]
      <4>1. seen'[g][q] >= seen'[h][q]
        BY <2>3
      <4> HIDE DEF q
      <4>2. CASE g # d /\ h # d
        BY <4>1, <4>2, <1>1
      <4>3. CASE g = d /\ h # d
        BY <4>1, <4>3, <3>5, <3>7, <1>1
      <4>4. CASE g # d /\ h = d
        BY <4>1, <4>4, <3>5, <3>6, <1>1
      <4> QED
        BY <4>2, <4>3, <4>4, <2>3
    <3>9. Gone(store[g], p)
      BY <3>1, <3>4, <3>8 DEF Inherited
    <3> QED
      BY <3>3, <3>9, <1>1 DEF Gone
  <2> QED
    BY <2>1, <2>2, <2>3
<1> QED
  BY <1>0, <1>2, <1>3, TransactionIs

LEMMA OperateCopies ==
  ASSUME PeopleInvariant, CopiesStay, NEW d \in Devices, NEW t, Transaction(d, t)
  PROVE  CopiesStay'
<1>0. Rooted
  BY DEF PeopleInvariant
<1> DEFINE s == store[d]
<1>1. /\ d \in Holder /\ store'[d] = t /\ \A k \in Holder : k # d => store'[k] = store[k]
      /\ \A i \in Item : t[i] # s[i] => t[i] # None
      /\ contested \subseteq contested' /\ Known(t)
  BY <1>0, TransactionIs
<1>2. Steady(s, t) /\ \A c \in Copy : s[c] = None /\ t[c] # None => t[c].bearer = c[2]
  BY DEF Transaction, Conveys, Lawful
<1>3. /\ \A c \in Copy : s[c] # None => s[c[2]] # None
      /\ \A p \in People(s) \ contested : Keeps(s, p)
  BY <1>1 DEF CopiesStay
<1> HIDE DEF s
<1>4. \A c \in Copy : c \in Milestone /\ c \in Item /\ c[2] \in Person /\ c[2] \in Item
  BY Tables DEF Copy
<1>5. ASSUME NEW c \in Copy, t[c] # None PROVE t[c[2]] # None
  <2>1. CASE s[c] = None
    BY <2>1, <1>1, <1>2, <1>4, <1>5 DEF Known
  <2>2. CASE s[c] # None
    BY <2>2, <1>1, <1>3, <1>4
  <2> QED
    BY <2>1, <2>2
<1>6. ASSUME NEW p \in People(t) \ contested', NEW c \in Copy, c[2] = p, t[c] # None
      PROVE  Live(t[c]) /\ t[c].bearer = p
  <2>1. CASE s[c] = None
    BY <2>1, <1>2, <1>4, <1>6 DEF Steady, Gone, Live
  <2>2. CASE s[c] # None
    <3>1. s[p] # None
      BY <2>2, <1>3, <1>6
    <3>2. ~Gone(s, p)
      <4>1. ~Gone(t, p) /\ p \in Item
        BY <1>4, <1>6, LiveOrGone
      <4> QED
        BY <4>1, <1>2 DEF Steady, Gone
    <3>3. p \in People(s) \ contested
      BY <3>1, <3>2, <1>1, <1>4, <1>6, LiveOrGone
    <3>4. Live(s[c]) /\ s[c].bearer = p
      BY <3>3, <2>2, <1>3, <1>6 DEF Keeps
    <3>5. t[c] = s[c]
      BY <3>4, <1>2, <1>4, <1>6 DEF Steady
    <3> QED
      BY <3>4, <3>5
  <2> QED
    BY <2>1, <2>2
<1>7. \A k \in Holder : \A c \in Copy : store'[k][c] # None => store'[k][c[2]] # None
  BY <1>1, <1>5 DEF CopiesStay
<1>8. \A k \in Holder : \A p \in People(store'[k]) \ contested' : Keeps(store'[k], p)
  <2> TAKE k \in Holder
  <2> TAKE p \in People(store'[k]) \ contested'
  <2>1. CASE k = d
    BY <2>1, <1>1, <1>6 DEF Keeps
  <2>2. CASE k # d
    BY <2>2, <1>1 DEF CopiesStay
  <2> QED
    BY <2>1, <2>2
<1> QED
  BY <1>7, <1>8 DEF CopiesStay

\* What is carried to the device an operation is on is carried on by it.
LEMMA OperateCarries ==
  ASSUME PeopleInvariant, Departed, Heirs, CopiesStay, Onward, NEW d \in Devices, NEW t, Transaction(d, t),
         ~Outrun(d, t), NEW g \in Holder, NEW p \in People(store[g]) \ contested
  PROVE  /\ p \in People(t) /\ (seen[d][p] >= seen[g][p] \/ p \in Changed(store[d], t)) =>
               Carried(store[g], p, t, p, pruned')
         /\ Gone(t, p) /\ heir'[p] \in People(t) \ contested =>
               Carried(store[g], p, t, heir'[p], pruned')
<1> DEFINE s == store[d]
<1>0. Rooted /\ Ahead
  BY DEF PeopleInvariant
<1>1. /\ d \in Holder /\ t \in Store /\ s \in Store /\ Known(s)
      /\ pruned \subseteq pruned' /\ p \in Person /\ p \in Item
      /\ heir \in [Person -> Person]
      /\ \A i \in Item : t[i] # s[i] => t[i] # None
  BY <1>0, TransactionIs, RootedIs, LiveIs, Tables DEF Transaction
<1>2. Conveys(s, t)
  BY DEF Transaction
<1>3. \A x \in Changed(s, t) : seen[d][x] >= seen[g][x]
  BY <1>0, NotOutrun
<1>4. \A x \in People(s) \ contested : Keeps(s, x)
  BY <1>1 DEF CopiesStay
<1>5. \A x \in People(t) : x \in People(s) \/ s[x] = None
  BY <1>2, LiveOrGone, LiveIs, Tables DEF Conveys, Steady, Gone
<1>6. seen[d][p] >= seen[g][p] => s[p] # None
  <2>1. store[g][p] # None /\ p \in About(store[g], p)
    BY <1>1, LiveOrGone
  <2> QED
    BY <2>1, <1>0, <1>1 DEF Ahead, Covers
<1>7. ASSUME p \in People(s), seen[d][p] >= seen[g][p]
      PROVE  Carried(store[g], p, s, p, pruned)
  BY <1>1, <1>7 DEF Onward
<1>8. Steady(s, t) /\ \A x \in People(s) : x \in People(t) /\ Keeps(s, x) => Carried(s, x, t, x, pruned')
  BY <1>2 DEF Conveys
<1>9. ASSUME p \in People(t), seen[d][p] >= seen[g][p] \/ p \in Changed(s, t)
      PROVE  Carried(store[g], p, t, p, pruned')
  <2>1. seen[d][p] >= seen[g][p]
    BY <1>3, <1>9
  <2>2. p \in People(s)
    BY <2>1, <1>5, <1>6, <1>9
  <2>3. Carried(store[g], p, s, p, pruned)
    BY <2>1, <2>2, <1>7
  <2>4. Carried(s, p, t, p, pruned')
    BY <2>2, <1>4, <1>8, <1>9
  <2> HIDE DEF s
  <2> QED
    BY <2>3, <2>4, <1>1, <1>8, CarriedOn
<1>10. ASSUME Gone(t, p), heir'[p] \in People(t) \ contested, heir'[p] # heir[p]
       PROVE  Carried(store[g], p, t, heir'[p], pruned')
  <2>1. p \in People(s) /\ p \in Changed(s, t) /\ Carried(s, p, t, heir'[p], pruned')
    BY <1>1, <1>2, <1>10 DEF Conveys
  <2>2. Carried(store[g], p, s, p, pruned)
    BY <2>1, <1>3, <1>7
  <2> HIDE DEF s
  <2> QED
    BY <2>1, <2>2, <1>1, <1>8, CarriedOn
<1>11. ASSUME Gone(t, p), heir'[p] \in People(t) \ contested, heir'[p] = heir[p]
       PROVE  Carried(store[g], p, t, heir'[p], pruned')
  <2> DEFINE q == heir[p]
  <2>1. q \in Person /\ q \in People(t) /\ q \notin contested /\ q # p
    BY <1>1, <1>11, LiveOrGone
  <2>2. p \notin Changed(s, t)
    BY <2>1, <1>1, OperateHeir
  <2>3. Gone(s, p)
    <3>1. t[p] = s[p]
      BY <2>2, <1>0, <1>1, OperateSame
    <3> QED
      BY <3>1, <1>11 DEF Gone
  <2>4. q \in People(s)
    <3> SUFFICES ASSUME s[q] = None
                 PROVE  FALSE
      BY <2>1, <1>5
    <3>1. PICK k \in Holder : store[k][q] # None
      BY <2>1, <1>1 DEF Heirs
    <3>2. t[q] # s[q]
      BY <2>1, LiveIs
    <3>3. q \in Item
      BY <2>1, Tables
    <3>4. Covers(s[q], store[k][q])
      BY <3>1, <3>2, <3>3, <1>0, NotOutrun
    <3> QED
      BY <3>1, <3>4 DEF Covers
  <2>5. Carried(store[g], p, s, q, pruned)
    BY <2>1, <2>3, <2>4, <1>1 DEF Onward
  <2>6. Carried(s, q, t, q, pruned')
    BY <2>1, <2>4, <1>4, <1>8
  <2> HIDE DEF s, q
  <2>7. Carried(store[g], p, t, q, pruned')
    BY <2>5, <2>6, <1>1, <1>8, CarriedOn
  <2> QED
    BY <2>7, <1>11 DEF q
<1> QED
  BY <1>9, <1>10, <1>11

LEMMA OperateOnward ==
  ASSUME PeopleInvariant, Departed, Heirs, CopiesStay, Onward, NEW d \in Devices, NEW t, Transaction(d, t)
  PROVE  Onward'
<1>0. Rooted /\ SeenBound
  BY DEF PeopleInvariant
<1> SUFFICES ASSUME NEW g \in Holder, NEW h \in Holder, NEW p \in People(store'[g]) \ contested'
             PROVE  /\ p \in People(store'[h]) /\ seen'[h][p] >= seen'[g][p] =>
                          Carried(store'[g], p, store'[h], p, pruned')
                    /\ Gone(store'[h], p) /\ heir'[p] \in People(store'[h]) \ contested' =>
                          Carried(store'[g], p, store'[h], heir'[p], pruned')
  BY DEF Onward
<1>1. /\ d \in Holder /\ store'[d] = t /\ \A k \in Holder : k # d => store'[k] = store[k] /\ seen'[k] = seen[k]
      /\ \A x \in Changed(store[d], t) : seen'[d][x] = clock + 1
      /\ pruned \subseteq pruned' /\ p \in Person
      /\ heir \in [Person -> Person] /\ clock \in Nat /\ seen \in [Holder -> [Person -> Nat]]
  <2>1. p \in Person /\ pruned \subseteq pruned'
    BY LiveIs DEF Transaction
  <2>2. heir \in [Person -> Person] /\ seen \in [Holder -> [Person -> Nat]]
    BY <1>0 DEF Rooted, PeopleTypeOK
  <2> QED
    BY <2>1, <2>2, <1>0, TransactionIs
<1>2. CASE contested' = contested \cup Changed(store[d], t) \cup InTransit
  <2>1. \A k \in Holder : /\ About(store'[k], p) = About(store[g], p)
                          /\ \A i \in About(store[g], p) : store'[k][i] = store[g][i]
    BY <1>1, <1>2, OperateAgreed
  <2>2. p \in About(store'[g], p) /\ ~Gone(store'[g], p)
    BY <1>1, LiveOrGone
  <2>3. ~Gone(store'[h], p)
    BY <2>1, <2>2 DEF Gone
  <2>4. /\ About(store'[h], p) = About(store'[g], p)
        /\ \A i \in About(store'[g], p) : store'[h][i] = store'[g][i]
    BY <2>1
  <2>5. \A k \in Holder : store'[k] \in Store /\ Known(store'[k])
    <3>1. t \in Store /\ Known(t) /\ \A k \in Holder : store[k] \in Store /\ Known(store[k])
      BY <1>0, TransactionIs, HeldRows
    <3> QED
      BY <3>1, <1>1
  <2>6. Carried(store'[g], p, store'[g], p, pruned')
    BY CarriedSelf
  <2>7. Carried(store'[g], p, store'[h], p, pruned')
    BY <2>4, <2>5, <2>6, <1>1, CarriedSame
  <2> QED
    BY <2>3, <2>7
<1>3. CASE contested' = contested /\ ~Outrun(d, t)
  <2>1. CASE h = d /\ g # d
    <3>1. p \in People(store[g]) \ contested
      BY <2>1, <1>1, <1>3
    <3>2. seen'[d][p] >= seen'[g][p] => seen[d][p] >= seen[g][p] \/ p \in Changed(store[d], t)
      BY <2>1, <1>0, <1>1, TransactionIs
    <3>3. /\ p \in People(t) /\ (seen[d][p] >= seen[g][p] \/ p \in Changed(store[d], t)) =>
               Carried(store[g], p, t, p, pruned')
          /\ Gone(t, p) /\ heir'[p] \in People(t) \ contested =>
               Carried(store[g], p, t, heir'[p], pruned')
      BY <3>1, <1>3, OperateCarries
    <3> QED
      BY <3>2, <3>3, <2>1, <1>1, <1>3
  <2>2. CASE h = d /\ g = d
    BY <2>2, <1>1, CarriedSelf, LiveOrGone
  <2>3. ASSUME h # d, p \in People(store[g]), Timeline(store'[g], p) = Timeline(store[g], p),
               seen'[h][p] >= seen'[g][p] => seen[h][p] >= seen[g][p]
        PROVE  /\ p \in People(store'[h]) /\ seen'[h][p] >= seen'[g][p] =>
                     Carried(store'[g], p, store'[h], p, pruned')
               /\ Gone(store'[h], p) /\ heir[p] \in People(store'[h]) \ contested' =>
                     Carried(store'[g], p, store'[h], heir[p], pruned')
    <3>1. /\ p \in People(store[h]) /\ seen[h][p] >= seen[g][p] =>
                Carried(store[g], p, store[h], p, pruned)
          /\ Gone(store[h], p) /\ heir[p] \in People(store[h]) \ contested =>
                Carried(store[g], p, store[h], heir[p], pruned)
      BY <2>3, <1>3 DEF Onward
    <3>2. \A q : Carried(store[g], p, store[h], q, pruned) => Carried(store[g], p, store[h], q, pruned')
      BY <1>1, CarriedMore
    <3>3. \A q : Carried(store[g], p, store[h], q, pruned') => Carried(store'[g], p, store[h], q, pruned')
      BY <2>3 DEF Carried
    <3> QED
      BY <3>1, <3>2, <3>3, <2>3, <1>1, <1>3
  <2>4. heir'[p] # heir[p] => g # d /\ (h # d => ~Gone(store[h], p))
    <3> SUFFICES ASSUME heir'[p] # heir[p]
                 PROVE  g # d /\ ~Gone(store[h], p)
      OBVIOUS
    <3>1. p \notin People(t) /\ p \in Changed(store[d], t)
      BY <1>1 DEF Transaction, Conveys
    <3> QED
      BY <3>1, <1>1, <1>3, OperateGone
  <2>5. CASE h # d /\ g # d
    BY <2>3, <2>4, <2>5, <1>1
  <2>6. CASE h # d /\ g = d
    <3>1. CASE p \in Changed(store[d], t)
      <4>1. ~Gone(store[h], p)
        BY <3>1, <1>1, <1>3, OperateGone
      <4>2. seen'[g][p] = clock + 1 /\ seen'[h][p] = seen[h][p] /\ seen[h][p] <= clock /\ seen[h][p] \in Nat
        BY <3>1, <2>6, <1>0, <1>1 DEF SeenBound
      <4>3. ~(seen'[h][p] >= seen'[g][p])
        BY <4>2, <1>1
      <4> QED
        BY <4>1, <4>3, <2>6, <1>1
    <3>2. CASE p \notin Changed(store[d], t)
      <4>1. t[p] = store[d][p] /\ Timeline(t, p) = Timeline(store[d], p) /\ seen'[d][p] = seen[d][p]
            /\ heir'[p] = heir[p]
        BY <3>2, <1>0, <1>1, OperateSame
      <4>2. p \in People(store[d])
        BY <4>1, <2>6, <1>1, LiveIs
      <4> QED
        BY <4>1, <4>2, <2>3, <2>6, <1>1
    <3> QED
      BY <3>1, <3>2
  <2> QED
    BY <2>1, <2>2, <2>5, <2>6
<1> QED
  BY <1>0, <1>2, <1>3, TransactionIs

-----------------------------------------------------------------------------
(* People: a sync and the first store preserve it.                         *)

\* After a sync each holder has of an undisputed person what one had before.
LEMMA SyncFrom ==
  ASSUME PeopleInvariant, NEW d \in Devices, Sync(d), NEW p \in Person \ contested, NEW h \in Holder
  PROVE  \E k \in Holder :
            /\ About(store'[h], p) = About(store[k], p) /\ \A i \in About(store[k], p) : store'[h][i] = store[k][i]
            /\ seen'[h][p] = seen[k][p] /\ seen[k][p] >= seen[h][p]
            /\ store'[h][p] = store[k][p] /\ Timeline(store'[h], p) = Timeline(store[k], p)
            /\ store'[h] \in Store /\ Known(store'[h])
<1>0. Rooted
  BY DEF PeopleInvariant
<1>1. /\ d \in Holder /\ Server \in Holder
      /\ \A k \in Holder \ {d, Server} : store'[k] = store[k] /\ seen'[k] = seen[k]
  BY <1>0, SyncIs
<1>2. Rooted'
  BY SyncRows
<1>3. store'[h] \in Store /\ Known(store'[h])
  BY <1>2 DEF Rooted, PeopleTypeOK, Kept
<1>4. seen[h][p] \in Nat
  BY <1>0 DEF Rooted, PeopleTypeOK
<1>5. \E k \in Holder :
         /\ About(store'[h], p) = About(store[k], p) /\ \A i \in About(store[k], p) : store'[h][i] = store[k][i]
         /\ seen'[h][p] = seen[k][p] /\ seen[k][p] >= seen[h][p]
  <2>1. CASE h \in {d, Server}
    <3>1. PICK k \in {d, Server} : \A m \in {d, Server} :
             /\ About(store'[m], p) = About(store[k], p) /\ \A i \in About(store[k], p) : store'[m][i] = store[k][i]
             /\ seen'[m][p] = seen[k][p]
             /\ seen[k][p] >= seen[m][p]
      BY SyncAbout
    <3> QED
      BY <3>1, <2>1, <1>1
  <2>2. CASE h \notin {d, Server}
    BY <2>2, <1>1, <1>4
  <2> QED
    BY <2>1, <2>2
<1>6. PICK k \in Holder :
         /\ About(store'[h], p) = About(store[k], p) /\ \A i \in About(store[k], p) : store'[h][i] = store[k][i]
         /\ seen'[h][p] = seen[k][p] /\ seen[k][p] >= seen[h][p]
  BY <1>5
<1>7. store[k] \in Store /\ Known(store[k])
  BY <1>0, HeldRows
<1>8. Timeline(store'[h], p) = Timeline(store[k], p)
  BY <1>3, <1>6, <1>7, TimelineSame
<1>9. store'[h][p] = store[k][p]
  BY <1>6, LiveOrGone
<1> QED
  BY <1>3, <1>6, <1>8, <1>9

\* ... and each row comes from one who had seen no more.
LEMMA SyncSeen ==
  ASSUME PeopleInvariant, NEW d \in Devices, Sync(d), NEW h \in Holder, NEW i \in Item
  PROVE  \E k \in Holder : store'[h][i] = store[k][i] /\ \A q \in Person : seen'[h][q] >= seen[k][q]
<1> DEFINE j == Joined(store[Server], store[d])
<1>0. Rooted
  BY DEF PeopleInvariant
<1>1. /\ d \in Holder /\ Server \in Holder
      /\ \A k \in {d, Server} : store'[k] = j
      /\ \A k \in Holder \ {d, Server} : store'[k] = store[k] /\ seen'[k] = seen[k]
      /\ \A k \in {d, Server} : \A p \in Person : seen'[k][p] >= seen[d][p] /\ seen'[k][p] >= seen[Server][p]
      /\ j[i] = store[d][i] \/ j[i] = store[Server][i]
  BY <1>0, SyncIs
<1> HIDE DEF j
<1>2. \A q \in Person : seen[h][q] \in Nat
  BY <1>0 DEF Rooted, PeopleTypeOK
<1>3. CASE h \in {d, Server}
  BY <1>1, <1>3
<1>4. CASE h \notin {d, Server}
  BY <1>1, <1>2, <1>4
<1> QED
  BY <1>3, <1>4

LEMMA SyncRemovals ==
  ASSUME TimelineInvariant, NEW d \in Devices, Sync(d)
  PROVE  Departed' /\ Settled' /\ Heirs' /\ Inherited'
<1>0. PeopleInvariant /\ Rooted /\ Departed /\ Settled /\ Heirs /\ Inherited
  BY DEF TimelineInvariant, PeopleInvariant
<1> DEFINE j == Joined(store[Server], store[d])
<1>1. /\ d \in Holder /\ Server \in Holder
      /\ \A h \in {d, Server} : store'[h] = j
      /\ \A h \in Holder \ {d, Server} : store'[h] = store[h] /\ seen'[h] = seen[h]
      /\ \A h \in {d, Server} : \A p \in Person :
            /\ seen'[h][p] \in {seen[d][p], seen[Server][p]}
            /\ seen'[h][p] >= seen[d][p] /\ seen'[h][p] >= seen[Server][p]
      /\ \A i \in Item : /\ \A h \in {d, Server} : Covers(j[i], store[h][i])
                         /\ j[i] = None <=> store[d][i] = None /\ store[Server][i] = None
                         /\ j[i] = store[d][i] \/ j[i] = store[Server][i]
      /\ contested' = contested /\ heir' = heir
  BY <1>0, SyncIs
<1> HIDE DEF j
<1>2. heir \in [Person -> Person]
  BY <1>0 DEF Rooted, PeopleTypeOK
<1>3. ASSUME NEW h \in Holder, NEW p \in Person \ contested
      PROVE  \E k \in Holder : store'[h][p] = store[k][p] /\ seen'[h][p] = seen[k][p] /\ seen[k][p] >= seen[h][p]
  BY <1>0, SyncFrom
<1>4. Departed'
  <2> SUFFICES ASSUME NEW g \in Holder, NEW h \in Holder, NEW p \in Person \ contested,
                      Gone(store'[h], p), Covers(store'[g][p], store'[h][p])
               PROVE  Gone(store'[g], p)
    BY <1>1 DEF Departed
  <2>1. PICK k \in Holder : store'[g][p] = store[k][p]
    BY <1>3
  <2>2. PICK m \in Holder : store'[h][p] = store[m][p]
    BY <1>3
  <2> QED
    BY <2>1, <2>2, <1>0 DEF Departed, Gone
<1>5. Settled'
  <2> SUFFICES ASSUME NEW g \in Holder, NEW h \in Holder, NEW p \in Person \ contested,
                      Gone(store'[g], p), Gone(store'[h], p)
               PROVE  seen'[g][p] = seen'[h][p]
    BY <1>1 DEF Settled
  <2>1. PICK k \in Holder : store'[g][p] = store[k][p] /\ seen'[g][p] = seen[k][p]
    BY <1>3
  <2>2. PICK m \in Holder : store'[h][p] = store[m][p] /\ seen'[h][p] = seen[m][p]
    BY <1>3
  <2> QED
    BY <2>1, <2>2, <1>0 DEF Settled, Gone
<1>6. Heirs'
  <2> SUFFICES ASSUME NEW p \in Person \ contested, heir[p] # p
               PROVE  \E h \in Holder : Gone(store'[h], p) /\ store'[h][heir[p]] # None
    BY <1>1 DEF Heirs
  <2>1. PICK h \in Holder : Gone(store[h], p) /\ store[h][heir[p]] # None
    BY <1>0 DEF Heirs
  <2>2. p \in Item /\ heir[p] \in Item
    BY <1>2, Tables
  <2>3. CASE h \in {d, Server}
    <3>1. PICK k \in Holder : store'[h][p] = store[k][p]
      BY <1>3
    <3>2. Covers(store'[h][p], store[h][p]) /\ store'[h][heir[p]] # None
      BY <2>1, <2>2, <2>3, <1>1
    <3>3. Gone(store[k], p)
      BY <3>1, <3>2, <2>1, <1>0 DEF Departed
    <3> QED
      BY <3>1, <3>2, <3>3 DEF Gone
  <2>4. CASE h \notin {d, Server}
    BY <2>1, <2>4, <1>1
  <2> QED
    BY <2>3, <2>4
<1>7. Inherited'
  <2> SUFFICES ASSUME NEW g \in Holder, NEW h \in Holder, NEW p \in Person \ contested,
                      heir[p] # p, heir[p] \notin contested, Gone(store'[h], p),
                      seen'[g][heir[p]] >= seen'[h][heir[p]]
               PROVE  Gone(store'[g], p)
    BY <1>1 DEF Inherited
  <2> DEFINE q == heir[p]
  <2>1. q \in Person \ contested /\ seen'[g][q] >= seen'[h][q] /\ heir[p] = q /\ q # p
    BY <1>2
  <2> HIDE DEF q
  <2>2. \A k \in Holder : seen[k][q] \in Nat /\ Covers(store[k][p], store[k][p])
    <3>1. \A k \in Holder : store[k][p] = None \/ store[k][p].at \in Nat
      BY <1>0, HeldRows, Tables
    <3> QED
      BY <3>1, <2>1, <1>0 DEF Rooted, PeopleTypeOK, Covers
  <2>3. PICK k \in Holder : store'[h][p] = store[k][p] /\ seen'[h][q] >= seen[k][q]
    BY <2>1, <1>0, SyncSeen, Tables
  <2>4. PICK n \in Holder : seen'[g][q] = seen[n][q] /\ Covers(store'[g][p], store[n][p])
    <3>1. CASE g \in {d, Server}
      BY <3>1, <2>1, <1>1, Tables
    <3>2. CASE g \notin {d, Server}
      BY <3>2, <2>2, <1>1
    <3> QED
      BY <3>1, <3>2
  <2>5. Gone(store[k], p)
    BY <2>3 DEF Gone
  <2>6. seen[n][q] >= seen[k][q]
    BY <2>1, <2>2, <2>3, <2>4, <1>1
  <2>7. Gone(store[n], p)
    BY <2>1, <2>5, <2>6, <1>0 DEF Inherited
  <2>8. PICK m \in Holder : store'[g][p] = store[m][p]
    BY <1>3
  <2> QED
    BY <2>4, <2>7, <2>8, <1>0 DEF Departed, Gone
<1> QED
  BY <1>4, <1>5, <1>6, <1>7

LEMMA SyncCopies ==
  ASSUME TimelineInvariant, NEW d \in Devices, Sync(d)
  PROVE  CopiesStay'
<1>0. PeopleInvariant /\ Rooted /\ Ahead /\ Departed /\ CopiesStay
  BY DEF TimelineInvariant, PeopleInvariant
<1> DEFINE j == Joined(store[Server], store[d])
<1>1. /\ d \in Holder /\ Server \in Holder
      /\ \A h \in {d, Server} : store'[h] = j
      /\ \A h \in Holder \ {d, Server} : store'[h] = store[h]
      /\ \A i \in Item : /\ j[i] = None <=> store[d][i] = None /\ store[Server][i] = None
                         /\ j[i] = store[d][i] \/ j[i] = store[Server][i]
      /\ contested' = contested
  BY <1>0, SyncIs
<1> HIDE DEF j
<1>2. \A c \in Copy : c \in Item /\ c \in Milestone /\ c[2] \in Person /\ c[2] \in Item
  BY Tables DEF Copy
<1>3. \A k \in Holder :
         /\ \A c \in Copy : store[k][c] # None => store[k][c[2]] # None
         /\ \A p \in People(store[k]) \ contested : Keeps(store[k], p)
  BY <1>0 DEF CopiesStay
<1>4. \A c \in Copy : j[c] # None => j[c[2]] # None
  BY <1>1, <1>2, <1>3
<1>5. ASSUME NEW p \in People(j) \ contested, NEW c \in Copy, c[2] = p, j[c] # None
      PROVE  Live(j[c]) /\ j[c].bearer = p
  <2>1. p \in Person /\ p \notin contested
    BY <1>5, LiveIs
  <2>2. PICK k \in {d, Server} : \A m \in {d, Server} :
           /\ About(store'[m], p) = About(store[k], p) /\ \A i \in About(store[k], p) : store'[m][i] = store[k][i]
           /\ seen[k][p] >= seen[m][p]
    BY <2>1, <1>0, SyncAbout
  <2>3. k \in Holder /\ \A i \in About(store[k], p) : j[i] = store[k][i]
    BY <2>2, <1>1
  <2>4. About(j, p) = About(store[k], p)
    BY <2>2, <1>1
  <2>5. p \in People(store[k]) \ contested
    BY <2>1, <2>3, <2>4, <1>5, LiveIs, LiveOrGone
  <2>6. ASSUME NEW m \in {d, Server}, store[m][c] # None
        PROVE  m \in Holder /\ c \in About(store[m], p) /\ Live(store[m][c]) /\ store[m][c].bearer = p
    <3>1. m \in Holder /\ store[m][p] # None
      BY <2>6, <1>1, <1>3, <1>5
    <3>2. Covers(store[k][p], store[m][p])
      BY <3>1, <2>1, <2>2, <2>3, <1>0, LiveOrGone DEF Ahead
    <3>3. ~Gone(store[m], p)
      BY <3>1, <3>2, <2>1, <2>3, <2>5, <1>0, LiveOrGone DEF Departed
    <3>4. p \in People(store[m]) \ contested
      BY <3>1, <3>3, <2>1, LiveOrGone
    <3>5. Live(store[m][c]) /\ store[m][c].bearer = p
      BY <3>1, <3>4, <2>6, <1>3, <1>5 DEF Keeps
    <3> QED
      BY <3>1, <3>5, <2>1, <2>6, <1>2, AboutIs
  <2>7. store[k][c] # None
    <3>1. PICK m \in {d, Server} : store[m][c] # None
      BY <1>1, <1>2, <1>5
    <3>2. Covers(store[k][c], store[m][c])
      BY <3>1, <2>1, <2>2, <2>3, <2>6, <1>0 DEF Ahead
    <3> QED
      BY <3>1, <3>2 DEF Covers
  <2> QED
    BY <2>3, <2>6, <2>7
<1>6. \A h \in Holder : \A c \in Copy : store'[h][c] # None => store'[h][c[2]] # None
  BY <1>1, <1>3, <1>4
<1>7. \A h \in Holder : \A p \in People(store'[h]) \ contested' : Keeps(store'[h], p)
  <2> TAKE h \in Holder
  <2> TAKE p \in People(store'[h]) \ contested'
  <2>1. CASE h \in {d, Server}
    BY <2>1, <1>1, <1>5 DEF Keeps
  <2>2. CASE h \notin {d, Server}
    BY <2>2, <1>1, <1>3
  <2> QED
    BY <2>1, <2>2
<1> QED
  BY <1>6, <1>7 DEF CopiesStay

\* What one holder had is, after the sync, where as much has been seen.
LEMMA SyncCarries ==
  ASSUME TimelineInvariant, NEW d \in Devices, Sync(d),
         NEW g \in Holder, NEW h \in Holder, NEW p \in People(store[g]) \ contested
  PROVE  /\ p \in People(store'[h]) /\ seen'[h][p] >= seen[g][p] =>
               Carried(store[g], p, store'[h], p, pruned)
         /\ Gone(store'[h], p) /\ heir[p] \in People(store'[h]) \ contested =>
               Carried(store[g], p, store'[h], heir[p], pruned)
<1>0. PeopleInvariant /\ Rooted /\ Ahead /\ Settled /\ Inherited /\ Onward
  BY DEF TimelineInvariant, PeopleInvariant
<1>1. p \in Person \ contested
  BY LiveIs
<1>2. PICK k \in Holder :
         /\ About(store'[h], p) = About(store[k], p) /\ \A i \in About(store[k], p) : store'[h][i] = store[k][i]
         /\ seen'[h][p] = seen[k][p] /\ store'[h][p] = store[k][p]
         /\ store'[h] \in Store /\ Known(store'[h])
  BY <1>0, <1>1, SyncFrom
<1>3. store[k] \in Store /\ Known(store[k])
  BY <1>0, HeldRows
<1>4. ASSUME p \in People(store'[h]), seen'[h][p] >= seen[g][p]
      PROVE  Carried(store[g], p, store'[h], p, pruned)
  <2>1. p \in People(store[k])
    BY <1>2, <1>4, LiveIs
  <2>2. Carried(store[g], p, store[k], p, pruned)
    BY <2>1, <1>0, <1>2, <1>4 DEF Onward
  <2> QED
    BY <2>2, <1>1, <1>2, <1>3, CarriedSame
<1>5. ASSUME Gone(store'[h], p), heir[p] \in People(store'[h]) \ contested
      PROVE  Carried(store[g], p, store'[h], heir[p], pruned)
  <2> DEFINE q == heir[p]
  <2>1. q \in Person \ contested /\ q \in People(store'[h]) /\ heir[p] = q /\ q # p
    BY <1>1, <1>5, LiveIs, LiveOrGone
  <2> HIDE DEF q
  <2>2. PICK n \in Holder :
           /\ About(store'[h], q) = About(store[n], q) /\ \A i \in About(store[n], q) : store'[h][i] = store[n][i]
           /\ seen'[h][q] = seen[n][q] /\ store'[h][q] = store[n][q]
    BY <2>1, <1>0, SyncFrom
  <2>3. q \in People(store[n])
    BY <2>1, <2>2, LiveIs
  <2>4. Gone(store[n], p)
    <3>1. PICK m \in Holder : store'[h][p] = store[m][p] /\ seen'[h][q] >= seen[m][q]
      BY <2>1, <1>0, <1>1, SyncSeen, Tables
    <3>2. Gone(store[m], p) /\ seen[n][q] >= seen[m][q]
      BY <3>1, <2>2, <1>5 DEF Gone
    <3> QED
      BY <3>2, <2>1, <1>0, <1>1 DEF Inherited
  <2>5. seen[n][p] = seen[k][p]
    BY <2>4, <1>0, <1>1, <1>2, <1>5 DEF Settled, Gone
  <2>6. About(store[n], p) = About(store[k], p) /\ \A i \in About(store[k], p) : store[n][i] = store[k][i]
    BY <2>5, <1>0, <1>1, Agreed
  <2>7. Carried(store[g], p, store[n], q, pruned)
    BY <2>1, <2>3, <2>4, <1>0 DEF Onward
  <2>8. store[n] \in Store /\ Known(store[n])
    BY <1>0, HeldRows
  <2>9. \A x \in {p, q} : About(store'[h], x) = About(store[n], x)
                         /\ \A i \in About(store[n], x) : store'[h][i] = store[n][i]
    BY <2>2, <2>6, <1>2
  <2> QED
    BY <2>1, <2>7, <2>8, <2>9, <1>1, <1>2, CarriedSame
<1> QED
  BY <1>4, <1>5

LEMMA SyncOnward ==
  ASSUME TimelineInvariant, NEW d \in Devices, Sync(d)
  PROVE  Onward'
<1>0. PeopleInvariant /\ Rooted
  BY DEF TimelineInvariant, PeopleInvariant
<1>1. contested' = contested /\ heir' = heir /\ pruned' = pruned
  BY <1>0, SyncIs
<1> SUFFICES ASSUME NEW g \in Holder, NEW h \in Holder, NEW p \in People(store'[g]) \ contested
             PROVE  /\ p \in People(store'[h]) /\ seen'[h][p] >= seen'[g][p] =>
                          Carried(store'[g], p, store'[h], p, pruned)
                    /\ Gone(store'[h], p) /\ heir[p] \in People(store'[h]) \ contested =>
                          Carried(store'[g], p, store'[h], heir[p], pruned)
  BY <1>1 DEF Onward
<1>2. PICK k \in Holder : /\ seen'[g][p] = seen[k][p] /\ store'[g][p] = store[k][p]
                          /\ Timeline(store'[g], p) = Timeline(store[k], p)
  BY <1>0, LiveIs, SyncFrom
<1>3. p \in People(store[k]) \ contested
  BY <1>2, LiveIs
<1>4. /\ p \in People(store'[h]) /\ seen'[h][p] >= seen[k][p] =>
            Carried(store[k], p, store'[h], p, pruned)
      /\ Gone(store'[h], p) /\ heir[p] \in People(store'[h]) \ contested =>
            Carried(store[k], p, store'[h], heir[p], pruned)
  BY <1>3, SyncCarries
<1> QED
  BY <1>2, <1>4 DEF Carried

LEMMA FirstTimelines ==
  PeopleInit => TimelineInvariant
<1> SUFFICES ASSUME PeopleInit PROVE TimelineInvariant
  OBVIOUS
<1>1. PICK s \in Store :
         /\ store = [h \in Holder |-> s]
         /\ \A i \in Item : s[i] # None => ~s[i].gone
         /\ \A f \in Milestone : s[f] = None
  BY FirstStore
<1>2. heir = [p \in Person |-> p] /\ contested = {} /\ pruned = {}
  BY DEF PeopleInit
<1>3. \A h \in Holder : store[h] = s
  BY <1>1
<1>4. \A h \in Holder : \A p \in Person : ~Gone(store[h], p)
  BY <1>1, <1>3, Tables DEF Gone
<1>5. Departed /\ Settled /\ Heirs /\ Inherited
  BY <1>2, <1>4 DEF Departed, Settled, Heirs, Inherited
<1>6. CopiesStay
  <2>1. \A c \in Copy : s[c] = None
    BY <1>1, Tables
  <2> QED
    BY <2>1, <1>3 DEF CopiesStay, Keeps
<1>7. Onward
  <2> SUFFICES ASSUME NEW g \in Holder, NEW h \in Holder, NEW p \in People(store[g]) \ contested
               PROVE  Carried(store[g], p, store[h], p, pruned) /\ ~Gone(store[h], p)
    BY DEF Onward
  <2> QED
    BY <1>3, <1>4, LiveIs, CarriedSelf
<1> QED
  BY <1>5, <1>6, <1>7, FirstInvariant DEF TimelineInvariant

-----------------------------------------------------------------------------
(* People: theorems.                                                       *)

\* Whatever the devices do and whenever they sync, the invariant stays: who
\* has seen the last change of a person nobody disputes has every row about
\* them (packages/data/src/entity-service.ts, relationship-service.ts).
THEOREM PeopleInductive ==
  PeopleSpec => []PeopleInvariant
<1>1. PeopleInit => PeopleInvariant
  BY FirstInvariant
<1>2. PeopleInvariant /\ [PeopleNext]_peopleVars => PeopleInvariant'
  <2> SUFFICES ASSUME PeopleInvariant, [PeopleNext]_peopleVars PROVE PeopleInvariant'
    OBVIOUS
  <2>1. CASE UNCHANGED peopleVars
    BY <2>1, PeopleStuttering
  <2>2. ASSUME NEW d \in Devices, Sync(d) PROVE PeopleInvariant'
    BY <2>2, SyncRows, SyncAhead, SyncApart, SyncSounds DEF PeopleInvariant
  <2>3. ASSUME NEW d \in Devices, Operate(d) PROVE PeopleInvariant'
    <3>1. PICK t : Transaction(d, t)
      BY <2>3, OperateStep DEF PeopleInvariant
    <3>2. Rooted' /\ SeenBound'
      BY <3>1, OperateRooted DEF PeopleInvariant
    <3>3. Ahead' /\ Apart'
      BY <3>1, OperateAhead, OperateApart DEF PeopleInvariant
    <3>4. Standings' /\ Copies' /\ Once' /\ Removal'
      BY <3>1, OperateStandings, OperateOnce DEF PeopleInvariant
    <3>5. Sounds' /\ Anchors'
      BY <3>1, OperateSounds DEF PeopleInvariant
    <3> QED
      BY <3>2, <3>3, <3>4, <3>5 DEF PeopleInvariant
  <2> QED
    BY <2>1, <2>2, <2>3 DEF PeopleNext
<1> QED
  BY <1>1, <1>2, PTL DEF PeopleSpec

\* Each row is of its table, and what is remembered of the past is of people,
\* relationships and milestones.
THEOREM PeopleTypeCorrect ==
  PeopleSpec => []PeopleTypeOK
<1>1. PeopleInvariant => PeopleTypeOK
  BY DEF PeopleInvariant, Rooted
<1> QED
  BY <1>1, PeopleInductive, PTL

\* However the devices interleave what they do and when they sync, a
\* relationship joins two people still there and a milestone hangs from
\* something still there, disputes and merged relationships aside
\* (entity-service.ts softDeleteCascade, relationship-service.ts softDelete).
THEOREM NothingDanglesHolds ==
  PeopleSpec => []NothingDangles
<1>1. PeopleInvariant => NothingDangles
  <2> SUFFICES ASSUME PeopleInvariant, NEW d \in Devices
               PROVE  LET s == store[d] IN
                      /\ \A e \in Edge : Live(s[e]) /\ s[e].ends \cap contested = {}
                            => s[e].ends \subseteq People(s) /\ \E p, q \in Person : p # q /\ s[e].ends = {p, q}
                      /\ \A f \in Milestone : Live(s[f]) =>
                            LET b == s[f].bearer
                            IN  IF b \in Person THEN b \in People(s) \cup contested
                                ELSE Live(s[b]) \/ b \in pruned \/ s[b].ends \cap contested # {}
    BY DEF NothingDangles
  <2> DEFINE s == store[d]
  <2>1. s \in Store /\ Known(s)
    BY RootedIs DEF PeopleInvariant
  <2>2. \A p \in Person \ contested : Sound(s, p, pruned)
    BY DEF PeopleInvariant, Sounds, Devices
  <2> HIDE DEF s
  <2>3. ASSUME NEW e \in Edge, Live(s[e]), s[e].ends \cap contested = {}
        PROVE  s[e].ends \subseteq People(s) /\ \E p, q \in Person : p # q /\ s[e].ends = {p, q}
    <3>1. s[e] # None /\ ~s[e].gone /\ s[e].ends \subseteq Person
      BY <2>1, <2>3, RowTypes, Rows DEF Live
    <3>2. \A p \in s[e].ends : p \in Person \ contested /\ e \in EdgesOf(s, p)
      BY <2>3, <3>1, LiveIs
    <3>3. s[e].ends \subseteq People(s)
      BY <2>2, <3>2 DEF Sound
    <3> QED
      BY <2>1, <3>1, <3>3 DEF Known
  <2>4. ASSUME NEW f \in Milestone, Live(s[f])
        PROVE  IF s[f].bearer \in Person THEN s[f].bearer \in People(s) \cup contested
               ELSE Live(s[s[f].bearer]) \/ s[f].bearer \in pruned \/ s[s[f].bearer].ends \cap contested # {}
    <3>1. s[f] # None /\ ~s[f].gone /\ s[f].bearer \in Person \cup Edge
      BY <2>1, <2>4, RowTypes, Rows DEF Live
    <3>2. CASE s[f].bearer \in Person
      <4>1. f \in FactsOn(s, s[f].bearer)
        BY <3>1, LiveIs
      <4> QED
        BY <3>2, <4>1, <2>2 DEF Sound
    <3>3. CASE s[f].bearer \in Edge
      <4>1. PICK w \in Person : w \in s[s[f].bearer].ends
        BY <3>1, <3>3, <2>1, AboutOf
      <4>2. CASE w \in contested
        BY <3>3, <4>1, <4>2, Tables
      <4>3. CASE w \notin contested
        BY <3>3, <4>1, <4>3, <2>2, <2>4, Tables DEF Sound
      <4> QED
        BY <4>2, <4>3
    <3> QED
      BY <3>1, <3>2, <3>3
  <2> QED
    BY <2>3, <2>4 DEF s
<1> QED
  BY <1>1, PeopleInductive, PTL

\* Nobody who is only a name on a page loses that page, gains a second or
\* bears a milestone, whichever device does what (entity-service.ts
\* attachedUnpublished and publishIfUnpublished).
THEOREM OneAnchorHolds ==
  PeopleSpec => []OneAnchor
<1>1. PeopleInvariant => OneAnchor
  <2> SUFFICES ASSUME PeopleInvariant, NEW d \in Devices, NEW p \in Here(d, {Named}) \ (contested \cup chained)
               PROVE  (\E e \in Edge : EdgesOf(store[d], p) = {e}) /\ FactsOn(store[d], p) = {}
    BY DEF OneAnchor
  <2>1. p \in People(store[d]) /\ store[d][p].standing = Named /\ d \in Holder
    BY DEF Here, Devices
  <2>2. Anchored(store[d], p, contested)
    BY <2>1, LiveIs DEF PeopleInvariant, Anchors
  <2> QED
    BY <2>1, <2>2 DEF Anchored
<1> QED
  BY <1>1, PeopleInductive, PTL

\* Devices that end the same relationship apart leave one copy of its milestone
\* on each timeline, and not the milestone (relationship-service.ts
\* copyToBearer, whose id is derived from the two).
THEOREM CopiesCoincideHolds ==
  PeopleSpec => []CopiesCoincide
<1>1. PeopleInvariant => CopiesCoincide
  <2> SUFFICES ASSUME PeopleInvariant, NEW d \in Devices, NEW p \in People(store[d]) \ survivors,
                      NEW f \in ShownOn(store[d], p), NEW g \in ShownOn(store[d], p),
                      Original(f) = Original(g), Original(f) \notin revived
               PROVE  f = g
    BY DEF CopiesCoincide
  <2> DEFINE s == store[d]
  <2>1. s \in Store /\ Known(s) /\ d \in Holder
    BY RootedIs DEF PeopleInvariant
  <2>2. \A c \in Copy : s[c] # None =>
           /\ s[c].bearer \in {c[2]} \cup survivors
           /\ c[1] \notin revived => s[c[1]].gone
    BY <2>1 DEF PeopleInvariant, Copies, Once
  <2>3. \A x \in ShownOn(s, p) : /\ x \in Milestone /\ s[x] # None /\ ~s[x].gone
                                 /\ s[x].bearer = p \/ s[x].bearer \in Edge
    BY LiveIs DEF ShownOn
  <2> HIDE DEF s
  <2>4. f \in ShownOn(s, p) /\ g \in ShownOn(s, p)
    BY DEF s
  <2>5. ASSUME NEW c \in ShownOn(s, p), c \in Copy PROVE c = <<c[1], p>>
    <3>1. s[c].bearer \in Person /\ s[c].bearer = p
      BY <2>1, <2>3, <2>5, Tables DEF Known
    <3>2. c[2] = p
      BY <3>1, <2>2, <2>3, <2>5
    <3> QED
      BY <3>2, <2>5 DEF Copy
  <2>6. ASSUME NEW a \in ShownOn(s, p), NEW c \in ShownOn(s, p), a \in Fact, c \in Copy,
               a = c[1], a \notin revived
        PROVE  FALSE
    BY <2>2, <2>3, <2>6
  <2>7. (f \in Fact \/ f \in Copy) /\ (g \in Fact \/ g \in Copy)
    BY <2>3, <2>4, Tables
  <2>8. \A x \in Copy : x \notin Fact
    BY Tables
  <2> QED
    BY <2>4, <2>5, <2>6, <2>7, <2>8 DEF Original
<1> QED
  BY <1>1, PeopleInductive, PTL

\* The invariant of timelines stays, whatever the devices do and whenever they
\* sync: what is on a person's timeline on one is on it, or on that of whom they
\* were merged into, wherever as much has been seen (core/src/index.ts
\* mergePeople, relationship-service.ts softDelete).
THEOREM TimelineInductive ==
  PeopleSpec => []TimelineInvariant
<1>1. PeopleInit => TimelineInvariant
  BY FirstTimelines
<1>2. TimelineInvariant /\ PeopleInvariant' /\ [PeopleNext]_peopleVars => TimelineInvariant'
  <2> SUFFICES ASSUME TimelineInvariant, PeopleInvariant', [PeopleNext]_peopleVars PROVE TimelineInvariant'
    OBVIOUS
  <2>1. CASE UNCHANGED peopleVars
    <3>1. UNCHANGED <<store, seen, heir, contested, pruned>>
      BY <2>1 DEF peopleVars, history, merges
    <3>2. Departed' /\ Settled' /\ Heirs' /\ Inherited'
      BY <3>1 DEF TimelineInvariant, Departed, Settled, Heirs, Inherited
    <3>3. CopiesStay' /\ Onward'
      BY <3>1 DEF TimelineInvariant, CopiesStay, Onward
    <3> QED
      BY <3>2, <3>3 DEF TimelineInvariant
  <2>2. ASSUME NEW d \in Devices, Sync(d) PROVE TimelineInvariant'
    BY <2>2, SyncRemovals, SyncCopies, SyncOnward DEF TimelineInvariant
  <2>3. ASSUME NEW d \in Devices, Operate(d) PROVE TimelineInvariant'
    <3>1. PICK t : Transaction(d, t)
      BY <2>3, OperateStep DEF TimelineInvariant, PeopleInvariant
    <3>2. Departed' /\ Settled' /\ Heirs' /\ Inherited'
      BY <3>1, OperateDeparted, OperateSettled, OperateHeirs, OperateInherited DEF TimelineInvariant
    <3>3. CopiesStay' /\ Onward'
      BY <3>1, OperateCopies, OperateOnward DEF TimelineInvariant
    <3> QED
      BY <3>2, <3>3 DEF TimelineInvariant
  <2> QED
    BY <2>1, <2>2, <2>3 DEF PeopleNext
<1> QED
  BY <1>1, <1>2, PeopleInductive, PTL DEF PeopleSpec

\* What is carried is kept.
LEMMA CarriedKept ==
  ASSUME NEW d \in Devices, NEW p \in People(store[d]),
         LET q == IF p \in People(store'[d]) THEN p ELSE heir'[p]
         IN  q \in People(store'[d]) \ contested' => Carried(store[d], p, store'[d], q, pruned')
  PROVE  TimelineKept(d, p)
<1> DEFINE q == IF p \in People(store'[d]) THEN p ELSE heir'[p]
<1>1. CASE q \notin People(store'[d]) \ contested'
  <2>1. \A f \in Timeline(store[d], p) : f \in Fact
    <3>1. \A f \in Milestone : Original(f) \in Fact
      BY Tables DEF Original, Copy
    <3> QED
      BY <3>1, ShownIs DEF Timeline
  <2> QED
    BY <1>1, <2>1 DEF TimelineKept
<1>2. CASE q \in People(store'[d]) \ contested'
  <2>1. Carried(store[d], p, store'[d], q, pruned')
    BY <1>2
  <2> HIDE DEF q
  <2>2. \A f \in Timeline(store[d], p) \ Timeline(store'[d], q) :
           \E e \in pruned' : Live(store'[d][f]) /\ store'[d][f].bearer = e
    BY <2>1 DEF Carried, Stranded
  <2> QED
    BY <1>2, <2>2 DEF TimelineKept, q
<1> QED
  BY <1>1, <1>2

\* On every device a milestone on an undisputed person's timeline stays on it,
\* or goes with them to the timeline of whom they are merged into, through
\* whatever that device does and whatever a sync brings it, but for those left
\* on a relationship a merge removed (relationship-service.ts softDelete and
\* repointEntity, entity-service.ts handOverSharedMilestones).
THEOREM FactsKeptHolds ==
  PeopleSpec => FactsKept
<1>1. ASSUME TimelineInvariant, [PeopleNext]_peopleVars
      PROVE  \A d \in Devices : store'[d] # store[d] =>
                \A p \in People(store[d]) \ contested' : TimelineKept(d, p)
  <2> SUFFICES ASSUME NEW d \in Devices, store'[d] # store[d], NEW p \in People(store[d]) \ contested'
               PROVE  TimelineKept(d, p)
    OBVIOUS
  <2> USE <1>1
  <2> DEFINE q == IF p \in People(store'[d]) THEN p ELSE heir'[p]
  <2>0. /\ PeopleInvariant /\ Rooted /\ Departed /\ Heirs /\ CopiesStay
        /\ d \in Holder /\ p \in Person /\ heir \in [Person -> Person]
    BY RootedIs, LiveIs DEF TimelineInvariant, PeopleInvariant
  <2> SUFFICES ASSUME q \in People(store'[d]) \ contested'
               PROVE  Carried(store[d], p, store'[d], q, pruned')
    BY CarriedKept
  <2>1. ASSUME NEW e \in Devices, Sync(e) PROVE Carried(store[d], p, store'[d], q, pruned')
    <3>1. contested' = contested /\ heir' = heir /\ pruned' = pruned
      BY <2>0, <2>1, SyncIs
    <3>2. /\ p \in People(store'[d]) /\ seen'[d][p] >= seen[d][p] =>
                Carried(store[d], p, store'[d], p, pruned)
          /\ Gone(store'[d], p) /\ heir[p] \in People(store'[d]) \ contested =>
                Carried(store[d], p, store'[d], heir[p], pruned)
      BY <2>0, <2>1, <3>1, SyncCarries
    <3>3. seen'[d][p] >= seen[d][p] /\ store'[d][p] # None
      <4>1. PICK k \in Holder : seen'[d][p] = seen[k][p] /\ seen[k][p] >= seen[d][p]
        BY <2>0, <2>1, <3>1, SyncFrom
      <4>2. store'[d][p] # None
        BY <2>0, <2>1, SyncIs, LiveIs, Tables
      <4> QED
        BY <4>1, <4>2
    <3> QED
      BY <2>0, <3>1, <3>2, <3>3, LiveOrGone
  <2>2. ASSUME NEW e \in Devices, Operate(e) PROVE Carried(store[d], p, store'[d], q, pruned')
    <3>1. PICK t : Transaction(e, t)
      BY <2>0, <2>2, OperateStep
    <3>2. e = d /\ store'[d] = t /\ p \notin contested
          /\ \/ contested' = contested /\ ~Outrun(d, t)
             \/ contested' = contested \cup Changed(store[d], t) \cup InTransit
      BY <2>0, <3>1, TransactionIs
    <3>3. Transaction(d, t) /\ Conveys(store[d], t)
      BY <3>1, <3>2 DEF Transaction
    <3>4. CASE p \in People(t)
      <4>1. Keeps(store[d], p)
        BY <2>0, <3>2 DEF CopiesStay
      <4> QED
        BY <4>1, <3>2, <3>3, <3>4 DEF Conveys
    <3>5. CASE p \notin People(t) /\ heir'[p] # heir[p]
      BY <2>0, <3>2, <3>3, <3>5 DEF Conveys
    <3>6. CASE p \notin People(t) /\ heir'[p] = heir[p]
      <4>1. p \in Changed(store[d], t)
        <5>1. p \notin Changed(store[d], t) => t[p] = store[d][p]
          BY <2>0, <3>3, OperateSame
        <5> QED
          BY <5>1, <2>0, <3>6, LiveIs
      <4>2. contested' = contested /\ ~Outrun(d, t)
        BY <4>1, <3>2
      <4>3. heir[p] # p
        BY <3>2, <3>6
      <4> QED
        BY <4>1, <4>2, <4>3, <2>0, <3>2, <3>3, OperateHeir
    <3> QED
      BY <3>4, <3>5, <3>6
  <2>3. CASE UNCHANGED peopleVars
    BY <2>3 DEF peopleVars
  <2> QED
    BY <2>1, <2>2, <2>3 DEF PeopleNext
<1> QED
  BY <1>1, TimelineInductive, PTL DEF PeopleSpec, FactsKept

-----------------------------------------------------------------------------
(* Relay: the invariant.                                                   *)

\* A run's call is a push until it is applied, and an idle run holds no
\* session.
RunShape ==
    \A d \in Device :
        /\ run[d].at = "body" => run[d].call = "push"
        /\ run[d].call = "push" => run[d].applied = 0
        /\ run[d].applied <= 1
        /\ run[d].at = "idle" => live[d] = 0

\* No time has passed since a credential that is current, or still to come,
\* was replaced.
NotRetired == \A c \in Credential : c >= verifier => retired[c] = 0

\* A door about to be sealed is sealed with the password of the account row.
SealPaired == \A d \in Device : flow[d].at = "seal" => cred[d] = flow[d].typed

\* The inductive invariant.
RelayInv ==
    /\ TypeOK /\ RunShape /\ NotRetired /\ SessionsAge
    /\ SealPaired /\ DoorPaired

LEMMA Bounds ==
  /\ TTL \in Nat /\ TTL > 0 /\ Early \in Nat /\ Window \in Nat /\ Window > 0
  /\ MaxResets \in Nat /\ MaxFaults \in Nat
  /\ Lives \subseteq Nat /\ NoHandle \notin Handle
BY RelayAssumption DEF RelayAssumption

USE Bounds DEF relay, meter, local, Credential

\* The records of an idle flow and an idle run have their types.
LEMMA IdleType == NoFlow \in Flows /\ NoRun \in Runs
BY DEF NoFlow, NoRun, Flows, Runs

LEMMA RInit == Init => RelayInv
<1> SUFFICES ASSUME Init PROVE RelayInv
  OBVIOUS
<1>1. /\ verifier = 0 /\ 0 \in Credential /\ 0 \in 0 .. TTL
      /\ hits \in Meters /\ door \in [Device -> Doors]
  BY DEF Init, Meters, Doors
<1>2. TypeOK
  BY <1>1, IdleType DEF Init, TypeOK, NoFlow
<1>3. RunShape /\ NotRetired /\ SessionsAge /\ SealPaired /\ DoorPaired
  BY DEF Init, RunShape, NotRetired, SessionsAge, SealPaired, DoorPaired,
         NoFlow, NoRun
<1> QED
  BY <1>2, <1>3 DEF RelayInv

\* The fields of a run, a flow and a meter have their types.
LEMMA FieldTypes ==
  ASSUME TypeOK, NEW d \in Device
  PROVE /\ run[d] \in Runs /\ run[d].using \in Credential
        /\ run[d].held \in Nat /\ run[d].applied \in Nat
        /\ flow[d] \in Flows /\ flow[d].typed \in Credential
        /\ live[d] \in 0 .. TTL /\ hits.count \in Nat /\ hits.left \in 0 .. Window
<1>1. run[d] \in Runs /\ flow[d] \in Flows /\ live[d] \in 0 .. TTL
      /\ hits \in Meters
  BY DEF TypeOK
<1> QED
  BY <1>1 DEF Runs, Flows, Meters

\* A spent fault leaves a bounded number of them.
LEMMA FaultType ==
  ASSUME TypeOK, Fault \/ UNCHANGED faults
  PROVE faults' \in 0 .. MaxFaults
BY DEF TypeOK, Fault

\* A run, or a flow, that is replaced by a typed one leaves the others typed.
LEMMA RunUpdate ==
  ASSUME TypeOK, NEW d \in Device, NEW r \in Runs, run' = [run EXCEPT ![d] = r]
  PROVE /\ run' \in [Device -> Runs] /\ run'[d] = r
        /\ \A e \in Device \ {d} : run'[e] = run[e]
BY DEF TypeOK

LEMMA FlowUpdate ==
  ASSUME TypeOK, NEW d \in Device, NEW f \in Flows, flow' = [flow EXCEPT ![d] = f],
         f.at \in {"granted", "seal"} => f.salt = f.typed
  PROVE /\ flow' \in [Device -> Flows] /\ flow'[d] = f
        /\ \A e \in Device \ {d} : flow'[e] = flow[e]
        /\ \A e \in Device : flow'[e].at \in {"granted", "seal"}
                               => flow'[e].salt = flow'[e].typed
BY DEF TypeOK

\* The relay's counters keep their types.
LEMMA ChargeType ==
  ASSUME TypeOK, Charge
  PROVE /\ hits' \in Meters
        /\ guesses' \in [1 .. Window -> Nat]
<1>1. hits' \in Meters
  <2>1. CASE hits.left = 0
    BY <2>1 DEF TypeOK, Charge, Meters
  <2>2. CASE hits.left # 0
    <3>1. hits \in Meters
      BY DEF TypeOK
    <3>3. [hits EXCEPT !.count = @ + 1] \in Meters
      BY <3>1 DEF Meters
    <3> QED
      BY <2>2, <3>1, <3>3 DEF Charge
  <2> QED
    BY <2>1, <2>2
<1>2. guesses' \in [1 .. Window -> Nat]
  <2>1. \A i \in 1 .. Window : guesses[i] \in Nat /\ guesses[i] + 1 \in Nat
    BY DEF TypeOK
  <2> QED
    BY <2>1 DEF Charge
<1> QED
  BY <1>1, <1>2

LEMMA TickNext == RelayInv /\ Tick => RelayInv'
<1> SUFFICES ASSUME RelayInv, Tick PROVE RelayInv'
  OBVIOUS
<1> USE DEF RelayInv
<1>1. /\ live' = [d \in Device |-> Less(live[d])]
      /\ run' = [d \in Device |-> [run[d] EXCEPT !.held = Less(@)]]
      /\ hits' = [hits EXCEPT !.left = Less(@)]
      /\ guesses' = [i \in 1 .. Window |-> IF i = 1 THEN 0 ELSE guesses[i - 1]]
      /\ retired' = [c \in Credential |->
                       IF c < verifier /\ retired[c] < TTL THEN retired[c] + 1
                                                           ELSE retired[c]]
      /\ UNCHANGED <<verifier, named, bound, cred, door, flow, asks>>
      /\ faults' \in 0 .. MaxFaults
  BY DEF Tick, Fault, TypeOK
<1>2. TypeOK'
  <2>1. live' \in [Device -> 0 .. TTL]
    BY <1>1 DEF TypeOK, Less
  <2>2. run' \in [Device ->
                   Runs]
    <3>1. \A d \in Device : [run[d] EXCEPT !.held = Less(@)] \in Runs
      <4> TAKE d \in Device
      <4>1. run[d] \in Runs /\ Less(run[d].held) \in Nat
        BY FieldTypes DEF Less
      <4> QED
        BY <4>1 DEF Runs
    <3> QED
      BY <1>1, <3>1
  <2>3. hits' \in Meters
    <3>1. hits \in Meters /\ Less(hits.left) \in 0 .. Window
      BY DEF TypeOK, Meters, Less
    <3> QED
      BY <1>1, <3>1 DEF Meters
  <2>4. guesses' \in [1 .. Window -> Nat]
    BY <1>1 DEF TypeOK
  <2>5. retired' \in [Credential -> 0 .. TTL]
    BY <1>1 DEF TypeOK
  <2> QED
    BY <1>1, <2>1, <2>2, <2>3, <2>4, <2>5 DEF TypeOK
<1>3. RunShape'
  <2> SUFFICES ASSUME NEW d \in Device
               PROVE /\ run'[d].at = "body" => run'[d].call = "push"
                     /\ run'[d].call = "push" => run'[d].applied = 0
                     /\ run'[d].applied <= 1
                     /\ run'[d].at = "idle" => live'[d] = 0
    BY DEF RunShape
  <2>1. run[d] \in Runs /\ run'[d] = [run[d] EXCEPT !.held = Less(@)]
    BY <1>1, FieldTypes
  <2>2. /\ run'[d].at = run[d].at /\ run'[d].call = run[d].call
        /\ run'[d].applied = run[d].applied
    BY <2>1 DEF Runs
  <2>3. live[d] = 0 => live'[d] = 0
    BY <1>1 DEF Less
  <2> QED
    BY <2>2, <2>3 DEF RunShape
<1>4. NotRetired'
  BY <1>1 DEF NotRetired, TypeOK
<1>5. SessionsAge'
  <2> SUFFICES ASSUME NEW d \in Device, live'[d] > 0,
                      run'[d].using # verifier'
               PROVE retired'[run'[d].using] + live'[d] <= TTL
    BY DEF SessionsAge
  <2>1. run'[d].using = run[d].using /\ run[d].using \in Credential
    <3>1. run[d] \in Runs /\ run'[d] = [run[d] EXCEPT !.held = Less(@)]
      BY <1>1, FieldTypes
    <3> QED
      BY <3>1 DEF Runs
  <2>2. live[d] > 0 /\ live'[d] = live[d] - 1 /\ live[d] \in Nat
    BY <1>1 DEF TypeOK, Less
  <2>3. retired[run[d].using] + live[d] <= TTL
    BY <1>1, <2>1, <2>2 DEF SessionsAge
  <2>4. /\ retired'[run[d].using] <= retired[run[d].using] + 1
        /\ retired'[run[d].using] \in Nat /\ retired[run[d].using] \in Nat
    <3>1. \A c \in Credential : retired[c] \in 0 .. TTL
      BY DEF TypeOK
    <3> DEFINE c == run[d].using
    <3>2. retired'[c] = IF c < verifier /\ retired[c] < TTL THEN retired[c] + 1 ELSE retired[c]
      BY <1>1, <2>1
    <3>3. c \in Credential
      BY <2>1
    <3> HIDE DEF c
    <3>4. retired[c] \in 0 .. TTL
      BY <3>1, <3>3
    <3> QED
      BY <3>2, <3>4 DEF c
  <2> QED
    BY <2>1, <2>2, <2>3, <2>4
<1>6. SealPaired' /\ DoorPaired'
  BY <1>1 DEF SealPaired, DoorPaired
<1> QED
  BY <1>2, <1>3, <1>4, <1>5, <1>6

LEMMA RestartNext == RelayInv /\ Restart => RelayInv'
<1> SUFFICES ASSUME RelayInv, Restart PROVE RelayInv'
  OBVIOUS
<1> USE DEF RelayInv
<1>1. TypeOK'
  <2>1. /\ run' \in [Device ->
                   Runs]
    BY IdleType, Zenon DEF Restart, TypeOK
  <2>2. live' \in [Device -> 0 .. TTL] /\ hits' \in Meters
        /\ faults' \in 0 .. MaxFaults /\ guesses' \in [1 .. Window -> Nat]
    BY FaultType DEF Restart, Meters
  <2>3. asks' \in [Device -> BOOLEAN]
    BY Zenon DEF Restart
  <2> QED
    BY <2>1, <2>2, <2>3 DEF Restart, TypeOK
<1>2. RunShape' /\ NotRetired' /\ SessionsAge'
  BY DEF Restart, RunShape, NotRetired, SessionsAge, NoRun, TypeOK
<1>3. SealPaired' /\ DoorPaired'
  BY DEF Restart, SealPaired, DoorPaired
<1> QED
  BY <1>1, <1>2, <1>3

\* Binding, joining, recovering and re-authenticating leave runs alone.
LEMMA FlowNext ==
  ASSUME RelayInv, NEW d \in Device, 
         \/ \E h \in Handle, answered \in BOOLEAN : Bind(d, h, answered)
         \/ \E answered \in BOOLEAN : Recover(d, answered)
         \/ \E typed \in Credential : Prelogin(d, typed)
         \/ Take(d)
  PROVE RelayInv'
<1> USE DEF RelayInv
<1>1. ASSUME NEW h \in Handle, NEW answered \in BOOLEAN, Bind(d, h, answered)
      PROVE RelayInv'
  <2>1. TypeOK'
    <3>1. faults' \in 0 .. MaxFaults
      BY <1>1, FaultType DEF Bind
    <3>2. named' \in Handle \cup {NoHandle}
          /\ bound' \in [Device -> Handle \cup {NoHandle}]
      BY <1>1 DEF Bind, Registered, TypeOK
    <3> QED
      BY <1>1, <3>1, <3>2 DEF Bind, TypeOK
  <2>2. RunShape' /\ NotRetired' /\ SessionsAge' /\ SealPaired' /\ DoorPaired'
    BY <1>1 DEF Bind, RunShape, NotRetired, SessionsAge, SealPaired, DoorPaired
  <2> QED
    BY <2>1, <2>2
<1>2. ASSUME NEW answered \in BOOLEAN, Recover(d, answered) PROVE RelayInv'
  <2>1. verifier' = verifier + 1 /\ verifier' \in Credential
    BY <1>2 DEF Recover, TypeOK
  <2> DEFINE f == [at |-> "granted", typed |-> verifier', salt |-> verifier']
  <2>7. f \in Flows
    BY <2>1 DEF Flows
  <2>8. flow' = flow \/ flow' = [flow EXCEPT ![d] = f]
    BY <1>2 DEF Recover
  <2>2. TypeOK'
    <3>1. faults' \in 0 .. MaxFaults
      BY <1>2, FaultType DEF Recover
    <3>2. /\ flow' \in [Device -> Flows]
          /\ \A e \in Device : flow'[e].at \in {"granted", "seal"}
                                 => flow'[e].salt = flow'[e].typed
      BY <2>7, <2>8, FlowUpdate DEF TypeOK
    <3> QED
      BY <1>2, <2>1, <3>1, <3>2 DEF Recover, TypeOK
  <2>3. RunShape' /\ DoorPaired'
    BY <1>2 DEF Recover, RunShape, DoorPaired
  <2>4. NotRetired'
    BY <1>2, <2>1 DEF Recover, NotRetired, TypeOK
  <2>5. SessionsAge'
    <3> SUFFICES ASSUME NEW e \in Device, live[e] > 0
                 PROVE retired[run[e].using] + live[e] <= TTL
      BY <1>2 DEF Recover, SessionsAge
    <3>1. run[e].using \in Credential /\ live[e] \in 0 .. TTL
      BY FieldTypes
    <3>2. CASE run[e].using = verifier
      BY <3>1, <3>2 DEF NotRetired, TypeOK
    <3> QED
      BY <3>1, <3>2 DEF SessionsAge
  <2>6. SealPaired'
    <3>1. \A e \in Device : flow'[e] = flow[e] \/ flow'[e].at # "seal"
      BY <2>7, <2>8, FlowUpdate
    <3> QED
      BY <1>2, <3>1 DEF Recover, SealPaired
  <2> QED
    BY <2>2, <2>3, <2>4, <2>5, <2>6
<1>3. ASSUME NEW typed \in Credential, Prelogin(d, typed) PROVE RelayInv'
  <2> DEFINE f == [at |-> "looked", typed |-> typed,
                   salt |-> IF bound[d] \in Taken THEN Foreign ELSE verifier]
  <2>4. f \in Flows
    BY DEF Flows, TypeOK
  <2>5. flow' = [flow EXCEPT ![d] = f]
    BY <1>3 DEF Prelogin
  <2>1. TypeOK'
    <3>1. faults' \in 0 .. MaxFaults
      BY <1>3, FaultType DEF Prelogin
    <3>2. /\ flow' \in [Device -> Flows]
          /\ \A e \in Device : flow'[e].at \in {"granted", "seal"}
                                 => flow'[e].salt = flow'[e].typed
      BY <2>4, <2>5, FlowUpdate
    <3> QED
      BY <1>3, <3>1, <3>2 DEF Prelogin, TypeOK
  <2>2. RunShape' /\ NotRetired' /\ SessionsAge' /\ DoorPaired'
    BY <1>3 DEF Prelogin, RunShape, NotRetired, SessionsAge, DoorPaired
  <2>3. SealPaired'
    <3>1. \A e \in Device : flow'[e] = flow[e] \/ flow'[e].at # "seal"
      BY <2>4, <2>5, FlowUpdate
    <3> QED
      BY <1>3, <3>1 DEF Prelogin, SealPaired
  <2> QED
    BY <2>1, <2>2, <2>3
<1>4. CASE Bootstrap(d)
  <2> DEFINE f == IF Authenticates(flow[d].typed, flow[d].salt)
                    THEN [flow[d] EXCEPT !.at = "granted"] ELSE NoFlow
  <2>4. f \in Flows /\ f.at # "seal"
        /\ (f.at \in {"granted", "seal"} => f.salt = f.typed)
    BY FieldTypes, IdleType DEF Flows, Authenticates, NoFlow
  <2>5. flow' = [flow EXCEPT ![d] = f]
    BY <1>4 DEF Bootstrap
  <2>1. TypeOK'
    <3>1. /\ hits' \in Meters
          /\ guesses' \in [1 .. Window -> Nat]
      BY <1>4, ChargeType DEF Bootstrap, TypeOK
    <3>2. /\ flow' \in [Device ->
                   Flows]
          /\ \A e \in Device : flow'[e].at \in {"granted", "seal"}
                                 => flow'[e].salt = flow'[e].typed
      BY <2>4, <2>5, FlowUpdate
    <3> QED
      BY <1>4, <3>1, <3>2 DEF Bootstrap, TypeOK
  <2>2. RunShape' /\ NotRetired' /\ SessionsAge' /\ DoorPaired'
    BY <1>4 DEF Bootstrap, RunShape, NotRetired, SessionsAge, DoorPaired
  <2>3. SealPaired'
    <3>1. \A e \in Device : flow'[e] = flow[e] \/ flow'[e].at # "seal"
      BY <2>4, <2>5, FlowUpdate
    <3> QED
      BY <1>4, <3>1 DEF Bootstrap, SealPaired
  <2> QED
    BY <2>1, <2>2, <2>3
<1>5. CASE Adopt(d)
  <2>1. flow[d].salt = flow[d].typed /\ flow[d].typed \in Credential
    BY <1>5, FieldTypes DEF Adopt, TypeOK
  <2> DEFINE f == [flow[d] EXCEPT !.at = "seal"]
  <2>5. f \in Flows /\ f.salt = f.typed /\ f.typed = flow[d].typed
    BY <2>1, FieldTypes DEF Flows
  <2>6. flow' = [flow EXCEPT ![d] = f]
    BY <1>5 DEF Adopt
  <2>7. /\ flow' \in [Device -> Flows] /\ flow'[d] = f
        /\ \A e \in Device \ {d} : flow'[e] = flow[e]
        /\ \A e \in Device : flow'[e].at \in {"granted", "seal"}
                               => flow'[e].salt = flow'[e].typed
    BY <2>5, <2>6, FlowUpdate
  <2>2. TypeOK'
    BY <1>5, <2>1, <2>7 DEF Adopt, TypeOK
  <2>3. RunShape' /\ NotRetired' /\ SessionsAge' /\ DoorPaired'
    BY <1>5 DEF Adopt, RunShape, NotRetired, SessionsAge, DoorPaired
  <2>4. SealPaired'
    BY <1>5, <2>1, <2>5, <2>7 DEF Adopt, SealPaired, TypeOK
  <2> QED
    BY <2>2, <2>3, <2>4
<1>6. CASE Seal(d)
  <2>4. flow' = [flow EXCEPT ![d] = NoFlow] /\ NoFlow.at = "idle"
    BY <1>6 DEF Seal, NoFlow
  <2>5. door' \in [Device -> Doors]
    <3>1. [password |-> flow[d].typed, salt |-> cred[d]] \in Doors
      BY FieldTypes DEF TypeOK, Doors
    <3> QED
      BY <1>6, <3>1 DEF Seal, TypeOK
  <2>6. /\ flow' \in [Device -> Flows]
        /\ \A e \in Device : flow'[e].at \in {"granted", "seal"}
                               => flow'[e].salt = flow'[e].typed
    BY <2>4, IdleType, FlowUpdate
  <2>1. TypeOK'
    BY <1>6, <2>5, <2>6 DEF Seal, TypeOK
  <2>2. RunShape' /\ NotRetired' /\ SessionsAge'
    BY <1>6 DEF Seal, RunShape, NotRetired, SessionsAge
  <2>3. SealPaired' /\ DoorPaired'
    BY <1>6 DEF Seal, SealPaired, DoorPaired, TypeOK, NoFlow
  <2> QED
    BY <2>1, <2>2, <2>3
<1> QED
  BY <1>1, <1>2, <1>3, <1>4, <1>5, <1>6 DEF Take

\* A run leaves the account, the local rows and the doors alone.
\* A run that goes on, on the credential it began with, keeps what runs keep.
LEMMA Carry ==
  ASSUME RelayInv, NEW d \in Device, NEW r \in Runs,
         run' = [run EXCEPT ![d] = r],
         live' = live \/ (live' = [live EXCEPT ![d] = TTL]
                            /\ run[d].using = verifier),
         UNCHANGED <<relay, local, flow, faults, retired, meter, asks>>,
         r.using = run[d].using, r.at # "idle", r.applied <= 1,
         r.at = "body" => r.call = "push",
         r.call = "push" => r.applied = 0
  PROVE RelayInv'
<1> USE DEF RelayInv
<1>1. /\ run' \in [Device -> Runs] /\ run'[d] = r
      /\ \A e \in Device \ {d} : run'[e] = run[e]
  BY RunUpdate
<1>2. /\ live' \in [Device -> 0 .. TTL]
      /\ \A e \in Device \ {d} : live'[e] = live[e]
      /\ live'[d] = live[d] \/ run[d].using = verifier
  BY DEF TypeOK
<1>3. TypeOK'
  BY <1>1, <1>2 DEF TypeOK
<1>4. RunShape' /\ NotRetired'
  BY <1>1, <1>2 DEF RunShape, NotRetired
<1>5. SessionsAge'
  BY <1>1, <1>2 DEF SessionsAge
<1>6. SealPaired' /\ DoorPaired'
  BY DEF SealPaired, DoorPaired
<1> QED
  BY <1>3, <1>4, <1>5, <1>6

LEMMA RunNext ==
  ASSUME RelayInv, NEW d \in Device,
         StartRun(d) \/ Step(d) \/ Lose(d) \/ Kill(d)
  PROVE RelayInv'
<1> USE DEF RelayInv
<1>1. CASE StartRun(d)
  <2>5. [NoRun EXCEPT !.at = "login", !.using = cred[d]] \in Runs
    BY DEF NoRun, Runs, TypeOK
  <2>6. run' = [run EXCEPT ![d] = [NoRun EXCEPT !.at = "login", !.using = cred[d]]]
    BY <1>1 DEF StartRun
  <2>7. run' \in [Device -> Runs]
    BY <2>5, <2>6, RunUpdate
  <2>1. TypeOK'
    BY <1>1, <2>7 DEF StartRun, TypeOK
  <2>2. RunShape' /\ NotRetired'
    BY <1>1 DEF StartRun, RunShape, NotRetired, TypeOK, NoRun
  <2>3. SessionsAge'
    BY <1>1 DEF StartRun, SessionsAge, RunShape, TypeOK, NoRun
  <2>4. SealPaired' /\ DoorPaired'
    BY <1>1 DEF StartRun, SealPaired, DoorPaired
  <2> QED
    BY <2>1, <2>2, <2>3, <2>4
<1>2. ASSUME NEW unauthorized \in BOOLEAN, Ended(d, unauthorized),
             UNCHANGED <<verifier, named, bound, cred, door, retired>>,
             faults' \in 0 .. MaxFaults,
             flow' = flow \/ flow' = [flow EXCEPT ![d] = NoFlow],
             /\ hits' \in Meters
             /\ guesses' \in [1 .. Window -> Nat]
      PROVE RelayInv'
  <2>5. run' \in [Device -> Runs] /\ live' \in [Device -> 0 .. TTL]
    BY <1>2, IdleType DEF Ended, TypeOK
  <2>6. asks' \in [Device -> BOOLEAN]
    BY <1>2, Zenon DEF Ended, TypeOK
  <2>7. /\ flow' \in [Device -> Flows]
        /\ \A e \in Device : flow'[e].at \in {"granted", "seal"}
                               => flow'[e].salt = flow'[e].typed
        /\ \A e \in Device : flow'[e] = flow[e] \/ flow'[e].at = "idle"
    <3>1. CASE flow' = flow
      BY <3>1 DEF TypeOK
    <3>2. CASE flow' = [flow EXCEPT ![d] = NoFlow]
      <4>1. NoFlow.at = "idle"
        BY DEF NoFlow
      <4> QED
        BY <3>2, <4>1, IdleType, FlowUpdate
    <3> QED
      BY <1>2, <3>1, <3>2
  <2>1. TypeOK'
    BY <1>2, <2>5, <2>6, <2>7 DEF TypeOK
  <2>2. RunShape' /\ NotRetired'
    BY <1>2 DEF Ended, RunShape, NotRetired, TypeOK, NoRun
  <2>3. SessionsAge'
    <3>1. live'[d] = 0 /\ \A e \in Device \ {d} : live'[e] = live[e] /\ run'[e] = run[e]
      BY <1>2 DEF Ended, TypeOK
    <3>2. retired' = retired /\ verifier' = verifier
      BY <1>2
    <3> QED
      BY <3>1, <3>2 DEF SessionsAge
  <2>4. SealPaired' /\ DoorPaired'
    BY <1>2, <2>7 DEF SealPaired, DoorPaired
  <2> QED
    BY <2>1, <2>2, <2>3, <2>4
<1>3. CASE Login(d)
  <2>1. CASE Authenticates(run[d].using, run[d].using)
    <3>1. PICK life \in Lives :
            run' = [run EXCEPT ![d].at = "send", ![d].held = life]
      BY <1>3, <2>1 DEF Login
    <3> DEFINE r == [run[d] EXCEPT !.at = "send", !.held = life]
    <3>2. run[d].using = verifier /\ life \in Nat
      BY <2>1 DEF Authenticates
    <3>3. /\ live' = [live EXCEPT ![d] = TTL] /\ run[d].at = "login"
          /\ UNCHANGED <<relay, local, flow, faults, retired, meter, asks>>
      BY <1>3, <2>1 DEF Login, Mint
    <3>4. /\ r \in Runs /\ r.using = run[d].using /\ r.at = "send"
          /\ r.call = run[d].call /\ r.applied = run[d].applied
      BY <3>2, FieldTypes DEF Runs
    <3>5. r.applied <= 1 /\ (r.call = "push" => r.applied = 0)
      BY <3>4 DEF RunShape
    <3>6. run' = [run EXCEPT ![d] = r]
      BY <3>1
    <3> HIDE DEF r
    <3> QED
      BY <3>2, <3>3, <3>4, <3>5, <3>6, Carry
  <2>2. CASE ~Authenticates(run[d].using, run[d].using)
    <3>1. Ended(d, Allowed) /\ Charge /\ UNCHANGED flow
      BY <1>3, <2>2 DEF Login
    <3>2. Allowed \in BOOLEAN
      BY DEF Allowed
    <3>3. /\ UNCHANGED <<verifier, named, bound, cred, door, retired>>
          /\ faults' \in 0 .. MaxFaults
      BY <1>3 DEF Login, TypeOK
    <3> QED
      BY <1>2, <3>1, <3>2, <3>3, ChargeType
  <2> QED
    BY <2>1, <2>2
<1>4. CASE Send(d)
  <2>1. CASE Ended(d, FALSE) \/ Ended(d, TRUE)
    <3>1. /\ UNCHANGED <<verifier, named, bound, cred, door, retired, flow>>
          /\ faults' \in 0 .. MaxFaults
          /\ hits' \in Meters
          /\ guesses' \in [1 .. Window -> Nat]
      BY <1>4 DEF Send, TypeOK
    <3> QED
      BY <1>2, <2>1, <3>1
  <2>4. UNCHANGED <<relay, local, flow, faults, retired, meter>>
    BY <1>4 DEF Send
  <2>2. CASE live[d] > 0 /\ run[d].call = "push"
             /\ run' = [run EXCEPT ![d].at = "body"]
             /\ UNCHANGED <<live, asks>>
    <3> DEFINE r == [run[d] EXCEPT !.at = "body"]
    <3>1. /\ r \in Runs /\ r.using = run[d].using /\ r.at = "body"
          /\ r.call = run[d].call /\ r.applied = run[d].applied
      BY FieldTypes DEF Runs
    <3>2. r.call = "push" /\ r.applied <= 1 /\ r.applied = 0
      BY <2>2, <3>1 DEF RunShape
    <3>3. run' = [run EXCEPT ![d] = r]
      BY <2>2
    <3> HIDE DEF r
    <3> QED
      BY <2>2, <2>4, <3>1, <3>2, <3>3, Carry
  <2>3. CASE live[d] = 0
             /\ run' = [run EXCEPT ![d].at = "login", ![d].again = TRUE]
             /\ UNCHANGED <<live, asks>>
    <3> DEFINE r == [run[d] EXCEPT !.at = "login", !.again = TRUE]
    <3>1. /\ r \in Runs /\ r.using = run[d].using /\ r.at = "login"
          /\ r.call = run[d].call /\ r.applied = run[d].applied
      BY FieldTypes DEF Runs
    <3>2. r.applied <= 1 /\ (r.call = "push" => r.applied = 0)
      BY <3>1 DEF RunShape
    <3>3. run' = [run EXCEPT ![d] = r]
      BY <2>3
    <3> HIDE DEF r
    <3> QED
      BY <2>3, <2>4, <3>1, <3>2, <3>3, Carry
  <2> QED
    BY <1>4, <2>1, <2>2, <2>3 DEF Send
<1>5. CASE AppendBody(d)
  <2> DEFINE at == IF run[d].held > Early THEN "send" ELSE "login"
             n == run[d].applied + 1
             r == [run[d] EXCEPT !.at = at, !.call = "pull", !.again = FALSE,
                                 !.held = 0, !.applied = n]
  <2>1. /\ run[d].at = "body"
        /\ UNCHANGED <<relay, live, local, flow, faults, retired, meter, asks>>
    BY <1>5 DEF AppendBody
  <2>2. run[d].call = "push" /\ run[d].applied = 0
    BY <2>1 DEF RunShape
  <2>3. at \in {"send", "login"} /\ n = 1
    BY <2>2
  <2>4. run' = [run EXCEPT ![d] = r]
    BY <1>5 DEF AppendBody
  <2> HIDE DEF at, n
  <2>5. /\ r \in Runs /\ r.using = run[d].using /\ r.at = at
        /\ r.call = "pull" /\ r.applied = 1
    BY <2>3, FieldTypes DEF Runs
  <2> HIDE DEF r
  <2>6. r.at # "idle" /\ r.at # "body" /\ r.applied <= 1 /\ r.call # "push"
    BY <2>3, <2>5
  <2> QED
    BY <2>1, <2>4, <2>5, <2>6, Carry
<1>6. CASE Lose(d) \/ Kill(d)
  <2>1. /\ Ended(d, FALSE)
        /\ UNCHANGED <<verifier, named, bound, cred, door, retired>>
        /\ faults' \in 0 .. MaxFaults
        /\ flow' = flow \/ flow' = [flow EXCEPT ![d] = NoFlow]
        /\ hits' \in Meters
        /\ guesses' \in [1 .. Window -> Nat]
    <3>1. CASE Lose(d)
      BY <3>1, FaultType DEF Lose, TypeOK
    <3>2. CASE Kill(d)
      BY <3>2, FaultType DEF Kill, TypeOK
    <3> QED
      BY <1>6, <3>1, <3>2
  <2> QED
    BY <1>2, <2>1
<1> QED
  BY <1>1, <1>3, <1>4, <1>5, <1>6 DEF Step

LEMMA RNext == RelayInv /\ [Next]_vars => RelayInv'
<1> SUFFICES ASSUME RelayInv, [Next]_vars PROVE RelayInv'
  OBVIOUS
<1>1. CASE UNCHANGED vars
  BY <1>1 DEF vars, RelayInv, TypeOK, RunShape, NotRetired, SessionsAge,
              SealPaired, DoorPaired
<1> QED
  BY <1>1, TickNext, RestartNext, FlowNext, RunNext DEF Next

\* The inductive invariant holds in every reachable state.
THEOREM RelayInductive == Spec => []RelayInv
BY RInit, RNext, PTL DEF Spec

\* Type correctness.
THEOREM RelayTypeCorrect == Spec => []TypeOK
<1>1. RelayInv => TypeOK
  BY DEF RelayInv
<1> QED
  BY <1>1, RelayInductive, PTL

\* A session outlives the credential it was minted on by no more than the
\* rest of its own life.  (relay.ts mintSession, /accounts/reset.)
THEOREM SessionsExpire == Spec => []SessionsAge
<1>1. RelayInv => SessionsAge
  BY DEF RelayInv
<1> QED
  BY <1>1, RelayInductive, PTL

\* A push is applied at most once.  (http-transport.ts authed.)
THEOREM PushesApplyOnce == Spec => []PushedOnce
<1>1. RelayInv => PushedOnce
  BY DEF RelayInv, RunShape, PushedOnce
<1> QED
  BY <1>1, RelayInductive, PTL

\* Doors open with the password their salt was made for.  (sealPasswordDoor.)
THEOREM DoorsArePaired == Spec => []DoorPaired
<1>1. RelayInv => DoorPaired
  BY DEF RelayInv
<1> QED
  BY <1>1, RelayInductive, PTL

-----------------------------------------------------------------------------
(* Relay: the limiter.                                                     *)

\* The place in guesses of the tick the limiter's window opened in.
Opened == (Window - hits.left) + 1

\* An open window has let through no more than it is worth, one of them at its
\* opening; the ticks before it, as far back as they count, less than another:
\* they leave out what opened the window before.
Metered ==
    /\ \A i, j \in 1 .. Window : i <= j => guesses[i] <= guesses[j]
    /\ hits.left = 0 => guesses[1] = 0 /\ guesses[Window] < Worth
    /\ hits.left > 0 =>
          /\ guesses[Opened] <= hits.count /\ 0 < hits.count /\ hits.count <= Worth
          /\ Opened # 1 => guesses[Opened - 1] < hits.count
          /\ guesses[Window] < guesses[Opened] + Worth

\* What a meter is.
LEMMA MeterTypes ==
  ASSUME TypeOK
  PROVE  /\ \A i \in 1 .. Window : guesses[i] \in Nat
         /\ hits.count \in Nat /\ hits.left \in 0 .. Window
         /\ hits.left > 0 => Opened \in 1 .. Window
         /\ Worth \in Nat /\ 1 <= Worth /\ (1 <= Budget => Worth = Budget) /\ Budget \in Nat
<1>1. Budget \in Nat
  BY RelayAssumption
<1>2. hits.count \in Nat /\ hits.left \in 0 .. Window
  BY DEF TypeOK, Meters
<1>3. hits.left > 0 => Opened \in 1 .. Window
  BY <1>2 DEF Opened
<1>4. Worth \in Nat /\ 1 <= Worth /\ (1 <= Budget => Worth = Budget)
  BY <1>1 DEF Worth
<1> QED
  BY <1>1, <1>2, <1>3, <1>4 DEF TypeOK

\* A failed login counts in the window that lets it through.
LEMMA ChargeMetered ==
  ASSUME TypeOK, Metered, Charge
  PROVE  Metered'
<1>1. CASE ~Allowed
  <2>1. hits.left # 0 /\ hits' = hits
    BY <1>1 DEF Charge, Allowed
  <2>2. \A i \in 1 .. Window : guesses'[i] = guesses[i]
    BY <1>1 DEF Charge
  <2>3. /\ Opened' = Opened /\ Window \in 1 .. Window
        /\ hits.left > 0 => Opened \in 1 .. Window
        /\ hits.left > 0 /\ Opened # 1 => Opened - 1 \in 1 .. Window
    BY <2>1, MeterTypes DEF Opened
  <2> QED
    BY <2>1, <2>2, <2>3 DEF Metered
<1>2. CASE Allowed /\ hits.left = 0
  <2>1. hits'.count = 1 /\ hits'.left = Window
    BY <1>2 DEF Charge
  <2>2. \A i \in 1 .. Window : guesses'[i] = guesses[i] + 1
    BY <1>2 DEF Charge
  <2>3. Opened' = 1 /\ 1 \in 1 .. Window /\ Window \in 1 .. Window
    BY <2>1 DEF Opened
  <2>4. guesses[1] = 0 /\ guesses[Window] < Worth
    BY <1>2 DEF Metered
  <2>5. guesses'[1] = 1 /\ guesses'[Window] < Worth + 1
    BY <2>2, <2>3, <2>4, MeterTypes
  <2>6. \A i, j \in 1 .. Window : i <= j => guesses'[i] <= guesses'[j]
    BY <2>2, MeterTypes DEF Metered
  <2>7. guesses'[Window] < guesses'[1] + Worth /\ 1 <= Worth /\ guesses'[1] <= 1
    BY <2>3, <2>2, <2>5, MeterTypes
  <2> QED
    BY <2>1, <2>3, <2>6, <2>7 DEF Metered
<1>3. CASE Allowed /\ hits.left # 0
  <2>1. hits' = [hits EXCEPT !.count = @ + 1] /\ hits.count < Budget
    BY <1>3 DEF Charge, Allowed
  <2>2. hits'.count = hits.count + 1 /\ hits'.left = hits.left
    BY <2>1 DEF TypeOK, Meters
  <2>3. \A i \in 1 .. Window : guesses'[i] = guesses[i] + 1
    BY <1>3 DEF Charge
  <2>4. hits.left > 0 /\ Opened' = Opened /\ Opened \in 1 .. Window /\ Window \in 1 .. Window
    BY <1>3, <2>2, MeterTypes DEF Opened
  <2>5. \A i, j \in 1 .. Window : i <= j => guesses'[i] <= guesses'[j]
    BY <2>3, MeterTypes DEF Metered
  <2>6. guesses[Opened] <= hits.count /\ guesses[Window] < guesses[Opened] + Worth
    BY <2>4 DEF Metered
  <2>7. guesses'[Opened] <= hits'.count /\ guesses'[Window] < guesses'[Opened] + Worth
    BY <2>2, <2>3, <2>4, <2>6, MeterTypes
  <2>8. 0 < hits'.count /\ hits'.count <= Worth
    BY <2>1, <2>2, MeterTypes
  <2>9. ASSUME Opened # 1 PROVE guesses'[Opened - 1] < hits'.count
    <3>1. Opened - 1 \in 1 .. Window
      BY <2>4, <2>9
    <3>2. guesses[Opened - 1] < hits.count
      BY <2>4, <2>9 DEF Metered
    <3> QED
      BY <2>2, <2>3, <3>1, <3>2, MeterTypes
  <2> QED
    BY <2>2, <2>4, <2>5, <2>7, <2>8, <2>9 DEF Metered
<1> QED
  BY <1>1, <1>2, <1>3

\* A tick moves the window along, and closes it after its last.
LEMMA TickMetered ==
  ASSUME TypeOK, Metered, Tick
  PROVE  Metered'
<1>1. /\ hits' = [hits EXCEPT !.left = Less(@)]
      /\ guesses' = [i \in 1 .. Window |-> IF i = 1 THEN 0 ELSE guesses[i - 1]]
  BY DEF Tick
<1>2. hits'.count = hits.count /\ hits'.left = Less(hits.left)
  BY <1>1 DEF TypeOK, Meters
<1>3. /\ guesses'[1] = 0 /\ 1 \in 1 .. Window /\ Window \in 1 .. Window
      /\ \A i \in 1 .. Window : i # 1 => guesses'[i] = guesses[i - 1] /\ i - 1 \in 1 .. Window
  BY <1>1
<1>4. \A i, j \in 1 .. Window : i <= j => guesses'[i] <= guesses'[j]
  <2> SUFFICES ASSUME NEW i \in 1 .. Window, NEW j \in 1 .. Window, i <= j
               PROVE  guesses'[i] <= guesses'[j]
    OBVIOUS
  <2>1. CASE i = 1
    BY <1>3, <2>1, MeterTypes
  <2>2. CASE i # 1
    <3>1. j # 1 /\ i - 1 <= j - 1
      BY <2>2
    <3> QED
      BY <1>3, <2>2, <3>1 DEF Metered
  <2> QED
    BY <2>1, <2>2
<1>5. guesses'[Window] <= guesses[Window]
  <2>1. CASE Window = 1
    BY <1>3, <2>1, MeterTypes
  <2>2. CASE Window # 1
    <3>1. Window - 1 <= Window
      OBVIOUS
    <3> QED
      BY <1>3, <2>2, <3>1 DEF Metered
  <2> QED
    BY <2>1, <2>2
<1>6. guesses'[Window] \in Nat
  BY <1>3, MeterTypes
<1>7. CASE hits.left = 0
  <2>1. hits'.left = 0 /\ guesses[Window] < Worth
    BY <1>2, <1>7 DEF Less, Metered
  <2>2. guesses'[Window] < Worth
    BY <1>3, <1>5, <1>6, <2>1, MeterTypes
  <2> QED
    BY <1>3, <1>4, <2>1, <2>2 DEF Metered
<1>8. CASE hits.left = 1
  <2>1. hits'.left = 0 /\ Opened = Window
    BY <1>2, <1>8 DEF Less, Opened
  <2>2. hits.count <= Worth /\ (Window # 1 => guesses[Window - 1] < hits.count)
    BY <1>8, <2>1 DEF Metered
  <2>3. guesses'[Window] < Worth
    <3>1. CASE Window = 1
      BY <1>3, <3>1, MeterTypes
    <3>2. CASE Window # 1
      BY <1>3, <2>2, <3>2, MeterTypes
    <3> QED
      BY <3>1, <3>2
  <2> QED
    BY <1>3, <1>4, <2>1, <2>3 DEF Metered
<1>9. CASE hits.left > 1
  <2>1. hits'.left = hits.left - 1 /\ hits.left > 0 /\ hits.left \in 0 .. Window
    BY <1>2, <1>9, MeterTypes DEF Less
  <2>2. Opened' = Opened + 1 /\ Opened' \in 1 .. Window /\ Opened' # 1 /\ Opened \in 1 .. Window
    BY <2>1, <1>9 DEF Opened
  <2>3. guesses'[Opened'] = guesses[Opened]
    BY <1>3, <2>2
  <2>4. /\ guesses[Opened] <= hits.count /\ 0 < hits.count /\ hits.count <= Worth
        /\ Opened # 1 => guesses[Opened - 1] < hits.count
        /\ guesses[Window] < guesses[Opened] + Worth
    BY <2>1 DEF Metered
  <2>7. guesses'[Opened' - 1] < hits.count
    <3>1. Opened' - 1 = Opened
      BY <2>2
    <3>2. CASE Opened = 1
      BY <1>3, <2>4, <3>1, <3>2
    <3>3. CASE Opened # 1
      BY <1>3, <2>2, <2>4, <3>1, <3>3
    <3> QED
      BY <3>2, <3>3
  <2>5. guesses'[Window] < guesses'[Opened'] + Worth
    BY <1>3, <1>5, <1>6, <2>2, <2>3, <2>4, MeterTypes
  <2>6. hits'.left # 0
    BY <1>9, <2>1
  <2> QED
    BY <1>2, <1>4, <2>3, <2>4, <2>5, <2>6, <2>7 DEF Metered
<1> QED
  BY <1>7, <1>8, <1>9, MeterTypes

\* No step but these touches the limiter.
LEMMA MeterNext ==
  ASSUME TypeOK, Metered, [Next]_vars
  PROVE  Metered'
<1>1. CASE UNCHANGED meter
  BY <1>1 DEF Metered, Opened
<1>2. CASE Restart
  <2>1. hits'.left = 0 /\ hits'.count = 0 /\ \A i \in 1 .. Window : guesses'[i] = 0
    BY <1>2 DEF Restart
  <2>2. 1 \in 1 .. Window /\ Window \in 1 .. Window
    OBVIOUS
  <2> QED
    BY <2>1, <2>2, MeterTypes DEF Metered
<1>3. CASE Tick
  BY <1>3, TickMetered
<1>4. CASE Charge
  BY <1>4, ChargeMetered
<1>5. ASSUME NEW d \in Device, Bootstrap(d) \/ Login(d) PROVE UNCHANGED meter \/ Charge
  BY <1>5 DEF Bootstrap, Login
<1>6. ASSUME NEW d \in Device,
             \/ \E h \in Handle, answered \in BOOLEAN : Bind(d, h, answered)
             \/ \E answered \in BOOLEAN : Recover(d, answered)
             \/ \E typed \in Credential : Prelogin(d, typed)
             \/ Adopt(d) \/ Seal(d) \/ StartRun(d) \/ Send(d) \/ AppendBody(d) \/ Lose(d) \/ Kill(d)
      PROVE  UNCHANGED meter
  BY <1>6 DEF Bind, Recover, Prelogin, Adopt, Seal, StartRun, Send, AppendBody, Lose, Kill
<1>7. CASE UNCHANGED vars
  BY <1>1, <1>7 DEF vars
<1> QED
  BY <1>1, <1>2, <1>3, <1>4, <1>5, <1>6, <1>7 DEF Next, Take, Step

\* However long the limiter's window and whatever it allows, the failed logins
\* let through in any span as long fall short of two windows' worth.
\* (createRateLimiter.)
THEOREM GuessesAreBounded == Spec => []GuessesBounded
<1>1. Init => Metered
  <2>1. 1 \in 1 .. Window /\ Window \in 1 .. Window /\ 0 < Worth
    BY RelayAssumption DEF Worth
  <2> QED
    BY <2>1 DEF Init, Metered
<1>2. TypeOK /\ Metered => GuessesBounded
  <2> SUFFICES ASSUME TypeOK, Metered PROVE guesses[Window] < 2 * Worth
    BY DEF GuessesBounded
  <2>1. /\ hits.left = 0 => guesses[Window] < Worth
        /\ hits.left > 0 => /\ guesses[Opened] <= hits.count /\ hits.count <= Worth
                            /\ guesses[Window] < guesses[Opened] + Worth
    BY DEF Metered
  <2>2. Window \in 1 .. Window
    OBVIOUS
  <2> QED
    BY <2>1, <2>2, MeterTypes
<1>3. TypeOK /\ Metered /\ [Next]_vars => Metered'
  BY MeterNext
<1> QED
  BY <1>1, <1>2, <1>3, RelayTypeCorrect, PTL DEF Spec
=============================================================================
