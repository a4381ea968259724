-------------------------- MODULE SyncEngineProofs --------------------------
(***************************************************************************)
(* Proofs about Lww's merge, about SyncEngine, for any devices, tables,    *)
(* keys, clocks, drivers and bounds, and about SyncScheduler, for any      *)
(* number of writes and failed runs.                                       *)
(***************************************************************************)
EXTENDS SyncEngine, SyncScheduler, TLAPS

-----------------------------------------------------------------------------
(* The merge (Lww): the maximum of a total order on versions.              *)

\* No version outranks itself, and of two at most one outranks the other.
LEMMA BeatsAsymmetric ==
    ASSUME NEW a \in Row, NEW b \in Row, Beats(a, b)
    PROVE  ~Beats(b, a)
BY SMT DEF Beats, CanonicalAbove, Row

\* Outranking chains.
LEMMA BeatsTransitive ==
    ASSUME NEW a \in Row, NEW b \in Row, NEW c \in Row, Beats(a, b), Beats(b, c)
    PROVE  Beats(a, c)
BY SMT DEF Beats, CanonicalAbove, Row

\* Of two different versions one outranks the other: the serialization breaks
\* every tie (merge.ts:51-55).
LEMMA BeatsTotal ==
    ASSUME NEW a \in Row, NEW b \in Row, a # b
    PROVE  Beats(a, b) \/ Beats(b, a)
<1>1. \/ a.at # b.at
      \/ a.touched # b.touched
      \/ a.gone # b.gone
      \/ a.body # b.body
  BY SMT DEF Row
<1>2. QED
  BY <1>1, SMT DEF Beats, CanonicalAbove, Row

\* resolveMerge picks one of its two arguments, and none that is outranked.
LEMMA MergeIsMax ==
    ASSUME NEW a \in Row, NEW b \in Row
    PROVE  /\ resolveMerge(a, b) \in {a, b}
           /\ AtLeast(resolveMerge(a, b), a)
           /\ AtLeast(resolveMerge(a, b), b)
<1>1. a # None /\ b # None
  BY NoneAssumption
<1>2. CASE Beats(b, a)
  BY <1>1, <1>2 DEF resolveMerge, AtLeast
<1>3. CASE ~Beats(b, a)
  BY <1>1, <1>3, BeatsTotal DEF resolveMerge, AtLeast
<1>4. QED
  BY <1>2, <1>3

\* The order of the two versions does not matter (merge.test.ts:40).
THEOREM MergeCommutes ==
    ASSUME NEW a \in Row, NEW b \in Row
    PROVE  resolveMerge(a, b) = resolveMerge(b, a)
<1>1. CASE a = b
  BY <1>1 DEF resolveMerge
<1>2. CASE a # b
  BY <1>2, BeatsTotal, BeatsAsymmetric DEF resolveMerge
<1>3. QED
  BY <1>1, <1>2

\* The order in which three versions meet does not matter, so a batch folds to
\* the same row in any order (merge.test.ts:68).
THEOREM MergeAssociates ==
    ASSUME NEW a \in Row, NEW b \in Row, NEW c \in Row
    PROVE  resolveMerge(resolveMerge(a, b), c) = resolveMerge(a, resolveMerge(b, c))
<1>1. CASE Beats(b, a) /\ Beats(c, b)
  <2>1. Beats(c, a)
    BY <1>1, BeatsTransitive
  <2>2. QED
    BY <1>1, <2>1 DEF resolveMerge
<1>2. CASE Beats(b, a) /\ ~Beats(c, b)
  BY <1>2 DEF resolveMerge
<1>3. CASE ~Beats(b, a) /\ Beats(c, b)
  BY <1>3 DEF resolveMerge
<1>4. CASE ~Beats(b, a) /\ ~Beats(c, b)
  <2>1. ~Beats(c, a)
    <3>1. SUFFICES ASSUME Beats(c, a) PROVE FALSE
      OBVIOUS
    <3>2. a = b \/ Beats(a, b)
      BY <1>4, BeatsTotal
    <3>3. Beats(c, b)
      BY <3>1, <3>2, BeatsTransitive
    <3>4. QED
      BY <1>4, <3>3
  <2>2. QED
    BY <1>4, <2>1 DEF resolveMerge
<1>5. QED
  BY <1>1, <1>2, <1>3, <1>4

\* "At least as good" is transitive and antisymmetric: two devices that each
\* hold a version at least as good as the other's hold the same one.
LEMMA AtLeastTransitive ==
    ASSUME NEW a \in Row, NEW b \in Row, NEW c \in Row,
           AtLeast(a, b), AtLeast(b, c)
    PROVE  AtLeast(a, c)
BY BeatsTransitive DEF AtLeast

LEMMA AtLeastAntisymmetric ==
    ASSUME NEW a \in Row, NEW b \in Row, AtLeast(a, b), AtLeast(b, a)
    PROVE  a = b
BY BeatsAsymmetric DEF AtLeast

-----------------------------------------------------------------------------
(* Type correctness.                                                       *)

LEMMA ClockType ==
    ASSUME TypeOK, NEW d \in Device
    PROVE  Clock(d) \in Nat
BY SyncAssumption DEF TypeOK, Clock

LEMMA PatchedType ==
    ASSUME TypeOK, NEW d \in Device, NEW b \in 0..MaxBody
    PROVE  Patched(d, b) \in Row
BY ClockType, SyncAssumption DEF Patched, Row

LEMMA PutType ==
    ASSUME TypeOK, NEW d \in Device, NEW k \in Key, NEW row \in Row,
           Put(d, k, row), draft' \in [Device -> Record \cup {None}]
    PROVE  TypeOK'
<1> USE DEF Writing
<1>1. store' \in [Device -> [Key -> Row \cup {None}]]
  BY DEF TypeOK, Put
<1>2. astray' \in [Device -> SUBSET Key]
  BY DEF TypeOK, Put
<1>3. edits' \in Nat
  BY DEF TypeOK, Put
<1>4. QED
  BY <1>1, <1>2, <1>3 DEF TypeOK, Put, volatile

LEMMA InitType == Init => TypeOK
BY SyncAssumption DEF Init, TypeOK, Phase, Writing

LEMMA NextType == TypeOK /\ [Next]_vars => TypeOK'
<1> USE DEF Writing
<1> SUFFICES ASSUME TypeOK, [Next]_vars
             PROVE  TypeOK'
  OBVIOUS
<1>1. CASE UNCHANGED vars
  BY <1>1 DEF TypeOK, vars, persisted, volatile
<1>2. CASE Tick
  BY <1>2 DEF Tick, TypeOK, persisted, volatile
<1>3. ASSUME NEW d \in Device, NEW k \in Key, Insert(d, k)
      PROVE  TypeOK'
  <2>1. PICK b \in 0..MaxBody :
           Put(d, k, [at |-> Clock(d), touched |-> k \notin Minted,
                      gone |-> FALSE, body |-> b])
    BY <1>3 DEF Insert
  <2>2. [at |-> Clock(d), touched |-> k \notin Minted,
         gone |-> FALSE, body |-> b] \in Row
    BY ClockType, SyncAssumption DEF Row
  <2>3. QED
    BY <1>3, <2>1, <2>2, PutType DEF Insert, TypeOK
<1>4. ASSUME NEW d \in Device, NEW k \in Key, Update(d, k)
      PROVE  TypeOK'
  BY <1>4, PatchedType, PutType DEF Update, TypeOK
<1>5. ASSUME NEW d \in Device, NEW k \in Key, BeginUpdate(d, k)
      PROVE  TypeOK'
  BY <1>5, PatchedType DEF BeginUpdate, TypeOK, Record, persisted, volatile
<1>6. ASSUME NEW d \in Device, CommitUpdate(d)
      PROVE  TypeOK'
  <2>1. draft[d] \in Record /\ draft[d].key \in Key /\ draft[d].row \in Row
    BY <1>6 DEF CommitUpdate, TypeOK, Record
  <2>2. draft' \in [Device -> Record \cup {None}]
    BY <1>6 DEF CommitUpdate, TypeOK
  <2>3. CASE Put(d, draft[d].key, draft[d].row)
    BY <2>1, <2>2, <2>3, PutType
  <2>4. CASE UNCHANGED <<now, persisted, log, volatile, edits, faults,
                         astray, missed>>
    BY <2>2, <2>4 DEF TypeOK, persisted, volatile
  <2>5. QED
    BY <1>6, <2>3, <2>4 DEF CommitUpdate
<1>7. ASSUME NEW d \in Device, NEW k \in Key, SoftDelete(d, k)
      PROVE  TypeOK'
  <2> DEFINE old == store[d][k]
             at == IF Clock(d) > old.at + 1 THEN Clock(d) ELSE old.at + 1
             tomb == [old EXCEPT !.at = at, !.touched = TRUE, !.gone = TRUE]
  <2>1. Put(d, k, tomb) /\ draft' = draft
    BY <1>7 DEF SoftDelete
  <2>2. old \in Row
    BY <1>7 DEF SoftDelete, Live, TypeOK
  <2>3. at \in Nat
    BY <2>2, ClockType DEF Row
  <2>4. tomb \in Row
    BY <2>2, <2>3 DEF Row
  <2>5. QED
    BY <2>1, <2>4, PutType DEF TypeOK
<1>8. ASSUME NEW d \in Device, StartSync(d)
      PROVE  TypeOK'
  BY <1>8 DEF StartSync, TypeOK, Phase, persisted
<1>9. ASSUME NEW d \in Device, ScanTable(d)
      PROVE  TypeOK'
  <2>1. PICK t \in known[d] \ scanned[d] :
          /\ scanned' = [scanned EXCEPT ![d] = @ \cup {t}]
          /\ outbox' = [outbox EXCEPT ![d] = @ \cup Changed(d, t)]
          /\ pc' = [pc EXCEPT ![d] =
                       IF scanned'[d] # known[d] THEN "scan"
                       ELSE IF outbox'[d] = {} THEN "mark" ELSE "push"]
          /\ \E h \in {high[d]} \cup {r.row.at : r \in Changed(d, t)} :
                high' = [high EXCEPT ![d] = h]
    BY <1>9 DEF ScanTable
  <2>2. Changed(d, t) \subseteq Record
    BY DEF Changed, TypeOK, Record
  <2>3. \A r \in Changed(d, t) : r.row.at \in Nat
    BY <2>2 DEF Record, Row
  <2>4. high' \in [Device -> Nat]
    BY <2>1, <2>3 DEF TypeOK
  <2>5. scanned' \in [Device -> SUBSET Table]
    BY <2>1 DEF TypeOK
  <2>6. outbox' \in [Device -> SUBSET Record] /\ pc' \in [Device -> Phase]
    BY <2>1, <2>2 DEF TypeOK, Phase
  <2>7. QED
    BY <1>9, <2>4, <2>5, <2>6 DEF ScanTable, TypeOK, persisted
<1>10. ASSUME NEW d \in Device, Push(d)
       PROVE  TypeOK'
  BY <1>10 DEF Push, TypeOK, Phase, persisted
<1>11. ASSUME NEW d \in Device, SaveMark(d)
       PROVE  TypeOK'
  BY <1>11 DEF SaveMark, TypeOK, Phase
<1>12. ASSUME NEW d \in Device, Pull(d)
       PROVE  TypeOK'
  <2>1. UNION {log[i] : i \in cursor[d] + 1 .. Len(log)} \subseteq Record
    <3>1. \A i \in cursor[d] + 1 .. Len(log) : log[i] \subseteq Record
      BY DEF TypeOK
    <3>2. QED
      BY <3>1
  <2>2. QED
    BY <1>12, <2>1 DEF Pull, TypeOK, Phase, persisted
<1>13. ASSUME NEW d \in Device, SkipRecord(d)
       PROVE  TypeOK'
  BY <1>13 DEF SkipRecord, TypeOK, Record, persisted
<1>14. ASSUME NEW d \in Device, KeepLocal(d)
       PROVE  TypeOK'
  BY <1>14 DEF KeepLocal, TypeOK, persisted
<1>15. ASSUME NEW d \in Device, TakeRemote(d)
       PROVE  TypeOK'
  BY <1>15 DEF TakeRemote, TypeOK, Phase, persisted
<1>16. ASSUME NEW d \in Device, WriteRemote(d)
       PROVE  TypeOK'
  <2>1. verdict[d].key \in Key /\ verdict[d].row \in Row
    BY <1>16 DEF WriteRemote, TypeOK, Record
  <2>2. /\ store' \in [Device -> [Key -> Row \cup {None}]]
        /\ missed' \in [Device -> SUBSET Key]
    <3>1. CASE store' = [store EXCEPT ![d][verdict[d].key] = verdict[d].row]
               /\ missed' = missed
      BY <2>1, <3>1 DEF TypeOK
    <3>2. CASE missed' = [missed EXCEPT ![d] = @ \cup {verdict[d].key}]
               /\ store' = store
      BY <2>1, <3>2 DEF TypeOK
    <3>3. QED
      BY <1>16, <3>1, <3>2 DEF WriteRemote
  <2>3. /\ verdict' \in [Device -> Record \cup {None}]
        /\ pc' \in [Device -> Phase]
        /\ \A e \in Device : Writing(e)' => verdict'[e] \in Record
    BY <1>16 DEF WriteRemote, TypeOK, Phase
  <2>4. QED
    BY <1>16, <2>2, <2>3 DEF WriteRemote, TypeOK
<1>17. ASSUME NEW d \in Device, SaveCursor(d)
       PROVE  TypeOK'
  <2>1. cursor' \in [Device -> Nat] /\ next' \in [Device -> Nat]
    BY <1>17 DEF SaveCursor, TypeOK
  <2>2. pc' \in [Device -> Phase]
    BY <1>17 DEF SaveCursor, TypeOK, Phase
  <2>3. QED
    BY <1>17, <2>1, <2>2 DEF SaveCursor, TypeOK
<1>18. ASSUME NEW d \in Device, Abort(d)
       PROVE  TypeOK'
  <2>1. log' \in Seq(SUBSET Record)
    <3>1. CASE log' = log
      BY <3>1 DEF TypeOK
    <3>2. ASSUME NEW part \in SUBSET outbox[d], log' = Append(log, part)
          PROVE  log' \in Seq(SUBSET Record)
      <4>1. part \in SUBSET Record
        BY <3>2 DEF TypeOK
      <4>2. QED
        BY <3>2, <4>1 DEF TypeOK
    <3>3. QED
      BY <1>18, <3>1, <3>2 DEF Abort
  <2>2. pc' \in [Device -> Phase]
    BY <1>18 DEF Abort, TypeOK, Phase
  <2>3. /\ scanned' \in [Device -> SUBSET Table]
        /\ outbox' \in [Device -> SUBSET Record]
        /\ inbox' \in [Device -> SUBSET Record]
    BY <1>18 DEF Abort, TypeOK
  <2>4. high' \in [Device -> Nat] /\ next' \in [Device -> Nat]
    BY <1>18 DEF Abort, TypeOK
  <2>5. /\ verdict' \in [Device -> Record \cup {None}]
        /\ draft' \in [Device -> Record \cup {None}]
    BY <1>18 DEF Abort, TypeOK
  <2>6. \A e \in Device : Writing(e)' => verdict'[e] \in Record
    BY <1>18 DEF Abort, TypeOK
  <2>7. QED
    BY <1>18, <2>1, <2>2, <2>3, <2>4, <2>5, <2>6 DEF Abort, TypeOK, persisted
<1>19. ASSUME NEW d \in Device, Upgrade(d)
       PROVE  TypeOK'
  BY <1>19 DEF Upgrade, TypeOK, volatile
<1>20. QED
  BY <1>1, <1>2, <1>3, <1>4, <1>5, <1>6, <1>7, <1>8, <1>9, <1>10, <1>11,
     <1>12, <1>13, <1>14, <1>15, <1>16, <1>17, <1>18, <1>19 DEF Next, Sync

-----------------------------------------------------------------------------
(* What a step leaves alone.                                               *)

\* The relay's log only grows, by whole batches.
LogGrows == log' = log \/ \E batch \in SUBSET Record : log' = Append(log, batch)

\* Nothing of device e's own changes.
Same(e) ==
    /\ store'[e] = store[e] /\ known'[e] = known[e]
    /\ hwm'[e] = hwm[e] /\ cursor'[e] = cursor[e]
    /\ pc'[e] = pc[e] /\ scanned'[e] = scanned[e]
    /\ outbox'[e] = outbox[e] /\ high'[e] = high[e]
    /\ inbox'[e] = inbox[e] /\ next'[e] = next[e]
    /\ verdict'[e] = verdict[e] /\ draft'[e] = draft[e]
    /\ astray'[e] = astray[e] /\ missed'[e] = missed[e]

\* What the relay held it still holds, at the same place.
LEMMA RelayKeeps ==
    ASSUME TypeOK, LogGrows
    PROVE  /\ Len(log) \in Nat /\ DOMAIN log = 1..Len(log)
           /\ Len(log') \in Nat /\ DOMAIN log' = 1..Len(log')
           /\ Len(log) <= Len(log')
           /\ \A i \in 1..Len(log) : log'[i] = log[i]
           /\ \A i \in 1..Len(log) : log[i] \subseteq Record
<1>1. CASE log' = log
  BY <1>1 DEF TypeOK
<1>2. ASSUME NEW batch \in SUBSET Record, log' = Append(log, batch)
      PROVE  /\ Len(log) \in Nat /\ DOMAIN log = 1..Len(log)
             /\ Len(log') \in Nat /\ DOMAIN log' = 1..Len(log')
             /\ Len(log) <= Len(log')
             /\ \A i \in 1..Len(log) : log'[i] = log[i]
             /\ \A i \in 1..Len(log) : log[i] \subseteq Record
  BY <1>2 DEF TypeOK
<1>3. QED
  BY <1>1, <1>2 DEF LogGrows

LEMMA StaysOnRelay ==
    ASSUME TypeOK, LogGrows, NEW k, NEW row, OnRelay(k, row)
    PROVE  OnRelay(k, row)'
BY RelayKeeps DEF OnRelay

\* A device nothing happens to keeps its invariant while others push.
LEMMA Bystander ==
    ASSUME TypeOK, LogGrows, NEW e \in Device, DeviceInv(e), Same(e)
    PROVE  DeviceInv(e)'
<1> USE DEF DeviceInv, Writing
<1>1. cursor[e] \in Nat /\ next[e] \in Nat
  BY DEF TypeOK
<1>2. Shape(e)'
  BY RelayKeeps, StaysOnRelay, <1>1 DEF Shape, Same
<1>3. Ahead(e)'
  BY StaysOnRelay DEF Ahead, Same
<1>4. Collected(e)'
  BY StaysOnRelay DEF Collected, Same, Sent
<1>5. Covered(e)'
  BY RelayKeeps, <1>1 DEF Covered, Shape, Same, Excused
<1>6. Pulled(e)'
  BY RelayKeeps, <1>1 DEF Pulled, Shape, Same, Excused
<1>7. Decided(e)'
  <2>1. SUFFICES ASSUME Writing(e) PROVE Decided(e)'
    BY DEF Decided, Same
  <2>2. OnRelay(verdict[e].key, verdict[e].row)'
    BY <2>1, RelayKeeps DEF Decided, Same, OnRelay
  <2>3. next[e] <= Len(log)
    BY <2>1 DEF Shape
  <2>4. \A i \in 1..next[e] : log'[i] = log[i]
    BY <2>3, <1>1, RelayKeeps
  <2>5. QED
    BY <2>1, <2>2, <2>4, <1>1 DEF Decided, Same, Excused
<1>8. QED
  BY <1>2, <1>3, <1>4, <1>5, <1>6, <1>7

-----------------------------------------------------------------------------
(* The user's writes.                                                      *)

\* What a write does to the row and to the history of the ill-timed ones.
LEMMA PutEffect ==
    ASSUME TypeOK, NEW d \in Device, NEW k \in Key, NEW row \in Row,
           Put(d, k, row)
    PROVE  /\ \A j \in Key : store'[d][j] = IF j = k THEN row ELSE store[d][j]
           /\ astray[d] \subseteq astray'[d]
           /\ k \in astray'[d] \/ InOrder(d, k, row)
BY DEF Put, TypeOK

\* A write keeps the invariant of its device: it is in order, or its key is
\* set aside.
LEMMA PutKeeps ==
    ASSUME TypeOK, NEW d \in Device, NEW k \in Key, NEW row \in Row,
           DeviceInv(d), Put(d, k, row),
           TableOf[k] \in known[d],
           ~Writing(d) \/ d \in Async,
           draft'[d] # None => d \in Async
    PROVE  DeviceInv(d)'
<1> DEFINE old == store[d][k]
<1> USE DEF DeviceInv, Writing
<1>1. /\ hwm' = hwm /\ cursor' = cursor /\ log' = log /\ known' = known
      /\ pc' = pc /\ scanned' = scanned /\ outbox' = outbox /\ high' = high
      /\ inbox' = inbox /\ next' = next /\ verdict' = verdict
      /\ missed' = missed
  BY DEF Put, volatile
<1>2. /\ \A j \in Key : store'[d][j] = IF j = k THEN row ELSE store[d][j]
      /\ astray[d] \subseteq astray'[d]
      /\ k \in astray'[d] \/ InOrder(d, k, row)
  BY PutEffect
<1>3. /\ hwm[d] \in Nat /\ high[d] \in Nat /\ row.at \in Nat
      /\ \A j \in Key : store[d][j] \in Row \cup {None}
  BY DEF TypeOK, Row
<1>4. row # None
  BY NoneAssumption
<1>5. ASSUME NEW j \in Key, NEW r \in Row, AtLeast(store[d][j], r),
             j \notin astray'[d]
      PROVE  AtLeast(store'[d][j], r)
  <2>1. CASE j = k
    <3>1. old \in Row /\ Beats(row, old)
      BY <1>2, <1>3, <1>5, <2>1 DEF InOrder, AtLeast
    <3>2. AtLeast(row, old)
      BY <1>4, <3>1 DEF AtLeast
    <3>3. AtLeast(row, r)
      BY <1>5, <2>1, <3>1, <3>2, AtLeastTransitive
    <3>4. QED
      BY <1>2, <2>1, <3>3
  <2>2. CASE j # k
    BY <1>2, <1>5, <2>2
  <2>3. QED
    BY <2>1, <2>2
<1>6. \A i \in 1..Len(log) : log[i] \subseteq Record
  BY DEF TypeOK
<1>7. Len(log) \in Nat /\ cursor[d] \in Nat /\ next[d] \in Nat
  BY DEF TypeOK
<1>8. Shape(d)'
  <2>1. \A j \in Key : store'[d][j] # None => TableOf[j] \in known[d]
    BY <1>2 DEF Shape
  <2>2. (\A r \in inbox[d] : OnRelay(r.key, r.row)) =>
           (\A r \in inbox[d] : OnRelay(r.key, r.row)')
    BY <1>1 DEF OnRelay
  <2>3. QED
    BY <1>1, <2>1, <2>2 DEF Shape
<1>9. Ahead(d)'
  BY <1>1, <1>2, <1>3 DEF Ahead, InOrder, OnRelay
<1>10. Collected(d)'
  BY <1>1, <1>2, <1>3 DEF Collected, InOrder, OnRelay, Sent
<1>11. Covered(d)'
  <2>1. SUFFICES ASSUME NEW i \in 1..cursor[d], NEW r \in log[i],
                        r.key \notin astray'[d], r.key \notin missed[d]
                 PROVE  AtLeast(store'[d][r.key], r.row)
    BY <1>1 DEF Covered, Excused
  <2>2. r \in Record
    BY <1>6, <1>7 DEF Shape
  <2>3. AtLeast(store[d][r.key], r.row)
    BY <1>2, <2>1 DEF Covered, Excused
  <2>4. QED
    BY <1>5, <2>1, <2>2, <2>3 DEF Record
<1>12. Pulled(d)'
  <2>1. SUFFICES ASSUME pc[d] = "merge" \/ Writing(d),
                        NEW i \in cursor[d] + 1 .. next[d], NEW r \in log[i],
                        r.key \notin astray'[d], r.key \notin missed[d],
                        r \notin inbox[d],
                        ~(Writing(d) /\ r = verdict[d])
                 PROVE  AtLeast(store'[d][r.key], r.row)
    BY <1>1 DEF Pulled, Excused
  <2>2. r \in Record
    BY <1>6, <1>7, <2>1 DEF Shape
  <2>3. AtLeast(store[d][r.key], r.row)
    BY <1>2, <2>1 DEF Pulled, Excused
  <2>4. QED
    BY <1>5, <2>1, <2>2, <2>3 DEF Record
<1>13. Decided(d)'
  <2>1. SUFFICES ASSUME Writing(d) PROVE Decided(d)'
    BY <1>1 DEF Decided
  <2>2. OnRelay(verdict[d].key, verdict[d].row)'
    BY <1>1, <2>1 DEF Decided, OnRelay
  <2>3. d \in Async
    BY <2>1
  <2>4. QED
    BY <1>1, <1>2, <2>1, <2>2, <2>3 DEF Decided, Excused
<1>14. QED
  BY <1>8, <1>9, <1>10, <1>11, <1>12, <1>13

-----------------------------------------------------------------------------
(* The push half of a run.                                                 *)

LEMMA StartSyncKeeps ==
    ASSUME TypeOK, NEW d \in Device, DeviceInv(d), StartSync(d)
    PROVE  DeviceInv(d)'
<1> USE DEF DeviceInv, Writing
<1>1. /\ store' = store /\ known' = known /\ hwm' = hwm /\ cursor' = cursor
      /\ log' = log /\ scanned' = scanned /\ outbox' = outbox
      /\ astray' = astray /\ missed' = missed /\ draft' = draft
      /\ pc'[d] = "scan" /\ high'[d] = hwm[d] /\ scanned[d] = {}
      /\ hwm[d] \in Nat
  BY DEF StartSync, persisted, TypeOK, Shape
<1>2. Shape(d)' /\ Collected(d)'
  BY <1>1 DEF Shape, Collected
<1>3. Ahead(d)' /\ Covered(d)'
  BY <1>1 DEF Ahead, Covered, OnRelay, Excused
<1>4. Pulled(d)' /\ Decided(d)'
  BY <1>1 DEF Pulled, Decided
<1>5. QED
  BY <1>2, <1>3, <1>4

\* One table's answer, and after the last one the whole mark is accounted for.
LEMMA ScanTableKeeps ==
    ASSUME TypeOK, NEW d \in Device, DeviceInv(d), ScanTable(d)
    PROVE  DeviceInv(d)'
<1> USE DEF DeviceInv, Writing
<1>1. PICK t \in known[d] \ scanned[d] :
        /\ scanned' = [scanned EXCEPT ![d] = @ \cup {t}]
        /\ outbox' = [outbox EXCEPT ![d] = @ \cup Changed(d, t)]
        /\ pc' = [pc EXCEPT ![d] =
                     IF scanned'[d] # known[d] THEN "scan"
                     ELSE IF outbox'[d] = {} THEN "mark" ELSE "push"]
        /\ \E h \in {high[d]} \cup {r.row.at : r \in Changed(d, t)} :
              h >= high[d] /\ high' = [high EXCEPT ![d] = h]
  BY DEF ScanTable
<1>2. /\ store' = store /\ known' = known /\ hwm' = hwm /\ cursor' = cursor
      /\ log' = log /\ astray' = astray /\ missed' = missed /\ draft' = draft
      /\ pc[d] = "scan"
  BY DEF ScanTable, persisted
<1>3. /\ scanned'[d] = scanned[d] \cup {t}
      /\ outbox'[d] = outbox[d] \cup Changed(d, t)
      /\ pc'[d] \in {"scan", "push", "mark"}
      /\ pc'[d] # "scan" => scanned'[d] = known[d]
      /\ pc'[d] = "mark" => outbox'[d] = {}
      /\ high'[d] >= high[d]
  BY <1>1 DEF TypeOK
<1>4. hwm[d] \in Nat /\ high[d] \in Nat /\ high'[d] \in Nat
  <2>1. \A r \in Changed(d, t) : r.row.at \in Nat
    BY DEF Changed, TypeOK, Row
  <2>2. QED
    BY <1>1, <2>1 DEF TypeOK
<1>5. Shape(d)'
  BY <1>2, <1>3, <1>4 DEF Shape
<1>6. ASSUME NEW k \in Key, store[d][k] # None, k \notin astray[d],
             TableOf[k] \in scanned'[d]
      PROVE  store[d][k].at <= hwm[d] \/ [key |-> k, row |-> store[d][k]] \in outbox'[d]
  <2>1. CASE TableOf[k] \in scanned[d]
    BY <1>2, <1>3, <1>6, <2>1 DEF Collected, Sent
  <2>2. CASE TableOf[k] = t
    <3>1. store[d][k].at \in Nat
      BY <1>6 DEF TypeOK, Row
    <3>2. store[d][k].at > hwm[d] => [key |-> k, row |-> store[d][k]] \in Changed(d, t)
      BY <1>6, <2>2 DEF Changed
    <3>3. QED
      BY <1>3, <1>4, <3>1, <3>2
  <2>3. QED
    BY <1>3, <1>6, <2>1, <2>2
<1>7. Collected(d)'
  <2>1. SUFFICES ASSUME NEW k \in Key, store[d][k] # None, k \notin astray[d]
                 PROVE  /\ pc'[d] = "scan" /\ TableOf[k] \in scanned'[d] =>
                              store[d][k].at <= hwm[d] \/ Sent(d, k)'
                        /\ pc'[d] = "push" =>
                              OnRelay(k, store[d][k])' \/ Sent(d, k)'
                        /\ pc'[d] = "mark" => OnRelay(k, store[d][k])'
    BY <1>2 DEF Collected
  <2>2. pc'[d] # "scan" => TableOf[k] \in scanned'[d]
    BY <1>3, <2>1 DEF Shape
  <2>3. store[d][k].at \in Nat
    BY <2>1 DEF TypeOK, Row
  <2>4. store[d][k].at <= hwm[d] => OnRelay(k, store[d][k])'
    BY <1>2, <1>4, <2>1, <2>3 DEF Ahead, OnRelay
  <2>5. QED
    BY <1>2, <1>3, <1>6, <2>1, <2>2, <2>4 DEF Sent
<1>8. Ahead(d)' /\ Covered(d)'
  BY <1>2 DEF Ahead, Covered, OnRelay, Excused
<1>9. Pulled(d)' /\ Decided(d)'
  BY <1>3 DEF Pulled, Decided
<1>10. QED
  BY <1>5, <1>7, <1>8, <1>9

\* The relay's answer: what was collected is on it.
LEMMA PushKeeps ==
    ASSUME TypeOK, NEW d \in Device, DeviceInv(d), Push(d)
    PROVE  DeviceInv(d)'
<1> USE DEF DeviceInv, Writing
<1>1. /\ store' = store /\ known' = known /\ hwm' = hwm /\ cursor' = cursor
      /\ scanned' = scanned /\ outbox' = outbox /\ high' = high
      /\ astray' = astray /\ missed' = missed /\ draft' = draft
      /\ log' = Append(log, outbox[d]) /\ pc[d] = "push" /\ pc'[d] = "mark"
  BY DEF Push, persisted, TypeOK
<1>2. outbox[d] \in SUBSET Record /\ LogGrows
  BY <1>1 DEF LogGrows, TypeOK
<1>3. cursor[d] \in Nat
  BY DEF TypeOK
<1>4. Shape(d)'
  BY <1>1, <1>2, <1>3, RelayKeeps DEF Shape
<1>5. Ahead(d)'
  BY <1>1, <1>2, StaysOnRelay DEF Ahead
<1>6. ASSUME NEW k \in Key, Sent(d, k)
      PROVE  OnRelay(k, store[d][k])'
  <2>1. Len(log') = Len(log) + 1 /\ log'[Len(log) + 1] = outbox[d]
    BY <1>1, <1>2 DEF TypeOK
  <2>2. Len(log) + 1 \in DOMAIN log'
    BY <1>2, <2>1, RelayKeeps
  <2>3. QED
    BY <1>1, <1>6, <2>1, <2>2 DEF OnRelay, Sent
<1>7. Collected(d)'
  BY <1>1, <1>2, <1>6, StaysOnRelay DEF Collected
<1>8. Covered(d)'
  BY <1>1, <1>2, <1>3, RelayKeeps DEF Covered, Shape, Excused
<1>9. Pulled(d)' /\ Decided(d)'
  BY <1>1 DEF Pulled, Decided
<1>10. QED
  BY <1>4, <1>5, <1>7, <1>8, <1>9

\* The mark moves to the maximum, and nothing is between the two.
LEMMA SaveMarkKeeps ==
    ASSUME TypeOK, NEW d \in Device, DeviceInv(d), SaveMark(d)
    PROVE  DeviceInv(d)'
<1> USE DEF DeviceInv, Writing
<1>1. /\ store' = store /\ known' = known /\ cursor' = cursor /\ log' = log
      /\ astray' = astray /\ missed' = missed /\ draft' = draft
      /\ pc[d] = "mark" /\ pc'[d] = "pull" /\ hwm'[d] = high[d]
      /\ scanned'[d] = {} /\ outbox'[d] = {}
  BY DEF SaveMark, TypeOK
<1>2. Shape(d)'
  BY <1>1 DEF Shape
<1>3. Ahead(d)'
  BY <1>1 DEF Ahead, Collected, OnRelay
<1>4. Collected(d)' /\ Pulled(d)' /\ Decided(d)'
  BY <1>1 DEF Collected, Pulled, Decided
<1>5. Covered(d)'
  BY <1>1 DEF Covered, Excused
<1>6. QED
  BY <1>2, <1>3, <1>4, <1>5

-----------------------------------------------------------------------------
(* The pull half of a run.                                                 *)

\* What comes in is on the relay, and nothing beyond the cursor is left out.
LEMMA PullKeeps ==
    ASSUME TypeOK, NEW d \in Device, DeviceInv(d), Pull(d)
    PROVE  DeviceInv(d)'
<1> USE DEF DeviceInv, Writing
<1>1. /\ store' = store /\ known' = known /\ hwm' = hwm /\ cursor' = cursor
      /\ log' = log /\ scanned' = scanned /\ outbox' = outbox /\ high' = high
      /\ astray' = astray /\ missed' = missed /\ draft' = draft
      /\ pc[d] = "pull" /\ pc'[d] = "merge" /\ next'[d] = Len(log)
      /\ inbox'[d] = UNION {log[i] : i \in cursor[d] + 1 .. Len(log)}
  BY DEF Pull, persisted, TypeOK
<1>2. /\ cursor[d] \in Nat /\ cursor[d] <= Len(log)
      /\ Len(log) \in Nat /\ DOMAIN log = 1..Len(log)
      /\ \A i \in 1..Len(log) : log[i] \subseteq Record
  BY DEF TypeOK, Shape
<1>3. ASSUME NEW r \in inbox'[d]
      PROVE  OnRelay(r.key, r.row)'
  <2>1. PICK i \in cursor[d] + 1 .. Len(log) : r \in log[i]
    BY <1>1
  <2>2. i \in DOMAIN log /\ r \in Record
    BY <1>2, <2>1
  <2>3. r = [key |-> r.key, row |-> r.row]
    BY <2>2 DEF Record
  <2>4. QED
    BY <1>1, <2>1, <2>2, <2>3 DEF OnRelay
<1>4. Shape(d)'
  BY <1>1, <1>2, <1>3 DEF Shape
<1>5. Ahead(d)' /\ Covered(d)'
  BY <1>1 DEF Ahead, Covered, OnRelay, Excused
<1>6. Collected(d)' /\ Decided(d)'
  BY <1>1 DEF Collected, Decided
<1>7. Pulled(d)'
  BY <1>1, <1>2 DEF Pulled
<1>8. QED
  BY <1>4, <1>5, <1>6, <1>7

\* A record that is dealt with without a write is excused or outranked.
LEMMA DropKeeps ==
    ASSUME TypeOK, NEW d \in Device, DeviceInv(d), NEW r \in inbox[d],
           pc[d] = "merge",
           store' = store, known' = known, hwm' = hwm, cursor' = cursor,
           log' = log, pc' = pc, scanned' = scanned, outbox' = outbox,
           high' = high, next' = next, verdict' = verdict, draft' = draft,
           astray' = astray, missed[d] \subseteq missed'[d],
           inbox'[d] = inbox[d] \ {r},
           Excused(d, r)' \/ AtLeast(store[d][r.key], r.row)
    PROVE  DeviceInv(d)'
<1> USE DEF DeviceInv, Writing
<1>1. Shape(d)'
  BY DEF Shape, OnRelay
<1>2. Ahead(d)' /\ Covered(d)'
  BY DEF Ahead, Covered, OnRelay, Excused
<1>3. Collected(d)' /\ Decided(d)'
  BY DEF Collected, Decided, OnRelay, Sent
<1>4. Pulled(d)'
  BY DEF Pulled, Excused
<1>5. QED
  BY <1>1, <1>2, <1>3, <1>4

LEMMA SkipRecordKeeps ==
    ASSUME TypeOK, NEW d \in Device, DeviceInv(d), SkipRecord(d)
    PROVE  DeviceInv(d)'
<1>1. PICK r \in inbox[d] :
        /\ inbox' = [inbox EXCEPT ![d] = @ \ {r}]
        /\ missed' = [missed EXCEPT ![d] = @ \cup {r.key}]
  BY DEF SkipRecord
<1>2. inbox'[d] = inbox[d] \ {r} /\ missed'[d] = missed[d] \cup {r.key}
  BY <1>1 DEF TypeOK
<1>3. Excused(d, r)'
  BY <1>2 DEF Excused
<1>4. QED
  BY <1>2, <1>3, DropKeeps DEF SkipRecord, persisted

\* The loser of a merge is outranked by the row it lost to.
LEMMA LocalWinsCovers ==
    ASSUME TypeOK, NEW d \in Device, NEW r \in Record, LocalWins(d, r)
    PROVE  AtLeast(store[d][r.key], r.row)
<1>1. store[d][r.key] \in Row /\ r.row \in Row
  BY DEF TypeOK, LocalWins, Record
<1>2. CASE Beats(r.row, store[d][r.key])
  BY <1>1, <1>2 DEF LocalWins, resolveMerge, AtLeast
<1>3. CASE ~Beats(r.row, store[d][r.key])
  BY <1>1, <1>3, BeatsTotal DEF LocalWins, AtLeast
<1>4. QED
  BY <1>2, <1>3

LEMMA KeepLocalKeeps ==
    ASSUME TypeOK, NEW d \in Device, DeviceInv(d), KeepLocal(d)
    PROVE  DeviceInv(d)'
<1>1. PICK r \in inbox[d] :
        /\ LocalWins(d, r)
        /\ inbox' = [inbox EXCEPT ![d] = @ \ {r}]
  BY DEF KeepLocal
<1>2. inbox'[d] = inbox[d] \ {r} /\ r \in Record
  BY <1>1 DEF TypeOK
<1>3. AtLeast(store[d][r.key], r.row)
  BY <1>1, <1>2, LocalWinsCovers
<1>4. QED
  BY <1>2, <1>3, DropKeeps DEF KeepLocal, persisted

\* The winner of a merge outranks the row it is about to replace.
LEMMA RemoteWins ==
    ASSUME TypeOK, NEW d \in Device, NEW r \in Record, ~LocalWins(d, r),
           store[d][r.key] # None
    PROVE  Beats(r.row, store[d][r.key])
BY DEF LocalWins, resolveMerge

LEMMA TakeRemoteKeeps ==
    ASSUME TypeOK, NEW d \in Device, DeviceInv(d), TakeRemote(d)
    PROVE  DeviceInv(d)'
<1> USE DEF DeviceInv, Writing
<1>1. PICK r \in inbox[d] :
        /\ TableOf[r.key] \in known[d]
        /\ ~LocalWins(d, r)
        /\ inbox' = [inbox EXCEPT ![d] = @ \ {r}]
        /\ verdict' = [verdict EXCEPT ![d] = r]
        /\ pc' = [pc EXCEPT ![d] =
                     IF store[d][r.key] = None THEN "insert" ELSE "update"]
  BY DEF TakeRemote
<1>2. /\ store' = store /\ known' = known /\ hwm' = hwm /\ cursor' = cursor
      /\ log' = log /\ scanned' = scanned /\ outbox' = outbox /\ high' = high
      /\ astray' = astray /\ missed' = missed /\ draft' = draft /\ next' = next
      /\ pc[d] = "merge" /\ verdict'[d] = r
      /\ pc'[d] = IF store[d][r.key] = None THEN "insert" ELSE "update"
      /\ inbox'[d] = inbox[d] \ {r}
  BY <1>1 DEF TakeRemote, persisted, TypeOK
<1>3. /\ r \in Record /\ r.key \in Key /\ r.row \in Row /\ r.row # None
      /\ store[d][r.key] \in Row \cup {None}
  BY NoneAssumption DEF TypeOK, Record
<1>4. /\ cursor[d] \in Nat /\ next[d] \in Nat /\ cursor[d] <= next[d]
      /\ next[d] <= Len(log) /\ Len(log) \in Nat
      /\ \A i \in 1..Len(log) : log[i] \subseteq Record
  BY <1>2 DEF TypeOK, Shape
<1>5. ASSUME NEW s \in Row, AtLeast(store[d][r.key], s)
      PROVE  AtLeast(r.row, s)
  <2>1. store[d][r.key] \in Row /\ Beats(r.row, store[d][r.key])
    BY <1>1, <1>3, <1>5, RemoteWins DEF AtLeast
  <2>2. AtLeast(r.row, store[d][r.key])
    BY <1>3, <2>1 DEF AtLeast
  <2>3. QED
    BY <1>3, <1>5, <2>1, <2>2, AtLeastTransitive
<1>6. ASSUME NEW i \in 1..next[d], NEW s \in log[i], s.key = r.key
      PROVE  \/ Excused(d, s)
             \/ i > cursor[d] /\ s \in inbox'[d]
             \/ AtLeast(r.row, s.row)
  <2>1. s \in Record /\ s.row \in Row
    BY <1>4, <1>6 DEF Record
  <2>2. CASE i \in 1..cursor[d]
    <3>1. Excused(d, s) \/ AtLeast(store[d][r.key], s.row)
      BY <1>6, <2>2 DEF Covered
    <3>2. QED
      BY <1>5, <2>1, <3>1
  <2>3. CASE i \in cursor[d] + 1 .. next[d]
    <3>1. Excused(d, s) \/ s \in inbox[d] \/ AtLeast(store[d][r.key], s.row)
      BY <1>2, <1>6, <2>3 DEF Pulled
    <3>2. CASE s = r
      BY <1>3, <3>2 DEF AtLeast
    <3>3. CASE s # r
      BY <1>2, <1>4, <1>5, <2>1, <2>3, <3>1, <3>3
    <3>4. QED
      BY <3>2, <3>3
  <2>4. QED
    BY <1>4, <1>6, <2>2, <2>3
<1>7. Shape(d)'
  BY <1>2 DEF Shape, OnRelay
<1>8. Ahead(d)' /\ Covered(d)' /\ Collected(d)'
  BY <1>2 DEF Ahead, Covered, Collected, OnRelay, Excused
<1>9. Pulled(d)'
  BY <1>2 DEF Pulled, Excused
<1>10. Decided(d)'
  <2>1. OnRelay(r.key, r.row)'
    BY <1>1, <1>2 DEF Shape, OnRelay
  <2>2. store[d][r.key] # None => Beats(r.row, store[d][r.key])
    BY <1>1, <1>3, RemoteWins
  <2>3. QED
    BY <1>1, <1>2, <1>6, <2>1, <2>2 DEF Decided, Excused
<1>11. QED
  BY <1>7, <1>8, <1>9, <1>10

\* The write is what Decided prepared it for.
LEMMA WriteRemoteKeeps ==
    ASSUME TypeOK, NEW d \in Device, DeviceInv(d), WriteRemote(d)
    PROVE  DeviceInv(d)'
<1> DEFINE v == verdict[d]
<1> USE DEF DeviceInv, Writing
<1>1. /\ known' = known /\ hwm' = hwm /\ cursor' = cursor /\ inbox' = inbox
      /\ log' = log /\ scanned' = scanned /\ outbox' = outbox /\ high' = high
      /\ astray' = astray /\ draft' = draft /\ next' = next
      /\ Writing(d) /\ pc'[d] = "merge" /\ missed[d] \subseteq missed'[d]
  BY DEF WriteRemote, TypeOK
<1>2. v \in Record /\ v.key \in Key /\ v.row \in Row
  BY <1>1 DEF TypeOK, Record
<1>3. \/ /\ store' = store
         /\ v.key \in missed'[d]
      \/ /\ \A k \in Key : store'[d][k] = IF k = v.key THEN v.row ELSE store[d][k]
         /\ missed' = missed
  BY <1>2 DEF WriteRemote, TypeOK
<1>4. /\ cursor[d] \in Nat /\ next[d] \in Nat /\ cursor[d] <= next[d]
      /\ next[d] <= Len(log) /\ Len(log) \in Nat
      /\ \A i \in 1..Len(log) : log[i] \subseteq Record
  BY <1>1 DEF TypeOK, Shape
<1>5. ASSUME NEW i \in 1..next[d], NEW r \in log[i], r.key = v.key
      PROVE  \/ Excused(d, r)'
             \/ i > cursor[d] /\ r \in inbox[d]
             \/ AtLeast(store'[d][r.key], r.row)
  BY <1>1, <1>2, <1>3, <1>5 DEF Decided, Excused
<1>6. ASSUME NEW i \in 1..Len(log), NEW r \in log[i]
      PROVE  r.key \in Key
  BY <1>4, <1>6 DEF Record
<1>7. Shape(d)'
  BY <1>1, <1>3 DEF Shape, Decided, OnRelay
<1>8. Ahead(d)'
  BY <1>1, <1>3 DEF Ahead, Decided, OnRelay
<1>9. Collected(d)' /\ Decided(d)'
  BY <1>1 DEF Collected, Decided
<1>10. Covered(d)'
  <2>1. SUFFICES ASSUME NEW i \in 1..cursor[d], NEW r \in log[i]
                 PROVE  Excused(d, r)' \/ AtLeast(store'[d][r.key], r.row)
    BY <1>1 DEF Covered, Excused
  <2>2. CASE r.key = v.key
    BY <1>4, <1>5, <2>2
  <2>3. CASE r.key # v.key
    BY <1>1, <1>3, <1>4, <1>6, <2>3 DEF Covered, Excused
  <2>4. QED
    BY <2>2, <2>3
<1>11. Pulled(d)'
  <2>1. SUFFICES ASSUME NEW i \in cursor[d] + 1 .. next[d], NEW r \in log[i]
                 PROVE  \/ Excused(d, r)'
                        \/ r \in inbox[d]
                        \/ AtLeast(store'[d][r.key], r.row)
    BY <1>1 DEF Pulled, Excused
  <2>2. CASE r.key = v.key
    BY <1>4, <1>5, <2>2
  <2>3. CASE r.key # v.key
    BY <1>1, <1>3, <1>4, <1>6, <2>3 DEF Pulled, Excused
  <2>4. QED
    BY <2>2, <2>3
<1>12. QED
  BY <1>7, <1>8, <1>9, <1>10, <1>11

\* With nothing left in the inbox, what was pulled is covered.
LEMMA SaveCursorKeeps ==
    ASSUME TypeOK, NEW d \in Device, DeviceInv(d), SaveCursor(d)
    PROVE  DeviceInv(d)'
<1> USE DEF DeviceInv, Writing
<1>1. /\ store' = store /\ known' = known /\ hwm' = hwm /\ inbox' = inbox
      /\ log' = log /\ scanned' = scanned /\ outbox' = outbox /\ high' = high
      /\ astray' = astray /\ missed' = missed /\ draft' = draft
      /\ cursor'[d] = next[d] /\ inbox[d] = {}
      /\ pc[d] = "merge" /\ pc'[d] = "idle"
  BY DEF SaveCursor, TypeOK
<1>2. cursor[d] \in Nat /\ next[d] \in Nat /\ cursor[d] <= next[d]
  BY <1>1 DEF TypeOK, Shape
<1>3. Shape(d)'
  BY <1>1 DEF Shape
<1>4. Ahead(d)'
  BY <1>1 DEF Ahead, OnRelay
<1>5. Collected(d)' /\ Pulled(d)' /\ Decided(d)'
  BY <1>1 DEF Collected, Pulled, Decided
<1>6. Covered(d)'
  <2>1. SUFFICES ASSUME NEW i \in 1..next[d], NEW r \in log[i]
                 PROVE  Excused(d, r) \/ AtLeast(store[d][r.key], r.row)
    BY <1>1 DEF Covered, Excused
  <2>2. CASE i \in 1..cursor[d]
    BY <2>1, <2>2 DEF Covered
  <2>3. CASE i \in cursor[d] + 1 .. next[d]
    BY <1>1, <2>1, <2>3 DEF Pulled
  <2>4. QED
    BY <1>2, <2>2, <2>3
<1>7. QED
  BY <1>3, <1>4, <1>5, <1>6

-----------------------------------------------------------------------------
(* Failures.                                                               *)

LEMMA AbortKeeps ==
    ASSUME TypeOK, NEW d \in Device, DeviceInv(d), Abort(d)
    PROVE  DeviceInv(d)'
<1> USE DEF DeviceInv, Writing
<1>1. /\ store' = store /\ known' = known /\ hwm' = hwm /\ cursor' = cursor
      /\ astray' = astray /\ missed' = missed
      /\ pc'[d] = "idle" /\ scanned'[d] = {} /\ outbox'[d] = {}
      /\ draft'[d] \in {draft[d], None}
  BY DEF Abort, persisted, TypeOK
<1>2. LogGrows
  <2>1. \A part \in SUBSET outbox[d] : part \in SUBSET Record
    BY DEF TypeOK
  <2>2. QED
    BY <2>1 DEF Abort, LogGrows
<1>3. cursor[d] \in Nat
  BY DEF TypeOK
<1>4. Shape(d)'
  BY <1>1, <1>2, <1>3, RelayKeeps DEF Shape
<1>5. Ahead(d)'
  BY <1>1, <1>2, StaysOnRelay DEF Ahead
<1>6. Collected(d)' /\ Pulled(d)' /\ Decided(d)'
  BY <1>1 DEF Collected, Pulled, Decided
<1>7. Covered(d)'
  BY <1>1, <1>2, <1>3, RelayKeeps DEF Covered, Shape, Excused
<1>8. QED
  BY <1>4, <1>5, <1>6, <1>7

LEMMA UpgradeKeeps ==
    ASSUME TypeOK, NEW d \in Device, DeviceInv(d), Upgrade(d)
    PROVE  DeviceInv(d)'
<1> USE DEF DeviceInv, Writing
<1>1. /\ store' = store /\ hwm' = hwm /\ cursor' = cursor /\ log' = log
      /\ pc' = pc /\ scanned' = scanned /\ outbox' = outbox
      /\ astray' = astray /\ missed' = missed /\ pc[d] = "idle"
      /\ known'[d] = Table /\ draft'[d] = None
  BY DEF Upgrade, volatile, TypeOK
<1>2. Shape(d)'
  BY <1>1, SyncAssumption DEF Shape, TypeOK
<1>3. Ahead(d)' /\ Covered(d)'
  BY <1>1 DEF Ahead, Covered, OnRelay, Excused
<1>4. Collected(d)' /\ Pulled(d)' /\ Decided(d)'
  BY <1>1 DEF Collected, Pulled, Decided
<1>5. QED
  BY <1>2, <1>3, <1>4

-----------------------------------------------------------------------------
(* The user's operations, as writes.                                       *)

\* A draft being made or dropped touches nothing else.
LEMMA DraftKeeps ==
    ASSUME TypeOK, NEW d \in Device, DeviceInv(d),
           UNCHANGED <<now, persisted, log, volatile, edits, faults, astray,
                       missed>>,
           draft'[d] # None => d \in Async
    PROVE  DeviceInv(d)'
<1> USE DEF DeviceInv, Writing, persisted, volatile
<1>1. Shape(d)' /\ Ahead(d)' /\ Covered(d)'
  BY DEF Shape, Ahead, Covered, OnRelay, Excused
<1>2. Collected(d)' /\ Pulled(d)' /\ Decided(d)'
  BY DEF Collected, Pulled, Decided, OnRelay, Excused, Sent
<1>3. QED
  BY <1>1, <1>2

LEMMA InsertKeeps ==
    ASSUME TypeOK, NEW d \in Device, NEW k \in Key, DeviceInv(d), Insert(d, k)
    PROVE  DeviceInv(d)'
<1> DEFINE row(b) == [at |-> Clock(d), touched |-> k \notin Minted,
                      gone |-> FALSE, body |-> b]
<1>1. PICK b \in 0..MaxBody : Put(d, k, row(b))
  BY DEF Insert
<1>2. row(b) \in Row
  BY ClockType, SyncAssumption DEF Row
<1>3. /\ TableOf[k] \in known[d] /\ draft' = draft
      /\ ~Writing(d) \/ d \in Async
      /\ draft[d] # None => d \in Async
  BY DEF Insert, Interruptible, DeviceInv, Shape, Writing
<1>4. QED
  BY <1>1, <1>2, <1>3, PutKeeps

LEMMA UpdateKeeps ==
    ASSUME TypeOK, NEW d \in Device, NEW k \in Key, DeviceInv(d), Update(d, k)
    PROVE  DeviceInv(d)'
<1>1. PICK b \in 0..MaxBody : Put(d, k, Patched(d, b))
  BY DEF Update
<1>2. Patched(d, b) \in Row
  BY PatchedType
<1>3. /\ TableOf[k] \in known[d] /\ draft' = draft
      /\ ~Writing(d) \/ d \in Async
      /\ draft[d] # None => d \in Async
  BY DEF Update, Live, Interruptible, DeviceInv, Shape, Writing
<1>4. QED
  BY <1>1, <1>2, <1>3, PutKeeps

LEMMA BeginUpdateKeeps ==
    ASSUME TypeOK, NEW d \in Device, NEW k \in Key, DeviceInv(d),
           BeginUpdate(d, k)
    PROVE  DeviceInv(d)'
BY DraftKeeps DEF BeginUpdate

LEMMA CommitUpdateKeeps ==
    ASSUME TypeOK, NEW d \in Device, DeviceInv(d), CommitUpdate(d)
    PROVE  DeviceInv(d)'
<1>1. /\ draft[d] \in Record /\ draft[d].key \in Key /\ draft[d].row \in Row
      /\ draft'[d] = None /\ d \in Async
  BY DEF CommitUpdate, TypeOK, Record, DeviceInv, Shape
<1>2. CASE Live(d, draft[d].key)
  <2>1. Put(d, draft[d].key, draft[d].row)
    BY <1>2 DEF CommitUpdate
  <2>2. TableOf[draft[d].key] \in known[d]
    BY <1>1, <1>2 DEF Live, DeviceInv, Shape
  <2>3. QED
    BY <1>1, <2>1, <2>2, PutKeeps
<1>3. CASE ~Live(d, draft[d].key)
  BY <1>1, <1>3, DraftKeeps DEF CommitUpdate
<1>4. QED
  BY <1>2, <1>3

LEMMA SoftDeleteKeeps ==
    ASSUME TypeOK, NEW d \in Device, NEW k \in Key, DeviceInv(d),
           SoftDelete(d, k)
    PROVE  DeviceInv(d)'
<1> DEFINE old == store[d][k]
           at == IF Clock(d) > old.at + 1 THEN Clock(d) ELSE old.at + 1
           tomb == [old EXCEPT !.at = at, !.touched = TRUE, !.gone = TRUE]
<1>1. Put(d, k, tomb) /\ draft' = draft
  BY DEF SoftDelete
<1>2. old \in Row
  BY DEF SoftDelete, Live, TypeOK
<1>3. at \in Nat
  BY <1>2, ClockType DEF Row
<1>4. tomb \in Row
  BY <1>2, <1>3 DEF Row
<1>5. /\ TableOf[k] \in known[d]
      /\ ~Writing(d) \/ d \in Async
      /\ draft[d] # None => d \in Async
  BY DEF SoftDelete, Live, Interruptible, DeviceInv, Shape, Writing
<1>6. QED
  BY <1>1, <1>4, <1>5, PutKeeps

-----------------------------------------------------------------------------
(* The invariant, step by step.                                            *)

\* What device d does is its own affair, but for the log it appends to.
LEMMA Local ==
    ASSUME TypeOK, NEW d \in Device, NEW e \in Device \ {d},
           \/ \E k \in Key : \/ Insert(d, k) \/ Update(d, k)
                             \/ BeginUpdate(d, k) \/ SoftDelete(d, k)
           \/ CommitUpdate(d) \/ Sync(d) \/ Abort(d) \/ Upgrade(d)
    PROVE  LogGrows /\ Same(e)
<1> USE DEF Same, LogGrows, TypeOK, persisted, volatile
<1>1. ASSUME NEW k, NEW row, Put(d, k, row), draft'[e] = draft[e]
      PROVE  LogGrows /\ Same(e)
  BY <1>1 DEF Put
<1>2. CASE \E k \in Key : \/ Insert(d, k) \/ Update(d, k)
                          \/ BeginUpdate(d, k) \/ SoftDelete(d, k)
  <2>1. ASSUME NEW k \in Key, Insert(d, k) PROVE LogGrows /\ Same(e)
    BY <1>1, <2>1 DEF Insert
  <2>2. ASSUME NEW k \in Key, Update(d, k) PROVE LogGrows /\ Same(e)
    BY <1>1, <2>2 DEF Update
  <2>3. ASSUME NEW k \in Key, BeginUpdate(d, k) PROVE LogGrows /\ Same(e)
    BY <2>3 DEF BeginUpdate
  <2>4. ASSUME NEW k \in Key, SoftDelete(d, k) PROVE LogGrows /\ Same(e)
    BY <1>1, <2>4 DEF SoftDelete
  <2>5. QED
    BY <1>2, <2>1, <2>2, <2>3, <2>4
<1>3. CASE CommitUpdate(d)
  <2>1. draft'[e] = draft[e]
    BY <1>3 DEF CommitUpdate
  <2>2. QED
    BY <1>1, <1>3, <2>1 DEF CommitUpdate
<1>4. CASE StartSync(d) \/ ScanTable(d) \/ SaveMark(d) \/ Pull(d)
  BY <1>4 DEF StartSync, ScanTable, SaveMark, Pull
<1>5. CASE Push(d)
  BY <1>5 DEF Push
<1>6. CASE SkipRecord(d) \/ KeepLocal(d) \/ TakeRemote(d)
  BY <1>6 DEF SkipRecord, KeepLocal, TakeRemote
<1>7. CASE WriteRemote(d) \/ SaveCursor(d)
  BY <1>7 DEF WriteRemote, SaveCursor
<1>8. CASE Abort(d)
  <2>1. LogGrows
    <3>1. \A part \in SUBSET outbox[d] : part \in SUBSET Record
      OBVIOUS
    <3>2. QED
      BY <1>8, <3>1 DEF Abort
  <2>2. Same(e)
    BY <1>8 DEF Abort
  <2>3. QED
    BY <2>1, <2>2
<1>9. CASE Upgrade(d)
  BY <1>9 DEF Upgrade
<1>10. QED
  BY <1>2, <1>3, <1>4, <1>5, <1>6, <1>7, <1>8, <1>9 DEF Sync

LEMMA InitInv == Init => IInv
<1> SUFFICES ASSUME Init PROVE IInv
  OBVIOUS
<1>1. TypeOK
  BY InitType
<1>2. ASSUME NEW d \in Device
      PROVE  DeviceInv(d)
  BY SyncAssumption DEF Init, DeviceInv, Shape, Ahead, Collected, Covered,
     Pulled, Decided, Writing
<1>3. QED
  BY <1>1, <1>2 DEF IInv

LEMMA NextInv == IInv /\ [Next]_vars => IInv'
<1> SUFFICES ASSUME IInv, [Next]_vars PROVE IInv'
  OBVIOUS
<1>1. TypeOK /\ TypeOK' /\ \A d \in Device : DeviceInv(d)
  BY NextType DEF IInv
<1>2. ASSUME UNCHANGED <<persisted, log, volatile, draft, astray, missed>>
      PROVE  \A e \in Device : DeviceInv(e)'
  <2>1. LogGrows /\ \A e \in Device : Same(e)
    BY <1>2 DEF LogGrows, Same, persisted, volatile
  <2>2. QED
    BY <1>1, <2>1, Bystander
<1>3. CASE UNCHANGED vars
  BY <1>1, <1>2, <1>3 DEF IInv, vars
<1>4. CASE Tick
  BY <1>1, <1>2, <1>4 DEF IInv, Tick
<1>5. ASSUME NEW d \in Device,
             \/ \E k \in Key : \/ Insert(d, k) \/ Update(d, k)
                               \/ BeginUpdate(d, k) \/ SoftDelete(d, k)
             \/ CommitUpdate(d) \/ Sync(d) \/ Abort(d) \/ Upgrade(d)
      PROVE  IInv'
  <2>1. ASSUME NEW e \in Device \ {d}
        PROVE  DeviceInv(e)'
    BY <1>1, <1>5, Local, Bystander
  <2>2. DeviceInv(d)'
    <3>1. CASE \E k \in Key : \/ Insert(d, k) \/ Update(d, k)
                              \/ BeginUpdate(d, k) \/ SoftDelete(d, k)
      BY <1>1, <3>1, InsertKeeps, UpdateKeeps, BeginUpdateKeeps,
         SoftDeleteKeeps
    <3>2. CASE CommitUpdate(d) \/ Abort(d) \/ Upgrade(d)
      BY <1>1, <3>2, CommitUpdateKeeps, AbortKeeps, UpgradeKeeps
    <3>3. CASE Sync(d)
      BY <1>1, <3>3, StartSyncKeeps, ScanTableKeeps, PushKeeps, SaveMarkKeeps,
         PullKeeps, SkipRecordKeeps, KeepLocalKeeps, TakeRemoteKeeps,
         WriteRemoteKeeps, SaveCursorKeeps DEF Sync
    <3>4. QED
      BY <1>5, <3>1, <3>2, <3>3
  <2>3. QED
    BY <1>1, <2>1, <2>2 DEF IInv
<1>6. QED
  BY <1>3, <1>4, <1>5 DEF Next

-----------------------------------------------------------------------------
(* What follows, for every account.                                        *)

\* The state every device keeps has its type in every reachable state,
\* whatever the engine runs, the user writes and the crashes do.
THEOREM TypeCorrect == Spec => []TypeOK
BY InitType, NextType, PTL DEF Spec

\* Every reachable state satisfies the inductive invariant: what each phase of
\* a run of engine.ts sync() may assume about the rows, the mark, the cursor
\* and the relay's log, on every device at once.
THEOREM Inductive == Spec => []IInv
BY InitInv, NextInv, PTL DEF Spec

\* engine.ts push never leaves a write behind its mark that the relay does not
\* hold, but for a row written out of order on that device: however many
\* tables, runs killed between the request and the mark, pushes cut short, and
\* rows pulled from peers moving the mark.
THEOREM NoWriteLeftBehind == Spec => []PushedOrAhead
<1>1. IInv => PushedOrAhead
  BY DEF IInv, DeviceInv, PushedOrAhead
<1>2. QED
  BY <1>1, Inductive, PTL

\* engine.ts pull never leaves a record behind its cursor that the device
\* neither holds nor has outgrown, unless its build could not read it or it
\* wrote that row out of order.
THEOREM NoRecordLeftBehind == Spec => []CursorCovered
<1>1. IInv => CursorCovered
  BY DEF IInv, DeviceInv, CursorCovered
<1>2. QED
  BY <1>1, Inductive, PTL

\* A row of a quiet device is on the relay, where a quiet peer has seen it.
LEMMA QuietHolds ==
    ASSUME IInv, NEW d \in Device, NEW e \in Device, Quiet(d), Quiet(e),
           NEW k \in Key, store[d][k] # None, k \notin astray[d],
           k \notin astray[e], k \notin missed[e]
    PROVE  AtLeast(store[e][k], store[d][k])
<1>1. TypeOK /\ Ahead(d) /\ Covered(e)
  BY DEF IInv, DeviceInv
<1>2. store[d][k].at \in Nat /\ hwm[d] \in Nat /\ store[d][k].at <= hwm[d]
  BY <1>1 DEF TypeOK, Quiet, Row
<1>3. OnRelay(k, store[d][k])
  BY <1>1, <1>2 DEF Ahead
<1>4. PICK i \in DOMAIN log : [key |-> k, row |-> store[d][k]] \in log[i]
  BY <1>3 DEF OnRelay
<1>5. i \in 1..cursor[e]
  BY <1>1, <1>4 DEF Quiet, TypeOK
<1>6. QED
  BY <1>1, <1>4, <1>5 DEF Covered, Excused

\* Convergence: two devices with nothing left to push, pull or write hold the
\* same version of every row neither wrote out of order nor passed over,
\* because each row is on the relay and the merge is a maximum.
THEOREM QuietDevicesAgree == Spec => []QuietAgree
<1>1. ASSUME IInv PROVE QuietAgree
  <2>1. SUFFICES ASSUME NEW d \in Device, NEW e \in Device, Quiet(d), Quiet(e),
                        NEW k \in Key,
                        k \notin astray[d] \cup missed[d] \cup astray[e] \cup missed[e]
                 PROVE  store[d][k] = store[e][k]
    BY DEF QuietAgree, Agree
  <2>2. store[d][k] \in Row \cup {None} /\ store[e][k] \in Row \cup {None}
    BY <1>1 DEF IInv, TypeOK
  <2>3. store[d][k] # None => AtLeast(store[e][k], store[d][k])
    BY <1>1, <2>1, QuietHolds
  <2>4. store[e][k] # None => AtLeast(store[d][k], store[e][k])
    BY <1>1, <2>1, QuietHolds
  <2>5. CASE store[d][k] = None \/ store[e][k] = None
    BY <2>3, <2>4, <2>5 DEF AtLeast
  <2>6. CASE store[d][k] # None /\ store[e][k] # None
    BY <2>2, <2>3, <2>4, <2>6, AtLeastAntisymmetric
  <2>7. QED
    BY <2>5, <2>6
<1>2. QED
  BY <1>1, Inductive, PTL

\* Only the user's writes and WriteRemote touch a row.
LEMMA StoreWriters ==
    ASSUME TypeOK, [Next]_vars, edits' = edits
    PROVE  store' = store \/ \E d \in Device : WriteRemote(d)
<1>1. ASSUME NEW d, NEW k, NEW row, Put(d, k, row) PROVE FALSE
  BY <1>1 DEF Put, TypeOK
<1>2. CASE UNCHANGED vars
  BY <1>2 DEF vars, persisted
<1>3. CASE Tick
  BY <1>3 DEF Tick, persisted
<1>4. ASSUME NEW d \in Device, NEW k \in Key,
             \/ Insert(d, k) \/ Update(d, k)
             \/ BeginUpdate(d, k) \/ SoftDelete(d, k)
      PROVE  store' = store
  BY <1>1, <1>4 DEF Insert, Update, BeginUpdate, SoftDelete, persisted
<1>5. ASSUME NEW d \in Device, CommitUpdate(d) \/ Abort(d) \/ Upgrade(d)
      PROVE  store' = store
  BY <1>1, <1>5 DEF CommitUpdate, Abort, Upgrade, persisted
<1>6. ASSUME NEW d \in Device, Sync(d), ~WriteRemote(d)
      PROVE  store' = store
  BY <1>6 DEF Sync, StartSync, ScanTable, Push, SaveMark, Pull, SkipRecord,
     KeepLocal, TakeRemote, SaveCursor, persisted
<1>7. QED
  BY <1>2, <1>3, <1>4, <1>5, <1>6 DEF Next

\* On a device whose driver is synchronous no step but the user's own write
\* makes a row older: the version upsertFromRemote writes still beats the one
\* it was compared with.
THEOREM SyncDriverMergesUp == Spec => SyncDriverNeverRegresses
<1>1. ASSUME IInv, [Next]_vars
      PROVE  \A d \in Device \ Async : NoRegress(d)
  <2>1. SUFFICES ASSUME NEW d \in Device \ Async, edits' = edits,
                        NEW k \in Key, store[d][k] # None
                 PROVE  AtLeast(store'[d][k], store[d][k])
    BY DEF NoRegress
  <2>2. TypeOK /\ DeviceInv(d)
    BY <1>1 DEF IInv
  <2>3. CASE store' = store
    BY <2>1, <2>3 DEF AtLeast
  <2>4. ASSUME NEW e \in Device, WriteRemote(e)
        PROVE  AtLeast(store'[d][k], store[d][k])
    <3>1. CASE e = d /\ k = verdict[d].key
      <4>1. verdict[d] \in Record /\ verdict[d].row # None
        BY <2>2, <2>4, <3>1, NoneAssumption DEF WriteRemote, TypeOK, Record
      <4>2. Beats(verdict[d].row, store[d][k])
        BY <2>1, <2>2, <2>4, <3>1
        DEF WriteRemote, DeviceInv, Decided, Writing
      <4>3. pc[d] = "update"
        BY <2>1, <2>2, <2>4, <3>1
        DEF WriteRemote, DeviceInv, Decided, Writing
      <4>4. store'[d][k] = verdict[d].row
        BY <2>2, <2>4, <3>1, <4>3 DEF WriteRemote, TypeOK
      <4>5. QED
        BY <4>1, <4>2, <4>4 DEF AtLeast
    <3>2. CASE ~(e = d /\ k = verdict[d].key)
      <4>1. store'[d][k] = store[d][k]
        <5>1. CASE store' = [store EXCEPT ![e][verdict[e].key] = verdict[e].row]
          BY <2>2, <3>2, <5>1 DEF TypeOK
        <5>2. CASE store' = store
          BY <5>2
        <5>3. QED
          BY <2>4, <5>1, <5>2 DEF WriteRemote
      <4>2. QED
        BY <2>1, <4>1 DEF AtLeast
    <3>3. QED
      BY <3>1, <3>2
  <2>5. QED
    BY <1>1, <2>1, <2>2, <2>3, <2>4, StoreWriters
<1>2. QED
  BY <1>1, Inductive, PTL DEF Spec, SyncDriverNeverRegresses

-----------------------------------------------------------------------------
(* When a device syncs (SyncScheduler), for any number of writes and       *)
(* failed runs.                                                            *)

USE DEF timers, flight, rows, history

\* The flags stay Boolean.
LEMMA SchedulerFlags ==
  ASSUME SchedulerTypeOK, [SchedulerNext]_schedulerVars
  PROVE /\ auto' \in BOOLEAN /\ beating' \in BOOLEAN
        /\ armed' \in BOOLEAN /\ open' \in BOOLEAN
<1> USE DEF SchedulerTypeOK
<1>1. CASE Beat \/ Focus \/ SyncNow
  BY <1>1, Zenon DEF Beat, Focus, AutoTrigger, SyncNow
<1>2. CASE Start \/ Stop
  BY <1>2, Zenon DEF Start, Stop, CancelKick
<1>3. CASE Enable \/ Disable
  BY <1>3, Zenon DEF Enable, Disable, CancelKick
<1>4. CASE Write \/ Resolve \/ Reject \/ Fire
  BY <1>4, Zenon DEF Write, Resolve, Kick, Reject, Fire
<1>5. CASE List \/ Complete \/ Fail
  BY <1>5, Zenon DEF List, Complete, Fail
<1>6. CASE UNCHANGED schedulerVars
  BY <1>6, Zenon DEF schedulerVars
<1> QED
  BY <1>1, <1>2, <1>3, <1>4, <1>5, <1>6 DEF SchedulerNext

\* The invariant holds when the scheduler is created.
LEMMA SchedulerStarts == SchedulerInit => SchedulerInv
<1> SUFFICES ASSUME SchedulerInit PROVE SchedulerInv
  OBVIOUS
<1>1. /\ auto \in BOOLEAN /\ beating \in BOOLEAN
      /\ armed \in BOOLEAN /\ open \in BOOLEAN
  BY Zenon DEF SchedulerInit
<1> QED
  BY <1>1, SchedulerAssumption
     DEF SchedulerInit, SchedulerInv, SchedulerTypeOK, NoKickLost

\* Every step keeps it: a kick's due writes pass from the timer to the run, from
\* the run to the relay, or to one of the excuses NoKickLost names.
LEMMA SchedulerSteps == SchedulerInv /\ [SchedulerNext]_schedulerVars => SchedulerInv'
<1> SUFFICES ASSUME SchedulerInv, [SchedulerNext]_schedulerVars PROVE SchedulerInv'
  OBVIOUS
<1>0. /\ auto' \in BOOLEAN /\ beating' \in BOOLEAN
      /\ armed' \in BOOLEAN /\ open' \in BOOLEAN
  BY SchedulerFlags DEF SchedulerInv
<1> USE <1>0, SchedulerAssumption DEF SchedulerInv, SchedulerTypeOK, NoKickLost
<1>1. CASE Beat
  BY <1>1 DEF Beat, AutoTrigger, Trigger
<1>2. CASE Focus
  BY <1>2 DEF Focus, AutoTrigger, Trigger
<1>3. CASE SyncNow
  BY <1>3 DEF SyncNow, Trigger
<1>4. CASE Start
  BY <1>4 DEF Start
<1>5. CASE Stop
  BY <1>5 DEF Stop, CancelKick
<1>6. CASE Enable
  BY <1>6 DEF Enable, Trigger
<1>7. CASE Disable
  BY <1>7 DEF Disable, CancelKick
<1>8. CASE Write
  BY <1>8 DEF Write
<1>9. CASE Resolve
  BY <1>9 DEF Resolve, Kick
<1>10. CASE Reject
  BY <1>10 DEF Reject
<1>11. CASE Fire
  BY <1>11 DEF Fire, Trigger
<1>12. CASE List
  BY <1>12 DEF List
<1>13. CASE Complete
  BY <1>13 DEF Complete
<1>14. CASE Fail
  BY <1>14 DEF Fail
<1>15. CASE UNCHANGED schedulerVars
  BY <1>15 DEF schedulerVars
<1> QED
  BY <1>1, <1>2, <1>3, <1>4, <1>5, <1>6, <1>7, <1>8, <1>9, <1>10, <1>11,
     <1>12, <1>13, <1>14, <1>15 DEF SchedulerNext

\* The inductive invariant: with type correctness, that the timer is set only
\* while automatic sync is on, and that a run lists at least what is pushed.
THEOREM SchedulerInductive == SchedulerSpec => []SchedulerInv
BY SchedulerStarts, SchedulerSteps, PTL DEF SchedulerSpec

\* Type correctness.
THEOREM SchedulerTypeCorrect == SchedulerSpec => []SchedulerTypeOK
<1>1. SchedulerInv => SchedulerTypeOK
  BY DEF SchedulerInv
<1> QED
  BY <1>1, SchedulerInductive, PTL

\* No kick's writes are lost but to the three excuses.  (scheduler.ts kick,
\* trigger.)
THEOREM KicksAreKept == SchedulerSpec => []NoKickLost
<1>1. SchedulerInv => NoKickLost
  BY DEF SchedulerInv
<1> QED
  BY <1>1, SchedulerInductive, PTL

\* Opted out, only the user begins runs.  (scheduler.ts setAutoEnabled.)
THEOREM OptOutIsKept == SchedulerSpec => OptOutHolds
<1>1. SchedulerInv /\ [SchedulerNext]_schedulerVars =>
        [run = "none" /\ run' = "begun" /\ by' = "auto" => auto']_schedulerVars
  <2> SUFFICES ASSUME SchedulerInv, SchedulerNext,
                      run = "none", run' = "begun", by' = "auto"
               PROVE auto'
    BY DEF schedulerVars
  <2>1. CASE SyncNow
    BY <2>1 DEF SyncNow, Trigger
  <2>2. CASE Fire
    BY <2>2 DEF Fire, SchedulerInv
  <2>3. CASE Beat \/ Focus
    BY <2>3 DEF Beat, Focus, AutoTrigger
  <2>4. CASE Enable
    BY <2>4 DEF Enable
  <2>5. CASE Start \/ Stop \/ Disable \/ Write \/ Resolve \/ Reject
    BY <2>5 DEF Start, Stop, Disable, Write, Resolve, Reject
  <2>6. CASE List \/ Complete \/ Fail
    BY <2>6 DEF List, Complete, Fail
  <2> QED
    BY <2>1, <2>2, <2>3, <2>4, <2>5, <2>6 DEF SchedulerNext
<1> QED
  BY <1>1, SchedulerInductive, PTL DEF SchedulerSpec, OptOutHolds
=============================================================================
