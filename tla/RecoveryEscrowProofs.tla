------------------------ MODULE RecoveryEscrowProofs ------------------------
(***************************************************************************)
(* Proofs about RecoveryEscrow, for any devices and any number of          *)
(* rotations, failures and sign-outs.                                      *)
(***************************************************************************)
EXTENDS RecoveryEscrow, TLAPS

-----------------------------------------------------------------------------
(* Type correctness.                                                       *)

\* Where an activity moves to, and what that leaves alone.
LEMMA GoEffect ==
    ASSUME TypeOK, NEW d \in Device, NEW a \in Activity, NEW s \in Step,
           NEW k \in RecoveryKey \cup {None}, Go(d, a, s, k)
    PROVE  /\ pc' \in [Device -> [Activity -> Step]]
           /\ hand' \in [Device -> [Activity -> RecoveryKey \cup {None}]]
           /\ clashed' \subseteq Device
           /\ pc'[d][a] = s
           /\ hand'[d][a] = IF s = "idle" THEN None ELSE k
           /\ \A b \in Activity \ {a} : pc'[d][b] = pc[d][b] /\ hand'[d][b] = hand[d][b]
           /\ \A e \in Device \ {d} : pc'[e] = pc[e] /\ hand'[e] = hand[e]
           /\ clashed \subseteq clashed' /\ clashed' \subseteq clashed \cup {d}
           /\ d \notin clashed' => \/ pc'[d]["rotate"] = "idle"
                                   \/ /\ pc'[d]["sync"] = "idle"
                                      /\ pc'[d]["converge"] = "idle"
<1>1. pc' = [pc EXCEPT ![d][a] = s]
  BY DEF Go
<1>2. hand' = [hand EXCEPT ![d][a] = IF s = "idle" THEN None ELSE k]
  BY DEF Go
<1>3. pc' \in [Device -> [Activity -> Step]]
  BY <1>1 DEF TypeOK
<1>4. hand' \in [Device -> [Activity -> RecoveryKey \cup {None}]]
  BY <1>2 DEF TypeOK
<1>5. /\ clashed' \subseteq Device
      /\ clashed \subseteq clashed' /\ clashed' \subseteq clashed \cup {d}
  BY DEF TypeOK, Go
<1>6. d \notin clashed' => \/ pc'[d]["rotate"] = "idle"
                           \/ pc'[d]["sync"] = "idle" /\ pc'[d]["converge"] = "idle"
  BY DEF Go, Activity
<1>7. /\ pc'[d][a] = s
      /\ hand'[d][a] = IF s = "idle" THEN None ELSE k
      /\ \A b \in Activity \ {a} : pc'[d][b] = pc[d][b] /\ hand'[d][b] = hand[d][b]
  BY <1>1, <1>2 DEF TypeOK
<1>8. \A e \in Device \ {d} : pc'[e] = pc[e] /\ hand'[e] = hand[e]
  BY <1>1, <1>2 DEF TypeOK
<1>9. QED
  BY <1>3, <1>4, <1>5, <1>6, <1>7, <1>8

LEMMA GoType ==
    ASSUME TypeOK, NEW d \in Device, NEW a \in Activity, NEW s \in Step,
           NEW k \in RecoveryKey \cup {None}, Go(d, a, s, k)
    PROVE  /\ pc' \in [Device -> [Activity -> Step]]
           /\ hand' \in [Device -> [Activity -> RecoveryKey \cup {None}]]
           /\ clashed' \subseteq Device
BY GoEffect

LEMMA HandType ==
    ASSUME TypeOK, NEW d \in Device, NEW a \in Activity
    PROVE  hand[d][a] \in RecoveryKey \cup {None}
BY DEF TypeOK

LEMMA AfterType ==
    ASSUME NEW d \in Device, NEW a \in Activity
    PROVE  AfterFlush(a) \in Step /\ AfterThrow(d, a) \in Step
BY DEF Activity, AfterFlush, AfterThrow, Step

LEMMA InitType == Init => TypeOK
BY EscrowAssumption DEF Init, TypeOK, RecoveryKey, Step

\* The steps that move an activity on and change nothing else.
LEMMA MoveType ==
    ASSUME TypeOK, NEW d \in Device, NEW a \in Activity, NEW s \in Step,
           NEW k \in RecoveryKey \cup {None}, Go(d, a, s, k),
           UNCHANGED <<escrow, device, fresh, budget, history, held>>
    PROVE  TypeOK'
<1>1. /\ pc' \in [Device -> [Activity -> Step]]
      /\ hand' \in [Device -> [Activity -> RecoveryKey \cup {None}]]
      /\ clashed' \subseteq Device
  BY GoType
<1>2. QED
  BY <1>1 DEF TypeOK, device, budget, history

LEMMA ProceedType ==
    ASSUME TypeOK, NEW d \in Device, NEW a \in Activity, NEW s \in Step,
           Proceed(d, a, s)
    PROVE  /\ pc' \in [Device -> [Activity -> Step]]
           /\ hand' \in [Device -> [Activity -> RecoveryKey \cup {None}]]
           /\ clashed' \subseteq Device
<1>1. Go(d, a, s, hand[d][a])
  BY DEF Proceed
<1>2. QED
  BY <1>1, HandType, GoType

LEMMA RotateType ==
    ASSUME TypeOK, NEW d \in Device,
           Rotate(d) \/ Mark(d) \/ Report(d), fresh[d] # None \/ Rotate(d)
    PROVE  TypeOK'
<1>1. CASE Rotate(d)
  <2>1. minted + 1 \in RecoveryKey
    BY <1>1, EscrowAssumption DEF Rotate, TypeOK, RecoveryKey
  <2>2. "rotate" \in Activity /\ "door" \in Step
    BY DEF Activity, Step
  <2>3. /\ pc' \in [Device -> [Activity -> Step]]
        /\ hand' \in [Device -> [Activity -> RecoveryKey \cup {None}]]
        /\ clashed' \subseteq Device
    BY <1>1, <2>1, <2>2, GoType DEF Rotate
  <2>4. QED
    BY <1>1, <2>1, <2>3 DEF Rotate, TypeOK, device, history
<1>2. CASE Mark(d)
  <2>1. "rotate" \in Activity /\ "check" \in Step
    BY DEF Activity, Step
  <2>2. /\ pc' \in [Device -> [Activity -> Step]]
        /\ hand' \in [Device -> [Activity -> RecoveryKey \cup {None}]]
        /\ clashed' \subseteq Device
    BY <1>2, <2>1, ProceedType DEF Mark
  <2>3. QED
    BY <1>2, <2>2 DEF Mark, TypeOK, budget, history
<1>3. CASE Report(d)
  <2>1. "rotate" \in Activity /\ "idle" \in Step
    BY DEF Activity, Step
  <2>2. /\ pc' \in [Device -> [Activity -> Step]]
        /\ hand' \in [Device -> [Activity -> RecoveryKey \cup {None}]]
        /\ clashed' \subseteq Device
    BY <1>3, <2>1, ProceedType DEF Report
  <2>3. fresh[d] \in RecoveryKey
    BY <1>3, EscrowAssumption DEF TypeOK, Rotate, Report
  <2>4. shown' \subseteq RecoveryKey /\ fresh' \in [Device -> RecoveryKey \cup {None}]
    BY <1>3, <2>3 DEF Report, TypeOK
  <2>5. QED
    BY <1>3, <2>2, <2>4 DEF Report, TypeOK, budget, device
<1>4. QED
  BY <1>1, <1>2, <1>3

LEMMA FlushType ==
    ASSUME TypeOK, NEW d \in Device, NEW a \in Activity, Flush(d, a),
           pc[d][a] = "publish" => hand[d][a] # None
    PROVE  TypeOK'
<1>1. CASE Check(d, a)
  <2>1. PICK s \in Step : Proceed(d, a, s)
    BY <1>1, AfterType DEF Check, Step
  <2>2. QED
    BY <1>1, <2>1, HandType, MoveType DEF Check, Proceed
<1>2. CASE Read(d, a)
  <2>1. PICK s \in Step : Go(d, a, s, chain[d])
    BY <1>2, AfterType DEF Read, Step
  <2>2. chain[d] \in RecoveryKey \cup {None}
    BY DEF TypeOK
  <2>3. QED
    BY <1>2, <2>1, <2>2, MoveType DEF Read
<1>3. CASE Publish(d, a)
  <2>1. "clear" \in Step
    BY DEF Step
  <2>2. hand[d][a] \in RecoveryKey
    BY <1>3, HandType DEF Publish
  <2>3. /\ pc' \in [Device -> [Activity -> Step]]
        /\ hand' \in [Device -> [Activity -> RecoveryKey \cup {None}]]
        /\ clashed' \subseteq Device
    BY <1>3, <2>1, ProceedType DEF Publish
  <2>4. escrow' \in RecoveryKey /\ held' \subseteq RecoveryKey
    BY <1>3, <2>2 DEF Publish, TypeOK
  <2>5. QED
    BY <1>3, <2>3, <2>4 DEF Publish, TypeOK, device, budget, history
<1>4. CASE Clear(d, a)
  <2>1. /\ pc' \in [Device -> [Activity -> Step]]
        /\ hand' \in [Device -> [Activity -> RecoveryKey \cup {None}]]
        /\ clashed' \subseteq Device
    BY <1>4, AfterType, ProceedType DEF Clear
  <2>2. QED
    BY <1>4, <2>1 DEF Clear, TypeOK, budget, history
<1>5. QED
  BY <1>1, <1>2, <1>3, <1>4 DEF Flush

LEMMA AdoptType ==
    ASSUME TypeOK, NEW d \in Device, NEW a \in Activity, Adopt(d, a),
           pc[d][a] \in {"door", "wrap", "chain"} => hand[d][a] # None
    PROVE  TypeOK'
<1>1. {"wrap", "chain", "mark", "idle"} \subseteq Step
  BY DEF Step
<1>2. hand[d][a] \in RecoveryKey
  BY HandType DEF Adopt, WriteDoor, WriteWrap, WriteChain
<1>3. /\ pc' \in [Device -> [Activity -> Step]]
      /\ hand' \in [Device -> [Activity -> RecoveryKey \cup {None}]]
      /\ clashed' \subseteq Device
  <2>1. PICK s \in Step : Proceed(d, a, s)
    BY <1>1 DEF Adopt, WriteDoor, WriteWrap, WriteChain
  <2>2. QED
    BY <2>1, ProceedType
<1>4. CASE WriteDoor(d, a)
  BY <1>2, <1>3, <1>4 DEF WriteDoor, TypeOK, budget, history
<1>5. CASE WriteWrap(d, a)
  BY <1>2, <1>3, <1>5 DEF WriteWrap, TypeOK, budget, history
<1>6. CASE WriteChain(d, a)
  BY <1>2, <1>3, <1>6 DEF WriteChain, TypeOK, budget
<1>7. QED
  BY <1>4, <1>5, <1>6 DEF Adopt

LEMMA CatchUpType ==
    ASSUME TypeOK, NEW d \in Device,
           StartSync(d) \/ Recheck(d) \/ Fetch(d) \/ Compare(d)
    PROVE  TypeOK'
<1>1. {"sync", "converge"} \subseteq Activity
  BY DEF Activity
<1>2. CASE StartSync(d)
  <2>1. "read" \in Step
    BY DEF Step
  <2>2. QED
    BY <1>1, <1>2, <2>1, HandType, MoveType DEF StartSync, Proceed
<1>3. CASE Recheck(d)
  <2>1. PICK s \in Step : Proceed(d, "converge", s)
    BY <1>3 DEF Recheck, Step
  <2>2. QED
    BY <1>1, <1>3, <2>1, HandType, MoveType DEF Recheck, Proceed
<1>4. CASE Fetch(d)
  <2>1. "compare" \in Step
    BY DEF Step
  <2>2. escrow \in RecoveryKey \cup {None}
    BY DEF TypeOK
  <2>3. QED
    BY <1>1, <1>4, <2>1, <2>2, MoveType DEF Fetch
<1>5. CASE Compare(d)
  <2>1. PICK s \in Step : Proceed(d, "converge", s)
    BY <1>5 DEF Compare, Step
  <2>2. QED
    BY <1>1, <1>5, <2>1, HandType, MoveType DEF Compare, Proceed
<1>6. QED
  BY <1>2, <1>3, <1>4, <1>5

LEMMA FailType ==
    ASSUME TypeOK, NEW d \in Device, NEW a \in Activity, Fail(d, a),
           pc[d][a] \in {"publish", "door", "wrap", "chain"} => hand[d][a] # None
    PROVE  TypeOK'
<1>1. /\ pc' \in [Device -> [Activity -> Step]]
      /\ hand' \in [Device -> [Activity -> RecoveryKey \cup {None}]]
      /\ clashed' \subseteq Device
  BY AfterType, ProceedType DEF Fail
<1>2. escrow' \in RecoveryKey /\ held' \subseteq RecoveryKey
  BY HandType DEF Fail, Took, Delivered, TypeOK
<1>3. /\ door' \in [Device -> RecoveryKey] /\ wrap' \in [Device -> RecoveryKey]
      /\ chain' \in [Device -> RecoveryKey \cup {None}]
      /\ own' \in [Device -> RecoveryKey \cup {None}]
  BY HandType DEF Fail, Took, TypeOK
<1>4. pending' \in [Device -> BOOLEAN]
  <2>1. CASE Took(d, a)
    BY <2>1, Zenon DEF Took, TypeOK
  <2>2. CASE UNCHANGED pending
    BY <2>2 DEF TypeOK
  <2>3. QED
    BY <2>1, <2>2 DEF Fail
<1>5. /\ torn' \subseteq Device /\ faults' \in Nat
      /\ fresh' \in [Device -> RecoveryKey \cup {None}]
  BY DEF Fail, TypeOK
<1>6. QED
  BY <1>1, <1>2, <1>3, <1>4, <1>5 DEF Fail, TypeOK

LEMMA StopType ==
    ASSUME TypeOK, NEW d \in Device, Crash(d) \/ SignOut(d),
           \A a \in Activity : pc[d][a] = "publish" => hand[d][a] # None
    PROVE  TypeOK'
<1>1. /\ Stop(d)
      /\ chain' \in [Device -> RecoveryKey \cup {None}]
      /\ locked' \in [Device -> BOOLEAN]
      /\ faults' \in Nat /\ exits' \in Nat
  <2>1. CASE Crash(d)
    BY <2>1 DEF Crash, TypeOK
  <2>2. CASE SignOut(d)
    BY <2>2 DEF SignOut, TypeOK
  <2>3. QED
    BY <2>1, <2>2
<1>2. up' \in [Device -> {"down", "open", "degraded"}]
  BY <1>1 DEF Stop, TypeOK
<1>3. /\ pc' \in [Device -> [Activity -> Step]]
      /\ hand' \in [Device -> [Activity -> RecoveryKey \cup {None}]]
      /\ fresh' \in [Device -> RecoveryKey \cup {None}]
  <2>1. "idle" \in Step
    BY DEF Step
  <2>2. QED
    BY <1>1, <2>1 DEF Stop, TypeOK
<1>4. InFlight(d) \subseteq RecoveryKey
  BY HandType DEF InFlight
<1>5. escrow' \in RecoveryKey /\ held' \subseteq RecoveryKey
  BY <1>1, <1>4 DEF Stop, Delivered, TypeOK
<1>6. UNCHANGED <<door, wrap, pending, minted, history, clashed>>
  BY DEF Crash, SignOut
<1>7. QED
  BY <1>1, <1>2, <1>3, <1>5, <1>6 DEF TypeOK, history

LEMMA OpenType ==
    ASSUME TypeOK, NEW d \in Device,
           \/ Launch(d) \/ UnlockByPassword(d)
           \/ \E k \in RecoveryKey : UnlockByPhrase(d, k)
    PROVE  TypeOK'
<1>1. PICK key \in RecoveryKey \cup {None}, mode \in {"open", "degraded"} :
         Opened(d, key, mode)
  BY DEF Launch, UnlockByPassword, UnlockByPhrase, TypeOK
<1>2. door' \in [Device -> RecoveryKey]
  BY DEF Launch, UnlockByPassword, UnlockByPhrase, Resealed, TypeOK
<1>3. /\ pc' \in [Device -> [Activity -> Step]]
      /\ hand' \in [Device -> [Activity -> RecoveryKey \cup {None}]]
      /\ clashed' \subseteq Device
  <2>1. "converge" \in Activity /\ "check" \in Step
    BY DEF Activity, Step
  <2>2. CASE mode = "open"
    BY <1>1, <2>1, <2>2, ProceedType DEF Opened
  <2>3. CASE mode # "open"
    BY <1>1, <2>3 DEF Opened, TypeOK
  <2>4. QED
    BY <2>2, <2>3
<1>4. /\ up' \in [Device -> {"down", "open", "degraded"}]
      /\ locked' \in [Device -> BOOLEAN]
      /\ chain' \in [Device -> RecoveryKey \cup {None}]
  BY <1>1 DEF Opened, TypeOK
<1>5. QED
  BY <1>1, <1>2, <1>3, <1>4 DEF Opened, TypeOK, budget, history

-----------------------------------------------------------------------------
(* The inductive invariant.                                                *)

\* What it says of one device.
Here(e) == Course(e) /\ (e \notin clashed => Keeps(e) /\ Doors(e))

LEMMA Assembled == IInv <=> TypeOK /\ Keys /\ \A e \in Device : Here(e)
BY DEF IInv, Here

\* A step that touches nothing of e.
Untouched(e) ==
    /\ door'[e] = door[e] /\ chain'[e] = chain[e] /\ pending'[e] = pending[e]
    /\ up'[e] = up[e] /\ pc'[e] = pc[e] /\ hand'[e] = hand[e]
    /\ own'[e] = own[e] /\ fresh'[e] = fresh[e]
    /\ e \in clashed' <=> e \in clashed
    /\ e \in torn' <=> e \in torn

\* Of the others a device's step can disturb only what they say of the history:
\* it shows its own fresh key at most, and mints keys nobody has.
LEMMA Elsewhere ==
    ASSUME IInv, NEW d \in Device, NEW e \in Device \ {d},
           \A x \in Device \ {d} : Untouched(x),
           held \subseteq held',
           shown \subseteq shown', shown' \subseteq shown \cup ({fresh[d]} \ {None}),
           fresh'[d] \in {fresh[d], None, minted + 1}
    PROVE  Here(e)'
<1>1. Here(e) /\ TypeOK /\ Keys /\ Untouched(e)
  BY Assembled
<1>2. Course(e)'
  BY <1>1 DEF Here, Course, Untouched
<1>3. ASSUME e \notin clashed'
      PROVE  Doors(e)'
  BY <1>1, <1>3 DEF Here, Doors, Adopting, Untouched
<1>4. ASSUME e \notin clashed'
      PROVE  Keeps(e)'
  <2>1. Keeps(e)
    BY <1>1, <1>4 DEF Here, Untouched
  <2>2. Settled(e) => Settled(e)'
    BY <1>1 DEF Settled, Untouched, Keys
  <2>3. ASSUME door[e] \notin shown, \A x \in Device \ {e} : door[e] # fresh[x]
        PROVE  door'[e] \notin shown' /\ \A x \in Device \ {e} : door'[e] # fresh'[x]
    <3>1. door'[e] = door[e] /\ door[e] \in 0..minted /\ minted \in Nat
      BY <1>1, EscrowAssumption DEF Untouched, Keys, TypeOK, RecoveryKey
    <3>2. door[e] # minted + 1 /\ door[e] # None
      BY <3>1, EscrowAssumption
    <3>3. \A x \in Device \ {d} : fresh'[x] = fresh[x]
      BY DEF Untouched
    <3>4. QED
      BY <2>3, <3>1, <3>2, <3>3
  <2>4. QED
    BY <1>1, <2>1, <2>2, <2>3 DEF Keeps, Untouched
<1>5. QED
  BY <1>2, <1>3, <1>4 DEF Here

LEMMA InitInv == Init => IInv
<1> SUFFICES ASSUME Init
             PROVE  IInv
  OBVIOUS
<1>1. TypeOK
  BY InitType
<1>2. Keys
  BY EscrowAssumption DEF Init, Keys
<1>3. ASSUME NEW d \in Device
      PROVE  Here(d)
  BY EscrowAssumption, <1>3
  DEF Init, Here, Course, Keeps, Doors, Settled, Adopting, Activity
<1>4. QED
  BY <1>1, <1>2, <1>3, Assembled

\* A step of d keeps the invariant if it keeps d's part of it.
LEMMA Stitched ==
    ASSUME IInv, TypeOK', NEW d \in Device, Keys', Here(d)',
           \A x \in Device \ {d} : Untouched(x),
           held \subseteq held',
           shown \subseteq shown', shown' \subseteq shown \cup ({fresh[d]} \ {None}),
           fresh'[d] \in {fresh[d], None, minted + 1}
    PROVE  IInv'
<1>1. \A e \in Device \ {d} : Here(e)'
  BY Elsewhere
<1>2. \A e \in Device : Here(e)'
  BY <1>1
<1>3. QED
  BY <1>2 DEF IInv, Here

\* An activity of d moves on, and its device's other activities stay.
Moved(d, a, s, k) ==
    /\ pc'[d][a] = s
    /\ hand'[d][a] = IF s = "idle" THEN None ELSE k
    /\ \A b \in Activity \ {a} : pc'[d][b] = pc[d][b] /\ hand'[d][b] = hand[d][b]
    /\ \A e \in Device \ {d} :
          /\ pc'[e] = pc[e] /\ hand'[e] = hand[e]
          /\ e \in clashed' <=> e \in clashed
    /\ d \in clashed => d \in clashed'
    /\ d \notin clashed' => \/ pc'[d]["rotate"] = "idle"
                            \/ pc'[d]["sync"] = "idle" /\ pc'[d]["converge"] = "idle"

LEMMA GoMoves ==
    ASSUME TypeOK, NEW d \in Device, NEW a \in Activity, NEW s \in Step,
           NEW k \in RecoveryKey \cup {None}, Go(d, a, s, k)
    PROVE  Moved(d, a, s, k)
BY GoEffect DEF Moved

LEMMA ProceedMoves ==
    ASSUME TypeOK, NEW d \in Device, NEW a \in Activity, NEW s \in Step,
           Proceed(d, a, s)
    PROVE  Moved(d, a, s, hand[d][a])
<1>1. Go(d, a, s, hand[d][a])
  BY DEF Proceed
<1>2. QED
  BY <1>1, HandType, GoMoves

LEMMA RotateInv ==
    ASSUME IInv, NEW d \in Device, Rotate(d)
    PROVE  IInv'
<1>1. TypeOK /\ Keys /\ Here(d)
  BY Assembled
<1>2. TypeOK'
  BY <1>1, RotateType
<1>3. minted \in Nat /\ minted' = minted + 1 /\ minted + 1 \in RecoveryKey
  BY <1>1, EscrowAssumption DEF Rotate, TypeOK, RecoveryKey
<1>4. Moved(d, "rotate", "door", minted + 1)
  <2>1. "rotate" \in Activity /\ "door" \in Step
    BY DEF Activity, Step
  <2>2. QED
    BY <1>1, <1>3, <2>1, GoMoves DEF Rotate
<1>5. fresh'[d] = minted + 1 /\ \A x \in Device \ {d} : fresh'[x] = fresh[x]
  BY <1>1 DEF Rotate, TypeOK
<1>6. \A x \in Device \ {d} : Untouched(x)
  BY <1>4, <1>5 DEF Rotate, Untouched, Moved, device, history
<1>7. Keys'
  <2>1. 0..minted \subseteq 0..minted' /\ minted + 1 \in 0..minted' /\ minted + 1 \notin 0..minted
    BY <1>3
  <2>2. /\ shown' = shown /\ held' = held /\ escrow' = escrow /\ door' = door
        /\ chain' = chain /\ own' = own
    BY DEF Rotate, device, history
  <2>3. \A e \in Device, a \in Activity : hand'[e][a] \in 0..minted' \cup {None}
    BY <1>1, <1>4, <2>1 DEF Moved, Keys
  <2>4. \A e \in Device : fresh'[e] \in 0..minted' \cup {None}
    BY <1>1, <1>5, <2>1 DEF Keys
  <2>5. \A e \in Device : fresh'[e] \notin shown'
    BY <1>1, <1>5, <2>1, <2>2 DEF Keys
  <2>6. ASSUME NEW e \in Device, NEW x \in Device, fresh'[e] # None,
               fresh'[e] \in {fresh'[x], own'[x]}
        PROVE  e = x
    <3>1. fresh[x] # minted + 1 /\ own[x] # minted + 1 /\ fresh[e] # minted + 1
      BY <1>1, <1>3, <2>1, EscrowAssumption DEF Keys
    <3>2. QED
      BY <1>1, <1>5, <2>2, <2>6, <3>1 DEF Keys
  <2>7. QED
    BY <1>1, <2>1, <2>2, <2>3, <2>4, <2>5, <2>6 DEF Keys
<1>8. Here(d)'
  <2>1. UNCHANGED <<door, chain, pending, up, own, shown, held>>
    BY DEF Rotate, device, history
  <2>2. Course(d)'
    BY <1>1, <1>3, <1>4, <1>5, <2>1, EscrowAssumption
    DEF Here, Course, Moved, Activity, Rotate
  <2>3. ASSUME d \notin clashed'
        PROVE  Keeps(d)' /\ Doors(d)'
    <3>1. Keeps(d) /\ Doors(d)
      BY <1>1, <1>4, <2>3 DEF Here, Moved
    <3>2. \A x \in Device \ {d} : fresh'[x] = fresh[x]
      BY <1>5
    <3>3. /\ pc[d]["rotate"] = "idle" /\ pc'[d]["rotate"] = "door"
          /\ pc'[d]["sync"] = pc[d]["sync"] /\ hand'[d]["sync"] = hand[d]["sync"]
          /\ pc'[d]["converge"] = pc[d]["converge"]
          /\ hand'[d]["converge"] = hand[d]["converge"]
      BY <1>4 DEF Moved, Activity, Rotate
    <3>4. Keeps(d)'
      BY <2>1, <3>1, <3>2, <3>3 DEF Keeps, Settled
    <3>5. Doors(d)'
      BY <2>1, <3>1, <3>3 DEF Doors, Adopting, Activity
    <3>6. QED
      BY <3>4, <3>5
  <2>4. QED
    BY <2>2, <2>3 DEF Here
<1>9. QED
  BY <1>2, <1>5, <1>6, <1>7, <1>8, Stitched DEF Rotate, history

\* Keys, over a step that neither mints nor shows one.
LEMMA KeysSame ==
    ASSUME TypeOK, Keys, UNCHANGED <<shown, minted, fresh>>,
           held' \subseteq 0..minted, escrow' \in held',
           \A e \in Device :
              /\ door'[e] \in 0..minted
              /\ chain'[e] \in 0..minted \cup {None}
              /\ own'[e] = own[e] \/ own'[e] = fresh[e]
              /\ \A a \in Activity : hand'[e][a] \in 0..minted \cup {None}
    PROVE  Keys'
BY DEF Keys

LEMMA AdoptInv ==
    ASSUME IInv, NEW d \in Device, NEW a \in Activity, Adopt(d, a)
    PROVE  IInv'
<1>1. TypeOK /\ Keys /\ Here(d) /\ Course(d)
  BY Assembled DEF Here
<1>2. a # "sync"
  BY <1>1 DEF Adopt, WriteDoor, WriteWrap, WriteChain, Course
<1>3. pc[d][a] \in {"door", "wrap", "chain"} /\ hand[d][a] # None
  BY <1>1 DEF Adopt, WriteDoor, WriteWrap, WriteChain, Course
<1>4. TypeOK'
  BY <1>1, <1>3, AdoptType
<1>5. hand[d][a] \in 0..minted
  BY <1>1, <1>3 DEF Keys
<1>6. PICK s \in Step : Moved(d, a, s, hand[d][a])
  <2>1. {"wrap", "chain", "mark", "idle"} \subseteq Step
    BY DEF Step
  <2>2. PICK s \in Step : Proceed(d, a, s)
    BY <2>1 DEF Adopt, WriteDoor, WriteWrap, WriteChain
  <2>3. QED
    BY <1>1, <2>2, ProceedMoves
<1>7. UNCHANGED <<escrow, pending, up, fresh, budget, shown, held>>
  BY DEF Adopt, WriteDoor, WriteWrap, WriteChain, history
<1>8. \A x \in Device \ {d} : Untouched(x)
  BY <1>1, <1>6, <1>7
  DEF Untouched, Moved, Adopt, WriteDoor, WriteWrap, WriteChain, TypeOK, history
<1>9. own'[d] = own[d] \/ own'[d] = fresh[d]
  BY <1>1 DEF Adopt, WriteDoor, WriteWrap, WriteChain, TypeOK, Course, history
<1>10. Keys'
  <2>1. door'[d] \in 0..minted /\ chain'[d] \in 0..minted \cup {None}
    BY <1>1, <1>5 DEF Adopt, WriteDoor, WriteWrap, WriteChain, TypeOK, Keys
  <2>2. \A e \in Device, b \in Activity : hand'[e][b] \in 0..minted \cup {None}
    BY <1>1, <1>5, <1>6 DEF Moved, Keys
  <2>3. \A e \in Device : /\ door'[e] \in 0..minted
                          /\ chain'[e] \in 0..minted \cup {None}
                          /\ own'[e] = own[e] \/ own'[e] = fresh[e]
    BY <1>1, <1>8, <1>9, <2>1 DEF Untouched, Keys
  <2>4. QED
    BY <1>1, <1>7, <2>2, <2>3, KeysSame DEF budget, Keys
<1>11. Here(d)'
  <2>1. /\ "rotate" \in Activity /\ "sync" \in Activity /\ "converge" \in Activity
        /\ a \in {"rotate", "converge"}
    BY <1>2 DEF Activity
  <2>2. \/ pc[d][a] = "door" /\ pc'[d][a] = "wrap"
        \/ pc[d][a] = "wrap" /\ pc'[d][a] = "chain"
        \/ pc[d][a] = "chain" /\ pc'[d][a] = IF a = "rotate" THEN "mark" ELSE "idle"
    BY <1>1 DEF Adopt, WriteDoor, WriteWrap, WriteChain, Proceed, Go, TypeOK
  <2>3. /\ \A b \in Activity \ {a} : pc'[d][b] = pc[d][b] /\ hand'[d][b] = hand[d][b]
        /\ pc'[d][a] # "idle" => hand'[d][a] = hand[d][a]
        /\ d \notin clashed' =>
              /\ d \notin clashed
              /\ \/ pc'[d]["rotate"] = "idle"
                 \/ pc'[d]["sync"] = "idle" /\ pc'[d]["converge"] = "idle"
    BY <1>6 DEF Moved
  <2>4. Course(d)'
    BY <1>1, <1>7, <2>1, <2>2, <2>3 DEF Course, Activity
  <2>5. ASSUME d \notin clashed'
        PROVE  Keeps(d)' /\ Doors(d)'
    <3>1. Keeps(d) /\ Doors(d)
      BY <1>1, <2>3, <2>5 DEF Here
    <3>2. CASE WriteDoor(d, a)
      <4>1. /\ door'[d] = hand[d][a] /\ pc[d][a] = "door" /\ pc'[d][a] = "wrap"
            /\ chain' = chain /\ own' = own
        BY <1>1, <3>2, <2>2 DEF WriteDoor, TypeOK, history
      <4>2. Doors(d)'
        BY <1>7, <2>1, <2>3, <2>5, <4>1, <1>1 DEF Doors, Adopting, Activity, Course
      <4>3. Settled(d)' <=> Settled(d)
        BY <1>7, <4>1 DEF Settled
      <4>4. CASE a = "rotate"
        <5>1. door'[d] = fresh[d] /\ fresh[d] # None
          BY <1>1, <1>3, <4>1, <4>4 DEF Course
        <5>2. door'[d] \notin shown' /\ \A e \in Device \ {d} : door'[d] # fresh'[e]
          BY <1>1, <1>7, <5>1 DEF Keys
        <5>3. QED
          BY <1>7, <2>1, <2>3, <2>5, <3>1, <4>1, <4>2, <4>3, <4>4, <5>2 DEF Keeps
      <4>5. CASE a = "converge"
        BY <1>7, <2>1, <2>3, <2>5, <3>1, <4>1, <4>2, <4>3, <4>5 DEF Keeps
      <4>6. QED
        BY <2>1, <4>4, <4>5
    <3>3. CASE WriteWrap(d, a)
      <4>1. /\ pc[d][a] = "wrap" /\ pc'[d][a] = "chain"
            /\ door' = door /\ chain' = chain /\ own' = own
        BY <3>3, <2>2 DEF WriteWrap, history
      <4>2. Doors(d)'
        BY <1>7, <2>1, <2>3, <2>5, <3>1, <4>1 DEF Doors, Adopting, Activity
      <4>3. Settled(d)' <=> Settled(d)
        BY <1>7, <4>1 DEF Settled
      <4>4. QED
        BY <1>7, <2>1, <2>3, <2>5, <3>1, <4>1, <4>2, <4>3 DEF Keeps
    <3>4. CASE WriteChain(d, a)
      <4>1. /\ pc[d][a] = "chain" /\ chain'[d] = hand[d][a] /\ door' = door
            /\ door[d] = hand[d][a]
            /\ own'[d] = IF a = "rotate" THEN hand[d][a] ELSE own[d]
        BY <1>1, <3>1, <3>4 DEF WriteChain, TypeOK, Doors
      <4>2. Doors(d)'
        BY <1>7, <1>1, <2>1, <2>2, <2>3, <2>5, <3>1, <4>1
        DEF Doors, Adopting, Activity, Course
      <4>3. CASE a = "rotate"
        <5>1. own'[d] = fresh[d] /\ fresh[d] \notin shown /\ pc'[d]["rotate"] = "mark"
          BY <1>1, <1>3, <2>2, <4>1, <4>3 DEF Course, Keys
        <5>2. Settled(d)'
          BY <1>7, <5>1 DEF Settled
        <5>3. QED
          BY <1>7, <2>1, <2>3, <2>5, <3>1, <4>1, <4>2, <4>3, <5>1, <5>2 DEF Keeps
      <4>4. CASE a = "converge"
        <5>1. Settled(d)' /\ pc'[d]["converge"] = "idle"
          BY <1>7, <2>2, <3>1, <4>1, <4>4 DEF Keeps, Settled
        <5>2. QED
          BY <1>7, <1>1, <2>1, <2>3, <2>5, <3>1, <4>1, <4>2, <4>4, <5>1
          DEF Keeps, Course
      <4>5. QED
        BY <2>1, <4>3, <4>4
    <3>5. QED
      BY <3>2, <3>3, <3>4 DEF Adopt
  <2>6. QED
    BY <2>4, <2>5 DEF Here
<1>12. QED
  BY <1>4, <1>7, <1>8, <1>10, <1>11, Stitched

\* Where a step of the flush leaves an activity.
LEMMA FlushMoves ==
    ASSUME IInv, NEW d \in Device, NEW a \in Activity, Flush(d, a)
    PROVE  \E s \in Step, k \in 0..minted \cup {None} :
              /\ Moved(d, a, s, k)
              /\ \/ Check(d, a) /\ s \in {"read", AfterFlush(a)} /\ k = hand[d][a]
                                /\ (pending[d] => s = "read")
                 \/ /\ Read(d, a) /\ k = chain[d]
                    /\ s = IF chain[d] = None THEN AfterFlush(a) ELSE "publish"
                 \/ Publish(d, a) /\ s = "clear" /\ k = hand[d][a]
                 \/ Clear(d, a) /\ s = AfterFlush(a) /\ k = hand[d][a]
<1>1. TypeOK /\ Keys /\ AfterFlush(a) \in Step /\ {"read", "publish", "clear"} \subseteq Step
  BY Assembled, AfterType DEF Step
<1>2. hand[d][a] \in 0..minted \cup {None} /\ chain[d] \in 0..minted \cup {None}
  BY <1>1 DEF Keys
<1>3. CASE Check(d, a)
  <2>1. PICK s \in {"read", AfterFlush(a)} :
           Proceed(d, a, s) /\ (pending[d] => s = "read")
    BY <1>3 DEF Check
  <2>2. s \in Step
    BY <1>1, <2>1
  <2>3. Moved(d, a, s, hand[d][a])
    BY <1>1, <2>1, <2>2, ProceedMoves
  <2>4. QED
    BY <1>2, <1>3, <2>1, <2>2, <2>3
<1>4. CASE Read(d, a)
  <2> DEFINE s == IF chain[d] = None THEN AfterFlush(a) ELSE "publish"
  <2>1. s \in Step
    BY <1>1
  <2>2. chain[d] \in RecoveryKey \cup {None} /\ Go(d, a, s, chain[d])
    BY <1>1, <1>4 DEF Read, TypeOK
  <2>3. Moved(d, a, s, chain[d])
    BY <1>1, <2>1, <2>2, GoMoves
  <2>4. QED
    BY <1>2, <1>4, <2>1, <2>3
<1>5. CASE Publish(d, a)
  <2>1. Moved(d, a, "clear", hand[d][a])
    BY <1>1, <1>5, ProceedMoves DEF Publish
  <2>2. QED
    BY <1>1, <1>2, <1>5, <2>1
<1>6. CASE Clear(d, a)
  <2>1. Moved(d, a, AfterFlush(a), hand[d][a])
    BY <1>1, <1>6, ProceedMoves DEF Clear
  <2>2. QED
    BY <1>1, <1>2, <1>6, <2>1
<1>7. QED
  BY <1>3, <1>4, <1>5, <1>6 DEF Flush

LEMMA FlushInv ==
    ASSUME IInv, NEW d \in Device, NEW a \in Activity, Flush(d, a)
    PROVE  IInv'
<1>1. TypeOK /\ Keys /\ Here(d) /\ Course(d)
  BY Assembled DEF Here
<1>2. /\ "rotate" \in Activity /\ "sync" \in Activity /\ "converge" \in Activity
      /\ a \in {"rotate", "sync", "converge"}
  BY DEF Activity
<1>3. pc[d][a] \in {"publish", "clear"} => hand[d][a] # None
  BY <1>1 DEF Course
<1>4. TypeOK'
  BY <1>1, <1>3, FlushType
<1>5. PICK s \in Step, k \in 0..minted \cup {None} :
         /\ Moved(d, a, s, k)
         /\ \/ Check(d, a) /\ s \in {"read", AfterFlush(a)} /\ k = hand[d][a]
                           /\ (pending[d] => s = "read")
            \/ /\ Read(d, a) /\ k = chain[d]
               /\ s = IF chain[d] = None THEN AfterFlush(a) ELSE "publish"
            \/ Publish(d, a) /\ s = "clear" /\ k = hand[d][a]
            \/ Clear(d, a) /\ s = AfterFlush(a) /\ k = hand[d][a]
  BY FlushMoves
<1>6. UNCHANGED <<door, chain, up, own, fresh, shown, minted, torn>>
  BY DEF Flush, Check, Read, Publish, Clear, device, budget, history
<1>7. held' \subseteq 0..minted /\ held \subseteq held' /\ escrow' \in held'
  BY <1>1, <1>3 DEF Flush, Check, Read, Publish, Clear, Keys
<1>8. \A x \in Device \ {d} : Untouched(x)
  <2>1. \A x \in Device \ {d} : pending'[x] = pending[x]
    BY <1>1 DEF Flush, Check, Read, Publish, Clear, TypeOK, device
  <2>2. QED
    BY <1>5, <1>6, <2>1 DEF Untouched, Moved
<1>9. Keys'
  <2>1. \A e \in Device, b \in Activity : hand'[e][b] \in 0..minted \cup {None}
    BY <1>1, <1>5 DEF Moved, Keys
  <2>2. \A e \in Device : /\ door'[e] \in 0..minted
                          /\ chain'[e] \in 0..minted \cup {None}
                          /\ own'[e] = own[e]
    BY <1>1, <1>6 DEF Keys
  <2>3. QED
    BY <1>1, <1>6, <1>7, <2>1, <2>2, KeysSame
<1>10. Here(d)'
  <2>1. /\ pc'[d][a] = s
        /\ hand'[d][a] = IF s = "idle" THEN None ELSE k
        /\ \A b \in Activity \ {a} : pc'[d][b] = pc[d][b] /\ hand'[d][b] = hand[d][b]
        /\ d \notin clashed' =>
              /\ d \notin clashed
              /\ \/ pc'[d]["rotate"] = "idle"
                 \/ pc'[d]["sync"] = "idle" /\ pc'[d]["converge"] = "idle"
    BY <1>5 DEF Moved
  <2>2. AfterFlush(a) = IF a = "rotate" THEN "report"
                        ELSE IF a = "converge" THEN "recheck" ELSE "idle"
    BY <1>2 DEF AfterFlush
  <2>3. Course(d)'
    <3>1. pc[d][a] \in {"check", "read", "publish", "clear"}
      BY DEF Flush, Check, Read, Publish, Clear
    <3>2. /\ s \in {"read", "publish", "clear", AfterFlush(a)}
          /\ s = "publish" => k # None
          /\ s = "clear" => k \in held' /\ k # None
      BY <1>3, <1>5, <2>2 DEF Publish
    <3>3. up'[d] = "down" => pc[d][a] = "idle"
      BY <1>1, <1>6 DEF Course
    <3>4. QED
      BY <1>1, <1>2, <1>6, <1>7, <2>1, <2>2, <3>1, <3>2, <3>3 DEF Course, Activity
  <2>4. ASSUME d \notin clashed'
        PROVE  Keeps(d)' /\ Doors(d)'
    <3>1. Keeps(d) /\ Doors(d) /\ d \notin clashed
      BY <1>1, <2>1, <2>4 DEF Here
    <3>2. pc[d][a] \in {"check", "read", "publish", "clear"}
      BY DEF Flush, Check, Read, Publish, Clear
    <3>3. s \notin {"door", "wrap", "chain", "mark", "fetch", "compare"}
      BY <1>5, <2>2
    <3>4. Doors(d)'
      BY <1>6, <2>1, <3>1, <3>2, <3>3 DEF Doors, Adopting, Activity
    <3>5. Settled(d) => Settled(d)'
      BY <1>6, <1>7 DEF Settled
    <3>6. a # "rotate" => pc[d]["rotate"] = "idle"
      BY <1>1, <1>2, <3>1, <3>2 DEF Course
    <3>7. a = "rotate" => pc'[d]["sync"] = "idle" /\ pc'[d]["converge"] = "idle"
      BY <1>1, <1>2, <2>1, <3>1, <3>2 DEF Course
    <3>8. CASE Check(d, a)
      <4>1. pending' = pending /\ held' = held /\ pc[d][a] = "check"
        BY <3>8 DEF Check, device
      <4>2. s \in {"read", AfterFlush(a)} /\ (pending[d] => s = "read")
        BY <1>5, <3>8, <3>2 DEF Check, Read, Publish, Clear
      <4>3. QED
        BY <1>2, <1>6, <2>1, <2>2, <3>1, <3>4, <3>5, <3>6, <3>7, <4>1, <4>2 DEF Keeps
    <3>9. CASE Read(d, a)
      <4>1. pending' = pending /\ held' = held /\ pc[d][a] = "read"
        BY <3>9 DEF Read, device
      <4>2. k = chain[d] /\ s = IF chain[d] = None THEN AfterFlush(a) ELSE "publish"
        BY <1>5, <4>1 DEF Check, Read, Publish, Clear
      <4>3. a = "rotate" => chain[d] # None
        BY <1>1, <3>1, <4>1 DEF Keeps, Course
      <4>4. QED
        BY <1>2, <1>6, <2>1, <2>2, <3>1, <3>4, <3>5, <3>6, <3>7, <4>1, <4>2, <4>3
        DEF Keeps
    <3>10. CASE Publish(d, a)
      <4>1. /\ pending' = pending /\ pc[d][a] = "publish"
            /\ held' = held \cup {hand[d][a]}
        BY <3>10 DEF Publish, device
      <4>2. s = "clear" /\ k = hand[d][a]
        BY <1>5, <4>1 DEF Check, Read, Publish, Clear
      <4>3. hand[d][a] = own[d] => Settled(d)'
        BY <1>6, <4>1 DEF Settled
      <4>4. QED
        BY <1>2, <1>6, <2>1, <3>1, <3>4, <3>5, <3>6, <3>7, <4>1, <4>2, <4>3 DEF Keeps
    <3>11. CASE Clear(d, a)
      <4>1. held' = held /\ pc[d][a] = "clear" /\ s = AfterFlush(a)
        BY <1>5, <3>11 DEF Clear, Check, Read, Publish
      <4>2. Settled(d)' /\ (a = "rotate" => own[d] \in held')
        <5>1. CASE a = "rotate"
          BY <1>1, <1>6, <3>1, <4>1, <5>1 DEF Keeps, Course, Settled
        <5>2. CASE a # "rotate"
          BY <1>2, <3>1, <3>5, <4>1, <5>2 DEF Keeps
        <5>3. QED
          BY <5>1, <5>2
      <4>3. QED
        BY <1>2, <1>6, <2>1, <2>2, <3>1, <3>4, <3>6, <3>7, <4>1, <4>2 DEF Keeps
    <3>12. QED
      BY <3>8, <3>9, <3>10, <3>11 DEF Flush
  <2>5. QED
    BY <2>3, <2>4 DEF Here
<1>11. QED
  BY <1>4, <1>6, <1>7, <1>8, <1>9, <1>10, Stitched

LEMMA MarkInv ==
    ASSUME IInv, NEW d \in Device, Mark(d)
    PROVE  IInv'
<1>1. TypeOK /\ Keys /\ Here(d) /\ Course(d)
  BY Assembled DEF Here
<1>2. "rotate" \in Activity /\ "check" \in Step /\ fresh[d] # None
  BY <1>1 DEF Mark, Course, Activity, Step
<1>3. TypeOK'
  BY <1>1, <1>2, RotateType
<1>4. Moved(d, "rotate", "check", hand[d]["rotate"])
  BY <1>1, <1>2, ProceedMoves DEF Mark
<1>5. UNCHANGED <<door, chain, up, own, fresh, shown, minted, held, escrow, torn>>
  BY DEF Mark, budget, history
<1>6. pending'[d] = TRUE /\ \A x \in Device \ {d} : pending'[x] = pending[x]
  BY <1>1 DEF Mark, TypeOK
<1>7. \A x \in Device \ {d} : Untouched(x)
  BY <1>4, <1>5, <1>6 DEF Untouched, Moved
<1>8. Keys'
  <2>1. \A e \in Device, b \in Activity : hand'[e][b] \in 0..minted \cup {None}
    BY <1>1, <1>2, <1>4 DEF Moved, Keys
  <2>2. QED
    BY <1>1, <1>5, <2>1, KeysSame DEF Keys
<1>9. Here(d)'
  <2>1. /\ pc[d]["rotate"] = "mark" /\ pc'[d]["rotate"] = "check"
        /\ pc'[d]["sync"] = pc[d]["sync"] /\ hand'[d]["sync"] = hand[d]["sync"]
        /\ pc'[d]["converge"] = pc[d]["converge"]
        /\ hand'[d]["converge"] = hand[d]["converge"]
        /\ d \notin clashed' =>
              /\ d \notin clashed
              /\ pc'[d]["sync"] = "idle" /\ pc'[d]["converge"] = "idle"
    BY <1>4 DEF Moved, Mark, Activity
  <2>2. Course(d)'
    BY <1>1, <1>2, <1>5, <2>1 DEF Course, Activity
  <2>3. ASSUME d \notin clashed'
        PROVE  Keeps(d)' /\ Doors(d)'
    <3>1. Keeps(d) /\ Doors(d)
      BY <1>1, <2>1, <2>3 DEF Here
    <3>2. Settled(d)' <=> Settled(d)
      BY <1>5 DEF Settled
    <3>3. QED
      BY <1>5, <1>6, <2>1, <2>3, <3>1, <3>2 DEF Keeps, Doors, Adopting, Activity
  <2>4. QED
    BY <2>2, <2>3 DEF Here
<1>10. QED
  BY <1>3, <1>5, <1>7, <1>8, <1>9, Stitched

LEMMA ReportInv ==
    ASSUME IInv, NEW d \in Device, Report(d)
    PROVE  IInv'
<1>1. TypeOK /\ Keys /\ Here(d) /\ Course(d)
  BY Assembled DEF Here
<1>2. "rotate" \in Activity /\ "idle" \in Step /\ fresh[d] # None
  BY <1>1 DEF Report, Course, Activity, Step
<1>3. TypeOK'
  BY <1>1, <1>2, RotateType
<1>4. Moved(d, "rotate", "idle", hand[d]["rotate"])
  BY <1>1, <1>2, ProceedMoves DEF Report
<1>5. UNCHANGED <<door, chain, pending, up, own, minted, held, escrow, torn>>
  BY DEF Report, budget, device
<1>6. /\ shown' = shown \cup {fresh[d]} /\ fresh'[d] = None
      /\ \A x \in Device \ {d} : fresh'[x] = fresh[x]
  BY <1>1 DEF Report, TypeOK
<1>7. \A x \in Device \ {d} : Untouched(x)
  BY <1>4, <1>5, <1>6 DEF Untouched, Moved
<1>8. Keys'
  <2>1. \A e \in Device, b \in Activity : hand'[e][b] \in 0..minted \cup {None}
    BY <1>1, <1>2, <1>4 DEF Moved, Keys
  <2>2. shown' \subseteq 0..minted
    BY <1>1, <1>2, <1>6 DEF Keys
  <2>3. \A e \in Device : fresh'[e] \notin shown'
    <3>1. ASSUME NEW e \in Device \ {d}
          PROVE  fresh[e] # fresh[d]
      BY <1>1, <1>2 DEF Keys
    <3>2. None \notin 0..minted
      BY EscrowAssumption
    <3>3. QED
      BY <1>1, <1>6, <2>2, <3>1, <3>2 DEF Keys
  <2>4. QED
    BY <1>1, <1>5, <1>6, <2>1, <2>2, <2>3 DEF Keys
<1>9. Here(d)'
  <2>1. /\ pc[d]["rotate"] = "report" /\ pc'[d]["rotate"] = "idle"
        /\ pc'[d]["sync"] = pc[d]["sync"] /\ hand'[d]["sync"] = hand[d]["sync"]
        /\ pc'[d]["converge"] = pc[d]["converge"]
        /\ hand'[d]["converge"] = hand[d]["converge"]
        /\ hand'[d]["rotate"] = None
        /\ d \in clashed => d \in clashed'
    BY <1>4 DEF Moved, Report, Activity
  <2>2. Course(d)'
    BY <1>1, <1>5, <1>6, <2>1 DEF Course, Activity
  <2>3. ASSUME d \notin clashed'
        PROVE  Keeps(d)' /\ Doors(d)'
    <3>1. Keeps(d) /\ Doors(d)
      BY <1>1, <2>1, <2>3 DEF Here
    <3>2. pc[d]["sync"] = "idle" /\ pc[d]["converge"] = "idle"
      BY <1>1, <2>1, <2>3 DEF Course
    <3>3. /\ chain[d] = own[d] /\ door[d] = own[d]
          /\ own[d] \in held \/ pending[d]
      BY <2>1, <3>1 DEF Keeps
    <3>4. Settled(d)' \/ pending[d]
      BY <1>5, <3>3 DEF Settled
    <3>5. Keeps(d)'
      BY <1>5, <2>1, <3>2, <3>3, <3>4 DEF Keeps
    <3>6. Doors(d)'
      BY <1>5, <2>1, <3>1, <3>2 DEF Doors, Adopting, Activity
    <3>7. QED
      BY <3>5, <3>6
  <2>4. QED
    BY <2>2, <2>3 DEF Here
<1>10. QED
  BY <1>2, <1>3, <1>5, <1>6, <1>7, <1>8, <1>9, Stitched

LEMMA CatchUpInv ==
    ASSUME IInv, NEW d \in Device,
           StartSync(d) \/ Recheck(d) \/ Fetch(d) \/ Compare(d)
    PROVE  IInv'
<1>1. TypeOK /\ Keys /\ Here(d) /\ Course(d)
  BY Assembled DEF Here
<1>2. TypeOK'
  BY <1>1, CatchUpType
<1>3. PICK a \in {"sync", "converge"}, s \in Step, k \in 0..minted \cup {None} :
         /\ Moved(d, a, s, k)
         /\ \/ a = "sync" /\ up[d] = "open" /\ pc[d][a] = "idle" /\ s = "read"
            \/ /\ a = "converge" /\ pc[d][a] = "recheck"
               /\ s = IF pending[d] THEN "idle" ELSE "fetch"
            \/ /\ a = "converge" /\ pc[d][a] = "fetch"
               /\ s = "compare" /\ k # None
            \/ /\ a = "converge" /\ pc[d][a] = "compare"
               /\ s \in {"idle", "door"} /\ k = hand[d][a]
  <2>1. /\ {"sync", "converge"} \subseteq Activity
        /\ {"idle", "read", "fetch", "compare", "door"} \subseteq Step
    BY DEF Activity, Step
  <2>2. \A a \in Activity : hand[d][a] \in 0..minted \cup {None}
    BY <1>1 DEF Keys
  <2>3. CASE StartSync(d)
    <3>1. Moved(d, "sync", "read", hand[d]["sync"])
      BY <1>1, <2>1, <2>3, ProceedMoves DEF StartSync
    <3>2. QED
      BY <2>1, <2>2, <2>3, <3>1 DEF StartSync
  <2>4. CASE Recheck(d)
    <3> DEFINE s == IF pending[d] THEN "idle" ELSE "fetch"
    <3>1. s \in Step /\ Proceed(d, "converge", s)
      BY <2>1, <2>4 DEF Recheck
    <3>2. Moved(d, "converge", s, hand[d]["converge"])
      BY <1>1, <2>1, <3>1, ProceedMoves
    <3>3. pc[d]["converge"] = "recheck"
      BY <2>4 DEF Recheck
    <3>4. QED
      BY <2>1, <2>2, <3>1, <3>2, <3>3
  <2>5. CASE Fetch(d)
    <3>1. escrow \in RecoveryKey /\ escrow \in 0..minted /\ escrow # None
      BY <1>1, EscrowAssumption DEF TypeOK, Keys, RecoveryKey
    <3>2. Moved(d, "converge", "compare", escrow)
      BY <1>1, <2>1, <2>5, <3>1, GoMoves DEF Fetch
    <3>3. QED
      BY <2>1, <2>5, <3>1, <3>2 DEF Fetch
  <2>6. CASE Compare(d)
    <3>1. PICK s \in {"idle", "door"} : Proceed(d, "converge", s)
      BY <2>6 DEF Compare
    <3>2. Moved(d, "converge", s, hand[d]["converge"])
      BY <1>1, <2>1, <3>1, ProceedMoves
    <3>3. QED
      BY <2>1, <2>2, <2>6, <3>2 DEF Compare
  <2>7. QED
    BY <2>3, <2>4, <2>5, <2>6
<1>4. UNCHANGED <<door, chain, pending, up, own, fresh, shown, minted, held, escrow, torn>>
  BY DEF StartSync, Recheck, Fetch, Compare, device, budget, history
<1>5. \A x \in Device \ {d} : Untouched(x)
  BY <1>3, <1>4 DEF Untouched, Moved
<1>6. Keys'
  <2>1. \A e \in Device, b \in Activity : hand'[e][b] \in 0..minted \cup {None}
    BY <1>1, <1>3 DEF Moved, Keys
  <2>2. QED
    BY <1>1, <1>4, <2>1, KeysSame DEF Keys
<1>7. Here(d)'
  <2>1. /\ pc'[d][a] = s
        /\ hand'[d][a] = IF s = "idle" THEN None ELSE k
        /\ \A b \in Activity \ {a} : pc'[d][b] = pc[d][b] /\ hand'[d][b] = hand[d][b]
        /\ d \notin clashed' =>
              /\ d \notin clashed
              /\ \/ pc'[d]["rotate"] = "idle"
                 \/ pc'[d]["sync"] = "idle" /\ pc'[d]["converge"] = "idle"
    BY <1>3 DEF Moved
  <2>2. Course(d)'
    BY <1>1, <1>3, <1>4, <2>1 DEF Course, Activity
  <2>3. ASSUME d \notin clashed'
        PROVE  Keeps(d)' /\ Doors(d)'
    <3>1. Keeps(d) /\ Doors(d) /\ d \notin clashed
      BY <1>1, <2>1, <2>3 DEF Here
    <3>2. Settled(d)' <=> Settled(d)
      BY <1>4 DEF Settled
    <3>3. Keeps(d)'
      <4>1. CASE a = "sync"
        BY <1>3, <1>4, <2>1, <2>3, <3>1, <3>2, <4>1 DEF Keeps, Activity
      <4>2. CASE a = "converge"
        <5>1. s \in {"fetch", "compare", "door"} => Settled(d)
          BY <1>3, <3>1, <4>2 DEF Keeps
        <5>2. s \in {"idle", "fetch", "compare", "door"}
          BY <1>3, <4>2
        <5>3. QED
          BY <1>4, <2>1, <3>1, <3>2, <4>2, <5>1, <5>2 DEF Keeps, Activity
      <4>3. QED
        BY <1>3, <4>1, <4>2
    <3>4. Doors(d)'
      <4>1. ~Adopting(d)' => ~Adopting(d)
        BY <1>3, <2>1 DEF Adopting
      <4>2. s \notin {"wrap", "chain"}
        BY <1>3
      <4>3. QED
        BY <1>4, <2>1, <3>1, <4>1, <4>2 DEF Doors
    <3>5. QED
      BY <3>3, <3>4
  <2>4. QED
    BY <2>2, <2>3 DEF Here
<1>8. QED
  BY <1>2, <1>4, <1>5, <1>6, <1>7, Stitched

\* What a call that throws can have left.
LEMMA FailLeaves ==
    ASSUME IInv, NEW d \in Device, NEW a \in Activity, Fail(d, a)
    PROVE  /\ door'[d] = door[d] \/ (pc[d][a] = "door" /\ door'[d] = hand[d][a])
           /\ \/ chain'[d] = chain[d] /\ own'[d] = own[d]
              \/ /\ pc[d][a] = "chain" /\ chain'[d] = hand[d][a]
                 /\ own'[d] = IF a = "rotate" THEN hand[d][a] ELSE own[d]
           /\ \/ pending'[d] = pending[d]
              \/ pc[d][a] = "mark" /\ pending'[d]
              \/ pc[d][a] = "clear" /\ ~pending'[d]
           /\ \/ escrow' = escrow /\ held' = held
              \/ pc[d][a] = "publish" /\ Delivered({hand[d][a]})
           /\ \A x \in Device \ {d} :
                 /\ door'[x] = door[x] /\ chain'[x] = chain[x]
                 /\ own'[x] = own[x] /\ pending'[x] = pending[x]
<1>1. TypeOK
  BY Assembled
<1>2. CASE Took(d, a)
  BY <1>1, <1>2 DEF Took, TypeOK
<1>3. CASE UNCHANGED <<escrow, held, door, wrap, chain, pending, own>>
  BY <1>3
<1>4. QED
  BY <1>2, <1>3 DEF Fail

LEMMA FailInv ==
    ASSUME IInv, NEW d \in Device, NEW a \in Activity, Fail(d, a)
    PROVE  IInv'
<1>1. TypeOK /\ Keys /\ Here(d) /\ Course(d)
  BY Assembled DEF Here
<1>2. /\ pc[d][a] # "idle" /\ up[d] # "down"
      /\ pc[d][a] \in {"publish", "clear", "door", "wrap", "chain"} => hand[d][a] # None
      /\ "rotate" \in Activity /\ "sync" \in Activity /\ "converge" \in Activity
      /\ a \in {"rotate", "sync", "converge"}
  BY <1>1 DEF Fail, Course, Activity
<1>3. /\ door'[d] = door[d] \/ (pc[d][a] = "door" /\ door'[d] = hand[d][a])
      /\ \/ chain'[d] = chain[d] /\ own'[d] = own[d]
         \/ /\ pc[d][a] = "chain" /\ chain'[d] = hand[d][a]
            /\ own'[d] = IF a = "rotate" THEN hand[d][a] ELSE own[d]
      /\ \/ pending'[d] = pending[d]
         \/ pc[d][a] = "mark" /\ pending'[d]
         \/ pc[d][a] = "clear" /\ ~pending'[d]
      /\ \/ escrow' = escrow /\ held' = held
         \/ pc[d][a] = "publish" /\ Delivered({hand[d][a]})
      /\ \A x \in Device \ {d} :
            /\ door'[x] = door[x] /\ chain'[x] = chain[x]
            /\ own'[x] = own[x] /\ pending'[x] = pending[x]
  BY FailLeaves
<1>4. TypeOK'
  BY <1>1, <1>2, FailType
<1>5. Moved(d, a, AfterThrow(d, a), hand[d][a])
  BY <1>1, AfterType, ProceedMoves DEF Fail
<1>6. UNCHANGED <<up, shown, minted>>
  BY DEF Fail
<1>7. held' \subseteq 0..minted /\ held \subseteq held' /\ escrow' \in held'
  <2>1. CASE escrow' = escrow /\ held' = held
    BY <1>1, <2>1 DEF Keys
  <2>2. CASE pc[d][a] = "publish" /\ Delivered({hand[d][a]})
    <3>1. hand[d][a] \in 0..minted /\ held \subseteq 0..minted
      BY <1>1, <1>2, <2>2 DEF Keys
    <3>2. QED
      BY <2>2, <3>1 DEF Delivered
  <2>3. QED
    BY <1>3, <2>1, <2>2
<1>8. /\ fresh'[d] = IF a = "rotate" /\ AfterThrow(d, a) = "idle" THEN None ELSE fresh[d]
      /\ \A x \in Device \ {d} : fresh'[x] = fresh[x]
      /\ \A x \in Device : fresh'[x] = fresh[x] \/ fresh'[x] = None
      /\ d \in torn' <=> d \in torn \/ pc[d][a] \in {"door", "wrap", "chain"}
      /\ \A x \in Device \ {d} : x \in torn' <=> x \in torn
  BY <1>1 DEF Fail, TypeOK
<1>9. \A x \in Device \ {d} : Untouched(x)
  BY <1>5, <1>6, <1>8, <1>3 DEF Untouched, Moved
<1>10. a = "rotate" /\ pc[d][a] \in {"door", "wrap", "chain"} => hand[d][a] = fresh[d]
  BY <1>1 DEF Course
<1>11. Keys'
  <2>1. \A e \in Device, b \in Activity : hand'[e][b] \in 0..minted \cup {None}
    BY <1>1, <1>5 DEF Moved, Keys
  <2>2. \A e \in Device : /\ door'[e] \in 0..minted
                          /\ chain'[e] \in 0..minted \cup {None}
                          /\ own'[e] = own[e] \/ own'[e] = fresh[e]
    <3>1. /\ door'[d] \in 0..minted /\ chain'[d] \in 0..minted \cup {None}
          /\ own'[d] = own[d] \/ own'[d] = fresh[d]
      BY <1>1, <1>2, <1>10, <1>3 DEF Keys
    <3>2. QED
      BY <1>1, <1>9, <3>1 DEF Keys, Untouched
  <2>3. None \notin shown
    <3>1. \A k \in shown : k \in Nat
      BY <1>1, EscrowAssumption DEF TypeOK, RecoveryKey
    <3>2. QED
      BY <3>1, EscrowAssumption
  <2>4. \A e \in Device : /\ fresh'[e] \notin shown /\ fresh'[e] \in 0..minted \cup {None}
                          /\ own'[e] \in 0..minted \cup {None}
    BY <1>1, <1>8, <2>2, <2>3 DEF Keys
  <2>5. ASSUME NEW e \in Device, NEW x \in Device, fresh'[e] # None,
               fresh'[e] \in {fresh'[x], own'[x]}
        PROVE  e = x
    <3>1. fresh'[e] = fresh[e] /\ fresh[e] \in {fresh[x], own[x]}
      BY <1>8, <2>2, <2>5
    <3>2. QED
      BY <1>1, <2>5, <3>1 DEF Keys
  <2>6. QED
    BY <1>1, <1>6, <1>7, <2>1, <2>2, <2>4, <2>5 DEF Keys
<1>12. Here(d)'
  <2>1. /\ pc'[d][a] = AfterThrow(d, a)
        /\ hand'[d][a] = IF AfterThrow(d, a) = "idle" THEN None ELSE hand[d][a]
        /\ \A b \in Activity \ {a} : pc'[d][b] = pc[d][b] /\ hand'[d][b] = hand[d][b]
        /\ d \notin clashed' =>
              /\ d \notin clashed
              /\ \/ pc'[d]["rotate"] = "idle"
                 \/ pc'[d]["sync"] = "idle" /\ pc'[d]["converge"] = "idle"
    BY <1>5 DEF Moved
  <2>2. AfterThrow(d, a) = IF a = "rotate" /\ pc[d][a] \in {"check", "read", "publish", "clear"}
                           THEN "report" ELSE "idle"
    BY DEF AfterThrow
  <2>3. Course(d)'
    BY <1>1, <1>2, <1>6, <1>7, <1>8, <2>1, <2>2 DEF Course, Activity
  <2>4. ASSUME d \notin clashed'
        PROVE  Keeps(d)' /\ Doors(d)'
    <3>1. Keeps(d) /\ Doors(d) /\ d \notin clashed
      BY <1>1, <2>1, <2>4 DEF Here
    <3>2. /\ a = "rotate" => pc[d]["sync"] = "idle" /\ pc[d]["converge"] = "idle"
          /\ a # "rotate" => pc[d]["rotate"] = "idle"
      BY <1>1, <1>2, <3>1 DEF Course
    <3>3. Doors(d)'
      <4>1. pc'[d][a] \notin {"door", "wrap", "chain"}
        BY <2>1, <2>2
      <4>2. \A b \in Activity : pc'[d][b] \in {"wrap", "chain"} => door'[d] = hand'[d][b]
        <5>1. ASSUME NEW b \in Activity, pc'[d][b] \in {"wrap", "chain"}
              PROVE  door'[d] = hand'[d][b]
          <6>1. b # a /\ pc[d][b] = pc'[d][b] /\ hand'[d][b] = hand[d][b]
            BY <2>1, <4>1, <5>1
          <6>2. a = "sync"
            BY <1>1, <1>2, <3>2, <5>1, <6>1 DEF Course, Activity
          <6>3. pc[d][a] # "door"
            BY <1>1, <6>2 DEF Course
          <6>4. QED
            BY <3>1, <5>1, <6>1, <6>3, <1>3 DEF Doors
        <5>2. QED
          BY <5>1
      <4>3. ASSUME ~Adopting(d)', chain'[d] # None, d \notin torn'
            PROVE  door'[d] = chain'[d]
        <5>1. d \notin torn /\ pc[d][a] \notin {"door", "wrap", "chain"}
          BY <1>8, <4>3
        <5>2. ~Adopting(d)
          BY <2>1, <4>3, <5>1 DEF Adopting
        <5>3. door'[d] = door[d] /\ chain'[d] = chain[d]
          BY <5>1, <1>3
        <5>4. QED
          BY <1>2, <3>1, <4>3, <5>1, <5>2, <5>3 DEF Doors
      <4>4. QED
        BY <4>2, <4>3 DEF Doors
    <3>4. CASE a = "rotate" /\ pc[d][a] \in {"door", "wrap", "chain"}
      <4>1. /\ pc'[d]["rotate"] = "idle" /\ pc'[d]["sync"] = "idle"
            /\ pc'[d]["converge"] = "idle" /\ held' = held /\ pending'[d] = pending[d]
            /\ fresh'[d] = None /\ fresh[d] \notin shown /\ fresh[d] # None
            /\ hand[d][a] = fresh[d]
        BY <1>1, <1>2, <1>8, <1>10, <2>1, <2>2, <3>2, <3>4, <1>3 DEF Keys
      <4>2. \/ chain'[d] = chain[d] /\ own'[d] = own[d]
            \/ Settled(d)'
        BY <1>6, <3>4, <4>1, <1>3 DEF Settled
      <4>3. Settled(d)' \/ (~Settled(d) /\ own'[d] = own[d] /\ chain'[d] = chain[d])
        BY <1>6, <4>1, <4>2 DEF Settled
      <4>4. \/ door'[d] = door[d]
            \/ /\ door'[d] \notin shown' /\ \A e \in Device \ {d} : door'[d] # fresh'[e]
        BY <1>1, <1>6, <1>8, <4>1, <1>3 DEF Keys
      <4>5. \/ Settled(d)' \/ door'[d] = own'[d]
            \/ door'[d] \notin shown' /\ \A e \in Device \ {d} : door'[d] # fresh'[e]
        BY <1>6, <1>8, <3>1, <4>3, <4>4 DEF Keeps
      <4>6. Settled(d)' \/ (pending'[d] /\ chain'[d] \in {None, own'[d]})
        BY <3>1, <4>1, <4>3 DEF Keeps
      <4>7. QED
        BY <3>3, <4>1, <4>5, <4>6 DEF Keeps
    <3>5. CASE a = "rotate" /\ pc[d][a] \notin {"door", "wrap", "chain"}
      <4>1. /\ pc'[d]["sync"] = "idle" /\ pc'[d]["converge"] = "idle"
            /\ pc'[d]["rotate"] \in {"idle", "report"}
            /\ door'[d] = door[d] /\ chain'[d] = chain[d] /\ own'[d] = own[d]
        BY <1>2, <2>1, <2>2, <3>2, <3>5, <1>3
      <4>2. /\ pc[d][a] \in {"mark", "check", "read", "publish", "clear", "report"}
            /\ own[d] = fresh[d] /\ chain[d] = own[d] /\ door[d] = own[d]
        BY <1>1, <1>2, <3>1, <3>5 DEF Course, Keeps, Step, TypeOK
      <4>3. fresh[d] \notin shown
        BY <1>1 DEF Keys
      <4>4. Settled(d)'
        BY <1>6, <4>1, <4>2, <4>3 DEF Settled
      <4>5. ASSUME pc'[d]["rotate"] = "report"
            PROVE  fresh'[d] = fresh[d] /\ (own[d] \in held' \/ pending'[d])
        <5>1. pc[d][a] \in {"check", "read", "publish", "clear"} /\ fresh'[d] = fresh[d]
          BY <1>8, <2>1, <2>2, <3>5, <4>5
        <5>2. CASE pc[d][a] = "clear"
          BY <1>1, <1>7, <3>1, <3>5, <5>1, <5>2 DEF Keeps, Course
        <5>3. CASE pc[d][a] # "clear"
          BY <3>1, <3>5, <5>1, <5>3, <1>3 DEF Keeps
        <5>4. QED
          BY <5>1, <5>2, <5>3
      <4>6. QED
        BY <3>3, <3>5, <4>1, <4>2, <4>4, <4>5 DEF Keeps
    <3>6. CASE a # "rotate"
      <4>1. /\ pc'[d][a] = "idle" /\ pc'[d]["rotate"] = "idle"
            /\ own'[d] = own[d] /\ fresh' = fresh
        <5>1. own'[d] = own[d]
          BY <3>6, <1>3
        <5>2. QED
          BY <1>2, <2>1, <2>2, <3>2, <3>6, <5>1 DEF Fail
      <4>2. Settled(d) => Settled(d)'
        BY <1>6, <1>7, <4>1 DEF Settled
      <4>3. pc[d][a] \in {"clear", "door", "wrap", "chain"} => Settled(d)
        BY <1>1, <1>2, <3>1, <3>6 DEF Keeps, Course
      <4>4. pc[d][a] # "mark"
        BY <1>1, <1>2, <3>6 DEF Course
      <4>5. \/ Settled(d)'
            \/ door'[d] = door[d] /\ chain'[d] = chain[d] /\ pending'[d] = pending[d]
        BY <4>2, <4>3, <4>4, <1>3
      <4>6. \A b \in {"sync", "converge"} : b # a => pc'[d][b] = pc[d][b] /\ hand'[d][b] = hand[d][b]
        BY <1>2, <2>1
      <4>7. QED
        BY <1>2, <1>6, <3>1, <3>3, <3>6, <4>1, <4>2, <4>5, <4>6 DEF Keeps
    <3>7. QED
      BY <3>4, <3>5, <3>6
  <2>5. QED
    BY <2>3, <2>4 DEF Here
<1>13. QED
  <2>1. fresh'[d] \in {fresh[d], None, minted + 1}
    BY <1>8
  <2>2. QED
    BY <1>4, <1>6, <1>7, <1>9, <1>11, <1>12, <2>1, Stitched

LEMMA StopInv ==
    ASSUME IInv, NEW d \in Device, Crash(d) \/ SignOut(d)
    PROVE  IInv'
<1>1. TypeOK /\ Keys /\ Here(d) /\ Course(d)
  BY Assembled DEF Here
<1>2. Stop(d) /\ UNCHANGED <<door, pending, minted, shown, own, torn, clashed>>
  BY DEF Crash, SignOut, history
<1>3. TypeOK'
  BY <1>1, StopType DEF Course
<1>4. held' \subseteq 0..minted /\ held \subseteq held' /\ escrow' \in held'
  <2>1. InFlight(d) \subseteq 0..minted
    BY <1>1 DEF InFlight, Keys, Course
  <2>2. QED
    BY <1>1, <1>2, <2>1 DEF Stop, Delivered, Keys
<1>5. /\ up'[d] = "down" /\ fresh'[d] = None
      /\ \A a \in Activity : pc'[d][a] = "idle" /\ hand'[d][a] = None
      /\ chain'[d] \in {None, chain[d]}
  BY <1>1, <1>2 DEF Stop, Crash, SignOut, TypeOK
<1>6. \A x \in Device \ {d} : Untouched(x)
  BY <1>1, <1>2 DEF Untouched, Stop, Crash, SignOut, TypeOK
<1>7. Keys'
  <2>1. \A e \in Device, b \in Activity : hand'[e][b] \in 0..minted \cup {None}
    BY <1>1, <1>5, <1>6 DEF Untouched, Keys
  <2>2. \A e \in Device : /\ chain'[e] \in 0..minted \cup {None}
                          /\ fresh'[e] \in {fresh[e], None}
    BY <1>1, <1>5, <1>6 DEF Untouched, Keys
  <2>3. None \notin shown
    <3>1. \A k \in shown : k \in Nat
      BY <1>1, EscrowAssumption DEF TypeOK, RecoveryKey
    <3>2. QED
      BY <3>1, EscrowAssumption
  <2>4. QED
    BY <1>1, <1>2, <1>4, <2>1, <2>2, <2>3 DEF Keys
<1>8. Here(d)'
  <2>1. Course(d)'
    BY <1>5 DEF Course, Activity
  <2>2. ASSUME d \notin clashed'
        PROVE  Keeps(d)' /\ Doors(d)'
    <3>1. Keeps(d)
      BY <1>1, <1>2, <2>2 DEF Here
    <3>2. Settled(d) => Settled(d)'
      BY <1>2, <1>4 DEF Settled
    <3>3. \A x \in Device \ {d} : fresh'[x] = fresh[x]
      BY <1>6 DEF Untouched
    <3>4. Keeps(d)'
      BY <1>2, <1>5, <3>1, <3>2, <3>3 DEF Keeps, Activity
    <3>5. Doors(d)'
      BY <1>5 DEF Doors
    <3>6. QED
      BY <3>4, <3>5
  <2>3. QED
    BY <2>1, <2>2 DEF Here
<1>9. QED
  BY <1>2, <1>3, <1>4, <1>5, <1>6, <1>7, <1>8, Stitched

LEMMA OpenInv ==
    ASSUME IInv, NEW d \in Device,
           \/ Launch(d) \/ UnlockByPassword(d)
           \/ \E k \in RecoveryKey : UnlockByPhrase(d, k)
    PROVE  IInv'
<1>1. TypeOK /\ Keys /\ Here(d) /\ Course(d)
  BY Assembled DEF Here
<1>2. TypeOK'
  BY <1>1, OpenType
<1>3. PICK key \in RecoveryKey \cup {None}, mode \in {"open", "degraded"} :
         /\ Opened(d, key, mode)
         /\ door' = Resealed(d, key)
         /\ key \in {chain[d], None} \/ (key \in shown /\ key = door[d])
  <2>1. CASE Launch(d)
    BY <1>1, <2>1 DEF Launch, TypeOK
  <2>2. CASE UnlockByPassword(d)
    <3>1. Opened(d, None, "open") /\ door' = Resealed(d, None)
      BY <2>2 DEF UnlockByPassword, Resealed
    <3>2. QED
      BY <3>1
  <2>3. ASSUME NEW k \in RecoveryKey, UnlockByPhrase(d, k)
        PROVE  \E mode \in {"open", "degraded"} :
                  /\ Opened(d, k, mode)
                  /\ door' = Resealed(d, k)
                  /\ k \in shown /\ k = door[d]
    BY <2>3 DEF UnlockByPhrase
  <2>4. QED
    BY <2>1, <2>2, <2>3
<1>4. up[d] = "down" /\ \A a \in Activity : pc[d][a] = "idle"
  BY <1>1 DEF Launch, UnlockByPassword, UnlockByPhrase, Course
<1>5. /\ UNCHANGED <<escrow, pending, minted, fresh, shown, own, held>>
      /\ up'[d] = mode /\ chain'[d] = key
      /\ door'[d] = IF key = None THEN door[d] ELSE key
      /\ \A x \in Device \ {d} :
            /\ up'[x] = up[x] /\ chain'[x] = chain[x] /\ door'[x] = door[x]
            /\ x \in torn' <=> x \in torn
  BY <1>1, <1>3 DEF Opened, Resealed, TypeOK, budget, history
<1>6. /\ pc'[d]["rotate"] = "idle" /\ pc'[d]["sync"] = "idle"
      /\ pc'[d]["converge"] \in {"idle", "check"}
      /\ hand'[d] = hand[d]
      /\ \A x \in Device \ {d} :
            /\ pc'[x] = pc[x] /\ hand'[x] = hand[x]
            /\ x \in clashed' <=> x \in clashed
      /\ d \in clashed => d \in clashed'
  <2>1. {"rotate", "sync", "converge"} \subseteq Activity /\ "check" \in Step
    BY DEF Activity, Step
  <2>2. CASE mode = "open"
    <3>1. Moved(d, "converge", "check", hand[d]["converge"])
      BY <1>1, <1>3, <2>1, <2>2, ProceedMoves DEF Opened
    <3>2. hand'[d] = hand[d]
      BY <1>1, <1>3, <2>2 DEF Opened, Proceed, Go, TypeOK
    <3>3. QED
      BY <1>4, <2>1, <3>1, <3>2 DEF Moved
  <2>3. CASE mode # "open"
    BY <1>3, <1>4, <2>1, <2>3 DEF Opened
  <2>4. QED
    BY <2>2, <2>3
<1>7. \A x \in Device \ {d} : Untouched(x)
  BY <1>5, <1>6 DEF Untouched
<1>8. Keys'
  <2>1. \A e \in Device, b \in Activity : hand'[e][b] \in 0..minted \cup {None}
    BY <1>1, <1>6 DEF Keys
  <2>2. key \in 0..minted \cup {None}
    BY <1>1, <1>3 DEF Keys
  <2>3. \A e \in Device : /\ door'[e] \in 0..minted
                          /\ chain'[e] \in 0..minted \cup {None}
    BY <1>1, <1>5, <2>2 DEF Keys
  <2>4. QED
    BY <1>1, <1>5, <2>1, <2>3, KeysSame DEF Keys
<1>9. Here(d)'
  <2>1. Course(d)'
    BY <1>1, <1>3, <1>4, <1>5, <1>6 DEF Course, Activity
  <2>2. ASSUME d \notin clashed'
        PROVE  Keeps(d)' /\ Doors(d)'
    <3>1. Keeps(d)
      BY <1>1, <1>6, <2>2 DEF Here
    <3>2. Settled(d)' <=> Settled(d)
      BY <1>5 DEF Settled
    <3>3. ~Settled(d) => key \in {None, own[d]}
      BY <1>3, <3>1 DEF Keeps
    <3>4. \/ Settled(d) \/ door'[d] = own[d]
          \/ door'[d] \notin shown' /\ \A e \in Device \ {d} : door'[d] # fresh'[e]
      BY <1>5, <3>1, <3>3 DEF Keeps
    <3>5. Keeps(d)'
      BY <1>5, <1>6, <3>1, <3>2, <3>3, <3>4 DEF Keeps
    <3>6. Doors(d)'
      BY <1>5, <1>6 DEF Doors, Adopting, Activity
    <3>7. QED
      BY <3>5, <3>6
  <2>3. QED
    BY <2>1, <2>2 DEF Here
<1>10. QED
  BY <1>2, <1>5, <1>7, <1>8, <1>9, Stitched

LEMMA NextInv == IInv /\ [Next]_vars => IInv'
<1> SUFFICES ASSUME IInv, [Next]_vars
             PROVE  IInv'
  OBVIOUS
<1>1. CASE UNCHANGED vars
  BY <1>1
  DEF IInv, TypeOK, Keys, Course, Keeps, Settled, Doors, Adopting,
      vars, device, activity, budget, history
<1>2. CASE Next
  <2>1. PICK d \in Device :
           \/ Rotate(d) \/ Mark(d) \/ Report(d)
           \/ StartSync(d) \/ Recheck(d) \/ Fetch(d) \/ Compare(d)
           \/ \E a \in Activity : Flush(d, a) \/ Adopt(d, a) \/ Fail(d, a)
           \/ Crash(d) \/ SignOut(d)
           \/ Launch(d) \/ UnlockByPassword(d)
           \/ \E k \in RecoveryKey : UnlockByPhrase(d, k)
    BY <1>2 DEF Next
  <2>2. QED
    BY <2>1, RotateInv, MarkInv, ReportInv, CatchUpInv, FlushInv, AdoptInv,
       FailInv, StopInv, OpenInv
<1>3. QED
  BY <1>1, <1>2

-----------------------------------------------------------------------------
(* What follows, for every account.                                        *)

\* Every reachable state satisfies the inductive invariant: where each copy of
\* the recovery key may be while rotations, flushes, catch-ups, crashes and
\* sign-outs of any number of devices interleave (account.ts 200-307).
THEOREM EscrowInductive == Spec => []IInv
BY InitInv, NextInv, PTL DEF Spec

\* Every copy of a recovery key has its type in every reachable state of the
\* devices and the relay.
THEOREM EscrowTypeCorrect == Spec => []TypeOK
<1>1. IInv => TypeOK
  BY DEF IInv
<1>2. QED
  BY <1>1, EscrowInductive, PTL

\* account.ts rotateRecoveryPhraseForAccount loses no rotation whose phrase was
\* shown: the relay has held its key, or it is pending and still there to be
\* published, whatever fails, crashes or signs out; unless a rotation on that
\* device overlapped a sync run or the launch's catch-up.
THEOREM RotationIsKept == Spec => []RotationKept
<1>1. IInv => RotationKept
  BY DEF IInv, Keeps, Settled, RotationKept
<1>2. QED
  BY <1>1, EscrowInductive, PTL

\* rotate-recovery.ts adoptRecoveryKey and the reseal at each open leave an open
\* store's recovery door under the key its keychain holds, whatever was killed;
\* and whatever threw, once the store has opened again or an adoption gone through.
THEOREM DoorIsInStep == Spec => []DoorFollowsKeychain
<1>1. IInv => DoorFollowsKeychain
  BY DEF IInv, Doors, DoorFollowsKeychain
<1>2. QED
  BY <1>1, EscrowInductive, PTL
=============================================================================
