--------------------------- MODULE RecoveryEscrow ---------------------------
(***************************************************************************)
(* The recovery key of one relay-bound account: the copies each device     *)
(* keeps, and the escrow the relay keeps for a fresh device                *)
(* (packages/sync/src/account.ts, packages/key-custody/src/                *)
(* rotate-recovery.ts, recovery-door.ts).                                  *)
(*                                                                         *)
(* Three activities of a device run beside each other, with nothing to     *)
(* keep them apart: the rotation the user asks for, the flush every sync   *)
(* run starts with, and the catch-up each launch starts and does not wait  *)
(* for.  Every await of theirs is a step.  A phrase is its key.            *)
(***************************************************************************)
EXTENDS Naturals

CONSTANTS
    Device,     \* the account's devices, each in the account from the start
    None,       \* no key
    MaxKeys,    \* bound: recovery keys minted after the first
    MaxFaults,  \* bound: calls that throw and apps that are killed
    MaxExits    \* bound: sign-outs

ASSUME EscrowAssumption ==
    /\ {MaxKeys, MaxFaults, MaxExits} \subseteq Nat
    /\ None \notin Nat

VARIABLES
    escrow,     \* the relay's: the recovery key all three fields are made of
    door,       \* [Device -> key]: seal(db-key, key), the sidecar by the store
    wrap,       \* the recovery key-wrap of the master key, in the store
    chain,      \* RECOVERY_KEY in the keychain, None after a sign-out
    pending,    \* recovery_escrow_pending of sync_state, persisted
    locked,     \* signed out: the db-key is gone from the keychain
    up,         \* "down", "open", or "degraded": open with no master key
    pc,         \* [Device -> [Activity -> Step]]
    hand,       \* [Device -> [Activity -> key]]: the key an activity works with
    fresh,      \* the key the running rotation minted
    minted, faults, exits,
    shown,      \* history: keys whose phrase the user has been shown
    own,        \* history: the last key this device took from its own rotation
    held,       \* history: every key the relay has held
    torn,       \* history: devices where a throw ended an adoption half done
    clashed     \* history: devices where a rotation overlapped another activity

Activity == {"rotate", "sync", "converge"}
Step == {"idle", "door", "wrap", "chain", "mark", "check", "read", "publish",
         "clear", "report", "recheck", "fetch", "compare"}
RecoveryKey == 0..MaxKeys

device == <<door, wrap, chain, pending, locked, up>>
activity == <<pc, hand, fresh>>
budget == <<minted, faults, exits>>
history == <<shown, own, torn>>
vars == <<escrow, device, activity, budget, history, held, clashed>>

Init ==
    /\ escrow = 0
    /\ door = [d \in Device |-> 0]
    /\ wrap = [d \in Device |-> 0]
    /\ chain = [d \in Device |-> 0]
    /\ pending = [d \in Device |-> FALSE]
    /\ locked = [d \in Device |-> FALSE]
    /\ up = [d \in Device |-> "down"]
    /\ pc = [d \in Device |-> [a \in Activity |-> "idle"]]
    /\ hand = [d \in Device |-> [a \in Activity |-> None]]
    /\ fresh = [d \in Device |-> None]
    /\ minted = 0
    /\ faults = MaxFaults
    /\ exits = MaxExits
    /\ shown = {0}
    /\ own = [d \in Device |-> None]
    /\ held = {0}
    /\ torn = {}
    /\ clashed = {}

-----------------------------------------------------------------------------
\* Where an activity goes on once its flush is over: a rotation to what it tells
\* the user, the catch-up to its own half, a sync run to the engine.
AfterFlush(a) ==
    CASE a = "rotate" -> "report"
      [] a = "converge" -> "recheck"
      [] a = "sync" -> "idle"

\* Where it goes on when a call of its throws: a rotation's flush is in a try,
\* and whatever else throws ends the activity.
AfterThrow(d, a) ==
    IF a = "rotate" /\ pc[d][a] \in {"check", "read", "publish", "clear"}
    THEN "report" ELSE "idle"

\* Activity a of d moves on to step s, with key k in hand.
Go(d, a, s, k) ==
    /\ pc' = [pc EXCEPT ![d][a] = s]
    /\ hand' = [hand EXCEPT ![d][a] = IF s = "idle" THEN None ELSE k]
    /\ clashed' = IF pc'[d]["rotate"] # "idle"
                     /\ \E b \in Activity \ {"rotate"} : pc'[d][b] # "idle"
                  THEN clashed \cup {d} ELSE clashed

Proceed(d, a, s) == Go(d, a, s, hand[d][a])

\* rotateRecoveryPhrase: the password is right, and a key is minted.
Rotate(d) ==
    /\ up[d] # "down"
    /\ pc[d]["rotate"] = "idle"
    /\ minted < MaxKeys
    /\ minted' = minted + 1
    /\ fresh' = [fresh EXCEPT ![d] = minted + 1]
    /\ Go(d, "rotate", "door", minted + 1)
    /\ UNCHANGED <<escrow, device, faults, exits, history, held>>

\* adoptRecoveryKey: the door, then the key-wrap, then the keychain.
WriteDoor(d, a) ==
    /\ pc[d][a] = "door"
    /\ door' = [door EXCEPT ![d] = hand[d][a]]
    /\ Proceed(d, a, "wrap")
    /\ UNCHANGED <<escrow, wrap, chain, pending, locked, up, fresh, budget,
                   history, held>>

WriteWrap(d, a) ==
    /\ pc[d][a] = "wrap"
    /\ wrap' = [wrap EXCEPT ![d] = hand[d][a]]
    /\ Proceed(d, a, "chain")
    /\ UNCHANGED <<escrow, door, chain, pending, locked, up, fresh, budget,
                   history, held>>

WriteChain(d, a) ==
    /\ pc[d][a] = "chain"
    /\ chain' = [chain EXCEPT ![d] = hand[d][a]]
    /\ own' = IF a = "rotate" THEN [own EXCEPT ![d] = hand[d][a]] ELSE own
    /\ torn' = torn \ {d}
    /\ Proceed(d, a, IF a = "rotate" THEN "mark" ELSE "idle")
    /\ UNCHANGED <<escrow, door, wrap, pending, locked, up, fresh, budget,
                   shown, held>>

\* A mutant of Mark: the flag is left for the flush to set.
MarkLate(d) ==
    /\ pc[d]["rotate"] = "mark"
    /\ Proceed(d, "rotate", "check")
    /\ UNCHANGED <<escrow, device, fresh, budget, history, held>>

\* setRecoveryEscrowPending(true), before the attempt.
Mark(d) ==
    /\ pc[d]["rotate"] = "mark"
    /\ pending' = [pending EXCEPT ![d] = TRUE]
    /\ Proceed(d, "rotate", "check")
    /\ UNCHANGED <<escrow, door, wrap, chain, locked, up, fresh, budget,
                   history, held>>

\* A sync run of a device with a master key starts with a flush; with nothing
\* pending there is nothing to it.
StartSync(d) ==
    /\ up[d] = "open"
    /\ pc[d]["sync"] = "idle"
    /\ pending[d]
    /\ Proceed(d, "sync", "read")
    /\ UNCHANGED <<escrow, device, fresh, budget, history, held>>

\* flushPendingRecoveryEscrow: is there anything to publish ...
Check(d, a) ==
    /\ pc[d][a] = "check"
    /\ Proceed(d, a, IF pending[d] THEN "read" ELSE AfterFlush(a))
    /\ UNCHANGED <<escrow, device, fresh, budget, history, held>>

\* ... under which key; a signed-out keychain has none ...
Read(d, a) ==
    /\ pc[d][a] = "read"
    /\ Go(d, a, IF chain[d] = None THEN AfterFlush(a) ELSE "publish", chain[d])
    /\ UNCHANGED <<escrow, device, fresh, budget, history, held>>

\* ... the relay takes it ...
Publish(d, a) ==
    /\ pc[d][a] = "publish"
    /\ escrow' = hand[d][a]
    /\ held' = held \cup {hand[d][a]}
    /\ Proceed(d, a, "clear")
    /\ UNCHANGED <<device, fresh, budget, history>>

\* A mutant of Clear: the flag outlives the publication.
ClearNothing(d, a) ==
    /\ pc[d][a] = "clear"
    /\ Proceed(d, a, AfterFlush(a))
    /\ UNCHANGED <<escrow, device, fresh, budget, history, held>>

\* ... and the flag goes down, whatever has been marked since.
Clear(d, a) ==
    /\ pc[d][a] = "clear"
    /\ pending' = [pending EXCEPT ![d] = FALSE]
    /\ Proceed(d, a, AfterFlush(a))
    /\ UNCHANGED <<escrow, door, wrap, chain, locked, up, fresh, budget,
                   history, held>>

\* The rotation hands the phrase over, and says what the flag says by now.
Report(d) ==
    /\ pc[d]["rotate"] = "report"
    /\ shown' = shown \cup {fresh[d]}
    /\ fresh' = [fresh EXCEPT ![d] = None]
    /\ Proceed(d, "rotate", "idle")
    /\ UNCHANGED <<escrow, device, budget, own, torn, held>>

\* convergeRecoveryKey after its flush: not over a pending rotation ...
Recheck(d) ==
    /\ pc[d]["converge"] = "recheck"
    /\ Proceed(d, "converge", IF pending[d] THEN "idle" ELSE "fetch")
    /\ UNCHANGED <<escrow, device, fresh, budget, history, held>>

\* ... the relay's key ...
Fetch(d) ==
    /\ pc[d]["converge"] = "fetch"
    /\ Go(d, "converge", "compare", escrow)
    /\ UNCHANGED <<escrow, device, fresh, budget, history, held>>

\* ... is adopted unless it is held already.
Compare(d) ==
    /\ pc[d]["converge"] = "compare"
    /\ Proceed(d, "converge",
               IF chain[d] = hand[d]["converge"] THEN "idle" ELSE "door")
    /\ UNCHANGED <<escrow, device, fresh, budget, history, held>>

-----------------------------------------------------------------------------
(* Failures, launches and sign-outs.                                       *)

\* The relay may have taken what was under way when its caller gave up on it.
InFlight(d) == {hand[d][a] : a \in {b \in Activity : pc[d][b] = "publish"}}
Delivered(keys) ==
    \E k \in keys : escrow' = k /\ held' = held \cup {k}

\* A call that throws may have done its work first.
Took(d, a) ==
    /\ door' = IF pc[d][a] = "door" THEN [door EXCEPT ![d] = hand[d][a]] ELSE door
    /\ wrap' = IF pc[d][a] = "wrap" THEN [wrap EXCEPT ![d] = hand[d][a]] ELSE wrap
    /\ chain' = IF pc[d][a] = "chain" THEN [chain EXCEPT ![d] = hand[d][a]] ELSE chain
    /\ own' = IF pc[d][a] = "chain" /\ a = "rotate"
              THEN [own EXCEPT ![d] = hand[d][a]] ELSE own
    /\ pending' = [pending EXCEPT ![d] = \/ pc[d][a] = "mark"
                                         \/ pc[d][a] # "clear" /\ @]
    /\ IF pc[d][a] = "publish" THEN Delivered({hand[d][a]})
                               ELSE UNCHANGED <<escrow, held>>

\* A read, a write or a request of an activity throws: what it has in hand is
\* dropped, a minted key with its phrase too, and an adoption stays half done.
Fail(d, a) ==
    /\ pc[d][a] # "idle"
    /\ faults > 0
    /\ faults' = faults - 1
    /\ Took(d, a) \/ UNCHANGED <<escrow, held, door, wrap, chain, pending, own>>
    /\ torn' = IF pc[d][a] \in {"door", "wrap", "chain"} THEN torn \cup {d} ELSE torn
    /\ fresh' = IF a = "rotate" /\ AfterThrow(d, a) = "idle"
                THEN [fresh EXCEPT ![d] = None] ELSE fresh
    /\ Proceed(d, a, AfterThrow(d, a))
    /\ UNCHANGED <<locked, up, minted, exits, shown>>

\* Every activity of d ends where it is.
Stop(d) ==
    /\ up[d] # "down"
    /\ up' = [up EXCEPT ![d] = "down"]
    /\ pc' = [pc EXCEPT ![d] = [a \in Activity |-> "idle"]]
    /\ hand' = [hand EXCEPT ![d] = [a \in Activity |-> None]]
    /\ fresh' = [fresh EXCEPT ![d] = None]
    /\ UNCHANGED <<escrow, held>> \/ Delivered(InFlight(d))

Crash(d) ==
    /\ faults > 0
    /\ faults' = faults - 1
    /\ Stop(d)
    /\ UNCHANGED <<door, wrap, chain, pending, locked, minted, exits, history,
                   clashed>>

\* lockThisDevice: the store is closed, the db-key and the recovery key go.
SignOut(d) ==
    /\ exits > 0
    /\ exits' = exits - 1
    /\ Stop(d)
    /\ chain' = [chain EXCEPT ![d] = None]
    /\ locked' = [locked EXCEPT ![d] = TRUE]
    /\ UNCHANGED <<door, wrap, pending, minted, faults, history, clashed>>

\* The store opens: a recovery key in the keychain reseals the door, and the
\* catch-up starts if there is a master key to open the escrow with.
Opened(d, key, mode) ==
    /\ up' = [up EXCEPT ![d] = mode]
    /\ locked' = [locked EXCEPT ![d] = FALSE]
    /\ chain' = [chain EXCEPT ![d] = key]
    /\ IF mode = "open" THEN Proceed(d, "converge", "check")
       ELSE UNCHANGED <<pc, hand, clashed>>
    /\ torn' = torn \ {d}
    /\ UNCHANGED <<escrow, wrap, pending, fresh, budget, shown, own, held>>

\* resealRecoveryDoor: with no recovery key the door is left as it is.
Resealed(d, key) == IF key = None THEN door ELSE [door EXCEPT ![d] = key]

\* A mutant of Launch: an ordinary launch leaves the door alone.
LaunchAsIs(d) ==
    /\ up[d] = "down" /\ ~locked[d]
    /\ Opened(d, chain[d], "open")
    /\ UNCHANGED door

Launch(d) ==
    /\ up[d] = "down" /\ ~locked[d]
    /\ Opened(d, chain[d], "open")
    /\ door' = Resealed(d, chain[d])

UnlockByPassword(d) ==
    /\ up[d] = "down" /\ locked[d]
    /\ Opened(d, None, "open")
    /\ UNCHANGED door

\* The user enters a phrase that opens the door; the key-wrap must open under it
\* too, or the store opens degraded.
UnlockByPhrase(d, k) ==
    /\ up[d] = "down" /\ locked[d]
    /\ k \in shown
    /\ door[d] = k
    /\ Opened(d, k, IF wrap[d] = k THEN "open" ELSE "degraded")
    /\ door' = Resealed(d, k)

-----------------------------------------------------------------------------
Flush(d, a) == Check(d, a) \/ Read(d, a) \/ Publish(d, a) \/ Clear(d, a)

Adopt(d, a) == WriteDoor(d, a) \/ WriteWrap(d, a) \/ WriteChain(d, a)

Next ==
    \E d \in Device :
        \/ Rotate(d) \/ Mark(d) \/ Report(d)
        \/ StartSync(d)
        \/ Recheck(d) \/ Fetch(d) \/ Compare(d)
        \/ \E a \in Activity : Flush(d, a) \/ Adopt(d, a) \/ Fail(d, a)
        \/ Crash(d) \/ SignOut(d)
        \/ Launch(d) \/ UnlockByPassword(d)
        \/ \E k \in RecoveryKey : UnlockByPhrase(d, k)

Spec == Init /\ [][Next]_vars

\* The loop of an open store starts runs again and again, and each ends.
FairSpec ==
    Spec /\ \A d \in Device :
               /\ WF_vars(StartSync(d))
               /\ WF_vars(Flush(d, "sync"))

-----------------------------------------------------------------------------
TypeOK ==
    /\ escrow \in RecoveryKey
    /\ door \in [Device -> RecoveryKey]
    /\ wrap \in [Device -> RecoveryKey]
    /\ chain \in [Device -> RecoveryKey \cup {None}]
    /\ pending \in [Device -> BOOLEAN]
    /\ locked \in [Device -> BOOLEAN]
    /\ up \in [Device -> {"down", "open", "degraded"}]
    /\ pc \in [Device -> [Activity -> Step]]
    /\ hand \in [Device -> [Activity -> RecoveryKey \cup {None}]]
    /\ fresh \in [Device -> RecoveryKey \cup {None}]
    /\ minted \in RecoveryKey
    /\ faults \in Nat /\ exits \in Nat
    /\ shown \subseteq RecoveryKey
    /\ own \in [Device -> RecoveryKey \cup {None}]
    /\ held \subseteq RecoveryKey
    /\ torn \subseteq Device
    /\ clashed \subseteq Device

\* A device's rotation is not lost once its phrase is shown: the relay has held
\* its key, or the flag is up and the key is still there to publish (or gone with
\* a sign-out, until the phrase brings it back); through crashes, failed calls,
\* sign-outs and the catch-up.  Rotations that overlapped another activity are
\* the exception.  (account.ts rotateRecoveryPhraseForAccount,
\* flushPendingRecoveryEscrow, and convergeRecoveryKey never pulling over a
\* pending rotation.)
RotationKept ==
    \A d \in Device \ clashed :
        own[d] \in shown =>
            \/ own[d] \in held
            \/ pending[d] /\ chain[d] \in {None, own[d]}

\* An open store's recovery door opens under the key in the keychain, so the
\* phrase of that key is a way back in after a sign-out, whatever kill cut an
\* adoption short before.  An adoption that a throw ended half done is the
\* exception until the next open or the next adoption: the store stays open with
\* the door ahead of the keychain.  (adoptRecoveryKey, and resealRecoveryDoor at
\* each open.)
Adopting(d) == \E a \in Activity : pc[d][a] \in {"door", "wrap", "chain"}

DoorFollowsKeychain ==
    \A d \in Device \ (clashed \cup torn) :
        up[d] # "down" /\ ~Adopting(d) /\ chain[d] # None => door[d] = chain[d]

\* A pending rotation of an open store is published in the end, unless the store
\* closes or its key is gone.  (account.ts runAccountSync flushes first.)
EscrowFlushed ==
    \A d \in Device :
        pending[d] ~> (~pending[d] \/ up[d] # "open" \/ chain[d] = None)

-----------------------------------------------------------------------------
(* The inductive invariant behind RotationKept and DoorFollowsKeychain      *)
(* (RecoveryEscrowProofs).                                                  *)

\* A minted key belongs to one rotation of one device, and nobody has seen its
\* phrase while that rotation runs.
Keys ==
    /\ shown \subseteq 0..minted
    /\ held \subseteq 0..minted
    /\ escrow \in held
    /\ \A d \in Device :
          /\ door[d] \in 0..minted
          /\ {chain[d], own[d], fresh[d]} \subseteq 0..minted \cup {None}
          /\ \A a \in Activity : hand[d][a] \in 0..minted \cup {None}
          /\ fresh[d] \notin shown
          /\ \A e \in Device : fresh[d] # None /\ fresh[d] \in {fresh[e], own[e]}
                                => d = e

\* What each activity of d goes through, and what it has in hand there.
Course(d) ==
    /\ pc[d]["sync"] \in {"idle", "read", "publish", "clear"}
    /\ pc[d]["converge"] \notin {"mark", "report"}
    /\ pc[d]["rotate"] \notin {"recheck", "fetch", "compare"}
    /\ (pc[d]["rotate"] = "idle") <=> (fresh[d] = None)
    /\ pc[d]["rotate"] \in {"door", "wrap", "chain"} =>
          hand[d]["rotate"] = fresh[d]
    /\ up[d] = "down" => \A a \in Activity : pc[d][a] = "idle"
    /\ \A a \in Activity :
          /\ pc[d][a] \in {"publish", "clear", "compare", "door", "wrap", "chain"} =>
                hand[d][a] # None
          /\ pc[d][a] = "clear" => hand[d][a] \in held
    /\ d \notin clashed => \/ pc[d]["rotate"] = "idle"
                           \/ pc[d]["sync"] = "idle" /\ pc[d]["converge"] = "idle"

\* Nobody waits for d's last rotation: its phrase is unseen, or the relay has
\* held its key.
Settled(d) == own[d] \notin shown \/ own[d] \in held

\* While somebody does, the key stays where the next flush looks for it.
Keeps(d) ==
    /\ pc[d]["rotate"] \in {"mark", "check", "read", "publish", "clear", "report"} =>
          own[d] = fresh[d] /\ chain[d] = own[d] /\ door[d] = own[d]
    /\ pc[d]["rotate"] \in {"check", "read", "publish"} => pending[d]
    /\ pc[d]["rotate"] \in {"publish", "clear"} => hand[d]["rotate"] = own[d]
    /\ pc[d]["rotate"] = "report" => own[d] \in held \/ pending[d]
    /\ \/ Settled(d)
       \/ pending[d] /\ chain[d] \in {None, own[d]}
    /\ \/ Settled(d)
       \/ door[d] = own[d]
       \/ door[d] \notin shown /\ \A e \in Device \ {d} : door[d] # fresh[e]
    /\ \A a \in {"sync", "converge"} :
          /\ pc[d][a] = "publish" => Settled(d) \/ hand[d][a] = own[d]
          /\ pc[d][a] = "clear" => Settled(d)
    /\ pc[d]["converge"] \in {"fetch", "compare", "door", "wrap", "chain"} => Settled(d)

\* An adoption under way has the door ahead of the keychain.
Doors(d) ==
    /\ \A a \in Activity : pc[d][a] \in {"wrap", "chain"} => door[d] = hand[d][a]
    /\ up[d] # "down" /\ ~Adopting(d) /\ chain[d] # None /\ d \notin torn =>
          door[d] = chain[d]

IInv ==
    /\ TypeOK
    /\ Keys
    /\ \A d \in Device : Course(d)
    /\ \A d \in Device \ clashed : Keeps(d) /\ Doors(d)
=============================================================================
