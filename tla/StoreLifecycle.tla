--------------------------- MODULE StoreLifecycle ---------------------------
(***************************************************************************)
(* Where a device keeps its user's rows, and the keys that open them: the  *)
(* roster, the store files with their doors, and the keychain, through     *)
(* every flow that creates, joins, recovers, merges, signs out of, forgets *)
(* or erases an account (packages/account-flows, packages/key-custody,     *)
(* packages/store-layout), with the desktop client's launch                *)
(* (apps/desktop/src/main).  Each awaited write is a step; between two of  *)
(* them the app may be killed, and each may fail.                          *)
(*                                                                         *)
(* A local key is a number, minted once.  An account that is on a relay    *)
(* has one master key and one phrase, both written as the account itself.  *)
(* Whoever has an account's password opens what is sealed under it.        *)
(***************************************************************************)
EXTENDS Naturals, Sequences

CONSTANTS
    Fresh,      \* ids this device may mint
    Synced,     \* accounts that are on a relay already
    Plain,      \* UNAUTHENTICATED_STORE_SLOT
    None,       \* no key, no account, no store
    MaxKeys,    \* bound: keys minted
    MaxRows,    \* bound: no row is added once a store has this many
    MaxEra      \* bound: keystores this device has had, the first aside

ASSUME LifecycleAssumption ==
    /\ Fresh \cap Synced = {}
    /\ {Plain, None} \cap (Fresh \cup Synced) = {}
    /\ Plain # None
    /\ {MaxKeys, MaxRows, MaxEra} \subseteq Nat
    /\ Nat \cap (Fresh \cup Synced \cup {Plain, None}) = {}

VARIABLES
    roster,     \* accounts.json: the accounts it names
    store,      \* [Slot -> the store file there, or None]
    door,       \* [Account -> the sidecars beside its store]
    chain,      \* the keychain's db-key and recovery key
    era,        \* keystores lost so far: names this one's device id and enclave
    minted,     \* keys minted so far
    pc,         \* where the app is: a phase of the launch, "flow", or "open"
    at,         \* the slot of the store the launch opened
    through,    \* the AdoptionDoor of this launch, and the phrase typed into it
    session,    \* the master key of the open store, None when it has none
    flow,       \* the flow that runs, "none" otherwise
    step,       \* the place in its list of the step it is at, 0 otherwise
    to,         \* the account the flow is about
    kept,       \* a merge's snapshot of the keychain
    torn,       \* history: a factory reset is under way, or was cut short, with
                \* an account listed
    cut         \* history: accounts whose merge was cut short

Account == Fresh \cup Synced
Slot == Account \cup {Plain}
Key == (1..MaxKeys) \cup Synced
KeyOrNone == Key \cup {None}
Phase == {"off", "swapped", "key", "gate", "reseal", "boot", "adopt", "rewind",
          "repaired", "session", "open", "failed", "flow"}

Chain == [db : KeyOrNone, rec : KeyOrNone]
NoKeys == [db |-> None, rec |-> None]

\* The password door holds the db-key it seals; the phrase door that, and the
\* phrase it is sealed under.
Door == [pass : KeyOrNone, phrase : [key : Key, lock : Key] \cup {None}]
NoDoor == [pass |-> None, phrase |-> None]
NotADoor == [by |-> "none", key |-> None]

\* A store: the db-key it is encrypted under (None: plaintext), the account
\* row and whether it has a relay, the master key as wrapped for this device's
\* enclave, for the password and for the phrase, master_key_repair_pending, and
\* the user's rows.  owed is history: a repair whose rewind is still to come.
Store == [lock : KeyOrNone, acct : Account \cup {None}, relay : BOOLEAN,
          enclave : [era : 0..MaxEra, mk : Key] \cup {None},
          pass : KeyOrNone, phrase : [key : Key, mk : Key] \cup {None},
          repair : BOOLEAN, owed : BOOLEAN, rows : 0..MaxRows]

\* None is no record either.
ASSUME NoneAssumption ==
    /\ None \notin Store
    /\ None \notin [era : 0..MaxEra, mk : Key]
    /\ None \notin [key : Key, mk : Key]
    /\ None \notin [key : Key, lock : Key]

EmptyStore(lock) ==
    [lock |-> lock, acct |-> None, relay |-> FALSE, enclave |-> None,
     pass |-> None, phrase |-> None, repair |-> FALSE, owed |-> FALSE, rows |-> 0]

disk == <<roster, store, door>>
keys == <<chain, era, minted>>
app == <<at, through, session>>
job == <<flow, step, to, kept>>
history == <<torn, cut>>
vars == <<disk, keys, pc, app, job, history>>

Init ==
    /\ roster = {}
    /\ store = [s \in Slot |-> None]
    /\ door = [a \in Account |-> NoDoor]
    /\ chain = NoKeys
    /\ era = 0
    /\ minted = 0
    /\ pc = "off"
    /\ at = Plain
    /\ through = NotADoor
    /\ session = None
    /\ flow = "none"
    /\ step = 0
    /\ to = None
    /\ kept = NoKeys
    /\ torn = FALSE
    /\ cut = {}

-----------------------------------------------------------------------------
(* Keys. *)

\* generateKey: the key is minted + 1.
Mint ==
    /\ minted < MaxKeys
    /\ minted' = minted + 1

\* The keychain's key for id, minted when there is none.
Ensured(id) == IF chain[id] = None THEN minted + 1 ELSE chain[id]
EnsureKey(id) ==
    /\ IF chain[id] = None THEN Mint ELSE UNCHANGED minted
    /\ chain' = [chain EXCEPT ![id] = Ensured(id)]
    /\ UNCHANGED era

\* Whether slot s's store holds a master key for the keystore there is now.
HasEnclave(s) == store[s].enclave # None /\ store[s].enclave.era = era
EnclaveWrap(mk) == [era |-> era, mk |-> mk]

-----------------------------------------------------------------------------
(* The launch, and the re-open after a swap. *)

\* resolveActiveStore with an empty roster: the plaintext store, keyless.
LaunchPlain ==
    /\ pc \in {"off", "swapped"}
    /\ roster = {}
    /\ store' = IF store[Plain] = None
                   THEN [store EXCEPT ![Plain] = EmptyStore(None)] ELSE store
    /\ at' = Plain
    /\ pc' = "open"
    /\ through' = NotADoor
    /\ session' = None
    /\ UNCHANGED <<roster, door, keys, job, history>>

\* With an account: a plaintext store left beside its own is swept, and without
\* a db-key in the keychain the doors are asked.
LaunchAccount ==
    /\ pc \in {"off", "swapped"}
    /\ \E a \in roster :
          /\ at' = a
          /\ pc' = IF chain.db # None \/ store[a] = None THEN "key"
                   ELSE IF door[a] = NoDoor THEN "failed" ELSE "gate"
    /\ store' = [store EXCEPT ![Plain] = None]
    /\ through' = NotADoor
    /\ session' = None
    /\ UNCHANGED <<roster, door, keys, job, history>>

\* The gate takes the account's password: its door gives the db-key up.
UnlockByPassword ==
    /\ pc = "gate"
    /\ door[at].pass # None
    /\ chain' = [chain EXCEPT !.db = door[at].pass]
    /\ through' = [by |-> "password", key |-> None]
    /\ pc' = "key"
    /\ UNCHANGED <<disk, era, minted, at, session, job, history>>

\* Or the phrase its other door is sealed under.
UnlockByPhrase ==
    /\ pc = "gate"
    /\ door[at].phrase # None
    /\ chain' = [chain EXCEPT !.db = door[at].phrase.lock]
    /\ through' = [by |-> "recovery", key |-> door[at].phrase.key]
    /\ pc' = "key"
    /\ UNCHANGED <<disk, era, minted, at, session, job, history>>

\* The file opens under the keychain's db-key or not at all; one that is not
\* there is created, under a minted key if need be.
OpenWithKey ==
    /\ pc = "key"
    /\ EnsureKey("db")
    /\ IF store[at] = None
          THEN /\ store' = [store EXCEPT ![at] = EmptyStore(Ensured("db"))]
               /\ pc' = "reseal"
          ELSE /\ pc' = IF store[at].lock = chain.db THEN "reseal" ELSE "failed"
               /\ UNCHANGED store
    /\ UNCHANGED <<roster, door, app, job, history>>

\* resealRecoveryDoor: a phrase unlock's key is kept, none is minted, and
\* without one the phrase door stays as it is.
Reseal ==
    /\ pc = "reseal"
    /\ LET key == IF through.by = "recovery" THEN through.key ELSE chain.rec IN
          /\ chain' = [chain EXCEPT !.rec = key]
          /\ door' = IF key = None THEN door
                     ELSE [door EXCEPT ![at].phrase =
                              [key |-> key, lock |-> chain.db]]
    /\ pc' = "boot"
    /\ UNCHANGED <<roster, store, era, minted, app, job, history>>

\* A mutant of FlagRepair: the flag is not set before the repair.
FlagRepairLate ==
    /\ pc = "boot"
    /\ through.by # "none"
    /\ pc' = "adopt"
    /\ UNCHANGED <<disk, keys, app, job, history>>

\* establishKeySession: an unlock is repaired from its door, and is marked so
\* before it is.
FlagRepair ==
    /\ pc = "boot"
    /\ through.by # "none"
    /\ store' = [store EXCEPT ![at].repair = TRUE]
    /\ pc' = "adopt"
    /\ UNCHANGED <<roster, door, keys, app, job, history>>

\* No unlock: a repair cut short is finished with its rewind.
ResumeRepair ==
    /\ pc = "boot"
    /\ through.by = "none"
    /\ pc' = IF store[at].repair THEN "rewind" ELSE "session"
    /\ UNCHANGED <<disk, keys, app, job, history>>

\* The master key as the door the user came through unwraps it, None when it
\* does not.
MasterThroughDoor ==
    LET s == store[at] IN
    IF s.acct = None THEN None
    ELSE IF through.by = "password" THEN s.pass
    ELSE IF s.phrase = None \/ s.phrase.key # through.key THEN None
    ELSE s.phrase.mk

\* adoptAccountMasterKey: bound to this enclave unless it is already; with no
\* key the store opens Degraded, and the flag stays.
Adopt ==
    /\ pc = "adopt"
    /\ LET mk == MasterThroughDoor IN
          IF mk = None THEN pc' = "open" /\ UNCHANGED store
          ELSE IF HasEnclave(at) /\ store[at].enclave.mk = mk
                  THEN pc' = "repaired" /\ UNCHANGED store
          ELSE /\ store' = [store EXCEPT ![at].enclave = EnclaveWrap(mk),
                                         ![at].owed = TRUE]
               /\ pc' = "rewind"
    /\ through' = NotADoor
    /\ UNCHANGED <<roster, door, keys, at, session, job, history>>

\* resyncAfterMasterKeyRepair.
Rewind ==
    /\ pc = "rewind"
    /\ store' = [store EXCEPT ![at].owed = FALSE]
    /\ pc' = "repaired"
    /\ UNCHANGED <<roster, door, keys, app, job, history>>

ClearRepair ==
    /\ pc = "repaired"
    /\ store' = [store EXCEPT ![at].repair = FALSE]
    /\ pc' = "session"
    /\ UNCHANGED <<roster, door, keys, app, job, history>>

\* A mutant of EnsureSession: a key is minted whether or not there is an account.
EnsureSessionMinting ==
    /\ pc = "session"
    /\ pc' = "open"
    /\ IF HasEnclave(at)
          THEN /\ session' = store[at].enclave.mk
               /\ UNCHANGED <<store, minted>>
          ELSE /\ Mint
               /\ session' = minted + 1
               /\ store' = [store EXCEPT ![at].enclave = EnclaveWrap(minted + 1)]
    /\ UNCHANGED <<roster, door, chain, era, at, through, job, history>>

\* ensureDeviceMasterKey: the enclave's, minted only where no account is;
\* otherwise the store opens Degraded, and is marked for a repair.
EnsureSession ==
    /\ pc = "session"
    /\ pc' = "open"
    /\ IF HasEnclave(at)
          THEN /\ session' = store[at].enclave.mk
               /\ UNCHANGED <<store, minted>>
       ELSE IF store[at].acct = None
          THEN /\ Mint
               /\ session' = minted + 1
               /\ store' = [store EXCEPT ![at].enclave = EnclaveWrap(minted + 1)]
       ELSE /\ store' = [store EXCEPT ![at].repair = TRUE]
            /\ UNCHANGED <<session, minted>>
    /\ UNCHANGED <<roster, door, chain, era, at, through, job, history>>

-----------------------------------------------------------------------------
(* Flows.  Each is a list of steps, and withStoreSwap re-opens after the last *)
(* one or the one that failed.                                                *)

\* A mutant of AdoptSteps: the account is listed before its door is written.
AdoptStepsListedFirst == <<"drop", "copy", "fill", "roster", "door", "remove">>

\* A mutant of AdoptSteps: the conversion deletes its original.
AdoptStepsInPlace == <<"drop", "copy", "fill", "remove", "door", "roster">>

\* adoptStore.
AdoptSteps == <<"drop", "copy", "fill", "door", "roster", "remove">>

Steps ==
    [create |-> <<"master", "phrase", "account", "password", "escrow", "dbkey">>
                \o AdoptSteps,
     join |-> <<"dbkey", "account", "enclave", "password", "phrase", "escrow">>
              \o AdoptSteps,
     recover |-> <<"dbkey", "account", "enclave", "password", "escrow", "phrase">>
                 \o AdoptSteps,
     merge |-> <<"drop", "copy", "fill", "clear", "account", "enclave",
                 "password", "phrase", "escrow", "door", "roster", "remove">>,
     signOut |-> <<"lock", "lockPhrase">>,
     forget |-> <<"unlist", "erase", "lock", "lockPhrase">>,
     reset |-> <<"eraseOpen", "eraseKeys", "eraseAll", "unlistAll">>]

Flow == DOMAIN Steps

Doing(name) == pc = "flow" /\ Steps[flow][step] = name
Coming(name) == \E i \in step + 1 .. Len(Steps[flow]) : Steps[flow][i] = name

\* The app leaves its flow, and its store, for the phase p.
Stop(p) ==
    /\ pc' = p
    /\ at' = Plain
    /\ through' = NotADoor
    /\ session' = None
    /\ flow' = "none"
    /\ step' = 0
    /\ to' = None
    /\ kept' = NoKeys

\* The next step, or the end of the flow.
Advance ==
    /\ IF step = Len(Steps[flow])
          THEN Stop("swapped")
          ELSE /\ step' = step + 1
               /\ UNCHANGED <<pc, app, flow, to, kept>>

Begin(f, a) ==
    /\ pc = "open"
    /\ pc' = "flow"
    /\ flow' = f
    /\ step' = 1
    /\ to' = a
    /\ UNCHANGED <<disk, keys, app, kept, history>>

\* The store the flow's account rows go to, and the one it copies.
Work == IF flow = "merge" THEN to ELSE Plain
Source == IF flow = "merge" THEN at ELSE Plain

\* The master key they wrap: this store's own, or the relay account's.
FlowMaster == IF flow = "create" THEN store[Work].enclave.mk ELSE to

\* createAccount, on the plaintext store.  An id that is nowhere on the device
\* is as good as a new one.
BeginCreate(a) ==
    /\ Begin("create", a)
    /\ at = Plain
    /\ store[Plain].acct = None
    /\ store[a] = None

\* joinAccount and recoverAccount, which look for an account row only later.
BeginJoin(a) == at = Plain /\ Begin("join", a)
BeginRecover(a) == at = Plain /\ Begin("recover", a)

\* mergeIntoAccount, for an account that has no relay.
BeginMerge(a) ==
    /\ Begin("merge", a)
    /\ at \in roster
    /\ a \notin roster
    /\ store[at].acct # None
    /\ ~store[at].relay

\* ensureDeviceMasterKey, as enableSync calls it.
MasterStep ==
    /\ Doing("master")
    /\ IF HasEnclave(Work)
          THEN UNCHANGED <<store, minted>>
          ELSE /\ Mint
               /\ store' = [store EXCEPT ![Work].enclave = EnclaveWrap(minted + 1)]
    /\ Advance
    /\ UNCHANGED <<roster, door, chain, era, history>>

\* The recovery key in the keychain: ensured when an account is created, the
\* relay account's otherwise.
PhraseStep ==
    /\ Doing("phrase")
    /\ IF flow = "create"
          THEN EnsureKey("rec")
          ELSE chain' = [chain EXCEPT !.rec = to] /\ UNCHANGED <<era, minted>>
    /\ Advance
    /\ UNCHANGED <<disk, history>>

\* accountRepo.create; refused where there is an account row already.
AccountStep ==
    /\ Doing("account")
    /\ store[Work].acct = None
    /\ store' = [store EXCEPT ![Work].acct = to,
                              ![Work].relay = (flow # "create")]
    /\ Advance
    /\ UNCHANGED <<roster, door, keys, history>>

\* adoptMasterKeyIntoEnclave: revoke and add, in one transaction.
EnclaveStep ==
    /\ Doing("enclave")
    /\ store' = [store EXCEPT ![Work].enclave = EnclaveWrap(to)]
    /\ Advance
    /\ UNCHANGED <<roster, door, keys, history>>

PasswordStep ==
    /\ Doing("password")
    /\ store' = [store EXCEPT ![Work].pass = FlowMaster]
    /\ Advance
    /\ UNCHANGED <<roster, door, keys, history>>

\* The local recovery wrap.
EscrowStep ==
    /\ Doing("escrow")
    /\ store' = [store EXCEPT ![Work].phrase =
                    [key |-> IF flow = "create" THEN chain.rec ELSE to,
                     mk |-> FlowMaster]]
    /\ Advance
    /\ UNCHANGED <<roster, door, keys, history>>

\* ensureDatabaseKey.
DbKeyStep ==
    /\ Doing("dbkey")
    /\ EnsureKey("db")
    /\ Advance
    /\ UNCHANGED <<disk, history>>

\* The open store is closed, and the destination cleared of what an earlier
\* attempt left there, unless the roster names it.
DropStep ==
    /\ Doing("drop")
    /\ IF to \in roster
          THEN UNCHANGED <<store, door>>
          ELSE /\ store' = [store EXCEPT ![to] = None]
               /\ door' = [door EXCEPT ![to] = NoDoor]
    /\ Advance
    /\ UNCHANGED <<roster, keys, history>>

\* copyStore, which wants its source of the right custody and its destination
\* absent: the tables first,
CopyStep ==
    /\ Doing("copy")
    /\ store[to] = None
    /\ store[Source].lock = IF flow = "merge" THEN chain.db ELSE None
    /\ store' = [store EXCEPT ![to] = EmptyStore(chain.db)]
    /\ Advance
    /\ UNCHANGED <<roster, door, keys, history>>

\* and then their rows.  A merge looks at its keychain here.
FillStep ==
    /\ Doing("fill")
    /\ store' = [store EXCEPT ![to] = [store[Source] EXCEPT !.lock = chain.db]]
    /\ step' = step + 1
    /\ kept' = IF flow = "merge" THEN chain ELSE kept
    /\ UNCHANGED <<roster, door, keys, pc, app, flow, to, history>>

\* clearLocalAccount, on a merge's copy.
ClearStep ==
    /\ Doing("clear")
    /\ store' = [store EXCEPT ![to].acct = None, ![to].relay = FALSE,
                              ![to].pass = None, ![to].phrase = None]
    /\ Advance
    /\ UNCHANGED <<roster, door, keys, history>>

DoorStep ==
    /\ Doing("door")
    /\ door' = [door EXCEPT ![to].pass = chain.db]
    /\ Advance
    /\ UNCHANGED <<roster, store, keys, history>>

\* roster.add, or a merge's roster.replace: one write.
RosterStep ==
    /\ Doing("roster")
    /\ roster' = (IF flow = "merge" THEN roster \ {at} ELSE roster) \cup {to}
    /\ cut' = cut \ {at}
    /\ Advance
    /\ UNCHANGED <<store, door, keys, torn>>

\* The original goes, if it can be removed.
RemoveStep ==
    /\ Doing("remove")
    /\ \/ /\ store' = [store EXCEPT ![Source] = None]
          /\ door' = IF flow = "merge" THEN [door EXCEPT ![at] = NoDoor] ELSE door
       \/ UNCHANGED <<store, door>>
    /\ Advance
    /\ UNCHANGED <<roster, keys, history>>

\* A mutant of Undo: the keychain is not put back.
UndoKeepingKeychain ==
    /\ UNCHANGED chain
    /\ \/ /\ Doing("fill") \/ (flow = "merge" /\ Coming("roster"))
          /\ store' = [store EXCEPT ![to] = None]
          /\ door' = [door EXCEPT ![to] = NoDoor]
       \/ UNCHANGED <<store, door>>

\* What a failing step undoes.  A half-filled copy is destroyed; a merge whose
\* relay half or door fails puts the keychain back and discards its copy, if
\* it can; a roster entry that is not replaced undoes nothing.
Undo ==
    LET relayHalf == flow = "merge" /\ ~Coming("clear") /\ Coming("roster")
                     /\ ~Doing("fill")
    IN  /\ chain' = IF relayHalf THEN kept ELSE chain
        /\ \/ /\ Doing("fill") \/ relayHalf
              /\ store' = [store EXCEPT ![to] = None]
              /\ door' = [door EXCEPT ![to] = NoDoor]
           \/ UNCHANGED <<store, door>>

\* A step throws.  Before the store was closed it is still open; after, the
\* launch opens the one the roster names.
FlowFails ==
    /\ pc = "flow"
    /\ ~Doing("remove")
    /\ Undo
    /\ IF Coming("drop")
          THEN /\ pc' = "open"
               /\ flow' = "none"
               /\ step' = 0
               /\ to' = None
               /\ UNCHANGED <<app, kept>>
          ELSE Stop("swapped")
    /\ cut' = IF flow = "merge" /\ Doing("roster") THEN cut \cup {at} ELSE cut
    /\ UNCHANGED <<roster, era, minted, torn>>

-----------------------------------------------------------------------------
(* Leaving. *)

\* account:signOut; refused without an account row or a password door.
BeginSignOut ==
    /\ Begin("signOut", None)
    /\ at # Plain
    /\ store[at].acct # None
    /\ door[at].pass # None

BeginForget == at \in roster /\ Begin("forget", None)
BeginReset == Begin("reset", None)

\* lockThisDevice: the db-key first, then the recovery key.
LockStep ==
    /\ Doing("lock")
    /\ chain' = [chain EXCEPT !.db = None]
    /\ Advance
    /\ UNCHANGED <<disk, era, minted, history>>

LockPhraseStep ==
    /\ Doing("lockPhrase")
    /\ chain' = [chain EXCEPT !.rec = None]
    /\ Advance
    /\ UNCHANGED <<disk, era, minted, history>>

\* forgetAccountOnThisDevice: the roster entry first, then the directory.
UnlistStep ==
    /\ Doing("unlist")
    /\ roster' = roster \ {at}
    /\ torn' = FALSE
    /\ cut' = cut \ {at}
    /\ Advance
    /\ UNCHANGED <<store, door, keys>>

EraseStep ==
    /\ Doing("erase")
    /\ store' = [store EXCEPT ![at] = None]
    /\ door' = [door EXCEPT ![at] = NoDoor]
    /\ Advance
    /\ UNCHANGED <<roster, keys, history>>

\* factoryResetFiles: the open store with its doors, the keystore, every other
\* store, and the roster last.
EraseOpenStep ==
    /\ Doing("eraseOpen")
    /\ store' = [store EXCEPT ![at] = None]
    /\ door' = IF at = Plain THEN door ELSE [door EXCEPT ![at] = NoDoor]
    /\ torn' = (at \in roster)
    /\ Advance
    /\ UNCHANGED <<roster, keys, cut>>

EraseKeysStep ==
    /\ Doing("eraseKeys")
    /\ era < MaxEra
    /\ era' = era + 1
    /\ chain' = NoKeys
    /\ Advance
    /\ UNCHANGED <<disk, minted, history>>

EraseAllStep ==
    /\ Doing("eraseAll")
    /\ store' = [s \in Slot |-> None]
    /\ door' = [a \in Account |-> NoDoor]
    /\ Advance
    /\ UNCHANGED <<roster, keys, history>>

UnlistAllStep ==
    /\ Doing("unlistAll")
    /\ roster' = {}
    /\ torn' = FALSE
    /\ cut' = {}
    /\ Advance
    /\ UNCHANGED <<store, door, keys>>

-----------------------------------------------------------------------------
(* The user, and what befalls the device. *)

\* A row is added to the open store, which a flow has not closed yet.
Write ==
    /\ pc = "open" \/ (pc = "flow" /\ (Doing("drop") \/ Coming("drop")))
    /\ \A s \in Slot : store[s] # None => store[s].rows < MaxRows
    /\ store' = [store EXCEPT ![at].rows = @ + 1]
    /\ UNCHANGED <<roster, door, keys, pc, app, job, history>>

\* startSyncing: bindRelayToAccount publishes the account and, once the relay
\* has it, records the relay.
Bind ==
    /\ pc = "open"
    /\ at \in roster
    /\ store[at].acct # None
    /\ ~store[at].relay
    /\ HasEnclave(at)
    /\ store[at].pass # None
    /\ store[at].phrase # None
    /\ chain.rec # None
    /\ store' = [store EXCEPT ![at].relay = TRUE]
    /\ UNCHANGED <<roster, door, keys, pc, app, job, history>>

\* The app is killed, or quits.
Crash ==
    /\ pc # "off"
    /\ Stop("off")
    /\ cut' = IF flow = "merge" /\ at \in roster THEN cut \cup {at} ELSE cut
    /\ UNCHANGED <<disk, keys, torn>>

\* The keystore is lost while the app is not running: another machine, a wiped
\* file, a keyring that will not decrypt it.
KeychainLost ==
    /\ pc = "off"
    /\ era < MaxEra
    /\ era' = era + 1
    /\ chain' = NoKeys
    /\ UNCHANGED <<disk, minted, pc, app, job, history>>

-----------------------------------------------------------------------------

Launch ==
    \/ LaunchPlain \/ LaunchAccount \/ UnlockByPassword \/ UnlockByPhrase
    \/ OpenWithKey \/ Reseal \/ FlagRepair \/ ResumeRepair \/ Adopt \/ Rewind
    \/ ClearRepair \/ EnsureSession

Settling ==
    \/ \E a \in Fresh : BeginCreate(a)
    \/ \E a \in Synced : BeginJoin(a) \/ BeginRecover(a) \/ BeginMerge(a)
    \/ MasterStep \/ PhraseStep \/ AccountStep \/ EnclaveStep \/ PasswordStep
    \/ EscrowStep \/ DbKeyStep \/ DropStep \/ CopyStep \/ FillStep \/ ClearStep
    \/ DoorStep \/ RosterStep \/ RemoveStep

Leaving ==
    \/ BeginSignOut \/ BeginForget \/ BeginReset
    \/ LockStep \/ LockPhraseStep \/ UnlistStep \/ EraseStep
    \/ EraseOpenStep \/ EraseKeysStep \/ EraseAllStep \/ UnlistAllStep

Next ==
    \/ Launch \/ Settling \/ Leaving
    \/ FlowFails \/ Write \/ Bind \/ Crash \/ KeychainLost

Spec == Init /\ [][Next]_vars

-----------------------------------------------------------------------------
(* Properties. *)

\* Every variable stays in its domain, and a flow runs exactly while the app
\* is in one.
TypeOK ==
    /\ roster \subseteq Account
    /\ store \in [Slot -> Store \cup {None}]
    /\ door \in [Account -> Door]
    /\ chain \in Chain
    /\ era \in 0..MaxEra
    /\ minted \in 0..MaxKeys
    /\ pc \in Phase
    /\ at \in Slot
    /\ through \in [by : {"none", "password", "recovery"}, key : KeyOrNone]
    /\ session \in KeyOrNone
    /\ flow \in Flow \cup {"none"}
    /\ step \in IF flow = "none" THEN {0} ELSE 1..Len(Steps[flow])
    /\ pc = "flow" <=> flow # "none"
    /\ to \in Account \cup {None}
    /\ kept \in Chain
    /\ torn \in BOOLEAN
    /\ cut \subseteq Account

\* An account the roster names can be opened: its store is there, holds its
\* account and its password wrap, its password door gives up the key it is
\* encrypted under, and the keychain holds that key or none (adopt-store.ts,
\* merge-account.ts, forget-account-flow.ts: the orders of their writes).  A
\* factory reset is the exception: it lists its roster last.
AuthenticatedOpens ==
    ~torn => \A a \in roster :
                /\ store[a] # None
                /\ store[a].acct = a
                /\ store[a].pass # None
                /\ door[a].pass = store[a].lock
                /\ chain.db \in {None, store[a].lock}

\* No second master key for an account: what the password wraps, the phrase
\* wraps and the enclave wraps is one key, the relay's where there is one, and
\* an open session works with it (session.ts, boot.ts).
OneMasterKey ==
    ~torn => \A a \in roster :
                LET s == store[a] IN
                /\ s.phrase # None => s.phrase.mk = s.pass
                /\ s.enclave # None => s.enclave.mk = s.pass
                /\ a \in Synced => s.pass = a
                /\ pc = "open" /\ at = a => session \in {None, s.pass}

\* A phrase that opens the file opens the account in it: the phrase door, the
\* keychain and the recovery wrap of an open store agree (recovery-door.ts,
\* merge-account.ts), except where a merge was cut short between the relay
\* half and the roster, which packages/account-flows/README.md concedes of a
\* kill.
PhraseHolds ==
    pc = "open" /\ at \in roster \ cut /\ ~torn =>
        LET phrase == store[at].phrase IN
        /\ phrase # None
        /\ chain.rec \in {None, phrase.key}
        /\ door[at].phrase # None => door[at].phrase.key = phrase.key

\* A master key taken back from a door is followed by a rewind, whatever cuts
\* the launch short: the flag outlives it (boot.ts:54-78).
RewindOwed == \A s \in Slot : store[s] # None /\ store[s].owed => store[s].repair

\* Rows have one home, change it whole, and are given up only by a user who
\* leaves (packages/account-flows/README.md, Adopting a store and Merging).
Home == IF roster = {} THEN None ELSE CHOOSE a \in roster : TRUE
HomeSlot == IF roster = {} THEN Plain ELSE Home
AbstractHome == INSTANCE AccountHome WITH
    home <- Home,
    rows <- IF store[HomeSlot] = None THEN 0 ELSE store[HomeSlot].rows,
    leaving <- flow \in {"forget", "reset"}
HomeKept == AbstractHome!Spec
=============================================================================
