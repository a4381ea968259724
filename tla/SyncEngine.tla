----------------------------- MODULE SyncEngine -----------------------------
(***************************************************************************)
(* The sync engine of a few devices over one blind relay                   *)
(* (packages/sync/src/engine.ts), with the row writes that run beside it   *)
(* (packages/data/src/entity-repo.ts, syncable.ts).                        *)
(*                                                                         *)
(* A run of the engine is a sequence of awaited steps: list the changed    *)
(* rows of one table after another, push them in one request, persist the  *)
(* push mark, pull everything after the cursor, merge it record by record, *)
(* persist the cursor.  Any await may be the last one of the run: the app  *)
(* is killed, or the request throws.  On a device whose SQLite driver      *)
(* answers asynchronously (expo-sqlite) the user's writes land between any *)
(* two of those steps; on one whose driver is synchronous                  *)
(* (better-sqlite3) only a network request lets them in.                   *)
(***************************************************************************)
EXTENDS Lww, Sequences, FiniteSets

CONSTANTS
    Device,         \* the account's devices
    Table,          \* the sync allowlist, as positions in its order
    Key,            \* row ids
    TableOf,        \* [Key -> Table]
    Minted,         \* keys of a deterministic-id table: any device mints them
    Async,          \* devices whose database driver is asynchronous
    Skew,           \* [Device -> Nat]: how far Date.now() runs ahead
    Dated,          \* devices first running a build without every table
    MaxNow, MaxBody, MaxEdits, MaxFaults   \* bounds of the model

ASSUME SyncAssumption ==
    /\ Table \subseteq Nat
    /\ TableOf \in [Key -> Table]
    /\ Minted \subseteq Key
    /\ Async \subseteq Device
    /\ Dated \subseteq Device
    /\ Skew \in [Device -> Nat]
    /\ {MaxNow, MaxBody, MaxEdits, MaxFaults} \subseteq Nat

VARIABLES
    now,        \* true time, in milliseconds
    store,      \* [Device -> [Key -> Row or None]]
    known,      \* [Device -> SUBSET Table]: the repos of the build it runs
    hwm,        \* push_hwm of sync_state, persisted
    cursor,     \* pull_cursor of sync_state, persisted
    log,        \* the relay's append log: one set of records per push
    pc,         \* where a device's engine run is
    scanned,    \* the tables listChangedSince has answered for in this run
    outbox,     \* the records this push collected
    high,       \* the running maximum that becomes the mark
    inbox,      \* the pulled records not merged yet
    next,       \* the cursor that came with them
    verdict,    \* the pulled record that won its merge and is to be written
    draft,      \* an update between its read and its write
    edits, faults,   \* how many writes and failures the bounds have left
    astray,     \* history: keys this device once wrote out of order
    missed      \* history: keys this device passed a record over for

persisted == <<store, known, hwm, cursor>>
volatile == <<pc, scanned, outbox, high, inbox, next, verdict>>
vars == <<now, persisted, log, volatile, draft, edits, faults, astray, missed>>

Writing(d) == pc[d] \in {"insert", "update"}

Record == [key : Key, row : Row]
ASSUME NoRecordAssumption == None \notin Record
Phase == {"idle", "scan", "push", "mark", "pull", "merge", "insert", "update"}

Init ==
    /\ now = 1
    /\ store = [d \in Device |-> [k \in Key |-> None]]
    /\ known \in [Device -> SUBSET Table]
    /\ \A d \in Device :
          IF d \in Dated THEN known[d] \notin {{}, Table} ELSE known[d] = Table
    /\ hwm = [d \in Device |-> 0]
    /\ cursor = [d \in Device |-> 0]
    /\ log = <<>>
    /\ pc = [d \in Device |-> "idle"]
    /\ scanned = [d \in Device |-> {}]
    /\ outbox = [d \in Device |-> {}]
    /\ high = [d \in Device |-> 0]
    /\ inbox = [d \in Device |-> {}]
    /\ next = [d \in Device |-> 0]
    /\ verdict = [d \in Device |-> None]
    /\ draft = [d \in Device |-> None]
    /\ edits = MaxEdits
    /\ faults = MaxFaults
    /\ astray = [d \in Device |-> {}]
    /\ missed = [d \in Device |-> {}]

-----------------------------------------------------------------------------
(* The user's writes.                                                      *)

\* Date.now() on d.
Clock(d) == now + Skew[d]

\* Whether a write of the user's can land now: between any two awaits of an
\* asynchronous driver, otherwise only while the run waits for the relay.
Interruptible(d) == d \in Async \/ pc[d] \in {"idle", "push", "pull"}

\* A write of row over what d holds for k is in order when its stamp outranks
\* the version it replaces, and lies where the running push, or the next one,
\* looks for it.
InOrder(d, k, row) ==
    /\ store[d][k] # None => Beats(row, store[d][k])
    /\ row.at > hwm[d]
    /\ pc[d] \in {"push", "mark"} => row.at > high[d]
    /\ pc[d] = "scan" => TableOf[k] \notin scanned[d]

\* The write itself, with the history of the ones that came out of order.
Put(d, k, row) ==
    /\ edits > 0
    /\ edits' = edits - 1
    /\ store' = [store EXCEPT ![d][k] = row]
    /\ astray' = IF InOrder(d, k, row) THEN astray
                 ELSE [astray EXCEPT ![d] = @ \cup {k}]
    /\ UNCHANGED <<now, known, hwm, cursor, log, volatile, faults, missed>>

Live(d, k) == store[d][k] # None /\ ~store[d][k].gone

\* An insert and a soft delete are one statement each, stamped as it is issued.

\* insert: a uuid is nobody else's; a deterministic id is minted, untouched, on
\* any device that lacks it.
Insert(d, k) ==
    /\ Interruptible(d)
    /\ TableOf[k] \in known[d]
    /\ store[d][k] = None
    /\ k \notin Minted => \A e \in Device : store[e][k] = None
    /\ \E b \in 0..MaxBody :
          Put(d, k, [at |-> Clock(d), touched |-> k \notin Minted,
                     gone |-> FALSE, body |-> b])
    /\ UNCHANGED draft

\* The row update writes: the patch, stamped with Date.now() whatever the
\* stamp it replaces.
Patched(d, b) == [at |-> Clock(d), touched |-> TRUE, gone |-> FALSE, body |-> b]

\* update on a synchronous driver: read, stamp and write in one turn.
Update(d, k) ==
    /\ d \notin Async
    /\ Interruptible(d)
    /\ Live(d, k)
    /\ \E b \in 0..MaxBody : Put(d, k, Patched(d, b))
    /\ UNCHANGED draft

\* update on an asynchronous driver: the read and the stamp ...
BeginUpdate(d, k) ==
    /\ d \in Async
    /\ edits > 0
    /\ draft[d] = None
    /\ Live(d, k)
    /\ \E b \in 0..MaxBody :
          draft' = [draft EXCEPT ![d] = [key |-> k, row |-> Patched(d, b)]]
    /\ UNCHANGED <<now, persisted, log, volatile, edits, faults, astray, missed>>

\* ... and the write, WHERE id = ? AND deleted_at IS NULL.
CommitUpdate(d) ==
    /\ draft[d] # None
    /\ LET k == draft[d].key IN
          IF Live(d, k) THEN Put(d, k, draft[d].row)
          ELSE UNCHANGED <<now, persisted, log, volatile, edits, faults,
                           astray, missed>>
    /\ draft' = [draft EXCEPT ![d] = None]

\* softDelete: updated_at = MAX(now, updated_at + 1) in one statement.
SoftDelete(d, k) ==
    /\ Interruptible(d)
    /\ Live(d, k)
    /\ LET old == store[d][k]
           at == IF Clock(d) > old.at + 1 THEN Clock(d) ELSE old.at + 1
       IN Put(d, k, [old EXCEPT !.at = at, !.touched = TRUE, !.gone = TRUE])
    /\ UNCHANGED draft

-----------------------------------------------------------------------------
(* A run of the engine: sync() = push, mark, pull, cursor.                 *)

StartSync(d) ==
    /\ pc[d] = "idle"
    /\ pc' = [pc EXCEPT ![d] = "scan"]
    /\ high' = [high EXCEPT ![d] = hwm[d]]
    /\ UNCHANGED <<now, persisted, log, scanned, outbox, inbox, next, verdict,
                   draft, edits, faults, astray, missed>>

\* A mutant of Changed: the list leaves minted rows nobody touched out.
ChangedTouched(d, t) ==
    {[key |-> k, row |-> store[d][k]] :
        k \in {j \in Key : /\ TableOf[j] = t
                           /\ store[d][j] # None
                           /\ store[d][j].at > hwm[d]
                           /\ store[d][j].touched}}

\* listChangedSince(mark) for table t: every row, tombstones too, stamped
\* strictly after the mark.
Changed(d, t) ==
    {[key |-> k, row |-> store[d][k]] :
        k \in {j \in Key : /\ TableOf[j] = t
                           /\ store[d][j] # None
                           /\ store[d][j].at > hwm[d]}}

\* One repo's answer joins the outbox; after the last repo a request goes out
\* only if there is something in it.
ScanTable(d) ==
    /\ pc[d] = "scan"
    /\ \E t \in known[d] \ scanned[d] :
          /\ \A u \in known[d] \ scanned[d] : t <= u
          /\ scanned' = [scanned EXCEPT ![d] = @ \cup {t}]
          /\ outbox' = [outbox EXCEPT ![d] = @ \cup Changed(d, t)]
          /\ pc' = [pc EXCEPT ![d] =
                       IF scanned'[d] # known[d] THEN "scan"
                       ELSE IF outbox'[d] = {} THEN "mark" ELSE "push"]
          /\ \E h \in {high[d]} \cup {r.row.at : r \in Changed(d, t)} :
                /\ h >= high[d] /\ \A r \in Changed(d, t) : h >= r.row.at
                /\ high' = [high EXCEPT ![d] = h]
    /\ UNCHANGED <<now, persisted, log, inbox, next, verdict, draft, edits,
                   faults, astray, missed>>

\* transport.push, answered: the relay appended the batch.
Push(d) ==
    /\ pc[d] = "push"
    /\ log' = Append(log, outbox[d])
    /\ pc' = [pc EXCEPT ![d] = "mark"]
    /\ UNCHANGED <<now, persisted, scanned, outbox, high, inbox, next, verdict,
                   draft, edits, faults, astray, missed>>

\* A mutant of SaveMark: a run that had nothing to push ends there.
SaveMarkAndStop(d) ==
    /\ pc[d] = "mark"
    /\ hwm' = [hwm EXCEPT ![d] = high[d]]
    /\ pc' = [pc EXCEPT ![d] = IF outbox[d] = {} THEN "idle" ELSE "pull"]
    /\ scanned' = [scanned EXCEPT ![d] = {}]
    /\ outbox' = [outbox EXCEPT ![d] = {}]
    /\ high' = [high EXCEPT ![d] = 0]
    /\ UNCHANGED <<now, store, known, cursor, log, inbox, next, verdict, draft,
                   edits, faults, astray, missed>>

\* setPushHwm(await push(...)).
SaveMark(d) ==
    /\ pc[d] = "mark"
    /\ hwm' = [hwm EXCEPT ![d] = high[d]]
    /\ pc' = [pc EXCEPT ![d] = "pull"]
    /\ scanned' = [scanned EXCEPT ![d] = {}]
    /\ outbox' = [outbox EXCEPT ![d] = {}]
    /\ high' = [high EXCEPT ![d] = 0]
    /\ UNCHANGED <<now, store, known, cursor, log, inbox, next, verdict, draft,
                   edits, faults, astray, missed>>

\* transport.pull(cursor): everything after it, and where that ends.
Pull(d) ==
    /\ pc[d] = "pull"
    /\ inbox' = [inbox EXCEPT ![d] =
                    UNION {log[i] : i \in cursor[d] + 1 .. Len(log)}]
    /\ next' = [next EXCEPT ![d] = Len(log)]
    /\ pc' = [pc EXCEPT ![d] = "merge"]
    /\ UNCHANGED <<now, persisted, log, scanned, outbox, high, verdict, draft,
                   edits, faults, astray, missed>>

\* A record for a table this build does not know is passed over.
SkipRecord(d) ==
    /\ pc[d] = "merge"
    /\ \E r \in inbox[d] :
          /\ TableOf[r.key] \notin known[d]
          /\ inbox' = [inbox EXCEPT ![d] = @ \ {r}]
          /\ missed' = [missed EXCEPT ![d] = @ \cup {r.key}]
    /\ UNCHANGED <<now, persisted, log, pc, scanned, outbox, high, next,
                   verdict, draft, edits, faults, astray>>

\* A mutant of LocalWins: what is pulled always replaces what is held.
LocalNeverWins(d, r) == FALSE

\* upsertFromRemote reads the local row, if there is one, and merges.
LocalWins(d, r) ==
    /\ store[d][r.key] # None
    /\ resolveMerge(store[d][r.key], r.row) = store[d][r.key]

\* The local version stays ...
KeepLocal(d) ==
    /\ pc[d] = "merge"
    /\ \E r \in inbox[d] :
          /\ TableOf[r.key] \in known[d]
          /\ LocalWins(d, r)
          /\ inbox' = [inbox EXCEPT ![d] = @ \ {r}]
    /\ UNCHANGED <<now, persisted, log, pc, scanned, outbox, high, next,
                   verdict, draft, edits, faults, astray, missed>>

\* ... or the remote one is to be written, by an INSERT or an UPDATE as the read
\* went ...
TakeRemote(d) ==
    /\ pc[d] = "merge"
    /\ \E r \in inbox[d] :
          /\ TableOf[r.key] \in known[d]
          /\ ~LocalWins(d, r)
          /\ inbox' = [inbox EXCEPT ![d] = @ \ {r}]
          /\ verdict' = [verdict EXCEPT ![d] = r]
          /\ pc' = [pc EXCEPT ![d] =
                       IF store[d][r.key] = None THEN "insert" ELSE "update"]
    /\ UNCHANGED <<now, persisted, log, scanned, outbox, high, next, draft,
                   edits, faults, astray, missed>>

\* ... verbatim: the UPDATE whatever the row holds by now; the INSERT unless a
\* row has come up meanwhile, which fails it, and the record is passed over.
WriteRemote(d) ==
    /\ Writing(d)
    /\ LET k == verdict[d].key IN
          \/ /\ pc[d] = "update" \/ store[d][k] = None
             /\ store' = [store EXCEPT ![d][k] = verdict[d].row]
             /\ UNCHANGED missed
          \/ /\ pc[d] = "insert" /\ store[d][k] # None
             /\ missed' = [missed EXCEPT ![d] = @ \cup {k}]
             /\ UNCHANGED store
    /\ verdict' = [verdict EXCEPT ![d] = None]
    /\ pc' = [pc EXCEPT ![d] = "merge"]
    /\ UNCHANGED <<now, known, hwm, cursor, log, scanned, outbox, high, inbox,
                   next, draft, edits, faults, astray>>

\* A mutant of SaveCursor: the cursor is persisted before the merge is done.
SaveCursorEarly(d) ==
    /\ pc[d] = "merge"
    /\ cursor' = [cursor EXCEPT ![d] = next[d]]
    /\ pc' = [pc EXCEPT ![d] = IF inbox[d] = {} THEN "idle" ELSE "merge"]
    /\ UNCHANGED <<now, store, known, hwm, log, scanned, outbox, high, inbox,
                   next, verdict, draft, edits, faults, astray, missed>>

\* setPullCursor(cursor), and the run is over.
SaveCursor(d) ==
    /\ pc[d] = "merge"
    /\ inbox[d] = {}
    /\ cursor' = [cursor EXCEPT ![d] = next[d]]
    /\ next' = [next EXCEPT ![d] = 0]
    /\ pc' = [pc EXCEPT ![d] = "idle"]
    /\ UNCHANGED <<now, store, known, hwm, log, scanned, outbox, high, inbox,
                   verdict, draft, edits, faults, astray, missed>>

-----------------------------------------------------------------------------
(* Failures and time.                                                      *)

\* The run ends where it is: the app is killed or the request throws.  A push
\* that fails may have reached the relay, whole or cut short; what the run held
\* in memory is gone.
Abort(d) ==
    /\ pc[d] # "idle" \/ draft[d] # None
    /\ faults > 0
    /\ faults' = faults - 1
    /\ \/ log' = log
       \/ /\ pc[d] = "push"
          /\ \E part \in (SUBSET outbox[d]) \ {{}} : log' = Append(log, part)
    /\ pc' = [pc EXCEPT ![d] = "idle"]
    /\ scanned' = [scanned EXCEPT ![d] = {}]
    /\ outbox' = [outbox EXCEPT ![d] = {}]
    /\ high' = [high EXCEPT ![d] = 0]
    /\ inbox' = [inbox EXCEPT ![d] = {}]
    /\ next' = [next EXCEPT ![d] = 0]
    /\ verdict' = [verdict EXCEPT ![d] = None]
    /\ draft' \in {draft, [draft EXCEPT ![d] = None]}
    /\ UNCHANGED <<now, persisted, edits, astray, missed>>

\* The device restarts on a newer build, which knows every table.
Upgrade(d) ==
    /\ pc[d] = "idle"
    /\ known[d] # Table
    /\ known' = [known EXCEPT ![d] = Table]
    /\ draft' = [draft EXCEPT ![d] = None]
    /\ UNCHANGED <<now, store, hwm, cursor, log, volatile, edits, faults,
                   astray, missed>>

Tick ==
    /\ now < MaxNow
    /\ now' = now + 1
    /\ UNCHANGED <<persisted, log, volatile, draft, edits, faults, astray, missed>>

Sync(d) ==
    \/ StartSync(d) \/ ScanTable(d) \/ Push(d) \/ SaveMark(d)
    \/ Pull(d) \/ SkipRecord(d) \/ KeepLocal(d) \/ TakeRemote(d)
    \/ WriteRemote(d) \/ SaveCursor(d)

Next ==
    \/ Tick
    \/ \E d \in Device :
          \/ \E k \in Key : Insert(d, k) \/ Update(d, k) \/ BeginUpdate(d, k)
                               \/ SoftDelete(d, k)
          \/ CommitUpdate(d)
          \/ Sync(d)
          \/ Abort(d)
          \/ Upgrade(d)

Spec == Init /\ [][Next]_vars

\* The scheduler's interval starts a run again and again, and a started run
\* ends; writes, failures and upgrades need never happen.
FairSpec == Spec /\ \A d \in Device : WF_vars(Sync(d))

-----------------------------------------------------------------------------
(* What the engine promises.                                               *)

TypeOK ==
    /\ now \in Nat
    /\ store \in [Device -> [Key -> Row \cup {None}]]
    /\ known \in [Device -> SUBSET Table]
    /\ hwm \in [Device -> Nat]
    /\ cursor \in [Device -> Nat]
    /\ log \in Seq(SUBSET Record)
    /\ pc \in [Device -> Phase]
    /\ scanned \in [Device -> SUBSET Table]
    /\ outbox \in [Device -> SUBSET Record]
    /\ high \in [Device -> Nat]
    /\ inbox \in [Device -> SUBSET Record]
    /\ next \in [Device -> Nat]
    /\ verdict \in [Device -> Record \cup {None}]
    /\ \A d \in Device : Writing(d) => verdict[d] \in Record
    /\ draft \in [Device -> Record \cup {None}]
    /\ edits \in Nat
    /\ faults \in Nat
    /\ astray \in [Device -> SUBSET Key]
    /\ missed \in [Device -> SUBSET Key]

\* The relay holds this very version of the row.
OnRelay(k, row) == \E i \in DOMAIN log : [key |-> k, row |-> row] \in log[i]

\* No write is left behind by the push mark: a row the next push will not list
\* is on the relay already, whatever runs were killed between the request and
\* the mark and whatever peers' rows moved the mark; the one exception is a row
\* written out of order on this device.  (engine.ts push: one mark for all
\* tables, persisted only after the request is answered.)
Ahead(d) ==
    \A k \in Key : store[d][k] # None /\ k \notin astray[d] =>
        store[d][k].at > hwm[d] \/ OnRelay(k, store[d][k])

PushedOrAhead == \A d \in Device : Ahead(d)

\* No record is left behind by the pull cursor: for each one the cursor has
\* passed, the device holds a version at least as good, unless its build could
\* not read the record or it wrote that row out of order.  (engine.ts pull: the
\* cursor is persisted only after every record is merged.)
Excused(d, r) == r.key \in astray[d] \cup missed[d]

Covered(d) ==
    \A i \in 1..cursor[d] : \A r \in log[i] :
        Excused(d, r) \/ AtLeast(store[d][r.key], r.row)

CursorCovered == \A d \in Device : Covered(d)

\* d has nothing to push, nothing to pull and nothing under way.
Quiet(d) ==
    /\ pc[d] = "idle"
    /\ draft[d] = None
    /\ cursor[d] = Len(log)
    /\ \A k \in Key : store[d][k] # None => store[d][k].at <= hwm[d]

\* d and e hold the same version of every row, the out-of-order and the unread
\* ones aside.
Agree(d, e) ==
    \A k \in Key : \/ k \in astray[d] \cup missed[d] \cup astray[e] \cup missed[e]
                   \/ store[d][k] = store[e][k]

\* Devices that have nothing left to exchange agree, in whatever order they
\* pushed and pulled.  (sync README: the merge is a max, so every device folds
\* the same records to the same row.)
QuietAgree == \A d, e \in Device : Quiet(d) /\ Quiet(e) => Agree(d, e)

\* A step of anything but the user's own write leaves a row as good as it was.
NoRegress(d) ==
    edits' = edits =>
        \A k \in Key : store[d][k] # None => AtLeast(store'[d][k], store[d][k])

\* On a synchronous driver, merging a peer's records never replaces a row by a
\* version it outranks.  (syncable.ts upsertFromRemote.)
SyncDriverNeverRegresses == [][\A d \in Device \ Async : NoRegress(d)]_vars

\* Once the user stops writing, repeated runs bring the devices to agree.
EventuallyAgree == <>[](\A d, e \in Device : Agree(d, e))

-----------------------------------------------------------------------------
(* The inductive invariant behind those properties (SyncEngineProofs).      *)

\* A device holds rows of the tables it knows only; the run's working state is
\* empty outside its phase; a synchronous driver never leaves a draft.
Shape(d) ==
    /\ \A k \in Key : store[d][k] # None => TableOf[k] \in known[d]
    /\ pc[d] \notin {"scan", "push", "mark"} => scanned[d] = {} /\ outbox[d] = {}
    /\ scanned[d] \subseteq known[d]
    /\ pc[d] \in {"scan", "push", "mark"} => high[d] >= hwm[d]
    /\ draft[d] # None => d \in Async
    /\ cursor[d] <= Len(log)
    /\ pc[d] = "merge" \/ Writing(d) => cursor[d] <= next[d] /\ next[d] <= Len(log)
    /\ pc[d] = "merge" \/ Writing(d) => \A r \in inbox[d] : OnRelay(r.key, r.row)

\* What the running push has collected reaches as far as the mark it will set.
Sent(d, k) == [key |-> k, row |-> store[d][k]] \in outbox[d]

Collected(d) ==
    \A k \in Key : store[d][k] # None /\ k \notin astray[d] =>
        /\ pc[d] = "scan" /\ TableOf[k] \in scanned[d] =>
              store[d][k].at <= hwm[d] \/ Sent(d, k)
        /\ pc[d] = "push" =>
              store[d][k].at > high[d] \/ OnRelay(k, store[d][k]) \/ Sent(d, k)
        /\ pc[d] = "mark" =>
              store[d][k].at > high[d] \/ OnRelay(k, store[d][k])

\* What was pulled is waiting, about to be written, or held.
Pulled(d) ==
    pc[d] = "merge" \/ Writing(d) =>
        \A i \in cursor[d] + 1 .. next[d] : \A r \in log[i] :
            \/ Excused(d, r)
            \/ r \in inbox[d]
            \/ AtLeast(store[d][r.key], r.row)
            \/ Writing(d) /\ r = verdict[d]

\* The record about to be written came from the relay and outranks every other
\* one for its row that d has dealt with; a synchronous driver's row is still
\* the one it was compared with.
Decided(d) ==
    Writing(d) =>
        /\ TableOf[verdict[d].key] \in known[d]
        /\ OnRelay(verdict[d].key, verdict[d].row)
        /\ \A i \in 1..next[d] : \A r \in log[i] :
              r.key = verdict[d].key =>
                  \/ Excused(d, r)
                  \/ i > cursor[d] /\ r \in inbox[d]
                  \/ AtLeast(verdict[d].row, r.row)
        /\ d \notin Async =>
              IF pc[d] = "insert" THEN store[d][verdict[d].key] = None
              ELSE Beats(verdict[d].row, store[d][verdict[d].key])

DeviceInv(d) ==
    /\ Shape(d)
    /\ Ahead(d)
    /\ Collected(d)
    /\ Covered(d)
    /\ Pulled(d)
    /\ Decided(d)

IInv == TypeOK /\ \A d \in Device : DeviceInv(d)
=============================================================================
