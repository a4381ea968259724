# Leapsake in TLA+

Models, model-checking runs and machine-checked proofs for Leapsake, an offline-first personal
CRM: a TypeScript monorepo whose packages are layered schema → data → core → clients, with a desktop
client (better-sqlite3), a mobile client (expo-sqlite) and a blind relay server that devices sync
through. Paths below are relative to `src/`.

## The system

| Component | State it keeps | Operations | Interacts with |
| --- | --- | --- | --- |
| Row merge (`packages/schema/src/merge.ts`) | none | `resolveMerge` | sync engine |
| Sync engine (`packages/sync/src/engine.ts`, `transport.ts`, `packages/data/src/syncable.ts`, `entity-repo.ts`, `sync-state-repo.ts`) | rows; push mark and pull cursor in `sync_state`; the relay's append log | push, pull, list changed rows, upsert from remote; insert, update, soft delete | the user's writes share its tables; the relay is called |
| Sync scheduler (`packages/sync/src/scheduler.ts`, `packages/account-flows/src/account-sync.ts`) | run in flight, kick timer, interval, preference | trigger, autoTrigger, kick, setAutoEnabled, start, stop | wraps every core write; its runs are the engine's |
| Recovery escrow (`packages/sync/src/account.ts`, `packages/key-custody/src/rotate-recovery.ts`, `recovery-door.ts`, `lock.ts`) | recovery door sidecar, key-wrap row, keychain copy, pending flag; the relay's escrow | rotate, flush, converge, reseal, sign out | flush is the first step of a sync run; converge runs at each launch |
| Key custody (`packages/key-custody/src/session.ts`, `boot.ts`, `bind-relay.ts`, …) | keychain (enclave, device id, db-key, recovery key), key-wraps, repair flag | create, enable, unlock, adopt, join, recover, re-authenticate, boot | store lifecycle, relay |
| Store lifecycle (`packages/account-flows/src`, `packages/store-layout/src`, `apps/desktop/src/main/db`, `apps/mobile/lib`) | roster, store files, sidecars, keychain | create account, join, recover, merge, forget, factory reset, open | key custody, relay, scheduler (a swap closes the store) |
| Relay client and server (`packages/sync/src/http-transport.ts`, `packages/key-custody/src/bind-relay.ts`, `apps/server/src`) | accounts, sessions, records, attempt counters | register, prelogin, log in, push, pull, reset credentials | everything that syncs |
| Reminders engine (`packages/reminders/src`, `packages/schema/src/milestone.ts`, `reminder-rule.ts`, `reminder.ts`) | milestones, rules, reminder rows keyed by occasion, year and action | reconcile (mint, refresh, prune), complete, reopen, snooze, dismiss, answer the question, edit a schedule | every write to a milestone regenerates; the rows sync |
| Entity services (`packages/data/src/entity-service.ts`, `relationship-service.ts`, `kinship-service.ts`, `dismissals-repo.ts`, …) | people, pets, relationships, milestones, dismissals | relate, edit, publish, draft, delete with cascade and hand-over, merge; kinship worked out on read | reminders hang from milestones; the rows sync |
| Notifications (`packages/notifications/src`, `apps/mobile/lib/core-context.tsx`, `notification-scheduler.ts`) | the operating system's pending notifications | plan, reconcile | run on every write and every foreground |
| Contact import (`packages/vcard/src/ingest.ts`, `packages/contact-import/src/api.ts`, `packages/data/src/attach-pool.ts`, `packages/schema/src/attach.ts`, `apps/mobile/lib/device-contacts-sync.ts`) | the pool of known people, the edges held back, `device_contact_links` | attach or create, write edges and dates, remember a contact | writes people, relationships, milestones |
| Drivers (`packages/data/src/driver.ts`) | one connection, a queue of transactions | transaction | every repo |
| Holidays, search, duplicates, tags, gifts, observances | synced rows, an index | CRUD and lookups | core API |
| Cryptography, formats, user interface | none of their own | seal, wrap, derive; vCard, export; views | the rest |

What is hard here, and hard to test: user writes between the awaits of a sync run; runs cut short by
a kill, a lost answer or a closed store; rows that arrive in any order, twice, or under a skewed
clock; three activities on one device that publish and adopt recovery keys with nothing to keep them
apart; a key held in a sidecar, a row, the keychain and the relay with no transaction over all four;
timers that fire while a run is in flight or after the scheduler stopped; store conversions that
must survive a kill between any two steps; sessions, limiter windows and password resets that
overlap; a reminder every device mints, refreshes and prunes for itself while its user ticks it off
elsewhere; deadlines that slide because an errand was chosen late; deletions, hand-overs and
merges that rewrite several tables whose rows sync one by one; relatives worked out from ties that
are edited from either end; two notification runs in flight at once over a limited number of slots;
an import that compares against people read before it began. `PROJECT.json` lists each at its line
under `hazards`.

What makes each component correct:

- *merge*: commutative and associative, so devices fold any order to the same row;
- *engine*: nothing written is left behind by the mark, nothing pulled is left behind by the cursor,
  a merge never makes a row older, quiet devices agree, and runs bring them to agree;
- *scheduler*: no kicked write is forgotten, opting out holds, the interval brings every write up;
- *escrow*: a rotation the user was shown is kept until the relay has it, the door opens under the
  key the device holds, a pending rotation is published;
- *custody and lifecycle*: the roster always names a store that opens with the keys and secrets
  there are; rows have one home and leave it only whole, or by the user's wish; an account keeps one
  master key and one phrase; a repair is followed by a rewind;
- *relay*: an old credential's sessions end, guesses are bounded, a password door's halves
  belong together, every syncing device takes on the new password;
- *reminders*: an occasion's list is what its rules and the user's answers make it, in order and in
  time; a decision made on one device stands on all, and no device prunes what is wanted;
- *people*: nothing hangs from somebody gone, a milestone stays on every timeline it was on, kin
  are mutual, a rejected relative stays away;
- *notifications*: what is pending is the plan; the undone is heard, the done is silent, and the end
  of the coverage is announced;
- *import*: what is remembered as imported is held by somebody, and each relation and date of a file
  is written once.

## Modules

| Module | Models | Runs | Theorems |
| --- | --- | --- | --- |
| `Lww` | rows and `resolveMerge` | through `SyncEngine` and `Reminders` | `SyncEngineProofs` |
| `SyncEngine` | devices, their rows and watermarks, the relay's log, the engine's run await by await, the user's writes, clocks | `sync_*` (`MCSyncEngine`) | `SyncEngineProofs` |
| `RecoveryEscrow` | the four copies of the recovery key, rotation, flush, catch-up, launches, sign-outs, kills | `escrow` (`MCRecoveryEscrow`) | `RecoveryEscrowProofs` |
| `SyncScheduler` | the scheduler, its timers, the calls that kick it, runs reduced to begin, list, end | `schedule` (`MCSyncScheduler`) | `SyncEngineProofs` |
| `AccountHome` | the promise: rows have one home | refined by `lifecycle` | `StoreLifecycleProofs` |
| `StoreLifecycle` | roster, stores, doors, keychain; the desktop's launch; create, join, recover, merge, sign out, forget, reset, write by write | `lifecycle` (`MCStoreLifecycle`) | `StoreLifecycleProofs` |
| `Relay` | one account on the relay, its devices' sessions, binding, re-authentication and sync runs, request by request | `relay` (`MCRelay`) | `SharedProofs` |
| `Schedule` | the registry of actions, the kinds' default schedules, the question, the deadlines of errands chosen late | through `Occasion` | `OccasionProofs` |
| `Occasion` | one occasion's years on one device: the reconcile against the user's answers, edits, ticks | `occasion` (`MCOccasion`) | `OccasionProofs` |
| `Reminders` | one reminder on several devices, each with its own day, over the relay; merges are `Lww`'s | `reminders` (`MCReminders`) | `RemindersProofs` |
| `People` | people, relationships and shared milestones on several devices | `people` (`MCPeople`) | `SharedProofs` |
| `Kinship` | the relatives worked out from the ties on record, and their dismissals | `kinship` (`MCKinship`) | `DeviceProofs` |
| `Notifications` | the planner, the reconcile call by call, overlapping runs, the system's list | `notifications` (`MCNotifications`) | `DeviceProofs` |
| `ContactImport` | importing a file or an address book, card by card and edge by edge | `contact_import` (`MCContactImport`) | `ContactImportProofs` |

Operators whose comment begins with "A mutant of" are the definition that follows them with a
plausible bug; nothing uses them but the check that each property can fail.

### SyncEngine

`store`, `hwm`, `cursor` and `known` are what a device persists: its rows, `push_hwm`, `pull_cursor`,
and the tables its build knows (`syncableRepos`). `pc` and the other volatile variables are the
locals of a running `sync()`. Each await of it is an action: `ScanTable` (one repo's
`listChangedSince`), `Push`, `SaveMark`, `Pull`, one of `SkipRecord`, `KeepLocal`, `TakeRemote`
(then `WriteRemote`) per pulled record, `SaveCursor`. `Abort` ends a run anywhere, a push included
that the relay took whole or in part. A device in `Async` has expo-sqlite's driver: user writes
(`Insert`, `SoftDelete`, and `update` as `BeginUpdate`/`CommitUpdate`) land between any two actions.
On the others they land only while the run waits for the network. A row is its stamp, whether anything
has been written to it since it was minted, its tombstone and a body; `resolveMerge` needs no more.
Ciphertext is not modelled: a record is opened, or its table is unknown to the build.
`astray` and `missed` are history: the keys a device wrote out of order, and those it passed over.

### RecoveryEscrow

A phrase is its key, a number. Per device: `door` (the sidecar), `wrap` (the key-wrap row), `chain`
(the keychain), `pending` (the flag in `sync_state`), and whether it is signed out or open. `pc` and
`hand` follow three concurrent activities: `rotate` (`rotateRecoveryPhraseForAccount`), `sync` (the
flush at the top of `runAccountSync`), `converge` (`convergeRecoveryKey`, started by each launch and
not awaited). `Rotate`…`Report` are the rotation's awaits, `Check`, `Read`, `Publish`, `Clear` the
flush's, `Recheck`, `Fetch`, `Compare` and the adoption's three writes the catch-up's. `Fail` makes
any read, write or request of an activity throw, with its effect (`Took`) or without: a rotation catches what
its flush throws and goes on to report (`AfterThrow`), and whatever else throws ends the activity, which the
store outlives, the catch-up's because its caller swallows it. `Crash` kills the app, `SignOut` is
`lockThisDevice`, `Launch` and the two unlocks open the store again and reseal the door; a reseal that throws
makes the open fail and changes nothing, so it is no action. A sidecar torn in the middle of its write is left
out. `clashed` marks a device where a rotation overlapped another activity, `torn` one where an adoption threw,
until its next open or adoption: meanwhile the door may be ahead of the keychain.

### SyncScheduler

Writes are counted as they land; `Resolve` is when their call resolves and `withSyncKick` kicks.
`armed` is the kick timer, `beating` the interval, `run` the promise in flight. `Fire`, `Beat`,
`Focus`, `SyncNow` and `Enable` all trigger; a run in flight is joined. `Stop` is `stop()` and the
closed handle. `due`, `joined`, `dropped` are history: the writes there were at the last kick, at the
last kick that joined a run too late, and at the last kick a failure or refusal undid.

### StoreLifecycle

A slot's `store` is the file: the db-key it is encrypted under, its account row, the three wraps of
the master key, the repair flag and the rows. `door` is the two sidecars beside it, `chain` the
keychain's db-key and recovery key, `era` the number of keystores lost, which stands for the device id
and the enclave key. `LaunchPlain` … `EnsureSession` are `openActiveStore`, `openAppDatabase` and
`establishKeySession`, one action per awaited write. A flow is a list of steps (`Steps`; `AdoptSteps`
is `adoptStore`), `step` the place of the one it is at, one action per step; join and recover differ in the
order of their last writes. `FlowFails` is any step throwing: the original store stays open if it was
not closed yet, otherwise the launch opens what the roster names. `Undo` is what the code puts right
then. `Crash` ends the app anywhere, `KeychainLost` loses the keystore while it is off.

`AccountHome` knows only where the rows are (`home`, the account the roster names or none), how many,
and whether the user is leaving. `HomeKept` says that `StoreLifecycle` implements it: a flow
moves the rows in the one step that writes the roster, all of them, and nothing but forgetting and
resetting gives rows up.

History: `owed` (a repaired key whose rewind is to come), `torn` and `cut`. The code leaves two
windows open, and the properties excuse them by name. `torn`: a factory reset removes the roster
last, so one cut short leaves an account without its store, which the next launch replaces by an empty
one under a new key. `cut`: a merge killed after its relay half, or whose `roster.replace` fails (it is
outside the `try` that restores the keychain), leaves the other account's recovery key in the keychain,
and the local store's phrase door is sealed under it; packages/account-flows/README.md concedes the kill.

### Relay

One account, and the devices that bind, join, recover and re-authenticate to it. A credential (salt,
verifier and wrap) is the number of the reset that made it, so `verifier` is the one the relay checks and
`cred` the one a device's account row names. `Bind` is `bindRelayToAccount`, with its answer kept or
lost, tried again under the same username or another (`Registered` takes either); `Prelogin`, `Bootstrap`, `Adopt` and `Seal` are the awaits of a join or a re-authentication;
`Recover` is `/accounts/reset`. A run is one transport's `Login`, `Send` and `AppendBody`, for a push and
then a pull, with `authed`'s one retry after a 401. Time is what sessions and the limiter's window have
left; `Restart` forgets both, `Lose` an answer, `Kill` the app. The routes of the escrow are
`RecoveryEscrow`'s, the log's contents `SyncEngine`'s.

### Schedule and Occasion

A day is the number of days left to the occasion. `Schedule` is the pure part: the registry of actions with
their run-ups and latest days, the default schedules by kind and audience, what the annual question offers
and when it is due, and `Deadlines`, which slides an errand chosen late to what it can still be, never
ahead of what waits on it. `Occasion` holds the milestone with its stored rules (`occ`) and the
year's row of each action (`row`). `Desired` is `computeDesired` for it, `Reconciled` the mint, refresh
and prune; every edit ends in a reconcile unless the app dies first (`Settle`), and
`Regenerate` is the one at boot and on focus. The user answers the question, in person or not, edits or
redates, stops asking, records a death, ticks a preview early and dismisses. `declined` and `moved`
are history: what the user gave up, and what an edit took off the list. Holidays and observances, the
reach actions and the nudges are left out.

### Reminders

What `Occasion` leaves out: the same row minted, refreshed and pruned by several devices. The rule has one
due day, the row its stamp and what the user did to it; `behind` is a device's time zone. A run works out what is
wanted (`Compute`, over many reads and awaits in the code) and applies it in a transaction of its own later
(`Commit`); `plans` are what the runs in flight on a device want, and a save, an act, a pull, a midnight or another
run may come between. A plan stays after a `Commit` or goes, since several runs may want the same. `Sync` pushes what is above the mark and applies
a pull whole or in part, reminders and rules each in the order of `syncableRepos`. Rows merge by
`Lww`'s `Beats`, with `reminderHasHistory` as what has been touched; a pull leaves the strongest of the version
held and those taken (`IsMerged`), since the merge is the maximum of an order and which comes first is nothing
to it. `excuses` is history: a run pruned the row in the middle of a pull, on a day behind the others', or by a plan
made before the row was wanted, or the rule was edited once it was on.

### People

`store` maps each holder, the devices and the relay, to its rows of people, relationships and milestones,
tombstones included. Each operation is one transaction over one device's store: `AddOther` and `Relate`
(`relationship-service.ts`), `Unrelate`, `Delete` and `DiscardDrafts` (the cascade, with the shared
milestones handed to the other end first), `Merge`, `AddFact`, `Update` (which publishes), the drafts. `Sync`
joins a device's rows with the relay's, the later stamp winning. The code removes people one by one; `Removed`
is what that comes to for all of them at once. Pets follow the same rules.

The rest is history. `seen` is when each holder's last change of a person was made. `contested` are the people
two devices changed before seeing each other's change: a transaction there that is outrun (`Outrun`) or that
changes somebody already contested makes all it changes, and all whose changes are still on their way,
contested too, since its rows and theirs may be joined in any mixture. `revived` are the milestones written
where their removal elsewhere was not yet known; `survivors`, `heir` and `pruned` what merges did; `chained`
those named on the page of somebody unpublished.

### Kinship

A role is a neutral base and the gender it implies; `InverseBase` and `Composition` are the tables of
`relationship.ts`. A tie maps its two ends to their roles; the same tie recorded twice is one.
`Derived` is `neighborsFor`: the relatives one hop beyond a neighbour, less those dismissed, already
related, or given two roles. The operations are those of `People`, seen by what they do to ties,
genders, standings and dismissals, on one device; roles are edited from either page. `rejected` is history:
what the user said is not so, of whom it was then. Notes, and dismissals of a tie rather than a role, are
left out.

### Notifications

A day has a few moments; a digest is its time and the reminders it carries. `Digests` and `tripwireFor` are
the planner, `Calls` what `reconcile.ts` does about the difference, `Precedes` the order it does it in, and
`Call` makes one of them. Every mutating call starts a run as it resolves (`withSyncKick`), and a boot or a
foreground starts one more behind the chain of such calls it makes (drafts discarded, contacts brought in,
reminders regenerated), so `Foreground` owes up to four: with the regenerate's own and the chain's last it is two
together in the ordinary case. A run owed starts at a moment of its own (`Start`), reads the rows and the
system's list in either order and waits for no other. `Touch` is a mutating call that changes nothing planned;
`Fail` throws in a run, `Kill` ends the app, `Pull` changes a row without a run, `TimePasses` delivers. Runs that
overlap are a burst. `burst`, `planned`, `settled` and `crowded` are history: whether rows changed under the burst
or a run of it was cut short, the plans its runs made, the last run to end if all agreed, and whether the system
had no room since it began.

### ContactImport

A phone's `BeginSync` takes the contacts with no link, a desktop's `BeginFile` the cards of a file. The pool
is read then and told only of cards that commit. `LandNew` and `LandOn` are one card's transaction,
`LeaveOut` a nameless one, `CardFails` a rollback; when all have landed, `Write` and `WriteFails` are the
transactions of the edges and of the dates they bear; the body of an edge's notes its id, so a COMMIT that throws
takes the edge back and leaves the note. `Kill` ends the import anywhere. Between transactions a
phone's user deletes and merges people. `log` and `failed` are history: what this import wrote, and could
not write; `stale` are the contacts added to somebody gone since the pool was read. The pool is read in one
step, where the code makes several queries; cards of pets, which may not bear every kind of date
(`kindAllowsBearer`), are left out.

## Runs

| Run | Bounds | What it shows |
| --- | --- | --- |
| `sync_async` | 2 devices (one asynchronous, one ahead), 2 tables, one of deterministic ids, 2 writes, 1 failure; 686 thousand states | `PushedOrAhead`: a row behind the mark is on the relay; `CursorCovered`: a record behind the cursor is held or outgrown; both but for the keys written out of order or passed over |
| `sync_converge` | 2 synchronous devices, one upgrading from a build without a table, 2 bodies, 2 writes, 2 moments; 663 thousand | `QuietAgree`: devices with nothing to exchange hold the same rows; `SyncDriverNeverRegresses`; `EventuallyAgree` |
| `escrow` | 2 devices, 1 rotation, 2 faults, 1 sign-out; 646 thousand | `RotationKept`, `DoorFollowsKeychain`, `EscrowFlushed` |
| `schedule` | 3 writes, 2 failed runs | `NoKickLost`, `WritesReachRelay` |
| `lifecycle` | 1 account to create, 1 to join, recover or merge into; 3 keys, 1 row, 1 lost keystore; any number of failures and kills | `AuthenticatedOpens`: what the roster names opens; `OneMasterKey`; `PhraseHolds`; `RewindOwed`; `HomeKept` |
| `relay` | 2 devices, 2 usernames (one taken), 2 resets, 1 fault; sessions of 2 ticks, a window of 2 with 2 failures; 741 thousand | `SessionsAge`: an old credential's session ends one life after the reset; `GuessesBounded`: less than two windows' worth; `DoorPaired`; `EventuallyCurrent`: every syncing device takes on the last password |
| `occasion` | a birthday over 60, 14, 8, 0 and -2 days left and a second year, learned early, late or after; 4 actions touched, one lead set, 2 acts; 547,000 | `NothingLost`, `OrderKept`, `NotBornLate`, `AnsweredStays`, `InPersonStands` |
| `reminders` | 2 devices, 2 days, time zones a day apart, 1 plan in flight on each, 4 stamps, 2 of acts, saves and unfinished pulls; 619 thousand, up to symmetry | `OneActStands`: one decision stands everywhere; `QuietAgree`; `NotLost`: nothing wanted is lost, but by the runs it names |
| `people` | 2 devices, 4 people, 3 relationships, 1 milestone, 3 operations, from two graphs; 379 thousand, up to symmetry | `NothingDangles`: nothing hangs from somebody gone; `OneAnchor`: who is only a name is one on one page; `CopiesCoincide`: a milestone and its copy are never on one timeline; `FactsKept`: no milestone leaves a timeline |
| `kinship` | 4 people, 4 roles on offer, 3 operations, from strangers or three in a row; 127 thousand, up to symmetry | `MutualKin`, `DismissedStays` |
| `notifications` | 2 reminders, one a remembrance; 3 moments a day, a window of 2 days, a budget of 3; 2 runs at a time, 2 in all; 1 fault; 4 held by the system; 2.7 million, up to symmetry | `BurstRepairs`, `SilentWhenSteady`, `EveryDayHeard`, `SilenceForewarned` |
| `contact_import` | a phone's 4 contacts, or a file of 4 cards; 3 imports, 2 edits, 2 faults; 329 thousand | `RecordsKept`: what is remembered as imported is held by somebody; `GraphOnce`: each relation and date of a file is there once |

The bounds suffice for what can meet: two devices and one row make every conflict between two
versions, a second row and table the mark shared by tables, a second write a version that outranks
another, one failure a repeated batch. For the escrow one rotation on either of two devices meets
the other's catch-up; two faults cut an adoption short and lose an answer in one behaviour. Three
writes let one land before, during and after a run's listing. The safety invariants of `sync_async`,
`sync_converge`, `escrow`, `schedule`, `lifecycle`, `relay`, `occasion`, `reminders`, `people`, `kinship`,
`notifications` and `contact_import` do not rest on the bounds: they are proved. For the lifecycle one account of
each kind makes every flow follow every other; three keys are what one creation mints, and any flow
after a failed or forgotten one reuses what is left; one row tells a store that was copied from one
that was not; one lost keystore makes every enclave wrap stale once. `StoreLifecycle` reuses an id that
is nowhere on the device.

In `relay` two resets put a device two credentials behind; a window of two ticks has an edge between
two, and with a budget of two the failures on either side of the edge meet, three in a span as long as a window,
which is the most the bound allows. `occasion`'s days tell apart
the times before a birthday's errands come up, once they are up, too late for some, on the day, and after it;
with two days more (43 and 9) and a redating into the question's run-up the verdicts are the same (1.05 million
states); two acts make an answer meet an edit. `reminders` needs one
decision and one device a day behind; a plan in flight stands for every run that wants the same, and in one
behaviour it is made before, kept over, and applied after a pull, a save or an act; the three stamps given after the
first are a save, a mint or an act on one device, and a mint, a refresh or a prune on the other; with a fourth the
verdicts are the same (2.25 million states). Three operations on `people` relate, then change, then end, or let two
devices end what they share while a third change is on its way; four in `kinship` give the same verdicts
(1.32 million states).
`notifications` begins from a list an older plan left; its plan has a digest more than the budget, and the
system has room for one notification more than the plan, so that a change of every id overflows it.
Three of the contacts in `contact_import` may be one person by different evidence; the file has an edge with
an id, an edge by its pair of cards, a named relation, and a date two cards state.

In `notifications` the two runs in all are the two that a foreground starts together, or one owed by a call while
the other is in flight; with three runs, no fault, and a shorter window and horizon (5.9 million states) the
verdicts are the same.

The excuses in the properties are needed: where rows change under a burst, two runs make two plans and the older
may be the last to call, so `SilentWhenSteady` fails without `burst`; without `crowded`,
`BurstRepairs` does, as a run schedules before it cancels what it no longer wants; without `torn`,
`DoorFollowsKeychain` does; without `revived`,
`CopiesCoincide` does; without `stale` or `failed`, `RecordsKept` and `GraphOnce` do.

A run other than `relay` and `schedule` switches TLC's deadlock check off: with every bound spent and no
fault left a device may be idle for good.

**Fairness.** `SyncEngine!FairSpec` has weak fairness on each device's run: the scheduler's interval
starts runs again and again and each request settles; writes, failures and upgrades need never
happen. `RecoveryEscrow!FairSpec` has it on the sync run's flush only, never on launches, rotations
or the user. `SyncScheduler!SchedulerFairSpec` has it on the interval's beat and on a run's two awaits.
`Relay!FairSpec` has it on time, on answers to what was asked and on the interval's runs, and strong
fairness on one act of the user: the reconnect form, shown again and again, is in the end filled in with the
password. Failures are bounded in each, so a request made often enough is answered. Binding, joining,
recovering and every wrong password need never happen.

Every type invariant is proved.

## What is proved

For any devices, tables, keys, clocks and bounds, and under no assumption but the typing of the
constants:

- `SyncEngineProofs`: of the merge, `MergeCommutes` and `MergeAssociates`, from its being the maximum of a
  total order; of the engine, `TypeCorrect`, `NoWriteLeftBehind` (`PushedOrAhead`), `NoRecordLeftBehind`
  (`CursorCovered`), `QuietDevicesAgree` (`QuietAgree`), `SyncDriverMergesUp`
  (`SyncDriverNeverRegresses`). Neither watermark's invariant is inductive: a mark is right only
  because of what the running push collected before it. The inductive `IInv` says so phase by
  phase: what is in the outbox and inbox when (`Shape`), that `high` runs ahead of the mark
  (`Ahead`), that every row between mark and `high` in a scanned table is in the outbox (`Collected`),
  that the outbox is on the relay once pushed (`Covered`), that the inbox holds what is between
  cursor and `next` (`Pulled`), and what the pending verdict beats (`Decided`).
- `RecoveryEscrowProofs`: `EscrowTypeCorrect`, `RotationIsKept`, `DoorIsInStep`. The invariant: a
  minted key belongs to one rotation of one device and its phrase is unseen while that runs (`Keys`);
  which steps each activity goes through, with what in hand (`Course`); while a shown rotation is
  unpublished its key stays where the next flush reads it (`Keeps`); and an adoption under way, or one that
  threw, has the door ahead of the keychain (`Doors`). `DoorIsInStep` is of every open store but one where an
  adoption threw and none has gone through since (`torn`).
- Of the scheduler, at the end of `SyncEngineProofs`, for any number of writes and failed runs:
  `SchedulerTypeCorrect`, `KicksAreKept` (`NoKickLost`), `OptOutIsKept`
  (`OptOutHolds`), which rests on the kick timer being set only while automatic sync is on. No run checks
  the last.
- `SharedProofs`: `RelayTypeCorrect`, `SessionsExpire` (`SessionsAge`), `PushesApplyOnce` (`PushedOnce`, which
  no run checks), `DoorsArePaired` (`DoorPaired`) and `GuessesAreBounded` (`GuessesBounded`). `RelayInductive` ties a session's life to
  the age of the credential it was minted on, and follows a flow by what its salt was looked up for. `Metered`
  is the limiter's: what was let through since its window opened is within the budget, and so is what was let
  through before, as far back as a window's length, less the failure that opened that window; a window lets its first failure through with no
  budget at all, so one is the least a window is `Worth`.
- `DeviceProofs`, of kinship: `KinshipTypeCorrect`, `KinIsMutual` (`MutualKin`), `DismissalsStay`
  (`DismissedStays`). The invariant, `KInv`: the ends of a tie have inverse roles (`Paired`), who was merged
  is gone (`Heirs`), and every rejection is on record for whoever its two have become (`Recorded`). Mutual
  kinship then follows from the tables: the compositions that give kin by blood are closed under
  inversion, and a neighbour that leads from one end leads back from the other, since both
  ends are published and the neighbour is inert for neither.
- `DeviceProofs`, of notifications: `NotificationsTypeCorrect`, `BurstRepairsHolds`, `SilentWhenSteadyHolds`,
  `EveryDayHeardHolds`, `SilenceForewarnedHolds`, for any rows, delivery times, window, lead, budget and limit, any
  number of runs and faults. They assume that a delivery time is a moment of its day after the first, and that
  there are finitely many (`NotificationsAssumption`). First the plan: a digest's time tells its day and its
  delivery time (`FireAtInjective`), so that a plan names nothing twice, nothing past and nothing that is done or
  snoozed (`PlanSound`), and every digest no later than one it keeps (`SoonerIsPlanned`). `NotificationsInv` then
  follows the runs of a burst beside each other: the list the first of them read is what was held, less what has
  fired since, and the calls each has left are of the plan it made (`Reading`); of each notification of a plan they all made, some run has the call that schedules it
  still to come, or it has been seen to: it is pending, or was heard, or there was no room (`Agreed`, `Achieved`).
  A run cancels before it schedules anew, and what one cancels of the plan it has yet to schedule itself: that is
  why runs of one plan undo nothing of each other's for good. What still names somebody done is going to be
  cancelled by a run that has read so (`Quieting`), and what was achieved stays so while nothing but time passes
  (`AtRest`).
- `SharedProofs`, of people: `PeopleTypeCorrect`, `NothingDanglesHolds`, `OneAnchorHolds`, `CopiesCoincideHolds`
  and `FactsKeptHolds`, for any devices, people, relationships and milestones and any number of operations. They assume that the tables'
  ids are told apart, that there are three people and two relationships to begin with (`RowsAssumption`), and
  that `None` is no row (`NoRowAssumption`). What one transaction leaves whole need not be whole once its rows are
  joined with another's one by one, and that is what `PeopleInvariant` answers. Stamps do not run ahead of the
  clock and tell versions apart (`Stamped`, `SeenBound`). Of a person nobody disputes, whoever has seen the later
  change holds the later version of every row about them (`Ahead`): joining two stores leaves about each such
  person exactly what one of the two had (`SyncAbout`), so a sync keeps whatever is said of one person's rows.
  A row about both a disputed and an undisputed person is the same everywhere (`Apart`), which is why contagion
  in `contested` must be as wide as it is. A publication is not taken back (`Standings`), so who was
  an anchor in one store is one in the join. What holds of each person is then that nothing of theirs dangles
  (`Sounds`) and that a name has its one page (`Anchors`). For the copies: only a merge moves one
  (`Copies`), whoever has one knows the milestone to be removed (`Once`), and that removal is its last version
  (`Removal`), `revived` aside. Each operation has a lemma that it is a `Transaction`: what it does to
  rows is `Lawful`, and it keeps each person sound and anchored; that a transaction preserves the invariant is
  proved once.
  `FactsKept` speaks of a step, and a sync may bring a device in one step what others did in many. So
  `TimelineInvariant` says of any two devices what the property says of a device before and after: what is on
  somebody's timeline on one is on it on another that has seen as much of them, or on their heir's where they are
  removed (`Onward`). Removals are not taken back (`Departed`) and whoever has one has the same (`Settled`); who was
  merged is removed somewhere (`Heirs`), and whoever has seen as much of the heir has seen the merge
  (`Inherited`); a copy is its bearer's as long as they stay (`CopiesStay`). Each operation `Conveys` timelines:
  it leaves tombstones, and milestones of those who stay, as they are (`Steady`), and what leaves a timeline is on
  the heir's, or hangs from a relationship that the merge removed.

- `StoreLifecycleProofs`: `LifecycleTypeCorrect`, `ListedAccountOpens` (`AuthenticatedOpens`),
  `AccountHasOneMasterKey` (`OneMasterKey`), `OnePhrase` (`PhraseHolds`), `RepairRewinds` (`RewindOwed`), and
  `LifecycleKeepsHome`, that the lifecycle implements `AccountHome` (`HomeKept`): each action is a step of
  it or a stutter. They assume that accounts, numbers, records, `Plain` and `None` are told apart
  (`LifecycleAssumption`, `NoneAssumption`). None of the five is inductive: the roster names a store that
  opens only because the flow that listed it had put every wrap, door and key in place before. `IInv` says
  what is there when: which store is open in each phase of a launch, and that the keychain's key is its lock
  (`Located`); that a rewind owed keeps its flag, and the store is not asked for a door again until it is
  rewound (`Owing`); what a listed account's store and doors hold (`Listed`: `Sound` of the master key,
  `SamePhrase` of the phrase, which a merge keeps aside meanwhile); that a phrase unlock carries its phrase
  (`Carried`); how far a flow that settles an account has come, step by step, until the plaintext store is
  `Whole` and its copy is the same (`Settles`), the same for a merge (`Merges`), and where the leaving flows
  stand (`Leaves`). Each action has a lemma that it keeps `IInv` and takes a step of `AccountHome`.

- `RemindersProofs`: `RemindersTypeCorrect`, `OneActIsKept` (`OneActStands`), `QuietRemindersAgree`
  (`QuietAgree`), `ReminderIsNotLost` (`NotLost`), for any number of devices. They assume that there is a device,
  that a time zone is at most a day behind, that what is minted is already previewed
  (`RemindersAssumption`), and that `None` is no row (`NoReminderAssumption`). All three speak of quiet devices
  only, so `IInv` says what holds before: stamps tell versions apart (`Stamped`); what lies below a mark is on
  the relay, or is the shipped rule (`Pushed`); what lies below a cursor is held, or outranked (`Pulled`), which
  unticking alone breaks; somebody holds the user's one decision (`Decided`), which no merge takes away, as a
  version with history outranks one without. Quiet devices then hold versions of which none is weaker. For
  `NotLost`: while nobody acts and nothing is excused, a rule that is on is the last there is (`LastOn`), and
  every row follows it, on a device that has it or is yet to pull it, so none is pruned before its last day
  (`Follows`), but by a plan that was made before it was wanted; and whatever plan wants it reads the one rule
  there is (`Intends`), so what old plans mint or refresh is the same row. `OneActIsKept` and `QuietRemindersAgree` hold whatever
  plan a run applies, since a prune or a refresh has no history of its own.

- `ContactImportProofs`: `ImportTypeCorrect`, `ImportedIsKept` (`RecordsKept`), `StatedOnce` (`GraphOnce`). They
  assume that `None` is nobody (`PeopleAssumption`), and of a file that its ids are kept apart
  (`FileAssumption`): the export gives each relation an id of its own and each date to one relation, and of a
  file where one id stood for two relations `written` would drop the second. For `RecordsKept`: the pool says
  of nobody who is still there more than is stored of them (`Pooled`), so what the pool lacks of a card is
  all that its row may lack; and whoever is not gone stands for themself (`Traced`). `Filing`, for `GraphOnce`,
  is what holds while an import runs: what has been held and written in which phase (`Course`); what a landed
  card states is held until its key is written (`Owed`); of each relation and date there is no entry before its
  key is written, and one after, or a failure (`NamedOnce`, `EdgeOnce`, `DateOnce`); and `relIdByFileId` is the
  relations written between two people, and some whose write failed (`Filed`). It rests on two lemmas: two statements have one key just if
  they are of one relation (`SameEdge`), and a set put in some order has each member once (`InSomeOrder`).

- `OccasionProofs`: `OccasionTypeCorrect`, `ErrandsAreNotLost` (`NothingLost`), `OrderIsKept` (`OrderKept`),
  `NothingIsBornLate` (`NotBornLate`), `AnsweredStaysAway` (`AnsweredStays`), `InPersonMovesNothing`
  (`InPersonStands`), for each kind that asks. They assume that the days are of one year, and that an occasion
  is created on one of them (`OccasionAssumption`). The walk of `Deadlines` is first put without its recursion
  (`Walked`): there is a deadline for each rule, its lead or what it slides to; no rule is due after one authored
  behind it; and a rule kept where it was has one behind it that comes later than what it would slide to. That
  sorting rules gives a sequence of them, and that the walk along it has a value, are inductions over finite
  sets and sequences, made without the library's (whose theorems take an operator as parameter) from there
  being a least of any set of numbers (`WFMin`). `OccasionInv` says what a milestone's stored schedules may
  hold (`OccOK`: one rule an action, each of an action the defaults have or of the user's own, and the leads nobody
  edits, of what is posted or handed over); that a reconciled list is one a reconcile would leave alone (`Settled`), though the day has moved on;
  that since an edit was reconciled each live row had come up, and each dead one was the user's wish, an
  edit's doing, or is over (`Tracked`); and that a question answered has its tombstone, even where it had no
  row.

Proving found what TLC's instances had hidden: with `>=` for `>`, `OrderKept` is false of one's own
wedding, where two errands share a lead; the only posting that keeps an errand from sliding may be another
than the one given up (`InPersonStands`); the days of `Occasion` must be of one year; and a milestone can meet
its copy where one device ends a relationship while another hands the milestone on (`revived`).

Only model-checked: the liveness properties (`EventuallyAgree`, `EscrowFlushed`, `WritesReachRelay`,
`EventuallyCurrent`), since the prover does not reason about fairness. Every invariant and action property that a
passing run checks is a theorem.

## Where the code and its documents part

Six sentences of the documents or comments are not so of the code as modelled. In each case TLC reaches the state
the sentence rules out; the properties checked concede it, and say what holds besides.
- "The relay is authoritative over usernames" (`packages/key-custody/README.md:350`). A binding
  whose answer was lost, tried again under another username, is answered `"exists"`
  (`apps/server/src/store.ts:183`), and `packages/key-custody/src/bind-relay.ts:101` writes the second username.
  `Relay` lets it happen, and states nothing of handles.
- "in that order so a crash leaves the old phrase working"
  (`packages/key-custody/src/rotate-recovery.ts:30`). After a kill between the key-wrap and the keychain the next
  launch reseals the door under the old key: the old phrase opens the store, and not the master key.
  `DoorFollowsKeychain` is of the door and the keychain, not of the key-wrap.
- The catch-up "never pulls while its own rotation is pending"
  (`packages/sync/src/account.ts:270`). It reads the flag before its request, and adopts after it (`clashed`).
- "Order doesn't matter" (`packages/sync/src/engine.ts:59`). Reminders come before their
  rules (`packages/core/src/sync.ts:41`), and a run in between prunes what it has no rule for (`excuses`, "pull").
- "Prune active system reminders that today's desired set no longer wants"
  (`packages/reminders/src/engine.ts:1255`). The set is that of when the run read (`engine.ts:634`); a foreground
  starts a sync beside it, and what a pull brought meanwhile is pruned (`excuses`, "stale").
- "With no edge to hang it on, it lands once on this entity instead"
  (`packages/vcard/src/ingest.ts:344`). The id is noted before the COMMIT (line 313), and a date is hung on it;
  `GraphOnce` concedes a date of an edge whose write failed.

The rest was seen while modelling; the properties excuse each by name, or leave it outside the bounds they speak of.

*Sync and keys.*
- One push mark for several tables: a row written to a table already listed falls behind the mark and is
  never pushed on an asynchronous driver (`packages/sync/src/engine.ts:45`; `astray`).
- `update` stamps with the clock alone, so an edit under a slower clock leaves devices apart; a merge on an
  asynchronous driver is not atomic with the row it read, and overwrites a newer edit.
- An app killed between the escrow's flag and the phrase publishes a key nobody saw; overlapping flushes
  clear each other's flag (`clashed`); a write that throws in the middle of an adoption leaves a store open whose
  door and keychain part until the next open (`torn`).
- A create or join that fails after its account row can never be tried again
  (`packages/key-custody/src/session.ts:301`). A factory reset cut short and a merge cut short leave the two
  windows described under `StoreLifecycle`.
- A kick whose timer ends during a run joins it, and if that run has listed its rows the write waits for the
  interval; a call that resolves after `stop()` kicks a run on a closed store, which fails.
- Two sessions lost within one call report that the password changed (`authed`). The limiter's counters are in
  memory: a restart of the relay clears them.

*Reminders and notifications.*
- A remembrance is planned again every day of its occasion's belated tail: `notifyDaysOf` works today
  out again at every plan (`packages/notifications/src/planner.ts:153`), although the comment there says
  that it never comes back.
- Two overlapping runs between whose reads a row changed leave a completed reminder's notification pending until
  the next call or foreground (`burst`), and so does a pull. A run schedules before it cancels, so a change of every id passes the
  system's limit. A device opened every day may still be told that its reminders run out, when the last of
  them is a fixed occasion.
- Unticking a reminder does not sync: an unticked row counts as untouched, and a touched version outranks it
  whatever their stamps (`packages/schema/src/reminder.ts:186`; `reopened`).
- A row minted before its occasion was redated is pruned and stays a tombstone; a device a day behind
  prunes what another minted that day; a refresh's later stamp on a snoozed row can override a dismissal
  made elsewhere; two schedules saved at once merge to the union of their rules.
- The question's due day ignores rules the user added; an errand of their own added within six days is born
  overdue; one with a long lead slid to its last day may be outside the walk and be tombstoned; a death
  recorded prunes that year's question; a preview ticked and unticked before the next reconcile is lost.

*People and kin.*
- `createWithNewOther` from somebody unpublished does not publish them, who then has two relationships
  (`chained`). A merge collapses duplicate relationships and strands the milestones of the one it drops
  (`pruned`). Removing a draft's relationship discards the draft and leaves the people named on its page
  with none. A draft synced from another device in the middle of an addition is discarded at the next boot.
  A merge does not win against a later edit of the loser made elsewhere (`contested`). One device ends a
  relationship, so that both ends keep a copy of its milestone; another, not knowing, deletes one end and hands
  the milestone to the other with a later stamp: once both have synced that timeline shows the milestone and its
  copy (`revived`). A merge carries
  a gender over and drops a middle name.
- A draft neighbour leads on to its own relatives (`packages/data/src/kinship-service.ts:153`), although
  `packages/data/README.md:125` calls drafts no route. In-laws are derived from one end only, by the
  table. Editing a role to one without gendered forms loses the subject's gendering.

*Import.*
- The pool is read once: a contact may be added to somebody deleted or merged away since (`stale`), whose
  link then keeps it from ever being imported again, and a gender or middle name set meanwhile is
  overwritten. `pool.landed` records a card's every label and date, so a later card may be matched against
  what the store does not hold.
- A file imported twice with attaching on writes its relationships, their dates and its named relations
  twice, since `attach.into` filters none of them; two cards that attach to one person with an edge
  between them make a relationship of that person with themself.

## Not modelled

Left out of `StoreLifecycle`: mobile's files and its `doors.db`, two flows started at once, a corrupt roster,
a launch that fails in a migration; rotation is `RecoveryEscrow`'s, re-authentication `Relay`'s.
Left out of `SyncEngine`: the column codec and queries of a repo; sealing and opening of records (and so
the rewind after a key repair); serialization in `resolveMerge`'s tiebreak, which is a rank of bodies.
Left out elsewhere: an account without a relay and an older relay without the escrow; which method
names `withSyncKick` matches; the relay's other limiters and request validation; holidays, observances, gifts
and the nudges of the reminders engine; tags, contact methods and mentions in cascades and merges; a milestone
moved onto a partnership (`moveOntoPartnership`, `packages/core/src/index.ts:557`), and edits and deletions of
milestones.

Not modelled at all: transactions on mobile's one connection (a transaction rolled back there could undo rows
a pull wrote in between, while the cursor moves on; `packages/data/src/driver.ts:19`), the search index,
duplicates and their review, the holiday catalog, cryptography, formats and the user interface: the last
four are data, pure functions and call forwarding.

What would come next: edits and deletions of milestones in `People`, and contact methods, tags and mentions in its
cascades and merges.
