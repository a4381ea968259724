--------------------------- MODULE Notifications ---------------------------
(***************************************************************************)
(* A phone's notifications: what the planner wants pending                 *)
(* (packages/notifications/src/planner.ts), what reconcile.ts does to make *)
(* the operating system hold it, one awaited call at a time, and the runs  *)
(* of the two that apps/mobile/lib/core-context.tsx starts, without        *)
(* waiting for the one before: one as every mutating call resolves, and    *)
(* one more at the end of every boot's and every foreground's chain of     *)
(* such calls, so that an app brought to the front starts two together.    *)
(* Runs that overlap are a burst, from the first that starts with none in  *)
(* flight to the last that ends.                                           *)
(*                                                                         *)
(* A day has Slots moments; a digest's fireAt is one of them.  A digest's  *)
(* wording follows from its time and the reminders it carries, so those    *)
(* are its body.  Categories, which only filter the reminders, the time    *)
(* zone, and the rows a regenerate itself would write are left out.        *)
(***************************************************************************)
EXTENDS Integers, FiniteSets, FiniteSetsExt

CONSTANTS
    Reminder,       \* rows a device should consider notifying about
    Remembrance,    \* those of them that remember someone
    From, Leaves,   \* first and last day of each on the list
    Minutes,        \* delivery times a day may have, as moments after its start
    Slots,          \* moments of a day
    Window,         \* NOTIFICATION_WINDOW_DAYS
    Lead,           \* TRIPWIRE_LEAD_DAYS
    Budget, Limit,  \* notifications planned at most, and held by the system
    Run,            \* runs that may be in flight at once
    MaxNow, MaxKicks, MaxFaults,    \* bounds on time, runs, and what goes wrong
    Tripwire        \* TRIPWIRE_ID

ASSUME NotificationsAssumption ==
    /\ Remembrance \subseteq Reminder
    /\ From \in [Reminder -> Nat] /\ Leaves \in [Reminder -> Nat]
    /\ Slots \in Nat \ {0} /\ Minutes \subseteq 1 .. Slots - 1
    /\ {Window, Lead, Budget, Limit, MaxNow, MaxKicks, MaxFaults} \subseteq Nat
    /\ 0 < Budget /\ Budget <= Limit
    /\ IsFiniteSet(Minutes) /\ Tripwire \notin Nat

VARIABLES
    now,        \* in moments
    done,       \* reminders ticked off
    snoozed,    \* the day each one's snooze ends; 0 for none
    times,      \* the delivery times chosen; none of them is the mode off
    pending,    \* what the operating system holds
    open,       \* the app is in the foreground
    owed,       \* the runs that calls already made are about to start
    run,        \* the runs in flight
    kicks, faults,
    heard,      \* history: each reminder and the moments it was notified at since
                \* the last burst began
    told,       \* history: the tripwire has fired since then
    crowded,    \* history: the system has had no room for one since then
    planned,    \* history: the plans its runs have made
    burst,      \* history: "steady", unless rows "changed" under it, or a run of
                \* it or one still owed was "cut" short
    settled     \* history: the last run that ended, if no run was left and its
                \* burst, not cut, had made no plan but its own, until the next

rows == <<done, snoozed, times>>
heeded == <<heard, told, crowded>>
history == <<heeded, planned, burst, settled>>
notificationsVars == <<now, rows, pending, open, owed, run, kicks, faults, history>>

Day(t) == t \div Slots
FireAt(d, m) == d * Slots + m
Rows == [done |-> done, snoozed |-> snoozed, times |-> times]

-----------------------------------------------------------------------------
(* The plan.                                                               *)

\* notifyDaysOf
NotifyDays(r, k, today) ==
    LET lands == Max({today, From[r], k.snoozed[r]})
        days == lands .. Min({today + Window, Leaves[r]})
    IN  IF r \in k.done THEN {}
        ELSE IF r \in Remembrance THEN days \cap {lands} ELSE days

\* Those due on a day, and at one of its times: a remembrance only at the first.
DueOn(d, k, today) == {r \in Reminder : d \in NotifyDays(r, k, today)}
Carried(d, m, k, today) ==
    IF m = Min(k.times) THEN DueOn(d, k, today) ELSE DueOn(d, k, today) \ Remembrance

\* planDigest
Digest(d, m, k, today) ==
    [id |-> FireAt(d, m), at |-> FireAt(d, m), body |-> Carried(d, m, k, today)]
Digests(k, today) ==
    UNION {{Digest(d, m, k, today) : d \in {e \in today .. today + Window :
                                               Carried(e, m, k, today) # {}}} : m \in k.times}

\* A mutant of Soonest: the other end of the sort.
Furthest(plan, n) == {x \in plan : Cardinality({y \in plan : y.at > x.at}) < n}

\* live.slice(0, n)
Soonest(plan, n) == {x \in plan : Cardinality({y \in plan : y.at < x.at}) < n}

LastOf(plan) == Max({x.at : x \in plan})

\* A mutant of tripwireFor: only where the whole lead lies behind it.
tripwireForLate(plan, t) ==
    IF plan = {} \/ LastOf(plan) - Lead * Slots <= t + Lead * Slots THEN {}
    ELSE {[id |-> Tripwire, at |-> LastOf(plan) - Lead * Slots, body |-> {}]}

\* tripwireFor
tripwireFor(plan, t) ==
    IF plan = {} \/ LastOf(plan) - Lead * Slots <= t THEN {}
    ELSE {[id |-> Tripwire, at |-> LastOf(plan) - Lead * Slots, body |-> {}]}

\* planNotifications
planNotifications(k, t) ==
    LET live == {x \in Digests(k, Day(t)) : x.at > t}
        full == Soonest(live, Budget)
        scheduled == Soonest(live, Budget - 1)
    IN  IF tripwireFor(full, t) = {} THEN full ELSE scheduled \cup tripwireFor(scheduled, t)

\* reconcile, of one desired notification: one that drifted is cancelled first.
CallsFor(x, held) ==
    IF x \in held THEN {}
    ELSE {[call |-> "schedule", it |-> x]}
         \cup {[call |-> "cancel", it |-> x] : p \in {q \in held : q.id = x.id}}

\* reconcile: the calls it will make, of what is desired, and of what is pending
\* and not desired.
Calls(desired, held) ==
    (UNION {CallsFor(x, held) : x \in desired})
    \cup {[call |-> "drop", it |-> p] : p \in {q \in held : \A x \in desired : x.id # q.id}}

\* A mutant of Precedes: what drifted is scheduled anew, then cancelled.
PrecedesLate(c, d) ==
    \/ c.call # "drop" /\ d.call = "drop"
    \/ /\ c.call # "drop" /\ d.call # "drop" /\ c.it.id # Tripwire
       /\ d.it.id = Tripwire \/ c.it.at < d.it.at
    \/ c.it = d.it /\ c.call = "schedule" /\ d.call = "cancel"

\* The order they are made in: the soonest first, the tripwire last, and then
\* what is not desired in whatever order the system listed it.
Precedes(c, d) ==
    \/ c.call # "drop" /\ d.call = "drop"
    \/ /\ c.call # "drop" /\ d.call # "drop" /\ c.it.id # Tripwire
       /\ d.it.id = Tripwire \/ c.it.at < d.it.at
    \/ c.it = d.it /\ c.call = "cancel" /\ d.call = "schedule"

-----------------------------------------------------------------------------

\* A phone with nothing pending, or with what a run left there before the rows
\* changed by sync.
NotificationsInit ==
    /\ now = 0 /\ done \in SUBSET Reminder /\ snoozed = [r \in Reminder |-> 0]
    /\ times \in SUBSET Minutes
    /\ open = FALSE /\ owed = 0 /\ run = [i \in {} |-> i]
    /\ \/ pending = {} /\ burst = "steady"
       \/ /\ pending = planNotifications([Rows EXCEPT !.done = {}], 0)
          /\ burst = IF done = {} THEN "steady" ELSE "changed"
    /\ kicks = 0 /\ faults = 0
    /\ heard = {} /\ told = FALSE /\ crowded = FALSE
    /\ planned = {} /\ settled = {}

InFlight == DOMAIN run

\* n runs of the two are owed, by calls that resolve at moments of their own.
Kick(n) ==
    /\ kicks + n <= MaxKicks /\ kicks' = kicks + n
    /\ owed' = owed + n

\* void reconcileNotifications(core): a run starts, beside any other.
Start ==
    /\ owed > 0 /\ owed' = owed - 1
    /\ \E i \in Run \ InFlight :
          run' = [j \in InFlight \cup {i} |->
              IF j = i THEN [read |-> {}, rows |-> Rows, held |-> {}, at |-> 0, calls |-> {}]
                       ELSE run[j]]
    /\ settled' = {}
    /\ IF InFlight = {}
       THEN /\ burst' = "steady" /\ planned' = {}
            /\ heard' = {} /\ told' = FALSE /\ crowded' = FALSE
       ELSE UNCHANGED <<burst, planned, heeded>>
    /\ UNCHANGED <<now, rows, pending, open, kicks, faults>>

\* The app is opened, or brought to the front: the run its chain of calls ends
\* in, and one for each of those that resolves (drafts discarded, contacts
\* brought in, reminders regenerated).
Foreground ==
    /\ ~open /\ open' = TRUE
    /\ \E n \in 1 .. 4 : Kick(n)
    /\ UNCHANGED <<now, rows, pending, run, faults, history>>

Background ==
    /\ open /\ open' = FALSE
    /\ UNCHANGED <<now, rows, pending, owed, run, kicks, faults, history>>

(* The mutating calls of the core, behind withSyncKick.                    *)

\* Rows change under the runs in flight, if there are any.
Stir == burst' = IF InFlight # {} /\ burst = "steady" THEN "changed" ELSE burst

\* A call that changes no row the plan is made of.
Touch ==
    /\ open /\ Kick(1)
    /\ UNCHANGED <<now, rows, pending, open, run, faults, history>>

\* A mutant of Tick: ticking a reminder off starts no run.
TickQuietly(r) ==
    /\ open /\ kicks < MaxKicks /\ kicks' = kicks + 1
    /\ done' = (done \ {r}) \cup ({r} \ done) /\ Stir
    /\ UNCHANGED <<now, snoozed, times, pending, open, owed, run, faults,
                   heeded, planned, settled>>

\* setCompleted, either way.
Tick(r) ==
    /\ open /\ Kick(1)
    /\ done' = (done \ {r}) \cup ({r} \ done) /\ Stir
    /\ UNCHANGED <<now, snoozed, times, pending, open, run, faults, heeded, planned, settled>>

\* snooze, until a later day.
Snooze(r, d) ==
    /\ open /\ Kick(1)
    /\ d > Day(now) /\ r \notin done
    /\ snoozed' = [snoozed EXCEPT ![r] = d] /\ Stir
    /\ UNCHANGED <<now, done, times, pending, open, run, faults, heeded, planned, settled>>

\* notificationSettings.set
SetTimes(ms) ==
    /\ open /\ Kick(1)
    /\ ms # times /\ times' = ms /\ Stir
    /\ UNCHANGED <<now, done, snoozed, pending, open, run, faults, heeded, planned, settled>>

\* A pull brings another device's tick: no run starts until the next foreground.
Pull(r) ==
    /\ open /\ faults < MaxFaults /\ faults' = faults + 1
    /\ done' = (done \ {r}) \cup ({r} \ done)
    /\ burst' = IF burst = "steady" THEN "changed" ELSE burst
    /\ UNCHANGED <<now, snoozed, times, pending, open, owed, run, kicks,
                   heeded, planned, settled>>

\* The reads of a run, started together, answer in either order, and with the
\* last come the plan and the calls it takes.
Plan(i) == planNotifications(run[i].rows, run[i].at)
Planned(i) == run[i].read = {"rows", "pending"}
Read(i, what, k, held) ==
    /\ what \notin run[i].read
    /\ run' = [run EXCEPT ![i] =
          IF @.read = {} THEN [@ EXCEPT !.read = {what}, !.rows = k, !.held = held]
          ELSE [@ EXCEPT !.read = {"rows", "pending"}, !.rows = k, !.held = {}, !.at = now,
                         !.calls = Calls(planNotifications(k, now), held)]]
    /\ planned' = IF run[i].read = {} THEN planned
                  ELSE planned \cup {planNotifications(k, now)}
    /\ UNCHANGED <<now, rows, pending, open, owed, kicks, faults, heeded, burst, settled>>

ReadRows(i) == Read(i, "rows", Rows, run[i].held)
ReadPending(i) == Read(i, "pending", run[i].rows, pending)

\* What fires, heard by the user.
Fire(fired) ==
    /\ heard' = heard \cup UNION {{<<r, n.at>> : r \in n.body} : n \in fired}
    /\ told' = (told \/ \E n \in fired : n.id = Tripwire)

\* schedule: the system fires at once what is past, and drops what it has no
\* room for.  cancel: by id.
Call(i) ==
    \E c \in run[i].calls :
        /\ \A d \in run[i].calls : ~Precedes(d, c)
        /\ run' = [run EXCEPT ![i].calls = @ \ {c}]
        /\ LET others == {p \in pending : p.id # c.it.id}
               past == c.it.at <= now
               room == Cardinality(others) < Limit
           IN  IF c.call = "schedule"
               THEN /\ pending' = IF past \/ ~room THEN others ELSE others \cup {c.it}
                    /\ Fire(IF past THEN {c.it} ELSE {})
                    /\ crowded' = (crowded \/ (~past /\ ~room))
               ELSE pending' = others /\ UNCHANGED heeded
        /\ UNCHANGED <<now, rows, open, owed, kicks, faults, planned, burst, settled>>

\* The slots of the runs that go on.
Without(i) == [j \in InFlight \ {i} |-> run[j]]

Finish(i) ==
    /\ Planned(i) /\ run[i].calls = {}
    /\ run' = Without(i)
    /\ settled' = IF InFlight = {i} /\ burst # "cut" /\ planned = {Plan(i)}
                  THEN {[plan |-> Plan(i), rows |-> run[i].rows, at |-> run[i].at]}
                  ELSE {}
    /\ UNCHANGED <<now, rows, pending, open, owed, kicks, faults, heeded, planned, burst>>

\* A read or a call throws: the run is over.
Fail(i) ==
    /\ faults < MaxFaults /\ faults' = faults + 1
    /\ run' = Without(i)
    /\ burst' = "cut"
    /\ UNCHANGED <<now, rows, pending, open, owed, kicks, heeded, planned, settled>>

Kill ==
    /\ open \/ InFlight # {} \/ owed > 0
    /\ faults < MaxFaults /\ faults' = faults + 1
    /\ open' = FALSE /\ owed' = 0 /\ run' = [i \in {} |-> i]
    /\ burst' = IF InFlight # {} \/ owed > 0 THEN "cut" ELSE burst
    /\ UNCHANGED <<now, rows, pending, kicks, heeded, planned, settled>>

\* The next moment; one that passes in the middle of a run is a fault's worth.
TimePasses ==
    /\ now < MaxNow /\ now' = now + 1
    /\ InFlight # {} => faults < MaxFaults
    /\ faults' = IF InFlight # {} THEN faults + 1 ELSE faults
    /\ LET fired == {p \in pending : p.at <= now'}
       IN  pending' = pending \ fired /\ Fire(fired)
    /\ UNCHANGED <<rows, open, owed, run, kicks, crowded, planned, burst, settled>>

NotificationsNext ==
    \/ Start \/ Foreground \/ Background \/ Kill \/ TimePasses \/ Touch
    \/ \E r \in Reminder :
        Tick(r) \/ Pull(r) \/ \E d \in 1 .. Day(MaxNow) : Snooze(r, d)
    \/ \E ms \in SUBSET Minutes : SetTimes(ms)
    \/ \E i \in InFlight : ReadRows(i) \/ ReadPending(i) \/ Call(i) \/ Finish(i) \/ Fail(i)

NotificationsSpec == NotificationsInit /\ [][NotificationsNext]_notificationsVars

-----------------------------------------------------------------------------
(* What holds.                                                             *)

\* A burst of runs that made one plan among them, and of which none was cut
\* short, leaves nothing pending but that plan, and all of it that has not fired
\* since, in whatever order their cancels, schedules and drops met, and whatever
\* bursts before it had left there, unless the system had no room for it.
BurstRepairs ==
    \A s \in settled :
        LET due == {n \in s.plan : n.at > now}
        IN  pending \subseteq due /\ (due \subseteq pending \/ crowded)

\* Completed rows stay silent, and snoozed ones until their day: with no run in
\* flight or owed nothing pending names them, however many runs overlapped in
\* the last burst, unless rows changed under it, or by sync since it began, or
\* one of its runs was cut short.
SilentWhenSteady ==
    InFlight = {} /\ owed = 0 /\ burst = "steady" =>
        \A n \in pending : \A r \in n.body : r \notin done /\ Day(n.at) >= snoozed[r]

\* On a phone left alone since a burst that the system had room for, a reminder
\* was heard at every delivery time of every day it sat undone, up to the last
\* digest the budget kept.
EveryDayHeard ==
    \A s \in settled : \A r \in Reminder \ Remembrance, m \in s.rows.times :
        \A d \in NotifyDays(r, s.rows, Day(s.at)) :
            LET at == FireAt(d, m)
            IN  /\ ~crowded /\ s.at < at /\ at <= now
                /\ \E n \in s.plan : n.id # Tripwire /\ at <= n.at
                => <<r, at>> \in heard

\* A phone left alone until its last digest had fired was told that its
\* reminders were running out, unless they never reached further than the lead.
SilenceForewarned ==
    \A s \in settled :
        LET digests == {n \in s.plan : n.id # Tripwire}
        IN  /\ ~crowded /\ digests # {} /\ LastOf(digests) <= now
            /\ LastOf(digests) - s.at > Lead * Slots
            => told
=============================================================================
