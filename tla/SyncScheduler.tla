--------------------------- MODULE SyncScheduler ---------------------------
(***************************************************************************)
(* When a device syncs (packages/sync/src/scheduler.ts): one scheduler of  *)
(* one open store, from its start() to its stop() and what comes after.    *)
(*                                                                         *)
(* A write lands in the store, and its call resolves some time later, which*)
(* is when withSyncKick kicks.  Writes are counted in the order they land. *)
(* Of a run only what a trigger can meet matters: it has begun, or it has  *)
(* listed what it pushes.  A timer fires at any time after it is set.      *)
(*                                                                         *)
(* What SyncEngine has too is named for the scheduler, so that one module  *)
(* can extend the two (SyncEngineProofs).                                  *)
(***************************************************************************)
EXTENDS Naturals

CONSTANTS
    MaxWrites,    \* bound: writes
    MaxFailures   \* bound: runs that fail

ASSUME SchedulerAssumption == {MaxWrites, MaxFailures} \subseteq Nat

VARIABLES
    auto,       \* autoEnabled
    beating,    \* interval is set
    armed,      \* kickTimer is set
    run,        \* inFlight: "none", "begun", or "listed"
    by,         \* who began the run: the scheduler's timers ("auto"), a user
    open,       \* the store's handle is open
    written,    \* writes that have landed
    unresolved, \* writes that have landed and whose call is still under way
    listed,     \* the writes the run pushes: the first so many
    pushed,     \* the writes the relay has
    failures,
    due,        \* history: the writes there were at the last kick
    joined,     \* history: ... at the last kick that joined a run too late
    dropped     \* history: ... at the last kick a failure or a refusal undid

timers == <<auto, beating, armed>>
flight == <<run, by, listed>>
rows == <<written, unresolved, pushed>>
history == <<due, joined, dropped>>
schedulerVars == <<timers, flight, open, rows, failures, history>>

SchedulerInit ==
    /\ auto \in BOOLEAN
    /\ beating = FALSE /\ armed = FALSE
    /\ run = "none" /\ by = "user" /\ listed = 0
    /\ open = TRUE
    /\ written = 0 /\ unresolved = 0 /\ pushed = 0
    /\ failures = MaxFailures
    /\ due = 0 /\ joined = 0 /\ dropped = 0

-----------------------------------------------------------------------------
\* trigger: single-flight, so with a run in flight it is joined.
Trigger(who) ==
    /\ run' = IF run = "none" THEN "begun" ELSE run
    /\ by' = IF run = "none" THEN who ELSE by
    /\ UNCHANGED listed

\* autoTrigger, by the interval, by the window's focus, and on opening.
AutoTrigger ==
    /\ auto /\ run = "none"
    /\ Trigger("auto")
    /\ UNCHANGED <<timers, open, rows, failures, history>>

Beat == beating /\ AutoTrigger

\* The desktop's focus handler looks whether the store is being swapped.
Focus == open /\ AutoTrigger

SyncNow ==
    /\ run = "none"
    /\ Trigger("user")
    /\ UNCHANGED <<timers, open, rows, failures, history>>

\* start.
Start ==
    /\ open /\ ~beating
    /\ beating' = TRUE
    /\ UNCHANGED <<auto, armed, flight, open, rows, failures, history>>

\* A pending kick is cancelled.
CancelKick ==
    /\ armed' = FALSE
    /\ dropped' = IF armed THEN due ELSE dropped
    /\ UNCHANGED <<due, joined>>

\* stop, and the handle is closed.
Stop ==
    /\ open
    /\ open' = FALSE
    /\ beating' = FALSE
    /\ CancelKick
    /\ UNCHANGED <<auto, flight, rows, failures>>

\* setAutoEnabled.
Enable ==
    /\ open /\ ~auto
    /\ auto' = TRUE
    /\ Trigger("auto")
    /\ UNCHANGED <<beating, armed, open, rows, failures, history>>

Disable ==
    /\ open /\ auto
    /\ auto' = FALSE
    /\ CancelKick
    /\ UNCHANGED <<beating, flight, open, rows, failures>>

-----------------------------------------------------------------------------
\* A write lands.
Write ==
    /\ open
    /\ written < MaxWrites
    /\ written' = written + 1
    /\ unresolved' = unresolved + 1
    /\ UNCHANGED <<timers, flight, open, pushed, failures, history>>

\* A mutant of Kick: no timer while a run is in flight.
KickWhenIdle ==
    /\ armed' = (armed \/ (auto /\ run = "none"))
    /\ due' = IF auto THEN written ELSE due

\* kick: (re)arms the timer, unless automatic sync is off.
Kick ==
    /\ armed' = (armed \/ auto)
    /\ due' = IF auto THEN written ELSE due

\* The call of a write resolves, the store open or not, and kicks ...
Resolve ==
    /\ unresolved > 0
    /\ unresolved' = unresolved - 1
    /\ Kick
    /\ UNCHANGED <<auto, beating, flight, open, written, pushed, failures, joined,
                   dropped>>

\* ... or rejects, after some of its rows landed, and kicks nothing.
Reject ==
    /\ unresolved > 0
    /\ unresolved' = unresolved - 1
    /\ UNCHANGED <<timers, flight, open, written, pushed, failures, history>>

\* The debounce is over: trigger(), whatever the preference by now.
Fire ==
    /\ armed
    /\ armed' = FALSE
    /\ Trigger("auto")
    /\ joined' = IF run = "listed" THEN due ELSE joined
    /\ UNCHANGED <<auto, beating, open, rows, failures, due, dropped>>

-----------------------------------------------------------------------------
\* run(): the rows to push are listed ...
List ==
    /\ run = "begun" /\ open
    /\ run' = "listed"
    /\ listed' = written
    /\ UNCHANGED <<timers, by, open, rows, failures, history>>

\* A mutant of Complete: inFlight is not cleared.
CompleteOnly ==
    /\ run = "listed" /\ open
    /\ pushed' = listed
    /\ UNCHANGED <<timers, flight, open, written, unresolved, failures, history>>

\* ... and pushed ...
Complete ==
    /\ run = "listed" /\ open
    /\ pushed' = listed
    /\ run' = "none"
    /\ UNCHANGED <<timers, by, listed, open, written, unresolved, failures,
                   history>>

\* ... or the run rejects, on a closed handle at the latest; the relay may have
\* the rows all the same.
Fail ==
    /\ run # "none"
    /\ failures > 0 \/ ~open
    /\ failures' = IF open THEN failures - 1 ELSE failures
    /\ run' = "none"
    /\ \/ UNCHANGED pushed
       \/ run = "listed" /\ pushed' = listed
    /\ dropped' = IF armed THEN dropped ELSE due
    /\ UNCHANGED <<timers, by, listed, open, written, unresolved, due, joined>>

-----------------------------------------------------------------------------
SchedulerNext ==
    \/ Beat \/ Focus \/ SyncNow
    \/ Start \/ Stop \/ Enable \/ Disable
    \/ Write \/ Resolve \/ Reject \/ Fire
    \/ List \/ Complete \/ Fail

SchedulerSpec == SchedulerInit /\ [][SchedulerNext]_schedulerVars

\* Timers fire, and a run's awaits settle.
SchedulerFairSpec ==
    /\ SchedulerSpec
    /\ WF_schedulerVars(Beat) /\ WF_schedulerVars(List) /\ WF_schedulerVars(Complete)

-----------------------------------------------------------------------------
SchedulerTypeOK ==
    /\ auto \in BOOLEAN /\ beating \in BOOLEAN
    /\ armed \in BOOLEAN /\ open \in BOOLEAN
    /\ run \in {"none", "begun", "listed"}
    /\ by \in {"auto", "user"}
    /\ written \in 0..MaxWrites
    /\ {unresolved, listed, pushed, due, joined, dropped} \subseteq 0..written
    /\ failures \in 0..MaxFailures

\* What was there at a kick is pushed, or still has a push coming: the timer is
\* set, or a run in flight will list it or has.  Only three things leave it to
\* the next interval or focus: its kick joined a run that had listed already, a
\* run failed, or stop and the preference cancelled the kick.  (scheduler.ts
\* kick, trigger, setAutoEnabled, stop.)
NoKickLost ==
    \/ due <= pushed
    \/ armed
    \/ run = "begun"
    \/ run = "listed" /\ due <= listed
    \/ due <= joined
    \/ due <= dropped

\* Once the user has opted out, no run begins but one the user asks for, though
\* the kick's timer does not look at the preference.  (scheduler.ts kick,
\* setAutoEnabled.)
OptOutHolds == [][run = "none" /\ run' = "begun" /\ by' = "auto" => auto']_schedulerVars

\* A write reaches the relay, however its kick fared, unless automatic sync is
\* off or the scheduler stops.  (scheduler.ts start: the interval backs both up.)
WritesReachRelay ==
    \A n \in 1..MaxWrites :
        written >= n ~> (pushed >= n \/ ~auto \/ ~beating)

-----------------------------------------------------------------------------
(* The inductive invariant behind NoKickLost and OptOutHolds                *)
(* (SyncEngineProofs).                                                      *)

SchedulerInv ==
    /\ SchedulerTypeOK
    /\ run = "listed" => pushed <= listed
    /\ armed => auto
    /\ NoKickLost
=============================================================================
