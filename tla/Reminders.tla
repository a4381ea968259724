----------------------------- MODULE Reminders -----------------------------
(***************************************************************************)
(* One occasion's reminder on several devices: each mints, refreshes and   *)
(* prunes the same row by its own day and its own copy of the rule         *)
(* (packages/reminders/src/engine.ts), the user acts on it anywhere, and   *)
(* rows merge through the relay's log (packages/sync/src/engine.ts).       *)
(* A run works out what is wanted over many reads, and applies it in a     *)
(* transaction of its own later: a save, an act, a pull, another run or a  *)
(* midnight may come between.                                              *)
(*                                                                         *)
(* The row's id is derived from the occasion, its year and the action, so  *)
(* every device mints the same row.  Days count up; clocks do not disagree *)
(* (SyncEngine has the clocks).  Deadlines are Schedule's business: the    *)
(* rule here is on from a due day's run-up until the occasion has been.    *)
(***************************************************************************)
EXTENDS Lww, Sequences, FiniteSetsExt

CONSTANTS Device,
          Shipped,   \* the due day of the kind's default rule
          Dues,      \* the due days a schedule may set
          RunUp,     \* days before its due day the row is minted
          Display,   \* days before its due day it is previewed
          LastDay,   \* the last day it is on the list
          MaxDay,    \* bound on days
          Zones,     \* days a device's time zone may be behind
          Runs,      \* bound on what the runs of one device in flight may want
          MaxClock,  \* bound on stamps
          MaxMoves,  \* bound on acts, saves and unfinished pulls together
          Saves      \* bound on schedule saves

ASSUME RemindersAssumption ==
    /\ Device # {} /\ Dues \subseteq Nat /\ Shipped \in Nat /\ RunUp \in Nat /\ Display \in Nat /\ RunUp <= Display
    /\ LastDay \in Nat /\ MaxDay \in Nat /\ Runs \in Nat /\ MaxClock \in Nat
    /\ Zones \subseteq 0 .. 1 /\ MaxMoves \in Nat /\ Saves \in Nat

VARIABLES day,      \* the day in the easternmost time zone
          behind,   \* days each device's zone is behind it
          clock,    \* the last stamp given
          rule,     \* the rule row each device holds
          plans,    \* what each device's runs in flight want: the due day, or None
          rem,      \* the reminder row each device holds, or None
          hwm,      \* stamp below which each device's rows are pushed
          log,      \* the relay's log
          cursor,   \* how much of it each device has pulled, as saved
          partial,  \* a pull has been applied in part and not finished
          acts, saves, cuts,
          reopened, \* the user has unticked the row
          excuses   \* history: a run pruned the row mid-pull, a day behind, or
                    \* by what it wanted before, or the rule was edited

local == <<rule, rem>>
sync == <<hwm, log, cursor, partial>>
bounds == <<acts, saves, cuts>>
vars == <<day, behind, clock, plans, local, sync, bounds, reopened, excuses>>

Reminder == [at : Nat, due : Nat, done : BOOLEAN, snoozed : BOOLEAN, gone : BOOLEAN]
RuleRow == [at : Nat, on : BOOLEAN, due : Nat]
Record == [table : {"reminders"}, row : Reminder]
          \cup [table : {"reminder_rules"}, row : RuleRow]

ASSUME NoReminderAssumption == None \notin Reminder \cup Nat

Held(d) == rem[d] # None
OnList(d) == Held(d) /\ ~rem[d].gone
Today(d) == IF behind[d] > day THEN 0 ELSE day - behind[d]

-----------------------------------------------------------------------------
(* Merging.                                                                *)

\* A mutant of History: only a deletion counts.
HistoryOfDeletion(v) == v.gone

\* reminderHasHistory
History(v) == v.gone \/ v.done \/ v.snoozed

\* The version as the merge sees it: no two writes share a stamp.
View(v) == [at |-> v.at, touched |-> History(v), gone |-> v.gone, body |-> 0]

\* A mutant of IsMerged: what the user touched here is never overwritten.
IsMergedKeepingTouched(v, held, got) ==
    IF held # None /\ History(held) THEN v = held
    ELSE /\ v \in {held} \cup got
         /\ \A w \in got : v # None /\ ~Beats(View(w), View(v))

\* What upsertFromRemote leaves of the version held when it is given those got,
\* one by one: the strongest.  The merge is the maximum of an order,
\* so it does not matter which comes first.
IsMerged(v, held, got) ==
    /\ v \in {held} \cup got
    /\ \A w \in ({held} \cup got) \ {None} : v # None /\ ~Beats(View(w), View(v))

\* The same of rules, which compare no history.
IsMergedRule(r, held, got) ==
    /\ r \in {held} \cup got
    /\ \A q \in {held} \cup got : q.at <= r.at

-----------------------------------------------------------------------------
(* The engine.                                                             *)

\* computeDesired for this one rule, on a walk of the given horizon.
Wanted(r, today, horizon) == r.on /\ r.due <= today + horizon /\ today <= LastDay

\* What a run that reads now finds wanted.
Desired(d) == IF Wanted(rule[d], Today(d), RunUp) THEN rule[d].due ELSE None

\* insertDesired
Minted(due, stamp) == [at |-> stamp, due |-> due, done |-> FALSE,
                       snoozed |-> FALSE, gone |-> FALSE]

\* reconcile, of one id.
Reconciled(v, plan, stamp) ==
    IF plan # None
    THEN IF v = None THEN Minted(plan, stamp)
         ELSE IF v.gone \/ v.due = plan THEN v
         ELSE [v EXCEPT !.due = plan, !.at = stamp]
    ELSE IF v = None \/ v.gone THEN v
         ELSE [v EXCEPT !.gone = TRUE, !.at = stamp]

Settled(d) == Reconciled(rem[d], Desired(d), clock) = rem[d]

-----------------------------------------------------------------------------

Init ==
    /\ day = 0 /\ clock = 1
    /\ behind \in [Device -> Zones] /\ (\E d \in Device : behind[d] = 0)
    /\ \E on \in BOOLEAN :
          rule = [d \in Device |-> [at |-> 1, on |-> on, due |-> Shipped]]
    /\ rem = [d \in Device |-> None] /\ plans = [d \in Device |-> {}]
    /\ hwm = [d \in Device |-> 1] /\ log = <<>>
    /\ cursor = [d \in Device |-> 0]
    /\ partial = [d \in Device |-> FALSE]
    /\ acts = 0 /\ saves = 0 /\ cuts = 0
    /\ reopened = FALSE /\ excuses = {}

\* The user, or a fault, has a move left.
Move == acts + saves + cuts < MaxMoves

\* A stamp for one write.
Tick == clock < MaxClock /\ clock' = clock + 1

Midnight ==
    /\ day < MaxDay
    /\ day' = day + 1
    /\ UNCHANGED <<behind, clock, plans, local, sync, bounds, reopened, excuses>>

\* regenerateSystem, up to its transaction.
Compute(d) ==
    /\ Desired(d) \notin plans[d] /\ Cardinality(plans[d]) < Runs
    /\ plans' = [plans EXCEPT ![d] = @ \cup {Desired(d)}]
    /\ UNCHANGED <<day, behind, clock, local, sync, bounds, reopened, excuses>>

\* Its transaction, of a run that wants this; others may want it too.
Commit(d, plan) ==
    /\ plan \in plans[d]
    /\ plans' \in {plans, [plans EXCEPT ![d] = @ \ {plan}]}
    /\ \/ /\ Reconciled(rem[d], plan, clock) = rem[d]
          /\ UNCHANGED <<clock, rem, excuses>>
       \/ /\ Reconciled(rem[d], plan, clock) # rem[d]
          /\ Tick
          /\ rem' = [rem EXCEPT ![d] = Reconciled(@, plan, clock')]
          /\ excuses' = IF plan # None THEN excuses
                        ELSE excuses \cup {x \in {"pull"} : partial[d]}
                                     \cup {x \in {"day"} : behind[d] > 0}
                                     \cup {x \in {"stale"} : Desired(d) # None}
    /\ UNCHANGED <<day, behind, rule, sync, bounds, reopened>>

\* A schedule saved on a device that has the last one.  The run that follows it
\* need not come: the app may be killed.
Save(d, on, due) ==
    /\ Move /\ saves < Saves
    /\ \A e \in Device : rule[e].at <= rule[d].at
    /\ <<on, due>> # <<rule[d].on, rule[d].due>>
    /\ saves' = saves + 1
    /\ Tick
    /\ rule' = [rule EXCEPT ![d] = [at |-> clock', on |-> on, due |-> due]]
    /\ excuses' = excuses \cup {x \in {"rule"} : rule[d].on}
    /\ UNCHANGED <<day, behind, plans, rem, sync, acts, cuts, reopened>>

Act(d, v) ==
    /\ Move
    /\ acts' = acts + 1
    /\ Tick
    /\ rem' = [rem EXCEPT ![d] = v]
    /\ UNCHANGED <<day, behind, plans, rule, sync, saves, cuts, excuses>>

\* The row, or the one materializeReminder mints where it is previewed.
Shown(d) == IF Held(d) THEN rem[d]
            ELSE Minted(rule[d].due, clock + 1)
Acting(d) == IF Held(d) THEN ~rem[d].gone ELSE Wanted(rule[d], Today(d), Display)

\* setCompleted(id, true): clears the snooze.
Complete(d) ==
    /\ Acting(d) /\ ~Shown(d).done
    /\ Act(d, [Shown(d) EXCEPT !.done = TRUE, !.snoozed = FALSE, !.at = clock + 1])
    /\ UNCHANGED reopened

\* setCompleted(id, false)
Reopen(d) ==
    /\ OnList(d) /\ rem[d].done
    /\ Act(d, [rem[d] EXCEPT !.done = FALSE, !.at = clock + 1])
    /\ reopened' = TRUE

\* snooze: never past the due day (snoozeTargetOf).
Snooze(d) ==
    /\ Acting(d) /\ ~Shown(d).done /\ ~Shown(d).snoozed
    /\ Today(d) < Shown(d).due
    /\ Act(d, [Shown(d) EXCEPT !.snoozed = TRUE, !.at = clock + 1])
    /\ UNCHANGED reopened

\* softDelete
Dismiss(d) ==
    /\ Acting(d)
    /\ Act(d, [Shown(d) EXCEPT !.gone = TRUE, !.at = clock + 1])
    /\ UNCHANGED reopened

-----------------------------------------------------------------------------
(* Sync.                                                                   *)

\* A mutant of Changed: the rules are left off the allowlist.
ChangedReminder(d) ==
    IF Held(d) /\ rem[d].at > hwm[d] THEN <<[table |-> "reminders", row |-> rem[d]]>>
                                     ELSE <<>>

\* The rows above the mark, in the order of syncableRepos: reminders come
\* before the rules they follow from.
Changed(d) ==
    (IF Held(d) /\ rem[d].at > hwm[d]
     THEN <<[table |-> "reminders", row |-> rem[d]]>> ELSE <<>>)
    \o (IF rule[d].at > hwm[d]
        THEN <<[table |-> "reminder_rules", row |-> rule[d]]>> ELSE <<>>)

\* The relay's log once they are pushed, and the rows a pull takes from it.
Sent(d) == log \o Changed(d)
Got(d, upto, table) ==
    {Sent(d)[i].row : i \in {j \in cursor[d] + 1 .. upto : Sent(d)[j].table = table}}

Behind(d) == Changed(d) # <<>> \/ cursor[d] < Len(log)

\* sync: the push and its mark, then the records past the cursor applied one by
\* one.  A reconcile may run between two of them, or the app die, so a sync may
\* stop after upto; the cursor is saved after the last, and the next sync takes
\* the rest again.
Sync(d, upto) ==
    /\ Behind(d)
    /\ upto < Len(Sent(d)) => Move
    /\ cuts' = IF upto < Len(Sent(d)) THEN cuts + 1 ELSE cuts
    /\ log' = Sent(d)
    /\ hwm' = [hwm EXCEPT ![d] = Max({@} \cup {Changed(d)[i].row.at : i \in DOMAIN Changed(d)})]
    /\ LET got == Got(d, upto, "reminders")
       IN  \E v \in {rem[d]} \cup got :
              IsMerged(v, rem[d], got) /\ rem' = [rem EXCEPT ![d] = v]
    /\ LET got == Got(d, upto, "reminder_rules")
       IN  \E r \in {rule[d]} \cup got :
              IsMergedRule(r, rule[d], got) /\ rule' = [rule EXCEPT ![d] = r]
    /\ cursor' = [cursor EXCEPT ![d] = IF upto = Len(Sent(d)) THEN upto ELSE @]
    /\ partial' = [partial EXCEPT ![d] = upto < Len(Sent(d))]
    /\ UNCHANGED <<day, behind, clock, plans, acts, saves, reopened, excuses>>

Next ==
    \/ Midnight
    \/ \E d \in Device :
        \/ Compute(d) \/ \E plan \in plans[d] : Commit(d, plan)
        \/ \E on \in BOOLEAN, due \in Dues : Save(d, on, due)
        \/ Complete(d) \/ Reopen(d) \/ Snooze(d) \/ Dismiss(d)
        \/ \E upto \in cursor[d] .. Len(Sent(d)) : Sync(d, upto)

Spec == Init /\ [][Next]_vars

-----------------------------------------------------------------------------
(* What holds.                                                             *)

TypeOK ==
    /\ day \in 0 .. MaxDay /\ behind \in [Device -> Zones] /\ clock \in Nat
    /\ rule \in [Device -> RuleRow]
    /\ plans \in [Device -> SUBSET (Nat \cup {None})]
    /\ rem \in [Device -> Reminder \cup {None}]
    /\ hwm \in [Device -> 0 .. clock]
    /\ log \in Seq(Record)
    /\ cursor \in [Device -> 0 .. Len(log)] /\ partial \in [Device -> BOOLEAN]
    /\ acts \in Nat /\ saves \in Nat /\ cuts \in Nat
    /\ acts + saves + cuts <= MaxMoves
    /\ reopened \in BOOLEAN /\ excuses \subseteq {"pull", "day", "stale", "rule"}

Quiet == \A d \in Device : ~Behind(d)

\* The rule as last saved.
Saved == LET latest == CHOOSE d \in Device : \A e \in Device : rule[e].at <= rule[d].at
         IN  rule[latest]

\* A user's one decision about a row stands on every device once they are
\* quiet: whoever minted or refreshed the row meanwhile, later or not, every
\* device shows it done, put off or gone.
OneActStands ==
    Quiet /\ acts = 1 => \A d \in Device : Held(d) /\ History(rem[d])

\* Quiet devices hold the same row, unless it was ever unticked.
QuietAgree ==
    Quiet /\ ~reopened => \A d, e \in Device : rem[d] = rem[e]

\* A reminder nobody acted on, whose rule nobody edited once it was on, is
\* never lost to another device's prune, if no run prunes the row in the
\* middle of a pull, on an earlier day than the others, or because it was not
\* wanted before a pull, a save or a midnight that changed that; whatever runs
\* mint or refresh meanwhile, by what they found wanted whenever they read.
NotLost ==
    /\ Quiet /\ acts = 0 /\ excuses = {}
    /\ \A d \in Device : Wanted(Saved, Today(d), RunUp) /\ Settled(d)
    => \A d \in Device : OnList(d)
=============================================================================
