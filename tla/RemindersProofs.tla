--------------------------- MODULE RemindersProofs ---------------------------
(***************************************************************************)
(* Reminders' invariants, for any devices, days, due days and moves.       *)
(***************************************************************************)
EXTENDS Reminders, SequenceTheorems, TLAPS

(***************************************************************************)
(* The versions there are, on the relay and on the devices, and what is    *)
(* known of them.                                                          *)
(***************************************************************************)

Logged == {log[i].row : i \in {j \in DOMAIN log : log[j].table = "reminders"}}
LoggedRules == {log[i].row : i \in {j \in DOMAIN log : log[j].table = "reminder_rules"}}
Versions == Logged \cup ({rem[d] : d \in Device} \ {None})
Rules == LoggedRules \cup {rule[d] : d \in Device}

\* No two writes share a stamp.
Stamped ==
    /\ \A v \in Versions : v.at <= clock
    /\ \A v, w \in Versions : v.at = w.at => v = w
    /\ \A q \in Rules : 1 <= q.at /\ q.at <= clock
    /\ \A q, r \in Rules : q.at = r.at => q = r

\* What a device holds from below its mark is on the relay, or is the rule it
\* began with; and no rule on the relay is ahead of every device's.
Pushed ==
    /\ \A d \in Device :
          /\ Held(d) /\ rem[d].at <= hwm[d] => rem[d] \in Logged
          /\ rule[d].at <= hwm[d] => rule[d] \in LoggedRules \/ rule[d].at = 1
    /\ \A q \in LoggedRules : \E d \in Device : q.at <= rule[d].at

\* v is no weaker than w.
NoWeaker(v, w) == v # None /\ ~Beats(View(w), View(v))

\* What a device has pulled it holds, or something stronger.
Pulled ==
    \A d \in Device : \A i \in 1 .. cursor[d] :
        /\ log[i].table = "reminders" /\ ~reopened => NoWeaker(rem[d], log[i].row)
        /\ log[i].table = "reminder_rules" => log[i].row.at <= rule[d].at

\* The user's one decision is held by somebody.
Decided ==
    /\ acts = 0 => \A v \in Versions : ~v.done
    /\ reopened => acts >= 2
    /\ acts >= 1 /\ ~reopened => \E d \in Device : Held(d) /\ History(rem[d])

\* Nobody acted, and nothing happened that NotLost excuses.
Calm == acts = 0 /\ excuses = {}

\* While calm a rule that is on is the last there is.
LastOn == \A q, r \in Rules : q.on => r = q \/ (~r.on /\ r.at < q.at)

OnLogged == \E q \in LoggedRules : q.on
AllOn == \A d \in Device : rule[d].on

\* The rule d holds is on, and its time has come.
Intends(d) == rule[d].on /\ rule[d].due <= day + RunUp

\* The row follows a rule that is on, whose time had come; whoever holds the row
\* has the rule, or will pull it; a run that wants the row read the rule its
\* device still holds; and no row is pruned before its last day.
Follows ==
    /\ Versions # {} => \E q \in Rules : q.on /\ q.due <= day + RunUp
    /\ Logged # {} => OnLogged \/ AllOn
    /\ \A d \in Device : Held(d) => rule[d].on \/ OnLogged
    /\ \A d \in Device : Held(d) /\ ~partial[d] => rule[d].on
    /\ \A d \in Device : plans[d] \subseteq {None} \/ Intends(d)
    /\ day <= LastDay => \A v \in Versions : ~v.gone

IInv ==
    /\ TypeOK /\ (\E d \in Device : behind[d] = 0)
    /\ Stamped /\ Pushed /\ Pulled /\ Decided
    /\ Calm => LastOn /\ Follows
-----------------------------------------------------------------------------
(* Types, and the order of versions.                                       *)

LEMMA Types ==
  ASSUME TypeOK, NEW d \in Device
  PROVE  /\ rule[d] \in RuleRow /\ (Held(d) => rem[d] \in Reminder)
         /\ hwm[d] \in Nat /\ hwm[d] <= clock
         /\ cursor[d] \in Nat /\ cursor[d] <= Len(log)
         /\ Today(d) \in Nat /\ day \in Nat /\ clock \in Nat /\ behind[d] \in Nat
         /\ (behind[d] = 0 => Today(d) = day) /\ Today(d) <= day
<1>1. behind[d] \in Zones /\ day \in 0 .. MaxDay /\ clock \in Nat /\ log \in Seq(Record)
  BY DEF TypeOK
<1>4. Len(log) \in Nat
  BY <1>1
<1>5. Zones \subseteq 0 .. 1 /\ MaxDay \in Nat
  BY RemindersAssumption
<1>6. behind[d] \in 0 .. 1
  BY <1>1, <1>5
<1>7. behind[d] \in Nat
  BY <1>6
<1>8. day \in Nat
  BY <1>1, <1>5
<1>2. rule[d] \in RuleRow /\ rem[d] \in Reminder \cup {None}
  BY DEF TypeOK
<1>3. hwm[d] \in 0 .. clock /\ cursor[d] \in 0 .. Len(log)
  BY DEF TypeOK
<1> QED
  BY <1>1, <1>2, <1>3, <1>4, <1>7, <1>8 DEF Held, Today

\* A weaker version has no history the stronger one lacks.
LEMMA HistoryStays ==
  ASSUME NEW v \in Reminder, NEW w \in Reminder, NoWeaker(v, w), History(w)
  PROVE  History(v)
BY DEF NoWeaker, Beats, View, History, Reminder

\* A later stamp with no less history is no weaker.
LEMMA LaterIsNoWeaker ==
  ASSUME NEW v \in Reminder, NEW w \in Reminder, w.at < v.at, History(w) => History(v)
  PROVE  NoWeaker(v, w)
<1>1. v # None
  BY NoReminderAssumption
<1>2. v.at \in Nat /\ w.at \in Nat
  BY DEF Reminder
<1>3. ~(History(w) /\ ~History(v)) /\ ~(w.at > v.at) /\ w.at # v.at
  BY <1>2
<1>4. ~Beats(View(w), View(v))
  BY <1>3 DEF Beats, View
<1> QED
  BY <1>1, <1>4 DEF NoWeaker

\* Every version is as strong as itself.
LEMMA SelfIsNoWeaker ==
  ASSUME NEW v \in Reminder
  PROVE  NoWeaker(v, v)
<1>1. v # None /\ v.at \in Nat
  BY NoReminderAssumption DEF Reminder
<1> QED
  BY <1>1 DEF NoWeaker, Beats, CanonicalAbove, View

\* Of two versions the one with history is the stronger, then the later; of one
\* stamp, the one still there.
LEMMA Strength ==
  ASSUME NEW v \in Reminder, NEW w \in Reminder
  PROVE  /\ v.at \in Nat /\ w.at \in Nat
         /\ NoWeaker(v, w) <=>
              /\ History(w) => History(v)
              /\ (History(v) /\ ~History(w)) \/ w.at <= v.at
              /\ (History(v) /\ ~History(w)) \/ w.at < v.at \/ (v.gone => w.gone)
<1>1. v # None /\ v.at \in Nat /\ w.at \in Nat
  BY NoReminderAssumption DEF Reminder
<1> QED
  BY <1>1 DEF NoWeaker, Beats, CanonicalAbove, View, History, Reminder

\* Strength is an order.
LEMMA NoWeakerTransitive ==
  ASSUME NEW u \in Reminder, NEW v \in Reminder, NEW w \in Reminder,
         NoWeaker(u, v), NoWeaker(v, w)
  PROVE  NoWeaker(u, w)
BY Strength

\* Two versions neither of which is weaker have one stamp.
LEMMA NoWeakerEither ==
  ASSUME NEW v \in Reminder, NEW w \in Reminder, NoWeaker(v, w), NoWeaker(w, v)
  PROVE  v.at = w.at
BY Strength

\* The log holds rows of either table.
LEMMA LogTypes ==
  ASSUME TypeOK
  PROVE  /\ Len(log) \in Nat /\ DOMAIN log = 1 .. Len(log)
         /\ \A i \in DOMAIN log :
               /\ log[i].table \in {"reminders", "reminder_rules"}
               /\ log[i].table = "reminders" => log[i].row \in Reminder
               /\ log[i].table = "reminder_rules" => log[i].row \in RuleRow
         /\ Logged \subseteq Reminder /\ LoggedRules \subseteq RuleRow
<1>1. log \in Seq(Record)
  BY DEF TypeOK
<1>2. Len(log) \in Nat /\ DOMAIN log = 1 .. Len(log)
  BY <1>1
<1>3. \A i \in DOMAIN log : log[i] \in Record
  BY <1>1, <1>2
<1>4. \A i \in DOMAIN log :
               /\ log[i].table \in {"reminders", "reminder_rules"}
               /\ log[i].table = "reminders" => log[i].row \in Reminder
               /\ log[i].table = "reminder_rules" => log[i].row \in RuleRow
  BY <1>3 DEF Record
<1> QED
  BY <1>2, <1>4 DEF Logged, LoggedRules

-----------------------------------------------------------------------------
(* What the user and the engine write on one device.                       *)

\* A device writes its row, its rule or both, later than all there is.
NewRow(d) ==
    \/ rem' = rem
    \/ \E v \in Reminder :
          /\ rem' = [rem EXCEPT ![d] = v]
          /\ clock < v.at /\ v.at <= clock'
          /\ Held(d) /\ History(rem[d]) /\ ~reopened' => History(v)

NewRule(d) ==
    \/ rule' = rule
    \/ \E r \in RuleRow :
          /\ rule' = [rule EXCEPT ![d] = r]
          /\ clock < r.at /\ r.at <= clock'

Written(d) ==
    /\ NewRow(d) /\ NewRule(d)
    /\ clock' \in Nat /\ clock <= clock'
    /\ reopened => reopened'
    /\ UNCHANGED sync

\* What it wrote is all that is new.
LEMMA WrittenSets ==
  ASSUME TypeOK, NEW d \in Device, Written(d)
  PROVE  /\ Logged' = Logged /\ LoggedRules' = LoggedRules
         /\ \A v \in Versions' : v \in Versions \/ (v = rem'[d] /\ rem' # rem)
         /\ \A q \in Rules' : q \in Rules \/ (q = rule'[d] /\ rule' # rule)
         /\ \A e \in Device \ {d} : rem'[e] = rem[e] /\ rule'[e] = rule[e]
<1>1. log' = log
  BY DEF Written, sync
<1>2. Logged' = Logged /\ LoggedRules' = LoggedRules
  BY <1>1 DEF Logged, LoggedRules
<1>3. \A e \in Device \ {d} : rem'[e] = rem[e]
  BY DEF Written, NewRow, TypeOK
<1>4. \A e \in Device \ {d} : rule'[e] = rule[e]
  BY DEF Written, NewRule, TypeOK
<1> QED
  BY <1>2, <1>3, <1>4 DEF Versions, Rules

\* A write has a stamp of its own.
LEMMA WrittenStamped ==
  ASSUME TypeOK, Stamped, NEW d \in Device, Written(d)
  PROVE  Stamped'
<1> DEFINE newRow == rem' # rem
           newRule == rule' # rule
<1>1. newRow => clock < rem'[d].at /\ rem'[d].at <= clock' /\ rem'[d] \in Reminder
  BY DEF Written, NewRow, TypeOK
<1>2. newRule => clock < rule'[d].at /\ rule'[d].at <= clock' /\ rule'[d] \in RuleRow
  BY DEF Written, NewRule, TypeOK
<1>3. \A v \in Versions : v.at <= clock
  BY DEF Stamped
<1>4. \A q \in Rules : 1 <= q.at /\ q.at <= clock
  BY DEF Stamped
<1>5. clock \in Nat /\ clock' \in Nat /\ clock <= clock'
  BY DEF TypeOK, Written
<1>6. \A v \in Versions : v \in Reminder
  BY LogTypes DEF Versions, TypeOK
<1>7. \A q \in Rules : q \in RuleRow
  BY LogTypes DEF Rules, TypeOK
<1>8. (\A v \in Versions : v.at \in Nat) /\ (\A q \in Rules : q.at \in Nat)
  BY <1>6, <1>7 DEF Reminder, RuleRow
<1>9. (newRow => rem'[d].at \in Nat) /\ (newRule => rule'[d].at \in Nat)
  BY <1>1, <1>2 DEF Reminder, RuleRow
<1> HIDE DEF newRow, newRule
<1>10. /\ \A v \in Versions' : v \in Versions \/ (v = rem'[d] /\ newRow)
       /\ \A q \in Rules' : q \in Rules \/ (q = rule'[d] /\ newRule)
  BY WrittenSets DEF newRow, newRule
<1>11. \A v \in Versions' : v.at <= clock'
  BY <1>1, <1>3, <1>5, <1>8, <1>9, <1>10
<1>12. \A q \in Rules' : 1 <= q.at /\ q.at <= clock'
  BY <1>2, <1>4, <1>5, <1>8, <1>9, <1>10
<1>13. \A v, w \in Versions' : v.at = w.at => v = w
  <2> SUFFICES ASSUME NEW v \in Versions', NEW w \in Versions', v.at = w.at PROVE v = w
    OBVIOUS
  <2>1. CASE v \in Versions /\ w \in Versions
    BY <2>1 DEF Stamped
  <2>2. CASE v \notin Versions \/ w \notin Versions
    BY <2>2, <1>1, <1>3, <1>5, <1>8, <1>9, <1>10
  <2> QED
    BY <2>1, <2>2
<1>14. \A q, r \in Rules' : q.at = r.at => q = r
  <2> SUFFICES ASSUME NEW q \in Rules', NEW r \in Rules', q.at = r.at PROVE q = r
    OBVIOUS
  <2>1. CASE q \in Rules /\ r \in Rules
    BY <2>1 DEF Stamped
  <2>2. CASE q \notin Rules \/ r \notin Rules
    BY <2>2, <1>2, <1>4, <1>5, <1>8, <1>9, <1>10
  <2> QED
    BY <2>1, <2>2
<1> QED
  BY <1>11, <1>12, <1>13, <1>14 DEF Stamped

\* A write is above the mark, so Pushed says nothing of it.
LEMMA WrittenPushed ==
  ASSUME TypeOK, Stamped, Pushed, NEW d \in Device, Written(d)
  PROVE  Pushed'
<1>1. Logged' = Logged /\ LoggedRules' = LoggedRules /\ hwm' = hwm
  BY WrittenSets DEF Written, sync
<1>2. clock \in Nat
  BY DEF TypeOK
<1>3. \A e \in Device : rem'[e] = rem[e] \/ (clock < rem'[e].at /\ rem'[e] \in Reminder)
  BY DEF Written, NewRow, TypeOK
<1>4. \A e \in Device : rule'[e] = rule[e] \/ (clock < rule'[e].at /\ rule'[e] \in RuleRow)
  BY DEF Written, NewRule, TypeOK
<1>5. ASSUME NEW e \in Device
      PROVE  /\ Held(e)' /\ rem'[e].at <= hwm'[e] => rem'[e] \in Logged'
             /\ rule'[e].at <= hwm'[e] => rule'[e] \in LoggedRules' \/ rule'[e].at = 1
  <2>1. hwm[e] \in Nat /\ hwm[e] <= clock
    BY Types
  <2>2. rem'[e] = rem[e] \/ ~(rem'[e].at <= hwm[e])
    BY <1>2, <1>3, <2>1 DEF Reminder
  <2>3. rule'[e] = rule[e] \/ ~(rule'[e].at <= hwm[e])
    BY <1>2, <1>4, <2>1 DEF RuleRow
  <2> QED
    BY <1>1, <2>2, <2>3 DEF Pushed, Held
<1>6. ASSUME NEW q \in LoggedRules PROVE \E e \in Device : q.at <= rule'[e].at
  <2>1. PICK e \in Device : q.at <= rule[e].at
    BY DEF Pushed
  <2>2. q \in RuleRow /\ rule[e] \in RuleRow /\ rule[e].at <= clock
    BY LogTypes, Types DEF Stamped, Rules
  <2>3. q.at <= rule'[e].at
    BY <1>2, <1>4, <2>1, <2>2 DEF RuleRow
  <2> QED
    BY <2>3
<1> QED
  BY <1>1, <1>5, <1>6 DEF Pushed

\* A write is no weaker than what it replaces.
LEMMA WrittenPulled ==
  ASSUME TypeOK, Stamped, Pulled, NEW d \in Device, Written(d)
  PROVE  Pulled'
<1> SUFFICES ASSUME NEW e \in Device, NEW i \in 1 .. cursor'[e]
             PROVE  /\ log'[i].table = "reminders" /\ ~reopened' =>
                          NoWeaker(rem'[e], log'[i].row)
                    /\ log'[i].table = "reminder_rules" => log'[i].row.at <= rule'[e].at
  BY DEF Pulled, NoWeaker
<1>1. log' = log /\ cursor' = cursor /\ (reopened => reopened')
  BY DEF Written, sync
<1>2. i \in DOMAIN log
  BY <1>1, Types, LogTypes
<1>3. ASSUME log[i].table = "reminders", ~reopened' PROVE NoWeaker(rem'[e], log[i].row)
  <2>1. NoWeaker(rem[e], log[i].row)
    BY <1>1, <1>3 DEF Pulled
  <2>2. CASE rem'[e] = rem[e]
    BY <2>1, <2>2
  <2>3. CASE rem'[e] # rem[e]
    <3>1. /\ rem'[e] \in Reminder /\ clock < rem'[e].at
          /\ Held(e) /\ History(rem[e]) => History(rem'[e])
      BY <2>3, <1>3 DEF Written, NewRow, TypeOK
    <3>2. rem[e] # None /\ rem[e] \in Reminder
      BY <2>1, Types DEF NoWeaker, Held
    <3>3. log[i].row \in Reminder /\ log[i].row \in Logged
      BY <1>2, <1>3, LogTypes DEF Logged
    <3>4. rem[e].at <= clock
      BY <3>2 DEF Stamped, Versions
    <3>5. rem[e].at < rem'[e].at
      BY <3>1, <3>2, <3>4 DEF Reminder, TypeOK
    <3>6. NoWeaker(rem'[e], rem[e])
      BY <3>1, <3>2, <3>5, LaterIsNoWeaker DEF Held
    <3> QED
      BY <2>1, <3>1, <3>2, <3>3, <3>6, NoWeakerTransitive
  <2> QED
    BY <2>2, <2>3
<1>4. ASSUME log[i].table = "reminder_rules" PROVE log[i].row.at <= rule'[e].at
  <2>1. log[i].row.at <= rule[e].at
    BY <1>1, <1>4 DEF Pulled
  <2>2. rule[e].at <= clock /\ rule[e] \in RuleRow /\ clock \in Nat
    BY Types DEF Stamped, Rules
  <2>3. log[i].row \in RuleRow
    BY <1>2, <1>4, LogTypes
  <2>4. rule'[e] = rule[e] \/ (clock < rule'[e].at /\ rule'[e] \in RuleRow)
    BY DEF Written, NewRule, TypeOK
  <2> QED
    BY <2>1, <2>2, <2>3, <2>4 DEF RuleRow
<1> QED
  BY <1>1, <1>3, <1>4

\* What reconcile makes of one row.
LEMMA ReconciledIs ==
  ASSUME NEW v \in Reminder \cup {None}, NEW plan \in Nat \cup {None}, NEW stamp \in Nat,
         NEW w, w = Reconciled(v, plan, stamp)
  PROVE  /\ w = v \/ (w \in Reminder /\ w.at = stamp)
         /\ v # None => w # None /\ (w.done <=> v.done) /\ (History(v) => History(w))
         /\ v = None /\ w # None => plan # None /\ ~w.done /\ ~w.gone
         /\ v # None /\ w.gone /\ ~v.gone => plan = None
<1>1. CASE v = None
  <2>1. CASE plan # None
    <3>1. w = Minted(plan, stamp)
      BY <1>1, <2>1 DEF Reconciled
    <3>2. w \in Reminder /\ w.at = stamp /\ ~w.done /\ ~w.gone
      BY <2>1, <3>1 DEF Minted, Reminder
    <3> QED
      BY <1>1, <2>1, <3>2
  <2>2. CASE plan = None
    BY <1>1, <2>2 DEF Reconciled
  <2> QED
    BY <2>1, <2>2
<1>2. CASE v # None
  <2>1. v \in Reminder
    BY <1>2
  <2>2. CASE w = v
    BY <1>2, <2>2
  <2>3. CASE plan # None /\ w = [v EXCEPT !.due = plan, !.at = stamp]
    <3>1. w \in Reminder /\ w.at = stamp /\ w.done = v.done /\ w.gone = v.gone
          /\ w.snoozed = v.snoozed
      BY <2>1, <2>3 DEF Reminder
    <3> QED
      BY <1>2, <3>1, NoReminderAssumption DEF History
  <2>4. CASE w = [v EXCEPT !.gone = TRUE, !.at = stamp] /\ plan = None
    <3>1. w \in Reminder /\ w.at = stamp /\ w.done = v.done /\ w.gone
      BY <2>1, <2>4 DEF Reminder
    <3> QED
      BY <1>2, <2>4, <3>1, NoReminderAssumption DEF History
  <2> QED
    BY <1>2, <2>2, <2>3, <2>4 DEF Reconciled
<1> QED
  BY <1>1, <1>2

\* What a run finds wanted is a due day, or nothing.
LEMMA DesiredIs ==
  ASSUME TypeOK, NEW d \in Device
  PROVE  /\ Desired(d) \in Nat \cup {None}
         /\ Desired(d) # None <=> Wanted(rule[d], Today(d), RunUp)
<1>1. rule[d].due \in Nat /\ rule[d].due # None
  BY Types, NoReminderAssumption DEF RuleRow
<1> QED
  BY <1>1 DEF Desired

\* What a prune on d is excused by.
Blamed(d) == {x \in {"pull"} : partial[d]} \cup {x \in {"day"} : behind[d] > 0}
             \cup {x \in {"stale"} : Desired(d) # None}

\* A run's transaction that changes the row writes the row of its device alone.
LEMMA CommitTypes ==
  ASSUME TypeOK, NEW d \in Device, NEW plan \in plans[d], Commit(d, plan)
  PROVE  /\ TypeOK' /\ Written(d) /\ rule' = rule /\ rem' = [rem EXCEPT ![d] = rem'[d]]
         /\ plan \in Nat \cup {None}
         /\ \/ rem' = rem /\ excuses' = excuses
            \/ /\ rem'[d] = Reconciled(rem[d], plan, clock + 1)
               /\ excuses' = IF plan # None THEN excuses ELSE excuses \cup Blamed(d)
<1> DEFINE w == Reconciled(rem[d], plan, clock + 1)
<1>1. /\ rem[d] \in Reminder \cup {None} /\ plan \in Nat \cup {None}
      /\ clock \in Nat /\ clock + 1 \in Nat
  BY DEF TypeOK
<1>2. /\ UNCHANGED <<day, behind, rule, sync, bounds, reopened>>
      /\ plans' \in {plans, [plans EXCEPT ![d] = @ \ {plan}]}
  BY DEF Commit
<1>3. plans' \in [Device -> SUBSET (Nat \cup {None})]
  BY <1>2 DEF TypeOK
<1>4. \/ clock' = clock /\ rem' = rem /\ excuses' = excuses
      \/ /\ clock' = clock + 1 /\ rem' = [rem EXCEPT ![d] = w]
         /\ excuses' = IF plan # None THEN excuses ELSE excuses \cup Blamed(d)
  BY DEF Commit, Tick, Blamed
<1>5. /\ w = rem[d] \/ (w \in Reminder /\ w.at = clock + 1)
      /\ rem[d] # None => w # None /\ (w.done <=> rem[d].done)
                           /\ (History(rem[d]) => History(w))
  BY <1>1, ReconciledIs
<1>6. Held(d) /\ History(rem[d]) => History(w)
  BY <1>5 DEF Held
<1> HIDE DEF w
<1>7. clock' \in Nat /\ clock <= clock'
  BY <1>1, <1>4
<1>8. NewRow(d)
  <2>1. CASE rem' = rem
    BY <2>1 DEF NewRow
  <2>2. CASE rem' = [rem EXCEPT ![d] = w] /\ w = rem[d]
    BY <2>2 DEF NewRow, TypeOK
  <2>3. CASE clock' = clock + 1 /\ rem' = [rem EXCEPT ![d] = w] /\ w \in Reminder /\ w.at = clock + 1
    <3>1. clock < w.at /\ w.at <= clock'
      BY <1>1, <2>3
    <3> QED
      BY <1>6, <2>3, <3>1 DEF NewRow
  <2> QED
    BY <1>4, <1>5, <2>1, <2>2, <2>3
<1>9. rem' \in [Device -> Reminder \cup {None}]
  BY <1>1, <1>4, <1>5 DEF TypeOK
<1>10. excuses' \subseteq {"pull", "day", "stale", "rule"}
  BY <1>4 DEF TypeOK, Blamed
<1>11. \A h \in [Device -> 0 .. clock] : h \in [Device -> 0 .. clock']
  BY <1>1, <1>7
<1>14. hwm' \in [Device -> 0 .. clock']
  BY <1>2, <1>11 DEF TypeOK, sync
<1>12. TypeOK'
  BY <1>2, <1>3, <1>7, <1>9, <1>10, <1>14, SMTT(30) DEF TypeOK, sync, bounds
<1>13. rem' = [rem EXCEPT ![d] = rem'[d]] /\ (rem' = [rem EXCEPT ![d] = w] => rem'[d] = w)
  BY <1>4 DEF TypeOK
<1> QED
  BY <1>1, <1>2, <1>4, <1>7, <1>8, <1>12, <1>13 DEF Written, NewRule, w

\* A user's write is a row later than the one it changes.
LEMMA ActTypes ==
  ASSUME TypeOK, NEW d \in Device, NEW v \in Reminder, Act(d, v), v.at = clock + 1,
         reopened' \in BOOLEAN, reopened => reopened',
         Held(d) /\ History(rem[d]) /\ ~reopened' => History(v)
  PROVE  TypeOK' /\ Written(d) /\ rem' = [rem EXCEPT ![d] = v] /\ acts' = acts + 1
<1>1. clock \in Nat /\ clock' = clock + 1
  BY DEF TypeOK, Act, Tick
<1>2. rem' = [rem EXCEPT ![d] = v] /\ acts' = acts + 1
  BY DEF Act
<1>3. UNCHANGED <<day, behind, plans, rule, sync, saves, cuts, excuses>>
  BY DEF Act
<1>9. clock < v.at /\ v.at <= clock'
  BY <1>1
<1>4. NewRow(d)
  BY <1>2, <1>9 DEF NewRow
<1>5. rem' \in [Device -> Reminder \cup {None}]
  BY <1>2 DEF TypeOK
<1>6. \A h \in [Device -> 0 .. clock] : h \in [Device -> 0 .. clock']
  BY <1>1
<1>7. acts' \in Nat /\ acts' + saves + cuts <= MaxMoves
  BY <1>2, RemindersAssumption DEF Act, Move, TypeOK
<1>11. hwm' \in [Device -> 0 .. clock']
  BY <1>3, <1>6 DEF TypeOK, sync
<1>8. TypeOK'
  BY <1>1, <1>3, <1>5, <1>7, <1>11, SMTT(30) DEF TypeOK, sync
<1>10. clock <= clock'
  BY <1>1
<1> QED
  BY <1>1, <1>2, <1>3, <1>4, <1>8, <1>10 DEF Written, NewRule

\* A save writes the rule.
LEMMA SaveTypes ==
  ASSUME TypeOK, NEW d \in Device, NEW on \in BOOLEAN, NEW due \in Dues, Save(d, on, due)
  PROVE  /\ TypeOK' /\ Written(d) /\ rem' = rem
         /\ rule' = [rule EXCEPT ![d] = [at |-> clock + 1, on |-> on, due |-> due]]
<1> DEFINE r == [at |-> clock + 1, on |-> on, due |-> due]
<1>1. r \in RuleRow /\ r.at = clock + 1
  BY RemindersAssumption DEF RuleRow, TypeOK
<1>2. clock \in Nat /\ clock' = clock + 1 /\ rule' = [rule EXCEPT ![d] = r]
  BY DEF TypeOK, Save, Tick
<1> HIDE DEF r
<1>3. clock < r.at /\ r.at <= clock' /\ clock <= clock' /\ clock' \in Nat
  BY <1>1, <1>2
<1>4. NewRule(d)
  BY <1>1, <1>2, <1>3 DEF NewRule
<1>5. /\ UNCHANGED <<day, behind, plans, rem, sync, acts, cuts, reopened>>
      /\ saves' = saves + 1 /\ Move
      /\ excuses' = excuses \cup {x \in {"rule"} : rule[d].on}
  BY DEF Save
<1>6. rule' \in [Device -> RuleRow] /\ excuses' \subseteq {"pull", "day", "stale", "rule"}
  BY <1>1, <1>2, <1>5 DEF TypeOK
<1>7. \A h \in [Device -> 0 .. clock] : h \in [Device -> 0 .. clock']
  BY <1>2
<1>8. saves' \in Nat /\ acts + saves' + cuts <= MaxMoves
  BY <1>5, RemindersAssumption DEF Move, TypeOK
<1>10. hwm' \in [Device -> 0 .. clock']
  BY <1>5, <1>7 DEF TypeOK, sync
<1>9. TypeOK'
  BY <1>3, <1>5, <1>6, <1>8, <1>10, SMTT(30) DEF TypeOK, sync
<1> QED
  BY <1>2, <1>3, <1>4, <1>5, <1>9 DEF Written, NewRow, r

\* A write keeps the decision if it has the history of what it replaces.
LEMMA WrittenDecided ==
  ASSUME TypeOK, Decided, NEW d \in Device, Written(d), TypeOK',
         acts <= acts',
         acts' = 0 /\ rem' # rem => ~rem'[d].done,
         reopened' => acts' >= 2,
         acts' >= 1 /\ ~reopened' => acts >= 1 \/ (rem'[d] # None /\ History(rem'[d]))
  PROVE  Decided'
<1>1. acts \in Nat /\ acts' \in Nat
  BY DEF TypeOK
<1>2. ASSUME acts' = 0 PROVE \A v \in Versions' : ~v.done
  <2>1. acts = 0
    BY <1>1, <1>2
  <2> QED
    BY <1>2, <2>1, WrittenSets DEF Decided
<1>3. ASSUME acts' >= 1, ~reopened'
      PROVE  \E e \in Device : rem'[e] # None /\ History(rem'[e])
  <2>1. CASE rem'[d] # None /\ History(rem'[d])
    BY <2>1
  <2>2. CASE acts >= 1
    <3>1. ~reopened
      BY <1>3 DEF Written
    <3>2. PICK e \in Device : Held(e) /\ History(rem[e])
      BY <2>2, <3>1 DEF Decided
    <3>3. rem'[e] # None /\ History(rem'[e])
      BY <1>3, <3>2, NoReminderAssumption DEF Written, NewRow, TypeOK, Held
    <3> QED
      BY <3>3
  <2> QED
    BY <1>3, <2>1, <2>2
<1> QED
  BY <1>2, <1>3 DEF Decided, Held

\* A step that writes keeps what does not depend on the days and the rule.
LEMMA WrittenKeeps ==
  ASSUME IInv, NEW d \in Device, Written(d), TypeOK', Decided', behind' = behind,
         Calm' => LastOn' /\ Follows'
  PROVE  IInv'
BY WrittenStamped, WrittenPushed, WrittenPulled DEF IInv

\* A run's transaction mints or refreshes by what it found wanted, which while
\* calm the device still has the rule for, the last; and prunes only what the
\* device has no use for now.
LEMMA CommitKeeps ==
  ASSUME IInv, NEW d \in Device, NEW plan \in plans[d], Commit(d, plan)
  PROVE  IInv'
<1>1. /\ TypeOK' /\ Written(d) /\ rule' = rule /\ rem' = [rem EXCEPT ![d] = rem'[d]]
      /\ plan \in Nat \cup {None}
      /\ \/ rem' = rem /\ excuses' = excuses
         \/ /\ rem'[d] = Reconciled(rem[d], plan, clock + 1)
            /\ excuses' = IF plan # None THEN excuses ELSE excuses \cup Blamed(d)
  BY CommitTypes DEF IInv
<1>2. /\ acts' = acts /\ reopened' = reopened /\ behind' = behind /\ day' = day
      /\ partial' = partial /\ log' = log
      /\ plans' \in {plans, [plans EXCEPT ![d] = @ \ {plan}]}
  BY DEF Commit, bounds, sync
<1>3. rem[d] \in Reminder \cup {None} /\ clock \in Nat /\ clock + 1 \in Nat
  BY DEF TypeOK, IInv
<1>4. rem' # rem =>
         /\ rem'[d] # None
         /\ rem[d] # None => (rem'[d].done <=> rem[d].done)
         /\ rem[d] = None => plan # None /\ ~rem'[d].done /\ ~rem'[d].gone
         /\ rem[d] # None /\ rem'[d].gone /\ ~rem[d].gone => plan = None
  <2> DEFINE w == Reconciled(rem[d], plan, clock + 1)
  <2>1. plan \in Nat \cup {None}
    BY <1>1
  <2>2. /\ w = rem[d] \/ (w \in Reminder /\ w.at = clock + 1)
        /\ rem[d] # None => w # None /\ (w.done <=> rem[d].done)
        /\ rem[d] = None /\ w # None => plan # None /\ ~w.done /\ ~w.gone
        /\ rem[d] # None /\ w.gone /\ ~rem[d].gone => plan = None
    BY <1>3, <2>1, ReconciledIs
  <2>3. rem' # rem => rem'[d] = w /\ w # rem[d]
    BY <1>1 DEF IInv, TypeOK
  <2> HIDE DEF w
  <2>4. w # rem[d] => w # None
    BY <2>2, NoReminderAssumption
  <2> QED
    BY <2>2, <2>3, <2>4
<1>5. Decided'
  <2>1. acts = 0 /\ rem' # rem => ~rem'[d].done
    <3>1. acts = 0 /\ rem[d] # None => ~rem[d].done
      BY DEF IInv, Decided, Versions
    <3> QED
      BY <1>4, <3>1
  <2>2. reopened => acts >= 2
    BY DEF IInv, Decided
  <2>3. acts <= acts'
    BY <1>2 DEF IInv, TypeOK
  <2> QED
    BY <1>1, <1>2, <2>1, <2>2, <2>3, WrittenDecided DEF IInv
<1>6. \A e \in Device : plans'[e] \subseteq plans[e]
  BY <1>2 DEF IInv, TypeOK
<1>7. ASSUME Calm', rem' = rem PROVE LastOn' /\ Follows'
  <2>1. Calm
    <3>1. excuses \subseteq excuses'
      BY <1>1
    <3> QED
      BY <1>2, <1>7, <3>1 DEF Calm
  <2>2. LastOn /\ Follows
    BY <2>1 DEF IInv
  <2>3. /\ Rules' = Rules /\ Logged' = Logged /\ LoggedRules' = LoggedRules
        /\ Versions' = Versions
    BY <1>1, <1>2, <1>7 DEF Rules, Logged, LoggedRules, Versions
  <2>4. \A e \in Device : plans'[e] \subseteq {None} \/ Intends(e)'
    BY <1>1, <1>2, <1>6, <2>2 DEF Follows, Intends
  <2> QED
    BY <1>1, <1>2, <1>7, <2>2, <2>3, <2>4 DEF LastOn, Follows, OnLogged, AllOn, Held
<1>8. ASSUME Calm', rem' # rem PROVE LastOn' /\ Follows'
  <2>1. Calm /\ (plan = None => ~partial[d] /\ behind[d] = 0 /\ Desired(d) = None)
    <3>1. behind[d] \in Nat
      BY Types DEF IInv
    <3>2. excuses = {} /\ acts = 0 /\ (plan = None => Blamed(d) = {})
      BY <1>1, <1>2, <1>8 DEF Calm
    <3>3. plan = None => ~(behind[d] > 0) /\ ~partial[d] /\ ~(Desired(d) # None)
      BY <3>2 DEF Blamed
    <3> QED
      BY <3>1, <3>2, <3>3 DEF Calm
  <2>2. LastOn /\ Follows
    BY <2>1 DEF IInv
  <2>3. /\ plan # None => Intends(d)
        /\ plan = None => Today(d) = day /\ ~Wanted(rule[d], day, RunUp)
    <3>1. plan # None => Intends(d)
      BY <2>2 DEF Follows
    <3>2. plan = None => Today(d) = day
      BY <2>1, Types DEF IInv
    <3> QED
      BY <2>1, <3>1, <3>2, DesiredIs DEF IInv
  <2>4. /\ Rules' = Rules /\ Logged' = Logged /\ LoggedRules' = LoggedRules
        /\ \A v \in Versions' : v \in Versions \/ (v = rem'[d] /\ rem' # rem)
        /\ \A e \in Device \ {d} : rem'[e] = rem[e]
    BY <1>1, <1>2, WrittenSets DEF IInv, Rules
  <2>5. LastOn'
    BY <2>2, <2>4 DEF LastOn
  <2>6. rem'[d] # None /\ rule[d].on
    BY <1>4, <1>8, <2>1, <2>2, <2>3 DEF Follows, Held, Intends
  <2>7. ASSUME Versions' # {} PROVE \E q \in Rules : q.on /\ q.due <= day + RunUp
    <3>1. CASE Versions # {}
      BY <2>2, <3>1 DEF Follows
    <3>2. CASE Versions = {}
      <4>1. rem' # rem /\ rem'[d] # None
        BY <1>4, <1>8
      <4>2. rem[d] = None
        BY <3>2 DEF Versions
      <4>3. rule[d] \in Rules
        BY DEF Rules
      <4> QED
        BY <1>4, <2>3, <4>1, <4>2, <4>3 DEF Intends
    <3> QED
      BY <3>1, <3>2
  <2>8. ASSUME day <= LastDay PROVE \A v \in Versions' : ~v.gone
    <3> SUFFICES ASSUME rem' # rem, rem'[d].gone PROVE FALSE
      BY <2>2, <2>4, <2>8 DEF Follows
    <3>1. rem'[d] # None /\ rem[d] # None
      BY <1>4, <1>8
    <3>2. ~rem[d].gone
      BY <2>2, <2>8, <3>1 DEF Follows, Versions
    <3>3. ~Wanted(rule[d], day, RunUp)
      BY <1>4, <2>3, <3>1, <3>2
    <3>4. rule[d].on
      BY <2>6
    <3>5. PICK q \in Rules : q.on /\ q.due <= day + RunUp
      BY <2>2, <3>1 DEF Follows, Versions
    <3>6. q = rule[d]
      BY <2>2, <3>4, <3>5 DEF LastOn, Rules
    <3> QED
      BY <2>8, <3>3, <3>4, <3>5, <3>6 DEF Wanted
  <2>9. (OnLogged <=> OnLogged') /\ (AllOn <=> AllOn')
    BY <1>1, <2>4 DEF OnLogged, AllOn
  <2>10. \A e \in Device : rem'[e] # None => rule[e].on \/ OnLogged'
    BY <2>2, <2>4, <2>6, <2>9 DEF Follows, Held
  <2>11. \A e \in Device : rem'[e] # None /\ ~partial[e] => rule[e].on
    BY <2>2, <2>4, <2>6 DEF Follows, Held
  <2>12. Logged' # {} => OnLogged' \/ AllOn'
    BY <2>2, <2>4, <2>9 DEF Follows
  <2>13. \A e \in Device : plans'[e] \subseteq {None} \/ Intends(e)'
    BY <1>1, <1>2, <1>6, <2>2 DEF Follows, Intends
  <2>14. Follows'
    BY <1>1, <1>2, <2>4, <2>7, <2>8, <2>10, <2>11, <2>12, <2>13 DEF Follows, Held
  <2> QED
    BY <2>5, <2>14
<1> QED
  BY <1>1, <1>2, <1>5, <1>7, <1>8, WrittenKeeps

\* A run that reads changes nothing that is stored.
LEMMA ComputeKeeps ==
  ASSUME IInv, NEW d \in Device, Compute(d)
  PROVE  IInv'
<1>1. UNCHANGED <<day, behind, clock, rule, rem, hwm, log, cursor, partial, acts, saves, cuts,
                  reopened, excuses>>
  BY DEF Compute, local, sync, bounds
<1>2. plans' \in [Device -> SUBSET (Nat \cup {None})]
  BY DesiredIs DEF Compute, IInv, TypeOK
<1>3. /\ Logged' = Logged /\ LoggedRules' = LoggedRules
      /\ Versions' = Versions /\ Rules' = Rules
  BY <1>1 DEF Logged, LoggedRules, Versions, Rules
<1>4. TypeOK' /\ Stamped' /\ Pushed' /\ Pulled' /\ Decided'
  BY <1>1, <1>2, <1>3 DEF IInv, TypeOK, Stamped, Pushed, Pulled, Decided, Held
<1>5. ASSUME Calm PROVE LastOn' /\ Follows'
  <2>1. LastOn /\ Follows
    BY <1>5 DEF IInv
  <2>2. \A e \in Device \ {d} : plans'[e] = plans[e]
    BY DEF Compute, IInv, TypeOK
  <2>3. plans'[d] = plans[d] \cup {Desired(d)}
    BY DEF Compute, IInv, TypeOK
  <2>4. Desired(d) = None \/ Intends(d)
    <3>1. Desired(d) # None => Wanted(rule[d], Today(d), RunUp)
      BY DesiredIs DEF IInv
    <3>2. Today(d) \in Nat /\ Today(d) <= day /\ day \in Nat /\ RunUp \in Nat
      BY Types, RemindersAssumption DEF IInv, Today
    <3>3. rule[d].due \in Nat
      BY Types DEF IInv, RuleRow
    <3> QED
      BY <3>1, <3>2, <3>3 DEF Wanted, Intends
  <2>5. \A e \in Device : plans'[e] \subseteq {None} \/ Intends(e)
    BY <2>1, <2>2, <2>3, <2>4 DEF Follows
  <2>6. \A e \in Device : Intends(e)' <=> Intends(e)
    BY <1>1 DEF Intends
  <2> QED
    BY <1>1, <1>3, <2>1, <2>5, <2>6 DEF LastOn, Follows, OnLogged, AllOn, Held
<1> QED
  BY <1>1, <1>4, <1>5 DEF IInv, Calm

\* A save is the last rule there is; while calm, the first that is on.
LEMMA SaveKeeps ==
  ASSUME IInv, NEW d \in Device, NEW on \in BOOLEAN, NEW due \in Dues, Save(d, on, due)
  PROVE  IInv'
<1> DEFINE r == [at |-> clock + 1, on |-> on, due |-> due]
<1>1. TypeOK' /\ Written(d) /\ rem' = rem /\ rule' = [rule EXCEPT ![d] = r]
  BY SaveTypes DEF IInv
<1>2. /\ behind' = behind /\ day' = day /\ partial' = partial
      /\ acts' = acts /\ reopened' = reopened
      /\ excuses' = excuses \cup {x \in {"rule"} : rule[d].on}
      /\ \A e \in Device : rule[e].at <= rule[d].at
  BY DEF Save, sync
<1>3. rule'[d] = r
  BY <1>1 DEF IInv, TypeOK
<1>4. clock \in Nat /\ r.at = clock + 1
  BY DEF TypeOK, IInv
<1> HIDE DEF r
<1>5. Decided'
  <2>1. reopened => acts >= 2
    BY DEF IInv, Decided
  <2>2. acts <= acts'
    BY <1>2 DEF IInv, TypeOK
  <2> QED
    BY <1>1, <1>2, <2>1, <2>2, WrittenDecided DEF IInv
<1>6. ASSUME Calm' PROVE LastOn' /\ Follows'
  <2>1. Calm /\ ~rule[d].on
    <3>1. excuses = {} /\ acts = 0 /\ {x \in {"rule"} : rule[d].on} = {}
      BY <1>2, <1>6 DEF Calm
    <3> QED
      BY <3>1 DEF Calm
  <2>2. LastOn /\ Follows
    BY <2>1 DEF IInv
  <2>3. \A q \in Rules : ~q.on
    <3> SUFFICES ASSUME NEW q \in Rules, q.on PROVE FALSE
      OBVIOUS
    <3>1. rule[d] \in Rules /\ rule[d].at < q.at
      BY <2>1, <2>2 DEF LastOn, Rules
    <3>2. \E e \in Device : q.at <= rule[e].at
      <4>1. CASE q \in LoggedRules
        BY <4>1 DEF IInv, Pushed
      <4>2. CASE \E e \in Device : q = rule[e]
        <5>1. PICK e \in Device : q = rule[e]
          BY <4>2
        <5>2. q.at <= rule[e].at
          BY <5>1, Types DEF RuleRow, IInv
        <5> QED
          BY <5>2
      <4> QED
        BY <4>1, <4>2 DEF Rules
    <3>3. PICK e \in Device : q.at <= rule[e].at
      BY <3>2
    <3>4. rule[e].at \in Nat /\ rule[d].at \in Nat /\ q.at \in Nat
      BY Types, LogTypes DEF RuleRow, Rules, IInv
    <3> QED
      BY <1>2, <3>1, <3>3, <3>4
  <2>4. Versions = {} /\ Logged = {} /\ \A e \in Device : rem[e] = None
    BY <2>2, <2>3 DEF Follows, Versions
  <2>5. /\ Logged' = Logged /\ \A v \in Versions' : v \in Versions
        /\ \A q \in Rules' : q \in Rules \/ q = r
    BY <1>1, <1>3, WrittenSets DEF IInv
  <2>6. \A q \in Rules : q.at < r.at
    <3>1. \A q \in Rules : q.at <= clock /\ q.at \in Nat
      BY Types, LogTypes DEF IInv, Stamped, RuleRow, Rules
    <3> QED
      BY <1>4, <3>1
  <2>7. LastOn'
    BY <2>3, <2>5, <2>6 DEF LastOn
  <2>8. \A e \in Device : plans'[e] \subseteq {None}
    <3>1. plans' = plans
      BY DEF Save
    <3>2. \A e \in Device : rule[e] \in Rules
      BY DEF Rules
    <3> QED
      BY <2>2, <2>3, <3>1, <3>2 DEF Follows, Intends
  <2> QED
    BY <1>1, <2>4, <2>5, <2>7, <2>8 DEF Follows, Held
<1> QED
  BY <1>1, <1>2, <1>5, <1>6, WrittenKeeps

\* What the four acts have in common.
LEMMA ActKeeps ==
  ASSUME IInv, NEW d \in Device, NEW v \in Reminder, Act(d, v), v.at = clock + 1,
         reopened' \in BOOLEAN, reopened => reopened', reopened' => reopened \/ acts >= 1,
         ~reopened' => History(v)
  PROVE  IInv'
<1>1. TypeOK' /\ Written(d) /\ rem' = [rem EXCEPT ![d] = v] /\ acts' = acts + 1
  BY ActTypes DEF IInv
<1>2. behind' = behind /\ acts \in Nat /\ rem'[d] = v /\ v # None
  BY <1>1, NoReminderAssumption DEF Act, IInv, TypeOK
<1>3. ~Calm'
  BY <1>1, <1>2 DEF Calm
<1>4. reopened => acts >= 2
  BY DEF IInv, Decided
<1>5. Decided'
  BY <1>1, <1>2, <1>4, WrittenDecided DEF IInv
<1> QED
  BY <1>1, <1>2, <1>3, <1>5, WrittenKeeps

\* What the user acts on is a version.
LEMMA ShownIs ==
  ASSUME IInv, NEW d \in Device
  PROVE  Shown(d) \in Reminder
<1>1. rule[d] \in RuleRow /\ clock \in Nat /\ (Held(d) => rem[d] \in Reminder)
  BY Types DEF IInv
<1> QED
  BY <1>1 DEF Shown, Minted, Reminder, RuleRow

\* The four acts: each leaves history, but for the one that clears it.
LEMMA CompleteKeeps ==
  ASSUME IInv, NEW d \in Device, Complete(d)
  PROVE  IInv'
<1> DEFINE v == [Shown(d) EXCEPT !.done = TRUE, !.snoozed = FALSE, !.at = clock + 1]
<1>1. Act(d, v) /\ reopened' = reopened
  BY DEF Complete
<1>2. Shown(d) \in Reminder /\ clock + 1 \in Nat
  BY ShownIs DEF IInv, TypeOK
<1>3. v \in Reminder /\ v.at = clock + 1 /\ History(v)
  BY <1>2 DEF Reminder, History
<1> HIDE DEF v
<1> QED
  BY <1>1, <1>3, ActKeeps DEF IInv, TypeOK

\* Putting off.
LEMMA SnoozeKeeps ==
  ASSUME IInv, NEW d \in Device, Snooze(d)
  PROVE  IInv'
<1> DEFINE v == [Shown(d) EXCEPT !.snoozed = TRUE, !.at = clock + 1]
<1>1. Act(d, v) /\ reopened' = reopened
  BY DEF Snooze
<1>2. Shown(d) \in Reminder /\ clock + 1 \in Nat
  BY ShownIs DEF IInv, TypeOK
<1>3. v \in Reminder /\ v.at = clock + 1 /\ History(v)
  BY <1>2 DEF Reminder, History
<1> HIDE DEF v
<1> QED
  BY <1>1, <1>3, ActKeeps DEF IInv, TypeOK

\* Dismissing.
LEMMA DismissKeeps ==
  ASSUME IInv, NEW d \in Device, Dismiss(d)
  PROVE  IInv'
<1> DEFINE v == [Shown(d) EXCEPT !.gone = TRUE, !.at = clock + 1]
<1>1. Act(d, v) /\ reopened' = reopened
  BY DEF Dismiss
<1>2. Shown(d) \in Reminder /\ clock + 1 \in Nat
  BY ShownIs DEF IInv, TypeOK
<1>3. v \in Reminder /\ v.at = clock + 1 /\ History(v)
  BY <1>2 DEF Reminder, History
<1> HIDE DEF v
<1> QED
  BY <1>1, <1>3, ActKeeps DEF IInv, TypeOK

\* What is unticked was ticked: it takes two acts.
LEMMA ReopenKeeps ==
  ASSUME IInv, NEW d \in Device, Reopen(d)
  PROVE  IInv'
<1> DEFINE v == [rem[d] EXCEPT !.done = FALSE, !.at = clock + 1]
<1>1. Act(d, v) /\ reopened' = TRUE /\ OnList(d) /\ rem[d].done
  BY DEF Reopen
<1>2. rem[d] \in Reminder /\ clock + 1 \in Nat
  BY <1>1, Types DEF OnList, IInv, TypeOK
<1>3. v \in Reminder /\ v.at = clock + 1
  BY <1>2 DEF Reminder
<1>4. acts >= 1
  <2>1. acts # 0
    BY <1>1 DEF OnList, Held, IInv, Decided, Versions
  <2> QED
    BY <2>1 DEF IInv, TypeOK
<1> HIDE DEF v
<1> QED
  BY <1>1, <1>3, <1>4, ActKeeps DEF IInv, TypeOK

-----------------------------------------------------------------------------
(* A sync.                                                                 *)

RowNews(d) == Held(d) /\ rem[d].at > hwm[d]
RuleNews(d) == rule[d].at > hwm[d]
RowRecord(d) == [table |-> "reminders", row |-> rem[d]]
RuleRecord(d) == [table |-> "reminder_rules", row |-> rule[d]]

\* What a device pushes is its row and its rule, if they are news.
LEMMA ChangedIs ==
  ASSUME TypeOK, NEW d \in Device
  PROVE  /\ Changed(d) \in Seq(Record) /\ Len(Changed(d)) \in 0 .. 2
         /\ \A i \in 1 .. Len(Changed(d)) : \/ Changed(d)[i] = RowRecord(d) /\ RowNews(d)
                                            \/ Changed(d)[i] = RuleRecord(d) /\ RuleNews(d)
         /\ RowNews(d) => \E i \in 1 .. Len(Changed(d)) : Changed(d)[i] = RowRecord(d)
         /\ RuleNews(d) => \E i \in 1 .. Len(Changed(d)) : Changed(d)[i] = RuleRecord(d)
         /\ Changed(d) = <<>> => ~RowNews(d) /\ ~RuleNews(d)
<1> DEFINE a == IF RowNews(d) THEN <<RowRecord(d)>> ELSE <<>>
           b == IF RuleNews(d) THEN <<RuleRecord(d)>> ELSE <<>>
<1>1. Changed(d) = a \o b
  BY DEF Changed, RowNews, RuleNews, RowRecord, RuleRecord
<1>2. RowNews(d) => RowRecord(d) \in Record
  BY Types DEF RowNews, RowRecord, Record
<1>3. RuleRecord(d) \in Record
  BY Types DEF RuleRecord, Record
<1>4. a \in Seq(Record) /\ b \in Seq(Record)
  BY <1>2, <1>3
<1>5. /\ RowNews(d) => Len(a) = 1 /\ a[1] = RowRecord(d)
      /\ ~RowNews(d) => Len(a) = 0
      /\ RuleNews(d) => Len(b) = 1 /\ b[1] = RuleRecord(d)
      /\ ~RuleNews(d) => Len(b) = 0
  OBVIOUS
<1> HIDE DEF a, b
<1>6. /\ a \o b \in Seq(Record) /\ Len(a \o b) = Len(a) + Len(b)
      /\ \A i \in 1 .. Len(a) + Len(b) :
            (a \o b)[i] = IF i <= Len(a) THEN a[i] ELSE b[i - Len(a)]
  BY <1>4, ConcatProperties
<1>7. /\ Len(a) = 0 \/ (Len(a) = 1 /\ RowNews(d))
      /\ Len(b) = 0 \/ (Len(b) = 1 /\ RuleNews(d))
  BY <1>5
<1>14. Len(a) \in 0 .. 1 /\ Len(b) \in 0 .. 1
  BY <1>7
<1>13. Len(Changed(d)) \in 0 .. 2
  BY <1>1, <1>6, <1>7
<1>8. \A i \in 1 .. Len(Changed(d)) : \/ Changed(d)[i] = RowRecord(d) /\ RowNews(d)
                                      \/ Changed(d)[i] = RuleRecord(d) /\ RuleNews(d)
  <2> SUFFICES ASSUME NEW i \in 1 .. Len(a) + Len(b)
               PROVE  \/ (a \o b)[i] = RowRecord(d) /\ RowNews(d)
                      \/ (a \o b)[i] = RuleRecord(d) /\ RuleNews(d)
    BY <1>1, <1>6
  <2>3. \A m, n \in 0 .. 1 : \A j \in 1 .. m + n :
           (j <= m => j = 1 /\ m = 1) /\ (~(j <= m) => j - m = 1 /\ n = 1)
    OBVIOUS
  <2>1. CASE i <= Len(a)
    <3>1. i = 1 /\ Len(a) = 1
      BY <1>14, <2>1, <2>3
    <3> QED
      BY <1>5, <1>6, <1>7, <2>1, <3>1
  <2>2. CASE ~(i <= Len(a))
    <3>1. i - Len(a) = 1 /\ Len(b) = 1
      BY <1>14, <2>2, <2>3
    <3> QED
      BY <1>5, <1>6, <1>7, <2>2, <3>1
  <2> QED
    BY <2>1, <2>2
<1>9. ASSUME RowNews(d) PROVE \E i \in 1 .. Len(Changed(d)) : Changed(d)[i] = RowRecord(d)
  <2>1. 1 \in 1 .. Len(a) + Len(b) /\ 1 <= Len(a)
    BY <1>5, <1>7, <1>9
  <2> QED
    BY <1>1, <1>5, <1>6, <1>9, <2>1
<1>10. ASSUME RuleNews(d) PROVE \E i \in 1 .. Len(Changed(d)) : Changed(d)[i] = RuleRecord(d)
  <2>1. /\ Len(a) + 1 \in 1 .. Len(a) + Len(b) /\ ~(Len(a) + 1 <= Len(a))
        /\ Len(a) + 1 - Len(a) = 1
    BY <1>5, <1>7, <1>10
  <2>2. (a \o b)[Len(a) + 1] = b[1]
    BY <1>6, <2>1
  <2> QED
    BY <1>1, <1>5, <1>6, <1>10, <2>1, <2>2
<1>11. Changed(d) \in Seq(Record)
  BY <1>1, <1>6
<1>12. Changed(d) = <<>> => ~RowNews(d) /\ ~RuleNews(d)
  <2>1. Changed(d) = <<>> => Len(Changed(d)) = 0
    OBVIOUS
  <2> QED
    BY <1>9, <1>10, <2>1
<1> QED
  BY <1>8, <1>9, <1>10, <1>11, <1>12, <1>13

\* The log after the push.
LEMMA SentIs ==
  ASSUME TypeOK, NEW d \in Device
  PROVE  /\ Sent(d) \in Seq(Record) /\ Len(Sent(d)) \in Nat /\ Len(log) <= Len(Sent(d))
         /\ DOMAIN Sent(d) = 1 .. Len(Sent(d))
         /\ \A i \in 1 .. Len(log) : Sent(d)[i] = log[i]
         /\ \A i \in 1 .. Len(Sent(d)) : i > Len(log) =>
               \/ Sent(d)[i] = RowRecord(d) /\ RowNews(d)
               \/ Sent(d)[i] = RuleRecord(d) /\ RuleNews(d)
         /\ RowNews(d) => \E i \in 1 .. Len(Sent(d)) : Sent(d)[i] = RowRecord(d)
         /\ RuleNews(d) => \E i \in 1 .. Len(Sent(d)) : Sent(d)[i] = RuleRecord(d)
<1> DEFINE c == Changed(d)
<1>1. log \in Seq(Record) /\ c \in Seq(Record) /\ Len(c) \in Nat /\ Len(log) \in Nat
  BY ChangedIs DEF TypeOK
<1>2. /\ Sent(d) = log \o c
      /\ \A i \in 1 .. Len(c) : \/ c[i] = RowRecord(d) /\ RowNews(d)
                                \/ c[i] = RuleRecord(d) /\ RuleNews(d)
      /\ RowNews(d) => \E i \in 1 .. Len(c) : c[i] = RowRecord(d)
      /\ RuleNews(d) => \E i \in 1 .. Len(c) : c[i] = RuleRecord(d)
  BY ChangedIs DEF Sent
<1> HIDE DEF c
<1>3. /\ log \o c \in Seq(Record) /\ Len(log \o c) = Len(log) + Len(c)
      /\ \A i \in 1 .. Len(log) + Len(c) :
            (log \o c)[i] = IF i <= Len(log) THEN log[i] ELSE c[i - Len(log)]
  BY <1>1, ConcatProperties
<1>4. DOMAIN Sent(d) = 1 .. Len(Sent(d))
  BY <1>2, <1>3
<1>5. \A i \in 1 .. Len(c) : Len(log) + i \in 1 .. Len(log) + Len(c)
                             /\ (log \o c)[Len(log) + i] = c[i]
  <2> TAKE i \in 1 .. Len(c)
  <2>1. /\ Len(log) + i \in 1 .. Len(log) + Len(c) /\ ~(Len(log) + i <= Len(log))
        /\ Len(log) + i - Len(log) = i
    BY <1>1
  <2> QED
    BY <1>3, <2>1
<1>6. \A i \in 1 .. Len(log) : i \in 1 .. Len(log) + Len(c) /\ i <= Len(log)
  BY <1>1
<1>7. \A i \in 1 .. Len(log) : (log \o c)[i] = log[i]
  BY <1>3, <1>6
<1>8. \A i \in 1 .. Len(log) + Len(c) : i > Len(log) =>
         i - Len(log) \in 1 .. Len(c) /\ (log \o c)[i] = c[i - Len(log)]
  <2> SUFFICES ASSUME NEW i \in 1 .. Len(log) + Len(c), i > Len(log)
               PROVE  i - Len(log) \in 1 .. Len(c) /\ (log \o c)[i] = c[i - Len(log)]
    OBVIOUS
  <2>1. i - Len(log) \in 1 .. Len(c) /\ ~(i <= Len(log))
    BY <1>1
  <2> QED
    BY <1>3, <2>1
<1>9. \A i \in 1 .. Len(Sent(d)) : i > Len(log) =>
               \/ Sent(d)[i] = RowRecord(d) /\ RowNews(d)
               \/ Sent(d)[i] = RuleRecord(d) /\ RuleNews(d)
  BY <1>2, <1>3, <1>8
<1>10. RowNews(d) => \E i \in 1 .. Len(Sent(d)) : Sent(d)[i] = RowRecord(d)
  BY <1>2, <1>3, <1>5
<1>11. RuleNews(d) => \E i \in 1 .. Len(Sent(d)) : Sent(d)[i] = RuleRecord(d)
  BY <1>2, <1>3, <1>5
<1>12. Len(Sent(d)) \in Nat /\ Len(log) <= Len(Sent(d))
  BY <1>1, <1>2, <1>3
<1> QED
  BY <1>2, <1>3, <1>4, <1>7, <1>9, <1>10, <1>11, <1>12

\* The mark is the greatest of what was pushed.
LEMMA MarkIs ==
  ASSUME TypeOK, NEW d \in Device,
         NEW m, m = Max({hwm[d]} \cup {Changed(d)[i].row.at : i \in DOMAIN Changed(d)})
  PROVE  /\ m \in Nat /\ hwm[d] <= m
         /\ m = hwm[d] \/ (m = rem[d].at /\ RowNews(d)) \/ (m = rule[d].at /\ RuleNews(d))
<1> DEFINE S == {hwm[d]} \cup {Changed(d)[i].row.at : i \in DOMAIN Changed(d)}
<1>1. DOMAIN Changed(d) = 1 .. Len(Changed(d))
  BY ChangedIs
<1>2. \A i \in DOMAIN Changed(d) : \/ Changed(d)[i].row.at = rem[d].at /\ RowNews(d)
                                   \/ Changed(d)[i].row.at = rule[d].at /\ RuleNews(d)
  <2> SUFFICES ASSUME NEW i \in 1 .. Len(Changed(d))
               PROVE  \/ Changed(d)[i].row.at = rem[d].at /\ RowNews(d)
                      \/ Changed(d)[i].row.at = rule[d].at /\ RuleNews(d)
    BY <1>1
  <2>1. \/ Changed(d)[i] = RowRecord(d) /\ RowNews(d)
        \/ Changed(d)[i] = RuleRecord(d) /\ RuleNews(d)
    BY ChangedIs
  <2>2. RowRecord(d).row = rem[d] /\ RuleRecord(d).row = rule[d]
    BY DEF RowRecord, RuleRecord
  <2> QED
    BY <2>1, <2>2
<1>3. \A x \in S : \/ x = hwm[d] \/ (x = rem[d].at /\ RowNews(d))
                   \/ (x = rule[d].at /\ RuleNews(d))
  BY <1>2
<1>4. /\ hwm[d] \in Nat /\ rule[d].at \in Nat
      /\ RowNews(d) => rem[d].at \in Nat
  BY Types DEF RowNews, Reminder, RuleRow
<1>5. hwm[d] \in S /\ S \subseteq Nat
  BY <1>3, <1>4
<1> HIDE DEF S
<1>6. \E x \in S : \A y \in S : x >= y
  <2> DEFINE h == hwm[d]
             x == IF RowNews(d) /\ rem[d].at \in S THEN rem[d].at ELSE h
             y == IF rule[d].at \in S THEN rule[d].at ELSE h
  <2>1. \A z \in S : z = h \/ z = x \/ z = y
    BY <1>3
  <2>2. h \in S /\ x \in S /\ y \in S
    BY <1>5
  <2>3. h \in Nat /\ x \in Nat /\ y \in Nat
    BY <1>5, <2>2
  <2> HIDE DEF h, x, y
  <2>4. CASE x >= y /\ x >= h
    BY <2>1, <2>2, <2>3, <2>4
  <2>5. CASE y >= x /\ y >= h
    BY <2>1, <2>2, <2>3, <2>5
  <2>6. CASE h >= x /\ h >= y
    BY <2>1, <2>2, <2>3, <2>6
  <2> QED
    BY <2>3, <2>4, <2>5, <2>6
<1>7. Max(S) \in S /\ \A y \in S : Max(S) >= y
  BY <1>6 DEF Max
<1>8. m = Max(S)
  BY DEF S
<1> QED
  BY <1>3, <1>5, <1>7, <1>8

\* What a pull takes is rows of the table, from the log after the push.
LEMMA GotIs ==
  ASSUME TypeOK, NEW d \in Device, NEW upto \in cursor[d] .. Len(Sent(d))
  PROVE  /\ Got(d, upto, "reminders") \subseteq Reminder
         /\ Got(d, upto, "reminder_rules") \subseteq RuleRow
         /\ \A table : \A v \in Got(d, upto, table) :
               \E i \in 1 .. Len(Sent(d)) : Sent(d)[i].row = v /\ Sent(d)[i].table = table
         /\ \A i \in cursor[d] + 1 .. upto : Sent(d)[i].row \in Got(d, upto, Sent(d)[i].table)
<1>1. cursor[d] \in Nat /\ Len(Sent(d)) \in Nat /\ Sent(d) \in Seq(Record)
  BY Types, SentIs
<1>2. \A i \in cursor[d] + 1 .. upto : i \in 1 .. Len(Sent(d))
  BY <1>1
<1>3. \A i \in 1 .. Len(Sent(d)) : Sent(d)[i] \in Record
  BY <1>1
<1>4. \A table : \A v \in Got(d, upto, table) :
               \E i \in 1 .. Len(Sent(d)) : Sent(d)[i].row = v /\ Sent(d)[i].table = table
  BY <1>2 DEF Got
<1>5. \A i \in 1 .. Len(Sent(d)) :
         /\ Sent(d)[i].table = "reminders" => Sent(d)[i].row \in Reminder
         /\ Sent(d)[i].table = "reminder_rules" => Sent(d)[i].row \in RuleRow
  BY <1>3 DEF Record
<1>6. /\ Got(d, upto, "reminders") \subseteq Reminder
      /\ Got(d, upto, "reminder_rules") \subseteq RuleRow
  BY <1>4, <1>5
<1>7. \A i \in cursor[d] + 1 .. upto : Sent(d)[i].row \in Got(d, upto, Sent(d)[i].table)
  BY DEF Got
<1> QED
  BY <1>4, <1>6, <1>7

\* What a sync leaves of the row and the rule.
LEMMA SyncMerges ==
  ASSUME TypeOK, NEW d \in Device, NEW upto \in cursor[d] .. Len(Sent(d)), Sync(d, upto)
  PROVE  /\ rem' = [rem EXCEPT ![d] = rem'[d]] /\ rule' = [rule EXCEPT ![d] = rule'[d]]
         /\ rem'[d] \in {rem[d]} \cup Got(d, upto, "reminders")
         /\ rule'[d] \in {rule[d]} \cup Got(d, upto, "reminder_rules")
         /\ \A w \in ({rem[d]} \cup Got(d, upto, "reminders")) \ {None} : NoWeaker(rem'[d], w)
         /\ \A q \in {rule[d]} \cup Got(d, upto, "reminder_rules") : q.at <= rule'[d].at
<1>1. PICK v \in {rem[d]} \cup Got(d, upto, "reminders") :
         IsMerged(v, rem[d], Got(d, upto, "reminders")) /\ rem' = [rem EXCEPT ![d] = v]
  BY DEF Sync
<1>2. PICK r \in {rule[d]} \cup Got(d, upto, "reminder_rules") :
         /\ IsMergedRule(r, rule[d], Got(d, upto, "reminder_rules"))
         /\ rule' = [rule EXCEPT ![d] = r]
  BY DEF Sync
<1>3. rem'[d] = v /\ rule'[d] = r
  BY <1>1, <1>2 DEF TypeOK
<1> QED
  BY <1>1, <1>2, <1>3 DEF IsMerged, IsMergedRule, NoWeaker

\* A sync keeps the types: the mark is the stamp of a row the device holds.
LEMMA SyncTypes ==
  ASSUME TypeOK, Stamped, NEW d \in Device, NEW upto \in cursor[d] .. Len(Sent(d)),
         Sync(d, upto)
  PROVE  TypeOK'
<1>1. rem' \in [Device -> Reminder \cup {None}] /\ rule' \in [Device -> RuleRow]
  <2>1. rem'[d] \in Reminder \cup {None} /\ rule'[d] \in RuleRow
    BY SyncMerges, GotIs DEF TypeOK
  <2> QED
    BY <2>1, SyncMerges DEF TypeOK
<1>2. log' = Sent(d) /\ log' \in Seq(Record) /\ Len(log') \in Nat /\ Len(log) <= Len(log')
  BY SentIs DEF Sync
<1>3. hwm' \in [Device -> 0 .. clock]
  <2> DEFINE m == Max({hwm[d]} \cup {Changed(d)[i].row.at : i \in DOMAIN Changed(d)})
  <2>1. hwm' = [hwm EXCEPT ![d] = m]
    BY DEF Sync
  <2>2. /\ m \in Nat
        /\ m = hwm[d] \/ (m = rem[d].at /\ RowNews(d)) \/ (m = rule[d].at /\ RuleNews(d))
    BY MarkIs
  <2>3. RowNews(d) => rem[d].at <= clock
    BY DEF Stamped, Versions, RowNews, Held
  <2>4. rule[d].at <= clock /\ hwm[d] <= clock /\ clock \in Nat
    BY Types DEF Stamped, Rules
  <2> HIDE DEF m
  <2>5. m \in 0 .. clock
    BY <2>2, <2>3, <2>4
  <2> QED
    BY <2>1, <2>5 DEF TypeOK
<1>4. cursor' \in [Device -> 0 .. Len(log')]
  <2>1. cursor' = [cursor EXCEPT ![d] = IF upto = Len(Sent(d)) THEN upto ELSE @]
    BY DEF Sync
  <2>2. \A e \in Device : cursor[e] \in 0 .. Len(log')
    BY <1>2, Types, LogTypes
  <2>3. upto \in 0 .. Len(log')
    BY <1>2, Types
  <2> QED
    BY <2>1, <2>2, <2>3 DEF TypeOK
<1>5. partial' \in [Device -> BOOLEAN]
  BY DEF Sync, TypeOK
<1>6. cuts' \in Nat /\ acts + saves + cuts' <= MaxMoves
  BY <1>2, RemindersAssumption DEF Sync, Move, TypeOK
<1>7. UNCHANGED <<day, behind, clock, plans, acts, saves, reopened, excuses>>
  BY DEF Sync
<1> QED
  BY <1>1, <1>2, <1>3, <1>4, <1>5, <1>6, <1>7 DEF TypeOK

\* All that is known of a sync: what it sends, and what is merged.
LEMMA SyncEffect ==
  ASSUME TypeOK, NEW d \in Device, NEW upto \in cursor[d] .. Len(Sent(d)), Sync(d, upto)
  PROVE  /\ \A i \in 1 .. Len(log) : log'[i] = log[i]
         /\ \A v : v \in Logged' <=> v \in Logged \/ (v = rem[d] /\ RowNews(d))
         /\ \A q : q \in LoggedRules' <=> q \in LoggedRules \/ (q = rule[d] /\ RuleNews(d))
         /\ \A e \in Device \ {d} : rem'[e] = rem[e] /\ rule'[e] = rule[e]
         /\ rem'[d] = rem[d] \/ rem'[d] \in Logged'
         /\ rule'[d] = rule[d] \/ rule'[d] \in LoggedRules'
         /\ Held(d) => NoWeaker(rem'[d], rem[d])
         /\ rule[d].at <= rule'[d].at
         /\ \A i \in cursor[d] + 1 .. upto :
               /\ log'[i].table = "reminders" => NoWeaker(rem'[d], log'[i].row)
               /\ log'[i].table = "reminder_rules" => log'[i].row.at <= rule'[d].at
<1> DEFINE s == Sent(d)
<1>1. log' = s
  BY DEF Sync
<1>2. /\ s \in Seq(Record) /\ Len(s) \in Nat /\ Len(log) <= Len(s)
      /\ DOMAIN s = 1 .. Len(s)
      /\ \A i \in 1 .. Len(log) : s[i] = log[i]
      /\ \A i \in 1 .. Len(s) : i > Len(log) =>
               \/ s[i] = RowRecord(d) /\ RowNews(d)
               \/ s[i] = RuleRecord(d) /\ RuleNews(d)
      /\ RowNews(d) => \E i \in 1 .. Len(s) : s[i] = RowRecord(d)
      /\ RuleNews(d) => \E i \in 1 .. Len(s) : s[i] = RuleRecord(d)
  BY SentIs
<1>3. /\ \A table : \A v \in Got(d, upto, table) :
               \E i \in 1 .. Len(s) : s[i].row = v /\ s[i].table = table
      /\ \A i \in cursor[d] + 1 .. upto : s[i].row \in Got(d, upto, s[i].table)
      /\ \A i \in 1 .. Len(s) : s[i].table = "reminders" => s[i].row \in Reminder
      /\ \A i \in cursor[d] + 1 .. upto : i \in 1 .. Len(s)
  <2>1. \A i \in 1 .. Len(s) : s[i].table = "reminders" => s[i].row \in Reminder
    <3>1. \A i \in 1 .. Len(s) : s[i] \in Record
      BY <1>2
    <3> QED
      BY <3>1 DEF Record
  <2>2. \A i \in cursor[d] + 1 .. upto : i \in 1 .. Len(s)
    BY <1>2, Types
  <2> QED
    BY <2>1, <2>2, GotIs
<1> HIDE DEF s
<1>4. /\ RowRecord(d).row = rem[d] /\ RowRecord(d).table = "reminders"
      /\ RuleRecord(d).row = rule[d] /\ RuleRecord(d).table = "reminder_rules"
  BY DEF RowRecord, RuleRecord
<1>5. Len(log) \in Nat /\ DOMAIN log = 1 .. Len(log)
  BY LogTypes
<1>6. \A i \in 1 .. Len(s) : i \in 1 .. Len(log) \/ i > Len(log)
  BY <1>2, <1>5
<1>7. \A i \in 1 .. Len(log) : i \in 1 .. Len(s)
  BY <1>2, <1>5
<1>8. Logged' = {s[i].row : i \in {j \in 1 .. Len(s) : s[j].table = "reminders"}}
  BY <1>1, <1>2 DEF Logged
<1>9. LoggedRules' = {s[i].row : i \in {j \in 1 .. Len(s) : s[j].table = "reminder_rules"}}
  BY <1>1, <1>2 DEF LoggedRules
<1>10. Logged = {log[i].row : i \in {j \in 1 .. Len(log) : log[j].table = "reminders"}}
  BY <1>5 DEF Logged
<1>11. LoggedRules =
         {log[i].row : i \in {j \in 1 .. Len(log) : log[j].table = "reminder_rules"}}
  BY <1>5 DEF LoggedRules
<1>12. \A v : v \in Logged' <=> v \in Logged \/ (v = rem[d] /\ RowNews(d))
  <2>1. ASSUME NEW v \in Logged' PROVE v \in Logged \/ (v = rem[d] /\ RowNews(d))
    <3>1. PICK i \in 1 .. Len(s) : s[i].table = "reminders" /\ v = s[i].row
      BY <1>8
    <3>2. CASE i \in 1 .. Len(log)
      BY <1>2, <1>10, <3>1, <3>2
    <3>3. CASE i > Len(log)
      BY <1>2, <1>4, <3>1, <3>3
    <3> QED
      BY <1>6, <3>2, <3>3
  <2>2. Logged \subseteq Logged'
    BY <1>2, <1>7, <1>8, <1>10
  <2>3. RowNews(d) => rem[d] \in Logged'
    BY <1>2, <1>4, <1>8
  <2> QED
    BY <2>1, <2>2, <2>3
<1>13. \A q : q \in LoggedRules' <=> q \in LoggedRules \/ (q = rule[d] /\ RuleNews(d))
  <2>1. ASSUME NEW q \in LoggedRules' PROVE q \in LoggedRules \/ (q = rule[d] /\ RuleNews(d))
    <3>1. PICK i \in 1 .. Len(s) : s[i].table = "reminder_rules" /\ q = s[i].row
      BY <1>9
    <3>2. CASE i \in 1 .. Len(log)
      BY <1>2, <1>11, <3>1, <3>2
    <3>3. CASE i > Len(log)
      BY <1>2, <1>4, <3>1, <3>3
    <3> QED
      BY <1>6, <3>2, <3>3
  <2>2. LoggedRules \subseteq LoggedRules'
    BY <1>2, <1>7, <1>9, <1>11
  <2>3. RuleNews(d) => rule[d] \in LoggedRules'
    BY <1>2, <1>4, <1>9
  <2> QED
    BY <2>1, <2>2, <2>3
<1>14. /\ rem'[d] = rem[d] \/ rem'[d] \in Logged'
       /\ rule'[d] = rule[d] \/ rule'[d] \in LoggedRules'
  BY <1>3, <1>8, <1>9, SyncMerges
<1>15. \A e \in Device \ {d} : rem'[e] = rem[e] /\ rule'[e] = rule[e]
  BY SyncMerges DEF TypeOK
<1>16. Held(d) => NoWeaker(rem'[d], rem[d])
  <2>1. \A w \in ({rem[d]} \cup Got(d, upto, "reminders")) \ {None} : NoWeaker(rem'[d], w)
    BY SyncMerges
  <2> QED
    BY <2>1 DEF Held
<1>17. rule[d].at <= rule'[d].at
  BY SyncMerges
<1>18. \A i \in cursor[d] + 1 .. upto :
               /\ log'[i].table = "reminders" => NoWeaker(rem'[d], log'[i].row)
               /\ log'[i].table = "reminder_rules" => log'[i].row.at <= rule'[d].at
  <2> TAKE i \in cursor[d] + 1 .. upto
  <2>1. s[i].row \in Got(d, upto, s[i].table) /\ i \in 1 .. Len(s)
    BY <1>3
  <2>2. s[i].table = "reminders" => NoWeaker(rem'[d], s[i].row)
    BY <1>3, <2>1, SyncMerges, NoReminderAssumption
  <2>3. s[i].table = "reminder_rules" => s[i].row.at <= rule'[d].at
    BY <2>1, SyncMerges
  <2> QED
    BY <1>1, <2>2, <2>3
<1> QED
  BY <1>1, <1>2, <1>12, <1>13, <1>14, <1>15, <1>16, <1>17, <1>18

-----------------------------------------------------------------------------
(* A sync keeps what is known.                                             *)

\* No version is made by a sync, only moved.
LEMMA SyncMovesOnly ==
  ASSUME TypeOK, NEW d \in Device, NEW upto \in cursor[d] .. Len(Sent(d)), Sync(d, upto)
  PROVE  /\ Logged \subseteq Logged' /\ LoggedRules \subseteq LoggedRules'
         /\ Versions' \subseteq Versions /\ Rules' \subseteq Rules
<1>1. /\ \A v : v \in Logged' <=> v \in Logged \/ (v = rem[d] /\ RowNews(d))
      /\ \A q : q \in LoggedRules' <=> q \in LoggedRules \/ (q = rule[d] /\ RuleNews(d))
      /\ \A e \in Device \ {d} : rem'[e] = rem[e] /\ rule'[e] = rule[e]
      /\ rem'[d] = rem[d] \/ rem'[d] \in Logged'
      /\ rule'[d] = rule[d] \/ rule'[d] \in LoggedRules'
  BY SyncEffect
<1>2. Logged' \subseteq Versions
  BY <1>1 DEF Versions, RowNews, Held
<1>3. \A e \in Device : rem'[e] # None => rem'[e] \in Versions
  BY <1>1, <1>2 DEF Versions
<1>4. LoggedRules' \subseteq Rules
  BY <1>1 DEF Rules
<1>5. \A e \in Device : rule'[e] \in Rules
  BY <1>1, <1>4 DEF Rules
<1>6. Versions' \subseteq Versions
  BY <1>2, <1>3 DEF Versions
<1>7. Rules' \subseteq Rules
  BY <1>4, <1>5 DEF Rules
<1> QED
  BY <1>1, <1>6, <1>7

\* After a push, what the device held is on the relay.
LEMMA SyncPushed ==
  ASSUME TypeOK, Pushed, NEW d \in Device, NEW upto \in cursor[d] .. Len(Sent(d)), Sync(d, upto)
  PROVE  Pushed'
<1>1. /\ \A v : v \in Logged' <=> v \in Logged \/ (v = rem[d] /\ RowNews(d))
      /\ \A q : q \in LoggedRules' <=> q \in LoggedRules \/ (q = rule[d] /\ RuleNews(d))
      /\ \A e \in Device \ {d} : rem'[e] = rem[e] /\ rule'[e] = rule[e]
      /\ rem'[d] = rem[d] \/ rem'[d] \in Logged'
      /\ rule'[d] = rule[d] \/ rule'[d] \in LoggedRules'
      /\ rule[d].at <= rule'[d].at
  BY SyncEffect
<1>2. \A e \in Device \ {d} : hwm'[e] = hwm[e]
  BY DEF Sync, TypeOK
<1>3. ASSUME NEW e \in Device
      PROVE  /\ Held(e)' /\ rem'[e].at <= hwm'[e] => rem'[e] \in Logged'
             /\ rule'[e].at <= hwm'[e] => rule'[e] \in LoggedRules' \/ rule'[e].at = 1
  <2>1. CASE e # d
    BY <1>1, <1>2, <2>1 DEF Pushed, Held
  <2>2. CASE e = d
    <3>1. Held(d) => RowNews(d) \/ rem[d].at <= hwm[d]
      BY Types DEF RowNews, Reminder
    <3>2. RuleNews(d) \/ rule[d].at <= hwm[d]
      BY Types DEF RuleNews, RuleRow
    <3>3. Held(d) => rem[d] \in Logged'
      BY <1>1, <3>1 DEF Pushed
    <3>4. rule[d] \in LoggedRules' \/ rule[d].at = 1
      BY <1>1, <3>2 DEF Pushed
    <3> QED
      BY <1>1, <2>2, <3>3, <3>4 DEF Held
  <2> QED
    BY <2>1, <2>2
<1>4. ASSUME NEW q \in LoggedRules' PROVE \E e \in Device : q.at <= rule'[e].at
  <2>1. CASE q = rule[d]
    BY <1>1, <2>1
  <2>2. CASE q \in LoggedRules
    <3>1. PICK e \in Device : q.at <= rule[e].at
      BY <2>2 DEF Pushed
    <3>2. q.at \in Nat /\ rule[d].at \in Nat
      BY <2>2, LogTypes, Types DEF RuleRow
    <3>3. rule'[d].at \in Nat
      BY SyncMerges, GotIs, Types DEF RuleRow
    <3>4. CASE e = d
      BY <1>1, <3>1, <3>2, <3>3, <3>4
    <3>5. CASE e # d
      BY <1>1, <3>1, <3>5
    <3> QED
      BY <3>4, <3>5
  <2> QED
    BY <1>1, <2>1, <2>2
<1> QED
  BY <1>3, <1>4 DEF Pushed

\* After a pull, the device holds what it took or something stronger.
LEMMA SyncPulled ==
  ASSUME TypeOK, TypeOK', Pulled, NEW d \in Device, NEW upto \in cursor[d] .. Len(Sent(d)),
         Sync(d, upto)
  PROVE  /\ Pulled'
         /\ upto = Len(Sent(d)) => \A q \in LoggedRules' : q.at <= rule'[d].at
<1>1. /\ \A i \in 1 .. Len(log) : log'[i] = log[i]
      /\ \A e \in Device \ {d} : rem'[e] = rem[e] /\ rule'[e] = rule[e]
      /\ Held(d) => NoWeaker(rem'[d], rem[d])
      /\ rule[d].at <= rule'[d].at
      /\ \A i \in cursor[d] + 1 .. upto :
               /\ log'[i].table = "reminders" => NoWeaker(rem'[d], log'[i].row)
               /\ log'[i].table = "reminder_rules" => log'[i].row.at <= rule'[d].at
  BY SyncEffect
<1>2. /\ reopened' = reopened /\ \A e \in Device \ {d} : cursor'[e] = cursor[e]
      /\ cursor'[d] = IF upto = Len(Sent(d)) THEN upto ELSE cursor[d]
      /\ log' = Sent(d)
  BY DEF Sync, TypeOK
<1>3. \A e \in Device : cursor[e] \in Nat /\ \A i \in 1 .. cursor[e] : i \in 1 .. Len(log)
  BY Types, LogTypes
<1>4. ASSUME NEW i \in 1 .. cursor[d]
      PROVE  /\ log'[i].table = "reminders" /\ ~reopened => NoWeaker(rem'[d], log'[i].row)
             /\ log'[i].table = "reminder_rules" => log'[i].row.at <= rule'[d].at
  <2>1. i \in 1 .. Len(log) /\ i \in DOMAIN log /\ log'[i] = log[i]
    BY <1>1, <1>3, LogTypes
  <2>2. ASSUME log[i].table = "reminders", ~reopened PROVE NoWeaker(rem'[d], log[i].row)
    <3>1. NoWeaker(rem[d], log[i].row)
      BY <2>2 DEF Pulled
    <3>2. Held(d) /\ rem[d] \in Reminder /\ log[i].row \in Reminder
      BY <2>1, <2>2, <3>1, Types, LogTypes DEF NoWeaker, Held
    <3>3. NoWeaker(rem'[d], rem[d])
      BY <1>1, <3>2
    <3>4. rem'[d] \in Reminder
      BY <3>3 DEF NoWeaker, TypeOK
    <3> QED
      BY <3>1, <3>2, <3>3, <3>4, NoWeakerTransitive
  <2>3. ASSUME log[i].table = "reminder_rules" PROVE log[i].row.at <= rule'[d].at
    <3>1. log[i].row.at <= rule[d].at
      BY <2>3 DEF Pulled
    <3>2. log[i].row.at \in Nat /\ rule[d].at \in Nat
      BY <2>1, <2>3, LogTypes, Types DEF RuleRow
    <3>3. rule'[d].at \in Nat
      BY DEF TypeOK, RuleRow
    <3> QED
      BY <1>1, <3>1, <3>2, <3>3
  <2> QED
    BY <2>1, <2>2, <2>3
<1>5. \A i \in 1 .. upto : i \in 1 .. cursor[d] \/ i \in cursor[d] + 1 .. upto
  BY <1>3
<1>6. \A i \in 1 .. upto :
         /\ log'[i].table = "reminders" /\ ~reopened => NoWeaker(rem'[d], log'[i].row)
         /\ log'[i].table = "reminder_rules" => log'[i].row.at <= rule'[d].at
  BY <1>1, <1>4, <1>5
<1>7. \A i \in 1 .. cursor'[d] :
         /\ log'[i].table = "reminders" /\ ~reopened => NoWeaker(rem'[d], log'[i].row)
         /\ log'[i].table = "reminder_rules" => log'[i].row.at <= rule'[d].at
  BY <1>2, <1>4, <1>6
<1>8. ASSUME NEW e \in Device \ {d}, NEW i \in 1 .. cursor[e]
      PROVE  /\ log'[i].table = "reminders" /\ ~reopened => NoWeaker(rem'[e], log'[i].row)
             /\ log'[i].table = "reminder_rules" => log'[i].row.at <= rule'[e].at
  <2>1. log'[i] = log[i] /\ rem'[e] = rem[e] /\ rule'[e] = rule[e]
    BY <1>1, <1>3
  <2> QED
    BY <2>1 DEF Pulled
<1>9. Pulled'
  BY <1>2, <1>7, <1>8 DEF Pulled
<1>10. ASSUME upto = Len(Sent(d)), NEW q \in LoggedRules' PROVE q.at <= rule'[d].at
  <2>1. PICK i \in 1 .. Len(Sent(d)) : Sent(d)[i].table = "reminder_rules" /\ q = Sent(d)[i].row
    BY <1>2, SentIs DEF LoggedRules
  <2> QED
    BY <1>2, <1>6, <1>10, <2>1
<1> QED
  BY <1>9, <1>10

\* The merge never loses what the user did.
LEMMA SyncDecided ==
  ASSUME TypeOK, TypeOK', Decided, NEW d \in Device, NEW upto \in cursor[d] .. Len(Sent(d)),
         Sync(d, upto)
  PROVE  Decided'
<1>1. acts' = acts /\ reopened' = reopened
  BY DEF Sync
<1>2. Versions' \subseteq Versions
  BY SyncMovesOnly
<1>3. ASSUME NEW e \in Device, Held(e), History(rem[e])
      PROVE  Held(e)' /\ History(rem'[e])
  <2>1. CASE e = d
    <3>1. NoWeaker(rem'[d], rem[d])
      BY <1>3, <2>1, SyncEffect
    <3>2. rem[d] \in Reminder /\ rem'[d] \in Reminder
      BY <1>3, <2>1, <3>1 DEF TypeOK, Held, NoWeaker
    <3> QED
      BY <1>3, <2>1, <3>1, <3>2, HistoryStays DEF Held, NoWeaker
  <2>2. CASE e # d
    BY <1>3, <2>2, SyncEffect DEF Held
  <2> QED
    BY <2>1, <2>2
<1> QED
  BY <1>1, <1>2, <1>3 DEF Decided, Held

\* While calm, a rule that is on is not replaced, and the row goes nowhere
\* without it.
LEMMA SyncFollows ==
  ASSUME TypeOK, TypeOK', Stamped, Pushed, Pulled, LastOn, Follows,
         NEW d \in Device, NEW upto \in cursor[d] .. Len(Sent(d)), Sync(d, upto)
  PROVE  LastOn' /\ Follows'
<1>1. /\ \A v : v \in Logged' <=> v \in Logged \/ (v = rem[d] /\ RowNews(d))
      /\ \A q : q \in LoggedRules' <=> q \in LoggedRules \/ (q = rule[d] /\ RuleNews(d))
      /\ \A e \in Device \ {d} : rem'[e] = rem[e] /\ rule'[e] = rule[e]
      /\ rem'[d] = rem[d] \/ rem'[d] \in Logged'
      /\ rule[d].at <= rule'[d].at
  BY SyncEffect
<1>2. /\ Versions' \subseteq Versions /\ Rules' \subseteq Rules
      /\ LoggedRules \subseteq LoggedRules'
  BY SyncMovesOnly
<1>3. /\ LoggedRules' \subseteq Rules' /\ \A e \in Device : rule'[e] \in Rules'
      /\ \A e \in Device : rule[e] \in Rules
  BY DEF Rules
<1>4. \A e \in Device : rule[e].at \in Nat /\ rule'[e].at \in Nat
  BY DEF TypeOK, RuleRow
<1>5. LastOn'
  BY <1>2 DEF LastOn
<1>6. \A e \in Device : rule[e].on => rule'[e] = rule[e]
  <2>1. ASSUME rule[d].on PROVE rule'[d] = rule[d]
    <3>1. rule'[d] = rule[d] \/ rule'[d].at < rule[d].at
      BY <1>2, <1>3, <2>1 DEF LastOn
    <3> QED
      BY <1>1, <1>4, <3>1
  <2> QED
    BY <1>1, <2>1
<1>7. Versions' # {} => \E q \in Rules' : q.on /\ q.due <= day' + RunUp
  <2> HAVE Versions' # {}
  <2>1. PICK q \in Rules : q.on /\ q.due <= day + RunUp
    BY <1>2 DEF Follows
  <2>2. q \in Rules'
    BY <1>2, <1>3, <1>6, <2>1 DEF Rules
  <2>3. day' = day
    BY DEF Sync
  <2> QED
    BY <2>1, <2>2, <2>3
<1>8. (OnLogged => OnLogged') /\ (AllOn => AllOn')
  BY <1>2, <1>6 DEF OnLogged, AllOn
<1>9. Logged' # {} => OnLogged' \/ AllOn'
  <2>1. CASE Logged # {}
    BY <1>8, <2>1 DEF Follows
  <2>2. ASSUME RowNews(d) PROVE OnLogged' \/ AllOn'
    <3>1. CASE ~rule[d].on
      BY <1>8, <2>2, <3>1 DEF Follows, RowNews
    <3>2. CASE rule[d].on /\ RuleNews(d)
      BY <1>1, <3>2 DEF OnLogged
    <3>3. CASE rule[d].on /\ ~RuleNews(d)
      <4>1. rule[d] \in LoggedRules \/ rule[d].at = 1
        BY <1>4, <3>3, Types DEF Pushed, RuleNews
      <4>2. ASSUME rule[d].at = 1, NEW e \in Device PROVE rule[e].on
        <5>1. rule[e] = rule[d] \/ rule[e].at < rule[d].at
          BY <1>3, <3>3 DEF LastOn
        <5>2. 1 <= rule[e].at
          BY <1>3 DEF Stamped
        <5> QED
          BY <1>4, <3>3, <4>2, <5>1, <5>2
      <4> QED
        BY <1>8, <3>3, <4>1, <4>2 DEF OnLogged, AllOn
    <3> QED
      BY <3>1, <3>2, <3>3
  <2> QED
    BY <1>1, <2>1, <2>2
<1>10. ASSUME NEW e \in Device, Held(e)' PROVE rule'[e].on \/ OnLogged'
  <2>1. CASE rem'[e] = rem[e]
    BY <1>6, <1>8, <1>10, <2>1 DEF Follows, Held
  <2>2. CASE rem'[e] # rem[e]
    BY <1>1, <1>9, <2>2 DEF AllOn
  <2> QED
    BY <2>1, <2>2
<1>11. ASSUME NEW e \in Device, Held(e)', ~partial'[e] PROVE rule'[e].on
  <2>1. CASE e # d
    <3>1. partial'[e] <=> partial[e]
      BY <2>1 DEF Sync, TypeOK
    <3> QED
      BY <1>1, <1>11, <2>1, <3>1 DEF Follows, Held
  <2>2. CASE e = d
    <3>1. upto = Len(Sent(d))
      <4>1. ~(upto < Len(Sent(d)))
        BY <1>11, <2>2 DEF Sync, TypeOK
      <4>2. cursor[d] \in Nat /\ Len(Sent(d)) \in Nat
        BY Types, SentIs
      <4> QED
        BY <4>1, <4>2
    <3>2. \A q \in LoggedRules' : q.at <= rule'[d].at
      BY <3>1, SyncPulled
    <3>3. CASE OnLogged'
      <4>1. PICK q \in LoggedRules' : q.on
        BY <3>3 DEF OnLogged
      <4>2. q = rule'[d] \/ rule'[d].at < q.at
        BY <1>2, <1>3, <4>1 DEF LastOn
      <4>3. q.at \in Nat
        BY LogTypes, <1>1, <1>4, <4>1 DEF RuleRow
      <4> QED
        BY <1>4, <2>2, <3>2, <4>1, <4>2, <4>3
    <3> QED
      BY <1>10, <1>11, <2>2, <3>3
  <2> QED
    BY <2>1, <2>2
<1>12. day' <= LastDay => \A v \in Versions' : ~v.gone
  BY <1>2 DEF Follows, Sync
<1>13. \A e \in Device : plans'[e] \subseteq {None} \/ Intends(e)'
  <2>1. plans' = plans /\ day' = day
    BY DEF Sync
  <2> QED
    BY <1>6, <2>1 DEF Follows, Intends
<1> QED
  BY <1>5, <1>7, <1>9, <1>10, <1>11, <1>12, <1>13 DEF Follows

\* A sync keeps the invariant.
LEMMA SyncKeeps ==
  ASSUME IInv, NEW d \in Device, NEW upto \in cursor[d] .. Len(Sent(d)), Sync(d, upto)
  PROVE  IInv'
<1>1. TypeOK /\ Stamped /\ Pushed /\ Pulled /\ Decided /\ (Calm => LastOn /\ Follows)
  BY DEF IInv
<1>2. TypeOK'
  BY <1>1, SyncTypes
<1>3. Pushed' /\ Pulled' /\ Decided'
  BY <1>1, <1>2, SyncPushed, SyncPulled, SyncDecided
<1>4. Stamped'
  <2>1. clock' = clock
    BY DEF Sync
  <2> QED
    BY <1>1, <2>1, SyncMovesOnly DEF Stamped
<1>5. Calm' => LastOn' /\ Follows'
  <2>1. Calm' <=> Calm
    BY DEF Sync, Calm
  <2> QED
    BY <1>1, <1>2, <2>1, SyncFollows
<1>6. behind' = behind
  BY DEF Sync
<1> QED
  BY <1>2, <1>3, <1>4, <1>5, <1>6 DEF IInv

-----------------------------------------------------------------------------
(* The other steps, and the start.                                         *)

LEMMA MidnightKeeps ==
  ASSUME IInv, Midnight
  PROVE  IInv'
<1>1. /\ UNCHANGED <<behind, clock, plans, rule, rem, hwm, log, cursor, partial, acts, saves,
                     cuts, reopened, excuses>>
      /\ day' = day + 1 /\ day < MaxDay
  BY DEF Midnight, local, sync, bounds
<1>2. day \in Nat /\ day' \in 0 .. MaxDay
  BY <1>1, RemindersAssumption DEF IInv, TypeOK
<1>3. TypeOK'
  BY <1>1, <1>2 DEF IInv, TypeOK
<1>4. /\ Logged' = Logged /\ LoggedRules' = LoggedRules
      /\ Versions' = Versions /\ Rules' = Rules
  BY <1>1 DEF Logged, LoggedRules, Versions, Rules
<1>5. Stamped' /\ Pushed' /\ Pulled' /\ Decided'
  BY <1>1, <1>4 DEF IInv, Stamped, Pushed, Pulled, Decided, Held
<1>6. ASSUME Calm' PROVE LastOn' /\ Follows'
  <2>1. LastOn /\ Follows
    BY <1>1, <1>6 DEF IInv, Calm
  <2>2. LastOn'
    BY <1>4, <2>1 DEF LastOn
  <2>3. ASSUME Versions # {} PROVE \E q \in Rules : q.on /\ q.due <= day' + RunUp
    <3>1. PICK q \in Rules : q.on /\ q.due <= day + RunUp
      BY <2>1, <2>3 DEF Follows
    <3>2. q.due \in Nat
      BY <3>1, LogTypes DEF IInv, TypeOK, Rules, RuleRow
    <3> QED
      BY <1>1, <1>2, <3>1, <3>2, RemindersAssumption
  <2>4. day' <= LastDay => day <= LastDay
    BY <1>1, <1>2, RemindersAssumption
  <2>5. /\ OnLogged' <=> OnLogged
        /\ AllOn' <=> AllOn
        /\ \A e \in Device : (Held(e)' <=> Held(e)) /\ (partial'[e] <=> partial[e])
    BY <1>1, <1>4 DEF OnLogged, AllOn, Held
  <2>6. ASSUME NEW e \in Device PROVE plans'[e] \subseteq {None} \/ Intends(e)'
    <3>1. plans[e] \subseteq {None} \/ Intends(e)
      BY <2>1 DEF Follows
    <3>2. rule[e].due \in Nat /\ RunUp \in Nat
      BY Types, RemindersAssumption DEF IInv, RuleRow
    <3> QED
      BY <1>1, <1>2, <3>1, <3>2 DEF Intends
  <2> QED
    BY <1>1, <1>4, <2>1, <2>2, <2>3, <2>4, <2>5, <2>6 DEF Follows
<1> QED
  BY <1>1, <1>3, <1>5, <1>6 DEF IInv

\* The start: nothing written but the default rule.
LEMMA InitKeeps ==
  ASSUME Init
  PROVE  IInv
<1>1. PICK on \in BOOLEAN : rule = [d \in Device |-> [at |-> 1, on |-> on, due |-> Shipped]]
  BY DEF Init
<1>2. /\ \A d \in Device : rule[d] = [at |-> 1, on |-> on, due |-> Shipped]
      /\ \A d \in Device : rem[d] = None /\ cursor[d] = 0
      /\ log = <<>> /\ day = 0 /\ clock = 1 /\ acts = 0 /\ reopened = FALSE
      /\ \E d \in Device : behind[d] = 0
      /\ \A d \in Device : plans[d] = {}
  BY <1>1 DEF Init
<1>3. Logged = {} /\ LoggedRules = {}
  BY <1>2 DEF Logged, LoggedRules
<1>4. Versions = {} /\ \A q \in Rules : q = [at |-> 1, on |-> on, due |-> Shipped]
  BY <1>2, <1>3 DEF Versions, Rules
<1>5. TypeOK
  <2>1. rule \in [Device -> RuleRow]
    BY <1>1, RemindersAssumption DEF RuleRow
  <2>2. log \in Seq(Record) /\ Len(log) = 0
    BY <1>2
  <2>3. cursor \in [Device -> 0 .. Len(log)]
    BY <2>2 DEF Init
  <2>4. hwm \in [Device -> 0 .. clock] /\ partial \in [Device -> BOOLEAN]
    BY DEF Init
  <2>5. /\ day \in 0 .. MaxDay /\ clock \in Nat
        /\ acts \in Nat /\ saves \in Nat /\ cuts \in Nat /\ acts + saves + cuts <= MaxMoves
    BY RemindersAssumption DEF Init
  <2>6. /\ behind \in [Device -> Zones] /\ rem \in [Device -> Reminder \cup {None}]
        /\ plans \in [Device -> SUBSET (Nat \cup {None})]
        /\ reopened \in BOOLEAN /\ excuses \subseteq {"pull", "day", "stale", "rule"}
    BY DEF Init
  <2> QED
    BY <2>1, <2>2, <2>3, <2>4, <2>5, <2>6 DEF TypeOK
<1>6. Stamped /\ LastOn
  BY <1>2, <1>4 DEF Stamped, LastOn
<1>7. Pushed
  BY <1>2, <1>3 DEF Pushed, Held
<1>8. Pulled
  BY <1>2 DEF Pulled
<1>9. Decided
  BY <1>2, <1>4 DEF Decided
<1>10. Follows
  BY <1>2, <1>3, <1>4 DEF Follows, Held
<1> QED
  BY <1>2, <1>5, <1>6, <1>7, <1>8, <1>9, <1>10 DEF IInv

\* A stutter.
LEMMA StutterKeeps ==
  ASSUME IInv, UNCHANGED vars
  PROVE  IInv'
<1>1. UNCHANGED <<day, behind, clock, plans, rule, rem, hwm, log, cursor, partial, acts, saves,
                  cuts, reopened, excuses>>
  BY DEF vars, local, sync, bounds
<1>2. /\ Logged' = Logged /\ LoggedRules' = LoggedRules
      /\ Versions' = Versions /\ Rules' = Rules
  BY <1>1 DEF Logged, LoggedRules, Versions, Rules
<1>3. TypeOK' /\ Stamped' /\ Pushed' /\ Pulled' /\ Decided'
  BY <1>1, <1>2 DEF IInv, TypeOK, Stamped, Pushed, Pulled, Decided, Held
<1>4. Calm => LastOn' /\ Follows'
  BY <1>1, <1>2 DEF IInv, LastOn, Follows, OnLogged, AllOn, Held, Intends
<1> QED
  BY <1>1, <1>3, <1>4 DEF IInv, Calm

-----------------------------------------------------------------------------
(* The theorems.                                                           *)

\* Every reachable state knows what IInv says.
THEOREM RemindersInductive == Spec => []IInv
<1>1. Init => IInv
  BY InitKeeps
<1>2. IInv /\ [Next]_vars => IInv'
  <2> SUFFICES ASSUME IInv, [Next]_vars
               PROVE  IInv'
    OBVIOUS
  <2>1. CASE Midnight
    BY <2>1, MidnightKeeps
  <2>2. ASSUME NEW d \in Device, Compute(d) \/ \E plan \in plans[d] : Commit(d, plan)
        PROVE  IInv'
    BY <2>2, ComputeKeeps, CommitKeeps
  <2>3. ASSUME NEW d \in Device, NEW on \in BOOLEAN, NEW due \in Dues, Save(d, on, due)
        PROVE  IInv'
    BY <2>3, SaveKeeps
  <2>4. ASSUME NEW d \in Device, Complete(d) PROVE IInv'
    BY <2>4, CompleteKeeps
  <2>5. ASSUME NEW d \in Device, Reopen(d) PROVE IInv'
    BY <2>5, ReopenKeeps
  <2>6. ASSUME NEW d \in Device, Snooze(d) PROVE IInv'
    BY <2>6, SnoozeKeeps
  <2>7. ASSUME NEW d \in Device, Dismiss(d) PROVE IInv'
    BY <2>7, DismissKeeps
  <2>8. ASSUME NEW d \in Device, NEW upto \in cursor[d] .. Len(Sent(d)), Sync(d, upto)
        PROVE  IInv'
    BY <2>8, SyncKeeps
  <2>9. CASE UNCHANGED vars
    BY <2>9, StutterKeeps
  <2> QED
    BY <2>1, <2>2, <2>3, <2>4, <2>5, <2>6, <2>7, <2>8, <2>9 DEF Next
<1> QED
  BY <1>1, <1>2, PTL DEF Spec

\* Each variable keeps its type, however many devices, days and moves.
THEOREM RemindersTypeCorrect == Spec => []TypeOK
<1>1. IInv => TypeOK
  BY DEF IInv
<1> QED
  BY <1>1, RemindersInductive, PTL

\* When nobody has anything to push or to pull, each device's row is on the
\* relay, and each is as strong as any.
LEMMA QuietHold ==
  ASSUME IInv, Quiet
  PROVE  /\ \A d \in Device : Held(d) => rem[d] \in Logged
         /\ ~reopened => \A d \in Device : \A v \in Logged : NoWeaker(rem[d], v)
         /\ \A d \in Device : \A q \in LoggedRules : q.at <= rule[d].at
         /\ \A d \in Device : rule[d] \in LoggedRules \/ rule[d].at = 1
<1>1. ASSUME NEW d \in Device PROVE ~RowNews(d) /\ ~RuleNews(d) /\ cursor[d] = Len(log)
  <2>1. Changed(d) = <<>> /\ ~(cursor[d] < Len(log))
    BY DEF Quiet, Behind
  <2>2. ~RowNews(d) /\ ~RuleNews(d)
    BY <2>1, ChangedIs DEF IInv
  <2>3. cursor[d] \in Nat /\ Len(log) \in Nat /\ cursor[d] <= Len(log)
    BY Types, LogTypes DEF IInv
  <2> QED
    BY <2>1, <2>2, <2>3
<1>2. ASSUME NEW d \in Device
      PROVE  /\ Held(d) => rem[d] \in Logged
             /\ rule[d] \in LoggedRules \/ rule[d].at = 1
  <2>1. Held(d) => rem[d].at \in Nat
    BY Types DEF IInv, Reminder
  <2>2. hwm[d] \in Nat /\ rule[d].at \in Nat
    BY Types DEF IInv, RuleRow
  <2>3. (Held(d) => rem[d].at <= hwm[d]) /\ rule[d].at <= hwm[d]
    BY <1>1, <2>1, <2>2 DEF RowNews, RuleNews
  <2> QED
    BY <2>3 DEF IInv, Pushed
<1>3. DOMAIN log = 1 .. Len(log)
  BY LogTypes DEF IInv
<1>4. ASSUME NEW d \in Device
      PROVE  /\ ~reopened => \A v \in Logged : NoWeaker(rem[d], v)
             /\ \A q \in LoggedRules : q.at <= rule[d].at
  BY <1>1, <1>3 DEF IInv, Pulled, Logged, LoggedRules
<1> QED
  BY <1>2, <1>4

\* So quiet devices hold one row,
LEMMA QuietSame ==
  ASSUME IInv, Quiet, ~reopened
  PROVE  \A d, e \in Device : rem[d] = rem[e]
<1> SUFFICES ASSUME NEW d \in Device, NEW e \in Device, Held(d)
             PROVE  rem[d] = rem[e]
  BY DEF Held
<1>1. rem[d] \in Logged /\ NoWeaker(rem[e], rem[d])
  BY QuietHold
<1>2. Held(e)
  BY <1>1 DEF NoWeaker, Held
<1>3. rem[e] \in Logged /\ NoWeaker(rem[d], rem[e])
  BY <1>2, QuietHold
<1>4. rem[d].at = rem[e].at
  BY <1>1, <1>2, <1>3, Types, NoWeakerEither DEF IInv
<1> QED
  BY <1>1, <1>3, <1>4 DEF IInv, Stamped, Versions

\* and one rule.
LEMMA QuietSameRule ==
  ASSUME IInv, Quiet
  PROVE  \A d, e \in Device : rule[d] = rule[e]
<1> SUFFICES ASSUME NEW d \in Device, NEW e \in Device
             PROVE  rule[d].at <= rule[e].at
  <2>1. ASSUME \A d, e \in Device : rule[d].at <= rule[e].at,
               NEW d \in Device, NEW e \in Device
        PROVE  rule[d] = rule[e]
    <3>1. rule[d].at \in Nat /\ rule[e].at \in Nat
      BY Types DEF IInv, RuleRow
    <3>2. rule[d].at = rule[e].at
      BY <2>1, <3>1
    <3> QED
      BY <3>2 DEF IInv, Stamped, Rules
  <2> QED
    BY <2>1
<1>1. CASE rule[d] \in LoggedRules
  BY <1>1, QuietHold
<1>2. CASE rule[d].at = 1
  BY <1>2 DEF IInv, Stamped, Rules
<1> QED
  BY <1>1, <1>2, QuietHold

\* Quiet devices hold the same row, unless it was ever unticked: for any number
\* of devices, days, due days, moves and saves.
THEOREM QuietRemindersAgree == Spec => []QuietAgree
<1>1. IInv => QuietAgree
  BY QuietSame DEF QuietAgree
<1> QED
  BY <1>1, RemindersInductive, PTL

\* One decision of the user's about a row stands on every device once they are
\* quiet, whatever the devices minted, refreshed and pruned meanwhile.
THEOREM OneActIsKept == Spec => []OneActStands
<1>1. ASSUME IInv, Quiet, acts = 1 PROVE \A d \in Device : Held(d) /\ History(rem[d])
  <2>1. ~reopened
    BY <1>1 DEF IInv, Decided
  <2>2. PICK e \in Device : Held(e) /\ History(rem[e])
    BY <1>1, <2>1 DEF IInv, Decided
  <2> QED
    BY <1>1, <2>1, <2>2, QuietSame DEF Held
<1>2. IInv => OneActStands
  BY <1>1 DEF OneActStands
<1> QED
  BY <1>2, RemindersInductive, PTL

\* A reminder nobody acted on, whose rule nobody edited once it was on, is on
\* every quiet device's list while its time lasts, if no run pruned the row in
\* the middle of a pull, a day behind, or by a plan made before it was wanted
\* (reconcile), whatever runs mint or refresh by old plans.
THEOREM ReminderIsNotLost == Spec => []NotLost
<1>1. ASSUME IInv, Quiet, acts = 0, excuses = {},
             \A d \in Device : Wanted(Saved, Today(d), RunUp) /\ Settled(d),
             NEW d \in Device
      PROVE  OnList(d)
  <2>1. Saved = rule[d]
    <3>1. \E e \in Device : \A f \in Device : rule[f].at <= rule[e].at
      <4>1. \A f \in Device : rule[f].at <= rule[d].at
        <5>1. \A f \in Device : rule[f] = rule[d]
          BY <1>1, QuietSameRule
        <5>2. rule[d].at \in Nat
          BY <1>1, Types DEF IInv, RuleRow
        <5> QED
          BY <5>1, <5>2
      <4> QED
        BY <4>1
    <3> QED
      BY <1>1, <3>1, QuietSameRule DEF Saved
  <2>2. /\ Wanted(rule[d], Today(d), RunUp)
        /\ Reconciled(rem[d], rule[d].due, clock) = rem[d]
        /\ rule[d].due \in Nat /\ rule[d].due # None
    BY <1>1, <2>1, Types, NoReminderAssumption DEF Settled, Desired, IInv, RuleRow
  <2>3. Held(d)
    <3>1. rem[d] # None \/ Minted(rule[d].due, clock) = None
      BY <2>2 DEF Reconciled
    <3>2. Minted(rule[d].due, clock) \in Reminder
      BY <1>1, <2>2, Types DEF IInv, Minted, Reminder
    <3> QED
      BY <3>1, <3>2, NoReminderAssumption DEF Held
  <2>4. day <= LastDay
    <3>1. PICK e \in Device : behind[e] = 0
      BY <1>1 DEF IInv
    <3>2. Today(e) = day
      BY <1>1, <3>1, Types DEF IInv
    <3> QED
      BY <1>1, <3>2 DEF Wanted
  <2>5. ~rem[d].gone
    BY <1>1, <2>3, <2>4 DEF IInv, Calm, Follows, Versions, Held
  <2> QED
    BY <2>3, <2>5 DEF OnList
<1>2. IInv => NotLost
  BY <1>1 DEF NotLost
<1> QED
  BY <1>2, RemindersInductive, PTL
=============================================================================
