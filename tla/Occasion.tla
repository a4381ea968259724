------------------------------ MODULE Occasion ------------------------------
(***************************************************************************)
(* One occasion's year of reminders on one device: the reminders engine's  *)
(* walk and reconcile (packages/reminders/src/engine.ts) against the       *)
(* user's answers, schedule edits, ticks and dismissals (core/src/index.ts *)
(* and reminders/src/api.ts), any of which may be cut short before the     *)
(* reconcile that ends it.                                                 *)
(*                                                                         *)
(* out counts the days left; it steps through Days, the days on which      *)
(* anything is done.  Row ids are keyed by milestone, year and action, so  *)
(* row holds one row an action for the year; a dead row is a tombstone.    *)
(***************************************************************************)
EXTENDS Schedule

CONSTANTS Kind,        \* the milestone's kind
          Days,        \* days left, on which the app is used
          LearnedDays, \* days left when the milestone was created
          Picked,      \* the actions whose rows and rules the user touches
          Leads,       \* the leads the schedule editor sets
          Redates,     \* days left that a corrected date makes it
          MaxActs,     \* bound on what the user does
          MaxYears     \* bound on years after the first

ASSUME OccasionAssumption ==
    /\ Kind \in {"birthday", "wedding", "first-date", "death"}
    /\ Days \subseteq Int /\ IsFiniteSet(Days) /\ LearnedDays \subseteq Days
    /\ \A d, e \in Days : d - e <= 365   \* of one year
    /\ Picked \subseteq Action /\ Leads \subseteq Nat
    /\ Redates \subseteq Days /\ MaxActs \in Nat /\ MaxYears \in Nat

VARIABLES out,      \* days left to this year's occasion
          occ,      \* the milestone and its stored rules
          row,      \* this year's reminder row of each action
          declined, \* actions the user did, dismissed or switched off this year
          moved,    \* actions gone from the list when an edit was reconciled
          answered, \* this year's question was answered
          since,    \* since the last reconcile: "none", a "day", an "edit"
          acts, years

vars == <<out, occ, row, declined, moved, answered, since, acts, years>>

NoRow == [state |-> "none", due |-> 0]
Dead == [state |-> "dead", due |-> 0]

Live(due) == [state |-> "live", due |-> due]
Lives(a) == row[a].state = "live"

-----------------------------------------------------------------------------
(* The walk.                                                               *)

Defaults(o) == KindDefaults(Kind, o.audience)

\* resolveReminderSchedule: stored rows win whole.
Resolved(o) == IF o.rules = {} THEN Defaults(o) ELSE o.rules
YearRules(o) == IF o.yearly = {} THEN Resolved(o) ELSE o.yearly
Written(o) == IF o.rules = {} THEN o.learned ELSE o.written

YearWritten(o) == IF o.yearly = {} THEN Written(o) ELSE o.yearlyWritten

QuestionTiming(o) == Timing(Defaults(o), Resolved(o), o.learned)

\* The question is asked while it still offers a choice.
Asked(o, days) ==
    /\ o.asks /\ o.yearly = {}
    /\ ~(o.imported /\ QuestionTiming(o).late)
    /\ Cardinality(Offers(Defaults(o), Resolved(o), days)) >= 2

Question(o) ==
    LET timing == QuestionTiming(o)
    IN  [action |-> "plan", due |-> timing.due,
         runUp |-> IF timing.late
                   THEN Max({RunUp("plan"), o.learned - timing.due})
                   ELSE RunUp("plan")]

\* computeDesired's rules for this occurrence, each with the deadline and
\* run-up it has.
Timed(o, days) ==
    {[action |-> d.action, due |-> d.due, runUp |-> RunUp(d.action)] :
        d \in Deadlines(Enabled(YearRules(o)), YearWritten(o))}
    \cup (IF Asked(o, days) THEN {Question(o)} ELSE {})

\* A mutant of Desired: its dated reminders end with their due date's grace.
DesiredByDue(o, days, horizon) ==
    IF o.learned < 0 THEN {}
    ELSE {t \in Timed(o, days) : InWindow(days, t.due, Max({horizon, t.runUp}))
                                 /\ days - t.due >= -BelatedDays}

\* computeDesired, on a walk that looks at least horizon days ahead of a due
\* date.
Desired(o, days, horizon) ==
    IF o.learned < 0 THEN {}
    ELSE {t \in Timed(o, days) : InWindow(days, t.due, Max({horizon, t.runUp}))}

DueOf(wants, a) == (CHOOSE t \in wants : t.action = a).due

\* insertDesired for an absent row, a refresh for a live one, softDelete for a
\* live one that is not wanted; a tombstone stays.
Reconciled(rows, wants) ==
    LET wanted == Named(wants)
    IN  [a \in Action |->
            IF a \in wanted
            THEN IF rows[a].state = "dead" THEN Dead ELSE Live(DueOf(wants, a))
            ELSE IF rows[a].state = "live" THEN Dead ELSE rows[a]]

\* What the year has lost by then.
Lost(rows) == {a \in Action : rows[a].state = "dead"}

\* A mutant of Retired: only a row that exists is tombstoned.
RetiredStored(rows, o, a) ==
    IF rows[a].state = "live" THEN [rows EXCEPT ![a] = Dead] ELSE rows

\* materializeReminder, then softDelete: an absent row is minted if the display
\* walk previews it, and what there is of it is tombstoned.
Retired(rows, o, a) ==
    IF rows[a].state = "live" \/ a \in Named(Desired(o, out, DisplayWindow))
    THEN [rows EXCEPT ![a] = Dead] ELSE rows

-----------------------------------------------------------------------------
(* What happens to an occasion.                                            *)

Init ==
    /\ out \in LearnedDays
    /\ \E imported \in BOOLEAN, audience \in {"theirs", "own"} :
          occ = [learned |-> out, imported |-> imported, asks |-> TRUE,
                 audience |-> audience, rules |-> {}, written |-> 0,
                 yearly |-> {}, yearlyWritten |-> 0]
    /\ row = [a \in Action |-> NoRow]
    /\ declined = {} /\ moved = {} /\ answered = FALSE
    /\ since = "edit" /\ acts = 0 /\ years = 0

\* regenerateSystem, at boot and on focus.
Regenerate ==
    LET wants == Desired(occ, out, 0)
    IN  /\ since # "none"
        /\ row' = Reconciled(row, wants)
        /\ moved' = IF since = "edit" THEN moved \cup Lost(row') ELSE moved
        /\ since' = "none"
        /\ UNCHANGED <<out, occ, declined, answered, acts, years>>

NextDay ==
    /\ \E d \in Days : d < out
    /\ out' = Max({d \in Days : d < out})
    /\ since' = IF since = "edit" THEN "edit" ELSE "day"
    /\ UNCHANGED <<occ, row, declined, moved, answered, acts, years>>

\* Next year's occurrence: its ids are new, and everything was learned and
\* written a year earlier.
NextYear ==
    /\ \A d \in Days : d >= out
    /\ years < MaxYears
    /\ years' = years + 1
    /\ out' = Max(Days)
    /\ occ' = [occ EXCEPT !.learned = @ + 365,
                          !.written = IF occ.rules = {} THEN @ ELSE @ + 365,
                          !.yearly = {}, !.yearlyWritten = 0]
    /\ row' = [a \in Action |-> NoRow]
    /\ declined' = {} /\ moved' = {} /\ answered' = FALSE
    /\ since' = "edit" /\ UNCHANGED acts

\* The regenerateSystem that ends an edit, unless the app dies before it.
Settle(rows, o, days) ==
    LET wants == Desired(o, days, 0)
    IN  \/ /\ row' = Reconciled(rows, wants)
           /\ moved' = moved \cup Lost(row')
           /\ since' = "none"
        \/ row' = rows /\ moved' = moved /\ since' = "edit"

Act == acts < MaxActs /\ acts' = acts + 1 /\ UNCHANGED years

\* Live rows the schedule no longer names were switched off.
SwitchedOff(o) ==
    {a \in Action : Lives(a) /\ a \notin Named(Enabled(YearRules(o))) \cup {"plan"}}

\* milestones.answerPlan: the answer, the question's tombstone, and the
\* reconcile are three steps, and the app may die after any.
Answer(ticked, extra) ==
    LET offers == Offers(Defaults(occ), Resolved(occ), out)
        typed == IF ~extra THEN {}
                 ELSE IF "other" \in Named(offers) THEN {}
                 ELSE {SomethingElse}
        ticks == IF extra THEN ticked \cup {"other"} ELSE ticked
        o == [occ EXCEPT !.rules = WithAnswer(Resolved(occ),
                                              Answered(offers, ticks) \cup typed),
                         !.written = out, !.yearly = {}, !.yearlyWritten = 0]
    IN  /\ Act
        /\ row["plan"].state # "dead"
        /\ "plan" \in Named(Desired(occ, out, DisplayWindow))
        /\ occ' = o
        /\ \/ /\ row' = row /\ moved' = moved /\ since' = "edit"
              /\ declined' = declined \cup SwitchedOff(o)
              /\ UNCHANGED answered
           \/ /\ Settle(Retired(row, o, "plan"), o, out)
              /\ declined' = declined \cup SwitchedOff(o) \cup {"plan"}
              /\ answered' = TRUE
        /\ UNCHANGED out

\* milestones.update with a schedule: one action switched, or its lead set.
\* The whole set is rewritten and the year's override dropped.
Save(r) ==
    LET o == [occ EXCEPT
                !.rules = {s \in Resolved(occ) : s.action # r.action} \cup {r},
                !.written = out, !.yearly = {}, !.yearlyWritten = 0]
    IN  /\ Act
        /\ occ' = o
        /\ Settle(row, o, out)
        /\ declined' = declined \cup SwitchedOff(o)
        /\ UNCHANGED <<out, answered>>

\* milestones.update with a date: learned and written stay the days they were.
Redate(day) ==
    LET shift == day - out
        o == [occ EXCEPT !.learned = @ + shift,
                         !.written = IF occ.rules = {} THEN @ ELSE @ + shift,
                         !.yearlyWritten = IF occ.yearly = {} THEN @ ELSE @ + shift]
    IN  /\ Act
        /\ day # out
        /\ out' = day /\ occ' = o
        /\ Settle(row, o, day)
        /\ UNCHANGED <<declined, answered>>

\* A mutant of AnswerInPerson: the override is stamped when it is written.
AnswerInPersonNow(send) ==
    LET o == [occ EXCEPT !.yearly = InPerson(YearRules(occ), send),
                         !.yearlyWritten = out]
    IN  /\ Act
        /\ row[send].state # "dead" /\ Posts(send)
        /\ send \in Named(Desired(occ, out, DisplayWindow))
        /\ occ' = o
        /\ Settle(row, o, out)
        /\ declined' = declined \cup SwitchedOff(o) \cup {"plan"}
        /\ UNCHANGED <<out, answered>>

\* milestones.answerInPerson, from a posting's row: an override for the year,
\* still written when the rules it stands in for were.
AnswerInPerson(send) ==
    LET o == [occ EXCEPT !.yearly = InPerson(YearRules(occ), send),
                         !.yearlyWritten = YearWritten(occ)]
    IN  /\ Act
        /\ row[send].state # "dead" /\ Posts(send)
        /\ send \in Named(Desired(occ, out, DisplayWindow))
        /\ occ' = o
        /\ Settle(row, o, out)
        /\ declined' = declined \cup SwitchedOff(o) \cup {"plan"}
        /\ UNCHANGED <<out, answered>>

\* stop-asking, and the toggle that undoes it.
SetAsks(asks) ==
    LET o == [occ EXCEPT !.asks = asks]
    IN  /\ Act
        /\ occ.asks # asks
        /\ occ' = o
        /\ Settle(row, o, out)
        /\ UNCHANGED <<out, declined, answered>>

\* A death recorded for the bearer: forgetChoicesForLiving.
RecordDeath ==
    LET o == [occ EXCEPT !.audience = "memorial", !.rules = {}, !.written = 0,
                         !.yearly = {}, !.yearlyWritten = 0]
    IN  /\ Act
        /\ occ.audience = "theirs"
        /\ occ' = o
        /\ Settle(row, o, out)
        /\ declined' = declined \cup SwitchedOff(o)
        /\ UNCHANGED <<out, answered>>

\* setCompleted on a preview: minted to be ticked, and pruned by the reconcile
\* that does not want it yet.  On a row it changes its completion only.
TickEarly(a) ==
    /\ Act
    /\ row[a].state = "none"
    /\ a \in Named(Desired(occ, out, DisplayWindow))
    /\ row' = [row EXCEPT ![a] = Live(DueOf(Desired(occ, out, DisplayWindow), a))]
    /\ declined' = declined \cup {a}
    /\ since' = IF since = "edit" THEN "edit" ELSE "day"
    /\ UNCHANGED <<out, occ, moved, answered>>

\* softDelete by the user.
Dismiss(a) ==
    /\ Act
    /\ row[a].state = "live" \/ a \in Named(Desired(occ, out, DisplayWindow))
    /\ row[a].state # "dead"
    /\ row' = Retired(row, occ, a)
    /\ declined' = declined \cup {a}
    /\ UNCHANGED <<out, occ, moved, answered, since>>

\* The question's items: deliveries follow what they deliver.
Items == {r.action : r \in {o \in Offers(Defaults(occ), Resolved(occ), out) :
                                DeliveryOf(o.action) = None}}

\* What the editor can make of a rule.
Edited ==
    LET at == {r \in Resolved(occ) : r.action \in Picked}
    IN  {[r EXCEPT !.on = ~@] : r \in at}
        \cup {Rule(r.action, lead, TRUE) :
                r \in {s \in at : Latest(s.action, s.lead) < s.lead}, lead \in Leads}

Next ==
    \/ Regenerate \/ NextDay \/ NextYear
    \/ \E ticked \in SUBSET (Items \cap Picked),
          extra \in BOOLEAN : Answer(ticked, extra)
    \/ \E r \in Edited : Save(r)
    \/ \E day \in Redates : Redate(day)
    \/ \E send \in {"send:card", "send:gift"} : AnswerInPerson(send)
    \/ \E asks \in BOOLEAN : SetAsks(asks)
    \/ RecordDeath
    \/ \E a \in Picked : TickEarly(a) \/ Dismiss(a)

Spec == Init /\ [][Next]_vars

-----------------------------------------------------------------------------
(* What the user is promised.                                              *)

Rules == [action : Action, lead : Nat, on : BOOLEAN]

TypeOK ==
    /\ out \in Days
    /\ occ \in [learned : Int, imported : BOOLEAN, asks : BOOLEAN,
                audience : {"theirs", "own", "memorial"},
                rules : SUBSET Rules, written : Int,
                yearly : SUBSET Rules, yearlyWritten : Int]
    /\ row \in [Action -> [state : {"none", "live", "dead"}, due : Nat]]
    /\ declined \subseteq Action /\ moved \subseteq Action
    /\ answered \in BOOLEAN /\ since \in {"none", "day", "edit"}
    /\ acts \in 0 .. MaxActs /\ years \in 0 .. MaxYears

Fresh == since = "none"

\* Once reconciled, every errand that is on has a live row for as long as it
\* can still be done, unless the user did, dismissed or switched it off this
\* year or an edit took it off the list; and so has a question with a choice.
NothingLost ==
    Fresh /\ occ.learned >= 0 =>
        /\ \A r \in Enabled(YearRules(occ)) :
              out \in -BelatedDays .. Latest(r.action, r.lead) + RunUp(r.action)
              => Lives(r.action) \/ r.action \in declined \cup moved
        /\ Asked(occ, out) /\ out <= Question(occ).due + Question(occ).runUp
              => Lives("plan") \/ "plan" \in declined \cup moved

\* A slide never reorders the schedule: of two errands on the list, the one
\* authored further ahead is not due after the other.  (Errands of one lead are
\* authored in no order.)
OrderKept ==
    Fresh => \A r, s \in Enabled(YearRules(occ)) :
                Lives(r.action) /\ Lives(s.action) /\ r.lead > s.lead
                => row[r.action].due >= row[s.action].due

\* What the question still offers is not overdue the day it is chosen, unless
\* an errand that waits on it comes before the latest it can be done.
NotBornLate ==
    Fresh /\ YearWritten(occ) = out /\ out >= 0 =>
        \A r \in Enabled(YearRules(occ)) \cap Offers(Defaults(occ), Resolved(occ), out) :
            Lives(r.action) =>
                \/ row[r.action].due <= out
                \/ \E s \in Enabled(YearRules(occ)) :
                      s # r /\ s.lead <= r.lead /\ s.lead > Latest(r.action, r.lead)

\* Handing a present over in person moves no deadline, but that of an errand
\* chosen late which only the posting it fed kept from sliding.
InPersonStands ==
    [][occ'.yearly # occ.yearly /\ occ'.yearly # {} /\ since = "none" =>
          \A a \in Action :
             Lives(a) /\ row'[a].state = "live" =>
                \/ row'[a] = row[a]
                \/ /\ \E r \in YearRules(occ) :
                         r.action = a /\ YearWritten(occ) - r.lead < OfferNotice
                   /\ \E s \in Enabled(YearRules(occ)) :
                         Posts(s.action) /\ s.lead > row'[a].due]_vars

\* A question once answered does not come back that year.
AnsweredStays == answered /\ Fresh => ~Lives("plan")
=============================================================================
