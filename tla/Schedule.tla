------------------------------ MODULE Schedule ------------------------------
(***************************************************************************)
(* When an occasion's reminders come due (packages/schema/src/milestone.ts *)
(* and reminder-rule.ts): the registry of actions, the kinds' default      *)
(* schedules, the annual question and what it offers, and the deadlines of *)
(* errands chosen late.                                                    *)
(*                                                                         *)
(* A day is the number of days left to the occasion.  A schedule is a set  *)
(* of rules, one to an action (reminderScheduleInputSchema refuses two);   *)
(* a rule is its action, the days before the occasion it is due (lead),    *)
(* and whether it is on.  Labels and copy are left out.                    *)
(***************************************************************************)
EXTENDS Integers, FiniteSets, Sequences, SequencesExt

None == "none"

-----------------------------------------------------------------------------
(* The registry.                                                           *)

\* Listing order; "plan" is the question.
Actions == <<"wish", "get:gift", "get:card", "send:card", "send:gift",
             "give:card", "give:gift", "visit:resting-place", "remember",
             "arrange:party", "arrange:meal", "other", "plan">>
Action == Range(Actions)
Listed(a) == CHOOSE i \in DOMAIN Actions : Actions[i] = a

\* activeDays: how long before its due date a reminder goes on display.
RunUp(a) ==
    CASE a \in {"get:gift", "get:card"} -> 30
      [] a = "arrange:party" -> 21
      [] a \in {"send:card", "arrange:meal", "plan"} -> 14
      [] a = "send:gift" -> 10
      [] a = "visit:resting-place" -> 7
      [] OTHER -> 0

\* latestOffsetDays: how late an errand can still be done.
Latest(a, lead) ==
    CASE a \in {"get:gift", "get:card", "arrange:meal"} -> Min({lead, 1})
      [] a = "arrange:party" -> Min({lead, 7})
      [] OTHER -> lead

\* deliveryOf: what a posting or a handing over delivers.
DeliveryOf(a) ==
    CASE a \in {"send:gift", "give:gift"} -> "get:gift"
      [] a \in {"send:card", "give:card"} -> "get:card"
      [] OTHER -> None


Posts(a) == a \in {"send:gift", "send:card"}
HandsOver(send) == IF send = "send:gift" THEN "give:gift" ELSE "give:card"

Rule(a, lead, on) == [action |-> a, lead |-> lead, on |-> on]
Off(as, lead) == {Rule(a, lead, FALSE) : a \in as}
Named(rules) == {r.action : r \in rules}
Enabled(rules) == {r \in rules : r.on}
Switched(rules, as, on) ==
    {IF r.action \in as THEN [r EXCEPT !.on = on] ELSE r : r \in rules}

Birthday == Off({"get:gift", "get:card"}, 12)
            \cup Off({"send:card", "send:gift"}, 7)
            \cup Off({"give:card", "give:gift"}, 0)

\* kindDefs, of the kinds that ask: their default schedules by audience.
KindDefaults(kind, audience) ==
    IF audience = "memorial"
    THEN {Rule("remember", 0, TRUE)}
         \cup (IF kind \in {"birthday", "death"}
               THEN Off({"visit:resting-place"}, 0) ELSE {})
    ELSE IF audience = "own" /\ kind # "death"
    THEN IF kind = "birthday"
         THEN {Rule("arrange:party", 21, FALSE), Rule("wish", 0, TRUE)}
         ELSE Birthday \cup Off({"arrange:meal"}, 7) \cup Off({"wish"}, 0)
    ELSE CASE kind = "birthday" -> Birthday \cup {Rule("wish", 0, TRUE)}
           [] kind = "wedding" -> Birthday \cup Off({"wish"}, 0)
           [] kind = "first-date" ->
                Off({"get:card"}, 12) \cup Off({"send:card"}, 7)
                \cup Off({"give:card", "wish"}, 0)
           [] OTHER -> Off({"remember"}, 0)

-----------------------------------------------------------------------------
(* The question: what it offers, and when it comes due.                    *)

BelatedDays == 2
OfferNotice == 2   \* OFFER_NOTICE_DAYS
DisplayWindow == 30

\* promptOffsetDays
PromptOffset(defaults) == Max({0} \cup {r.lead + RunUp(r.action) : r \in defaults})

\* fitsAt
FitsAt(a, lead, out) ==
    IF Latest(a, lead) = 0 THEN out >= 0
                           ELSE out - Latest(a, lead) >= OfferNotice

\* planOffers: a delivery goes with what it delivers.
Offers(defaults, stored, out) ==
    LET authored == Named(stored)
        drawn == stored \cup {d \in defaults : d.action \notin authored}
        fits == {r \in drawn : FitsAt(r.action, r.lead, out)}
        goods == Named(fits) \cup {None}
    IN  {r \in fits : DeliveryOf(r.action) \in goods}

\* planTiming: the question's due day, and whether the occasion was learned
\* too late for the usual one.
Timing(defaults, stored, learned) ==
    LET usual == PromptOffset(defaults)
        lasts == {Latest(r.action, r.lead) + OfferNotice :
                    r \in {o \in Offers(defaults, stored, learned) :
                             Latest(o.action, o.lead) > 0}}
    IN  IF learned - usual >= OfferNotice
        THEN [due |-> usual, late |-> FALSE]
        ELSE [due |-> Max({0} \cup {l \in lasts : l < learned}), late |-> TRUE]

-----------------------------------------------------------------------------
(* Errands chosen late.                                                    *)

\* A mutant of Slid: no errand slides.
SlidNever(a, lead, learned) == lead

\* effectiveOffsetDays
Slid(a, lead, learned) ==
    IF learned < 0 \/ learned - lead >= OfferNotice THEN lead
                                                    ELSE Latest(a, lead)

\* furthestFirst; rules of one lead are taken in listing order, which the
\* store leaves open.
Before(r, s) ==
    \/ r.lead > s.lead
    \/ (r.lead = s.lead /\ Listed(r.action) < Listed(s.action))
FurthestFirst(rules) ==
    [i \in 1 .. Cardinality(rules) |->
        CHOOSE r \in rules : Cardinality({s \in rules : Before(s, r)}) = i - 1]

\* A mutant of Deadlines: every rule slides, whatever waits on it.
DeadlinesEachAlone(rules, learned) ==
    {[action |-> r.action, due |-> Slid(r.action, r.lead, learned)] : r \in rules}

\* effectiveOffsets: the walk back from the last of the timed rules, which keeps
\* a rule that would slide past one authored to follow it where it was.
Floors(timed, learned) ==
    LET slid(i) == Slid(timed[i].action, timed[i].lead, learned)
        floor[i \in 1 .. Len(timed) + 1] ==
            IF i > Len(timed) THEN 0
            ELSE IF slid(i) < floor[i + 1] THEN timed[i].lead ELSE slid(i)
    IN  floor
Deadlines(rules, learned) ==
    LET timed == FurthestFirst(rules)
    IN  {[action |-> timed[i].action, due |-> Floors(timed, learned)[i]] : i \in DOMAIN timed}

\* isWithinWindow: on display from its run-up to two days after the occasion.
InWindow(out, due, runUp) == out - due <= runUp /\ out >= -BelatedDays

-----------------------------------------------------------------------------
(* What the user may make of a schedule.                                   *)

\* The posting that is on offer for an item, if any (promptDraftOf).
Posting(offers, item) ==
    {r.action : r \in {o \in offers : Posts(o.action) /\ DeliveryOf(o.action) = item}}

\* setPromptItem over promptDraftOf, then promptAnswerOf: each ticked item
\* takes its delivery along, by post where posting is offered; an item that was
\* ticked already keeps the delivery it had.
Answered(offers, ticked) ==
    LET delivers(r) == DeliveryOf(r.action) # None
                       /\ DeliveryOf(r.action) \in Named(offers)
        was(item) == item \in Named(Enabled(offers))
        on(r) == IF ~delivers(r) THEN r.action \in ticked
                 ELSE /\ DeliveryOf(r.action) \in ticked
                      /\ IF was(DeliveryOf(r.action)) THEN r.on
                         ELSE Posts(r.action)
                              <=> Posting(offers, DeliveryOf(r.action)) # {}
    IN  {[r EXCEPT !.on = on(r)] : r \in offers}

\* withSomethingElse
SomethingElse == Rule("other", 7, TRUE)

\* scheduleWithAnswer: a rule the question did not offer is kept as it was.
WithAnswer(schedule, answer) ==
    answer \cup {r \in schedule : r.action \notin Named(answer)}

\* handedOverInPerson
InPerson(rules, send) ==
    {r \in Switched(rules, {send}, FALSE) : r.action # HandsOver(send)}
    \cup {Rule(HandsOver(send), 0, TRUE)}
=============================================================================
