--------------------------- MODULE ContactImport ---------------------------
(***************************************************************************)
(* Bringing contacts in: the engine that lands each card in a transaction  *)
(* of its own and the edges between cards after them (packages/vcard/src/  *)
(* ingest.ts), the rule by which a card is added to somebody stored        *)
(* (packages/schema/src/attach.ts) against a pool read once per import     *)
(* (packages/data/src/attach-pool.ts), the writes behind it (packages/     *)
(* contact-import/src/api.ts), and what a phone remembers of its address   *)
(* book (apps/mobile/lib/device-contacts-sync.ts).                         *)
(*                                                                         *)
(* A card has a name, a gender or none (a middle name is compared and      *)
(* filled in as it is), and what it holds: pairs of a label and a value. A *)
(* label tells the list too: of emails, of phones, of handles by platform, *)
(* or a full birthday. Postal addresses and other dates, which can only    *)
(* tell two people apart, pets, tags, skipped rows and the wording of      *)
(* errors are left out.                                                    *)
(***************************************************************************)
EXTENDS Naturals, FiniteSets, SequencesExt

CONSTANTS
    Contact,    \* the cards of a phone's address book
    FileCard,   \* the cards of a file dropped on a desktop
    Says,       \* what each card says
    Slot,       \* people there is room for
    Known,      \* people a store may hold to begin with
    None, LeftOut,
    MaxImports, MaxEdits, MaxFaults  \* bounds

Card == Contact \cup FileCard

\* What people, stored or on a card, may be.
Person == [name : {Says[c].name : c \in Card} \cup {k.name : k \in Known},
           gender : {Says[c].gender : c \in Card} \cup {k.gender : k \in Known},
           holds : SUBSET ((UNION {Says[c].holds : c \in Card})
                             \cup (UNION {k.holds : k \in Known}))]

ASSUME PeopleAssumption ==
    /\ Known \subseteq Person
    /\ None \notin Person \cup Slot \cup Card
    /\ LeftOut \notin Slot

Edges == UNION {Says[c].related : c \in Card}
Dates == UNION {Says[c].dates : c \in Card}
Ids == {r.id : r \in Edges}

\* A file's ids are kept apart as its writer keeps them: a relation's is that
\* of one pair of cards and no card's, and a date is one relation's.
ASSUME FileAssumption ==
    /\ \A c \in Card : /\ IsFiniteSet(Says[c].related) /\ IsFiniteSet(Says[c].dates)
                       /\ Says[c].related \subseteq [to : Card \cup {None}, id : Ids]
                       /\ \A e \in Says[c].dates : e.rel # None
    /\ \A c, d \in Card :
          /\ \A r \in Says[c].related, s \in Says[d].related :
                (r.id = s.id /\ r.id # None /\ None \notin {r.to, s.to})
                    => {c, r.to} = {d, s.to}
          /\ \A e \in Says[c].dates, f \in Says[d].dates : e.id = f.id => e.rel = f.rel
    /\ Ids \cap Card = {}

VARIABLES
    mobile,     \* whether this device is a phone
    stored,     \* the people rows, with their contact methods
    gone,       \* the people deleted or merged away
    link,       \* device_contact_links: whom each contact became
    at,         \* "idle", "busy", or "done": the import and its outcome
    todo,       \* the cards it has yet to land
    pool,       \* the people as it found them, and as it left them
    byUid, pending, pendingDates, written, relIdByFileId, writtenDates,
    log,        \* the edges, named relations and dates it has written
    failed,     \* history: the edges and dates it could not write
    heir,       \* history: whom each person was last merged into, or itself
    stale,      \* history: contacts added to somebody gone since the pool
    imports, edits, faults

book == <<stored, gone, heir>>
second == <<pending, pendingDates, written, relIdByFileId, writtenDates, log, failed>>
vars == <<mobile, book, link, at, todo, pool, byUid, second, stale,
          imports, edits, faults>>

-----------------------------------------------------------------------------
(* The rule.                                                               *)

Unlabelled == "other"
Values(holds) == {h[2] : h \in holds}
Under(holds, label) == {h[2] : h \in {i \in holds : i[1] = label}}
Labels(holds) == {h[1] : h \in holds} \ {Unlabelled}

\* listsConflict, over all the lists at once
Conflict(a, b) ==
    \E l \in Labels(a) \cap Labels(b) : Under(a, l) \cap Under(b, l) = {}

\* canAttach: the same full name, a value in common, and nothing contradicted.
CanAttach(c, f) ==
    /\ c.name # None /\ c.name = f.name
    /\ Values(c.holds) \cap Values(f.holds) # {}
    /\ None \in {c.gender, f.gender} \/ c.gender = f.gender
    /\ ~Conflict(c.holds, f.holds)

\* attachTarget: the one person it can be, or nobody.
Target(c) ==
    LET people == {p \in Slot : pool[p] # None /\ CanAttach(Says[c], pool[p])}
    IN  IF Cardinality(people) = 1 THEN CHOOSE p \in people : TRUE ELSE None

Fields(c) == [name |-> Says[c].name, gender |-> Says[c].gender, holds |-> Says[c].holds]

\* A person with this gender, and holding this too.
With(f, gender, holds) == [f EXCEPT !.gender = gender, !.holds = @ \cup holds]
Gender(f, gap) == IF f.gender = None THEN gap ELSE f.gender

\* AttachPool.landed
PoolLanded(p, c) ==
    [pool EXCEPT ![p] = IF @ = None THEN Fields(c)
                        ELSE With(@, Gender(@, Says[c].gender), Says[c].holds)]

\* attach.into and the writes after it: what the pool lacks is added, to the
\* rows as they are by now; people.update finds nobody deleted.
Added(p, c) ==
    LET lacking == {h \in Says[c].holds : h[2] \notin Values(pool[p].holds)}
        gap == pool[p].gender = None /\ Says[c].gender # None /\ p \notin gone
    IN  [stored EXCEPT ![p] = With(@, IF gap THEN Says[c].gender ELSE @.gender, lacking)]

-----------------------------------------------------------------------------
(* Edges between cards.                                                    *)

\* A mutant of EdgeKey: without an id, by the card that states it.
EdgeKeyOneSided(c, r) == IF r.id # None THEN {r.id} ELSE {c}

\* edgeKey: the file's id for the edge, else its two cards, whichever states it.
EdgeKey(c, r) == IF r.id # None THEN {r.id} ELSE {c, r.to}

\* The edges a card states, with the person it became, in some order.
Held(c, p) ==
    SetToSeq({[from |-> c, owner |-> p, rel |-> r] :
                 r \in {s \in Says[c].related : s.to # None}})
HeldDates(c, p) == SetToSeq({[owner |-> p, date |-> d] : d \in Says[c].dates})

\* What the file means by them, and what the import wrote of it.
Relation(c, r) == [id |-> r.id, cards |-> {c, r.to}]
Date(d) == [id |-> d.id, cards |-> {}]
Wrote(what, of, people) == [what |-> what, of |-> of, people |-> people]

\* The edges that name no card are written with the card.
Named(c, p) ==
    SetToSeq({Wrote("named", Relation(c, r), {p}) :
                 r \in {s \in Says[c].related : s.to = None}})

-----------------------------------------------------------------------------
(* An import.                                                              *)

Alive(p) == stored[p] # None /\ p \notin gone

Init ==
    /\ mobile \in BOOLEAN
    /\ \E k \in Known \cup {None} :
          stored = [p \in Slot |-> IF p = CHOOSE q \in Slot : TRUE THEN k ELSE None]
    /\ gone = {} /\ heir = [p \in Slot |-> p]
    /\ link = [c \in Contact |-> None]
    /\ at = "idle" /\ todo = {} /\ pool = [p \in Slot |-> None]
    /\ byUid = [c \in Card |-> None]
    /\ pending = <<>> /\ pendingDates = <<>> /\ written = {} /\ relIdByFileId = {}
    /\ writtenDates = {} /\ log = <<>> /\ failed = {} /\ stale = {}
    /\ imports = 0 /\ edits = 0 /\ faults = 0

\* commit, from here on
Begin(cards) ==
    /\ at # "busy" /\ imports < MaxImports
    /\ imports' = imports + 1
    /\ at' = "busy" /\ todo' = cards
    /\ pool' = [p \in Slot |-> IF Alive(p) THEN stored[p] ELSE None]
    /\ byUid' = [c \in Card |-> None]
    /\ pending' = <<>> /\ pendingDates' = <<>> /\ written' = {} /\ relIdByFileId' = {}
    /\ writtenDates' = {} /\ log' = <<>> /\ failed' = {}
    /\ UNCHANGED <<mobile, book, link, stale, edits, faults>>

\* syncOnce: the contacts there are by now and that are not linked.
BeginSync ==
    /\ mobile
    /\ \E cards \in (SUBSET {c \in Contact : link[c] = None}) \ {{}} : Begin(cards)

\* The cards of a file the user did not skip.
BeginFile ==
    /\ ~mobile
    /\ \E cards \in (SUBSET FileCard) \ {{}} : Begin(cards)

\* A card's transaction, as committed: the link and the edges named with it.
Landed(c, p) ==
    /\ at = "busy" /\ Says[c].name # None
    /\ todo' = todo \ {c}
    /\ byUid' = [byUid EXCEPT ![c] = p]
    /\ pool' = PoolLanded(p, c)
    /\ link' = IF c \in Contact THEN [link EXCEPT ![c] = p] ELSE link
    /\ log' = log \o Named(c, p)
    /\ pending' = pending \o Held(c, p)
    /\ pendingDates' = pendingDates \o HeldDates(c, p)
    /\ UNCHANGED <<mobile, gone, heir, at, written, relIdByFileId, writtenDates, failed,
                   imports, edits, faults>>

LandNew(c) ==
    /\ Target(c) = None
    /\ LET free == {p \in Slot : stored[p] = None}
           new == CHOOSE p \in free : TRUE
       IN  /\ free # {}
           /\ stored' = [stored EXCEPT ![new] = Fields(c)]
           /\ Landed(c, new)
    /\ UNCHANGED stale

LandOn(c) ==
    LET target == Target(c)
    IN  /\ target # None
        /\ stored' = Added(target, c)
        /\ stale' = IF target \in gone THEN stale \cup {c} ELSE stale
        /\ Landed(c, target)

\* A nameless contact is remembered as left out; a nameless card is refused.
LeaveOut(c) ==
    /\ at = "busy" /\ Says[c].name = None
    /\ todo' = todo \ {c}
    /\ link' = IF c \in Contact THEN [link EXCEPT ![c] = LeftOut] ELSE link
    /\ UNCHANGED <<mobile, book, at, pool, byUid, second, stale, imports, edits, faults>>

Fault == faults < MaxFaults /\ faults' = faults + 1

\* A mutant of CardFails: the pool is told before the card commits.
CardFailsLanded(c) ==
    /\ Fault
    /\ at = "busy"
    /\ todo' = todo \ {c}
    /\ pool' = IF Target(c) = None THEN pool ELSE PoolLanded(Target(c), c)
    /\ UNCHANGED <<mobile, book, link, at, byUid, second, stale, imports, edits>>

\* A write of its transaction throws, and all of them are rolled back.
CardFails(c) ==
    /\ Fault
    /\ at = "busy"
    /\ todo' = todo \ {c}
    /\ UNCHANGED <<mobile, book, link, at, pool, byUid, second, stale, imports, edits>>

\* Phase 2a, of the first edge held: once per key, and by name if the other
\* card did not land.  The file's id is noted in the body of the transaction,
\* so a COMMIT that throws takes the edge back and leaves the note.
EdgeStep(done) ==
    /\ at = "busy" /\ todo = {} /\ pending # <<>>
    /\ pending' = Tail(pending)
    /\ LET e == Head(pending)
           key == EdgeKey(e.from, e.rel)
           of == Relation(e.from, e.rel)
           other == byUid[e.rel.to]
       IN  /\ written' = written \cup {key}
           /\ IF key \in written
                THEN UNCHANGED <<log, relIdByFileId, failed>>
              ELSE IF ~done
                THEN /\ failed' = failed \cup {of} /\ UNCHANGED log
                     /\ \/ UNCHANGED relIdByFileId
                        \/ /\ other # None
                           /\ relIdByFileId' = relIdByFileId \cup ({e.rel.id} \ {None})
              ELSE IF other = None
                THEN /\ log' = Append(log, Wrote("named", of, {e.owner}))
                     /\ UNCHANGED <<relIdByFileId, failed>>
              ELSE /\ log' = Append(log, Wrote("edge", of, {e.owner, other}))
                   /\ relIdByFileId' = relIdByFileId \cup ({e.rel.id} \ {None})
                   /\ UNCHANGED failed
    /\ UNCHANGED <<mobile, book, link, at, todo, pool, byUid, pendingDates, writtenDates, stale,
                   imports, edits>>

\* Phase 2b, of the first date held: on its edge, or on whom stated it.
DateStep(done) ==
    /\ at = "busy" /\ todo = {} /\ pending = <<>> /\ pendingDates # <<>>
    /\ pendingDates' = Tail(pendingDates)
    /\ LET d == Head(pendingDates)
           key == d.date.id
       IN  /\ writtenDates' = writtenDates \cup {key}
           /\ IF key \in writtenDates
                THEN UNCHANGED <<log, failed>>
              ELSE IF ~done
                THEN failed' = failed \cup {Date(d.date)} /\ UNCHANGED log
              ELSE IF d.date.rel \in relIdByFileId
                THEN /\ log' = Append(log, Wrote("edge's date", Date(d.date), {}))
                     /\ UNCHANGED failed
              ELSE /\ log' = Append(log, Wrote("date", Date(d.date), {d.owner}))
                   /\ UNCHANGED failed
    /\ UNCHANGED <<mobile, book, link, at, todo, pool, byUid, pending, written, relIdByFileId,
                   stale, imports, edits>>

Write == (EdgeStep(TRUE) \/ DateStep(TRUE)) /\ UNCHANGED faults
WriteFails == (EdgeStep(FALSE) \/ DateStep(FALSE)) /\ Fault

End ==
    /\ at = "busy" /\ todo = {} /\ pending = <<>> /\ pendingDates = <<>>
    /\ at' = "done" /\ pool' = [p \in Slot |-> None]
    /\ UNCHANGED <<mobile, book, link, todo, byUid, second, stale, imports, edits, faults>>

\* The app is killed; what has committed stays.
Kill ==
    /\ Fault
    /\ at = "busy"
    /\ at' = "idle" /\ todo' = {} /\ pool' = [p \in Slot |-> None]
    /\ byUid' = [c \in Card |-> None]
    /\ pending' = <<>> /\ pendingDates' = <<>> /\ written' = {} /\ relIdByFileId' = {}
    /\ writtenDates' = {} /\ log' = <<>> /\ failed' = {}
    /\ UNCHANGED <<mobile, book, link, stale, imports, edits>>

-----------------------------------------------------------------------------
(* The user of a phone, whose writes land between an import's              *)
(* transactions.  A desktop's are left out: nothing said of a file's       *)
(* import is about what its people become.                                 *)

Edit ==
    /\ edits < MaxEdits /\ edits' = edits + 1
    /\ mobile
    /\ UNCHANGED <<mobile, link, at, todo, pool, byUid, second, stale, imports, faults>>

Delete(p) ==
    /\ Edit /\ Alive(p)
    /\ gone' = gone \cup {p}
    /\ UNCHANGED <<stored, heir>>

\* mergePeople: the loser's contact methods move over, and fill a gap.
Merge(survivor, loser) ==
    /\ Edit /\ survivor # loser /\ Alive(survivor) /\ Alive(loser)
    /\ stored' = [stored EXCEPT
                    ![survivor] = With(@, Gender(@, stored[loser].gender), stored[loser].holds),
                    ![loser].holds = {}]
    /\ gone' = gone \cup {loser}
    /\ heir' = [p \in Slot |-> IF heir[p] = loser THEN survivor ELSE heir[p]]

Next ==
    \/ BeginSync \/ BeginFile \/ Write \/ WriteFails \/ End \/ Kill
    \/ \E c \in todo : LandNew(c) \/ LandOn(c) \/ LeaveOut(c) \/ CardFails(c)
    \/ \E p \in Slot : Delete(p) \/ \E q \in Slot : Merge(p, q)

Spec == Init /\ [][Next]_vars

-----------------------------------------------------------------------------
(* What holds.                                                             *)

Subject == [id : {x.id : x \in Edges \cup Dates}, cards : SUBSET (Card \cup {None})]
Entry == [what : {"named", "edge", "edge's date", "date"},
          of : Subject,
          people : SUBSET Slot]

TypeOK ==
    /\ mobile \in BOOLEAN
    /\ stored \in [Slot -> Person \cup {None}] /\ gone \subseteq Slot
    /\ heir \in [Slot -> Slot]
    /\ link \in [Contact -> Slot \cup {None, LeftOut}]
    /\ at \in {"idle", "busy", "done"} /\ todo \subseteq Card
    /\ pool \in [Slot -> Person \cup {None}] /\ byUid \in [Card -> Slot \cup {None}]
    /\ pending \in Seq([from : Card, owner : Slot, rel : {r \in Edges : r.to # None}])
    /\ pendingDates \in Seq([owner : Slot, date : Dates])
    /\ written \subseteq SUBSET (Card \cup Ids) /\ relIdByFileId \subseteq Ids
    /\ writtenDates \subseteq {d.id : d \in Dates}
    /\ log \in Seq(Entry) /\ failed \subseteq Subject
    /\ stale \subseteq Card
    /\ imports \in Nat /\ edits \in Nat /\ faults \in Nat

\* What a contact that is remembered as imported said is held by whoever it
\* became, unless the user has deleted them, or they had gone by the time it
\* was added to them: never imported again, it is not lost to a transaction
\* that rolled back, a kill, or a pool that says more than the store.
RecordsKept ==
    \A c \in {d \in Contact : link[d] \in Slot} \ stale :
        LET p == heir[link[c]]
        IN  \/ p \in gone
            \/ /\ Values(Says[c].holds) \subseteq Values(stored[p].holds)
               /\ Says[c].gender # None => stored[p].gender # None

Entries(of) == {i \in DOMAIN log : log[i].of = of}

HasEdge(id) == \E j \in DOMAIN log : log[j].what = "edge" /\ log[j].of.id = id
EdgeFailed(id) == \E f \in failed : f.cards # {} /\ f.id = id

\* Once an import is over, each relation its cards state is there once, however
\* many of its cards state it: between the two people the cards became, or by
\* name if one did not land; and each of the relation's dates is there once, on
\* the relation just when that was written.  Unless its own write failed; and
\* where the relation's did, the date may hang on the edge that is not there.
GraphOnce ==
    at = "done" =>
        \A c \in {d \in Card : byUid[d] # None} :
            /\ \A r \in {s \in Says[c].related : Relation(c, s) \notin failed} :
                  LET other == IF r.to = None THEN None ELSE byUid[r.to]
                  IN  \E i \in DOMAIN log :
                        /\ Entries(Relation(c, r)) = {i}
                        /\ IF other = None THEN log[i].what = "named"
                           ELSE log[i].people = {byUid[c], other}
            /\ \A d \in {e \in Says[c].dates : Date(e) \notin failed} :
                  \E i \in DOMAIN log :
                    /\ Entries(Date(d)) = {i}
                    /\ HasEdge(d.rel) => log[i].what = "edge's date"
                    /\ log[i].what = "edge's date" => HasEdge(d.rel) \/ EdgeFailed(d.rel)
=============================================================================
