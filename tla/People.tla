------------------------------- MODULE People -------------------------------
(***************************************************************************)
(* People, the relationships between them and the milestones they share,   *)
(* on several devices (packages/data/src/entity-service.ts,                *)
(* relationship-service.ts and the operations of core/src/index.ts that    *)
(* call them).  Each operation is one transaction that rewrites rows of    *)
(* several tables; the tables sync row by row, the later stamp winning.    *)
(*                                                                         *)
(* A standing is what a person is to the user: published; unpublished, a   *)
(* name on one published person's page; or a draft, being added.  Pets     *)
(* follow the same rules.  Of the facts a person bears the milestones are  *)
(* modelled, the only ones a relationship can bear too; every kind here    *)
(* suits every bearer, and every relationship has the same pair of roles.  *)
(***************************************************************************)
EXTENDS Naturals, FiniteSets

CONSTANTS Holder,   \* those who hold rows: the devices, and
          Server,   \* the relay
          Person, Edge,
          Fact,     \* milestones the user records
          None,
          Mine, Named, Adding,   \* standings: published, unpublished, draft
          MaxOps    \* bound on the user's operations

Devices == Holder \ {Server}
Standing == {Mine, Named, Adding}

\* A milestone recorded, or the copy of one that a bearer kept: the copy's id
\* is derived from the two.
Copy == Fact \X Person
Milestone == Fact \cup Copy
Item == Person \cup Edge \cup Milestone

ASSUME RowsAssumption ==
    /\ MaxOps \in Nat
    /\ Server \in Holder
    /\ \E t \in Person \X Person \X Person : t[1] # t[2] /\ t[1] # t[3] /\ t[2] # t[3]
    /\ \E t \in Edge \X Edge : t[1] # t[2]
    /\ Person \cap Edge = {} /\ Person \cap Milestone = {} /\ Edge \cap Milestone = {}
    /\ Fact \cap Copy = {}
    /\ Mine # Named /\ Mine # Adding /\ Named # Adding

VARIABLES
    store,      \* the rows each holder has, tombstones included
    clock,      \* the last millisecond a write used
    ops,
    seen,       \* history: of each person, the last change a holder has
    survivors,  \* history: persons another was merged into
    heir,       \* history: whom each person was last merged into, or themself
    contested,  \* history: persons changed by two devices apart, and all that
                \* was or has been changed with them
    revived,    \* history: milestones written where their removal elsewhere
                \* was not yet known
    pruned,     \* history: relationships a merge removed, loops and duplicates
    chained     \* history: persons named on the page of one not published,
                \* and that one

merges == <<survivors, heir, pruned>>
history == <<seen, merges, contested, revived, chained>>
peopleVars == <<store, clock, ops, history>>

PersonRow == [at : Nat, gone : BOOLEAN, standing : Standing]
EdgeRow == [at : Nat, gone : BOOLEAN, ends : SUBSET Person]
FactRow == [at : Nat, gone : BOOLEAN, bearer : Person \cup Edge]
Row(i) == IF i \in Person THEN PersonRow ELSE IF i \in Edge THEN EdgeRow ELSE FactRow
ASSUME NoRowAssumption == None \notin PersonRow \cup EdgeRow \cup FactRow

Store == {s \in [Item -> PersonRow \cup EdgeRow \cup FactRow \cup {None}] :
             \A i \in Item : s[i] \in Row(i) \cup {None}}

Live(row) == row # None /\ ~row.gone
People(s) == {p \in Person : Live(s[p])}
EdgesOf(s, p) == {e \in Edge : Live(s[e]) /\ p \in s[e].ends}
OtherEnd(s, e, p) == CHOOSE q \in s[e].ends : s[e].ends = {p, q}
FactsOn(s, b) == {f \in Milestone : Live(s[f]) /\ s[f].bearer = b}

\* The timeline of a person: their milestones and those of their
\* relationships, a copy standing for the milestone it is of.
Original(f) == IF f \in Fact THEN f ELSE f[1]
ShownOn(s, p) == FactsOn(s, p) \cup UNION {FactsOn(s, e) : e \in EdgesOf(s, p)}
Timeline(s, p) == {Original(f) : f \in ShownOn(s, p)}

-----------------------------------------------------------------------------
(* Of two versions of a row the later stays: no two writes share a stamp. *)

Later(a, b) == IF a = None THEN b
               ELSE IF b = None \/ a.at >= b.at THEN a ELSE b
Joined(s, t) == [i \in Item |-> Later(s[i], t[i])]

-----------------------------------------------------------------------------
(* Row writes.  Every change of a row that may have been written in the    *)
(* same millisecond stamps MAX(now, updated_at + 1).                       *)

Stamp(row, now) == IF row.at + 1 > now THEN row.at + 1 ELSE now
Tomb(row, now) == [row EXCEPT !.gone = TRUE, !.at = Stamp(row, now)]
Moved(row, to, now) == [row EXCEPT !.bearer = to, !.at = Stamp(row, now)]

WithPerson(s, p, standing, now) ==
    [s EXCEPT ![p] = [at |-> now, gone |-> FALSE, standing |-> standing]]
WithEdge(s, e, ends, now) ==
    [s EXCEPT ![e] = [at |-> now, gone |-> FALSE, ends |-> ends]]
WithFact(s, f, b, now) ==
    [s EXCEPT ![f] = [at |-> now, gone |-> FALSE, bearer |-> b]]

\* The rows of a set become tombstones.
Buried(s, rows, now) == [i \in Item |-> IF i \in rows THEN Tomb(s[i], now) ELSE s[i]]

\* publishIfUnpublished
Published(s, p, now) ==
    IF p \in People(s) /\ s[p].standing = Named THEN WithPerson(s, p, Mine, now) ELSE s

\* A removal takes its people one by one.  Together it comes to this: what two
\* of them share is handed from the first to the second, and goes with them.

Ending(s, gone) == UNION {EdgesOf(s, p) : p \in gone}

\* A mutant of HandedOver: milestones of a relationship go with it.
HandedOverToNobody(s, gone, now) == s

\* handOverSharedMilestones: each to the other end.
HandedOver(s, gone, now) ==
    [f \in Item |->
        IF f \in Milestone /\ Live(s[f]) /\ s[f].bearer \in Ending(s, gone)
           /\ s[s[f].bearer].ends \ gone # {}
        THEN Moved(s[f], CHOOSE q \in s[s[f].bearer].ends : q \notin gone, now)
        ELSE s[f]]

\* A mutant of FactsRemoved: hand over last, when the edges are gone.
FactsRemovedEdgesFirst(s, gone, now) ==
    LET r == Buried(s, Ending(s, gone) \cup UNION {FactsOn(s, p) : p \in gone}, now)
    IN  HandedOver(r, gone, now)

\* removeFacts: hand over, then the relationships and the milestones go.
FactsRemoved(s, gone, now) ==
    LET h == HandedOver(s, gone, now)
        ending == Ending(s, gone)
    IN  Buried(h, ending \cup UNION {FactsOn(h, b) : b \in gone \cup ending}, now)

\* softDelete and removeFacts of each.
Removed(s, gone, now) == FactsRemoved(Buried(s, gone, now), gone, now)

\* attachedUnpublished
Attached(s, p) == {q \in People(s) : /\ s[q].standing = Named
                                     /\ \E e \in EdgesOf(s, p) : OtherEnd(s, e, p) = q}

\* A mutant of Cascade: the attached are looked up once the edges are gone.
CascadeLate(s, ps, now) ==
    LET r == Removed(s, ps, now)
    IN  Removed(r, UNION {Attached(r, p) : p \in ps}, now)

\* softDeleteCascade: each entity, and one level of the unpublished ones.
Cascade(s, ps, now) == Removed(s, ps \cup UNION {Attached(s, p) : p \in ps}, now)

\* copyToBearer, unless the copy already was.
Copied(s, shared, ps, now) ==
    [i \in Item |-> IF i \in Copy /\ i[1] \in shared /\ i[2] \in ps /\ s[i] = None
                    THEN [at |-> now, gone |-> FALSE, bearer |-> i[2]] ELSE s[i]]

\* The ends of a relationship whom its removal leaves, and takes along.
Staying(s, e) == {p \in s[e].ends \cap People(s) : s[p].standing = Mine}
Leaving(s, e) == {p \in s[e].ends \cap People(s) : s[p].standing # Mine}

\* A mutant of Unrelated: the edge goes last, with what still hangs from it.
UnrelatedEdgeLast(s, e, now) ==
    LET ended == Removed(Copied(s, FactsOn(s, e), Staying(s, e), now), Leaving(s, e), now)
    IN  Buried(ended, FactsOn(ended, e) \cup IF ended[e].gone THEN {} ELSE {e}, now)

\* relationships.softDelete: a published end keeps a copy of what they shared,
\* any other goes with it.
Unrelated(s, e, now) ==
    LET shared == FactsOn(s, e)
        ended == Removed(Buried(s, {e}, now), Leaving(s, e), now)
    IN  Buried(Copied(ended, shared, Staying(s, e), now), shared, now)

\* relationships.repointEntity: the loser's edges become the survivor's, ...
EdgesRepointed(s, loser, survivor, now) ==
    [e \in Item |->
        IF e \in EdgesOf(s, loser)
        THEN [s[e] EXCEPT !.ends = (@ \ {loser}) \cup {survivor}, !.at = Stamp(s[e], now)]
        ELSE s[e]]

\* ... without loops, and of two between the same ends only the latest.
Redundant(s, p) ==
    {e \in EdgesOf(s, p) :
        \/ s[e].ends = {p}
        \/ \E d \in EdgesOf(s, p) \ {e} :
              /\ s[d].ends = s[e].ends
              /\ \/ s[d].at > s[e].at
                 \/ s[d].at = s[e].at /\ e # CHOOSE k \in {d, e} : TRUE}

\* mergePeople
Merged(s, survivor, loser, now) ==
    LET moved == EdgesRepointed(s, loser, survivor, now)
        edges == Buried(moved, Redundant(moved, survivor), now)
        facts == [f \in Item |-> IF f \in FactsOn(s, loser)
                                 THEN Moved(edges[f], survivor, now) ELSE edges[f]]
        standing == IF s[loser].standing = Mine THEN Mine ELSE s[survivor].standing
    IN  Buried(WithPerson(facts, survivor, standing, now), {loser}, now)

-----------------------------------------------------------------------------

\* randomUUID: an id nobody has used.
Unused(table) == {i \in table : \A h \in Holder : store[h][i] = None}
Fresh(table) == CHOOSE i \in Unused(table) : TRUE

\* Two people the user published, strangers or related; then the first has a
\* third on their page.
First(ids, edges, met) ==
    LET couple == WithPerson(WithPerson([i \in Item |-> None], ids[1], Mine, 1), ids[2], Mine, 1)
        named == WithPerson(couple, ids[3], Named, 1)
    IN  IF met THEN WithEdge(WithEdge(named, edges[1], {ids[1], ids[2]}, 1),
                             edges[2], {ids[1], ids[3]}, 1)
               ELSE couple

PeopleInit ==
    /\ \E met \in BOOLEAN :
          LET ids == CHOOSE t \in Person \X Person \X Person :
                        t[1] # t[2] /\ t[1] # t[3] /\ t[2] # t[3]
              edges == CHOOSE t \in Edge \X Edge : t[1] # t[2]
          IN  store = [h \in Holder |-> First(ids, edges, met)]
    /\ clock = 1 /\ ops = 0
    /\ seen = [h \in Holder |-> [p \in Person |-> 0]]
    /\ survivors = {} /\ heir = [p \in Person |-> p]
    /\ contested = {} /\ revived = {} /\ pruned = {} /\ chained = {}

\* The rows about a person: their own, their relationships', and those of the
\* milestones on either.
About(s, p) ==
    {i \in Item : /\ s[i] # None
                  /\ \/ i = p
                     \/ i \in Edge /\ p \in s[i].ends
                     \/ /\ i \in Milestone
                        /\ \/ s[i].bearer = p
                           \/ s[i].bearer \in Edge /\ p \in s[s[i].bearer].ends}

Changed(s, t) == {p \in Person : \E i \in About(s, p) \cup About(t, p) : s[i] # t[i]}

\* Another holder has a later change of somebody or some row that is changed.
Outrun(d, s) ==
    \E h \in Holder :
        \/ \E p \in Changed(store[d], s) : seen[h][p] > seen[d][p]
        \/ \E i \in Item : s[i] # store[d][i] /\ Later(store[d][i], store[h][i]) # store[d][i]

\* Those of whom somebody has a change that another has not.
InTransit == {p \in Person : \E g, h \in Holder : seen[g][p] # seen[h][p]}

\* One transaction on a device, its stamps and its place in history.
Commit(d, s) ==
    /\ ops' = ops + 1 /\ clock' = clock + 2
    /\ s # store[d]
    /\ store' = [store EXCEPT ![d] = s]
    /\ LET changed == Changed(store[d], s)
       IN  /\ seen' = [seen EXCEPT ![d] = [p \in Person |-> IF p \in changed THEN clock + 1 ELSE @[p]]]
           /\ contested' = IF Outrun(d, s) \/ changed \cap contested # {}
                           THEN contested \cup changed \cup InTransit ELSE contested
    /\ revived' = revived \cup {f \in Fact : /\ s[f] # store[d][f] /\ Live(s[f])
                                             /\ \E h \in Holder : store[h][f] # None /\ store[h][f].gone}

Here(d, standings) == {p \in People(store[d]) : store[d][p].standing \in standings}

\* createWithNewOther: a name typed on p's page that matches nobody.
AddOther(d, p) ==
    /\ Unused(Person) # {} /\ Unused(Edge) # {}
    /\ LET q == Fresh(Person)
       IN  /\ Commit(d, WithEdge(WithPerson(store[d], q, Named, clock + 1),
                                 Fresh(Edge), {p, q}, clock + 1))
           /\ chained' = IF store[d][p].standing = Mine THEN chained ELSE chained \cup {p, q}
    /\ UNCHANGED merges

\* createFromSubject: an end that was only a name becomes the user's own.
Relate(d, p, q) ==
    /\ p # q /\ Unused(Edge) # {}
    /\ LET s == WithEdge(store[d], Fresh(Edge), {p, q}, clock + 1)
       IN  Commit(d, Published(Published(s, p, clock + 1), q, clock + 1))
    /\ UNCHANGED <<merges, chained>>

Unrelate(d, e) ==
    /\ Live(store[d][e])
    /\ Commit(d, Unrelated(store[d], e, clock + 1))
    /\ UNCHANGED <<merges, chained>>

\* milestones.create on a person or a relationship.
AddFact(d, b) ==
    /\ Unused(Fact) # {}
    /\ LET s == WithFact(store[d], Fresh(Fact), b, clock + 1)
       IN  Commit(d, IF b \in Person THEN Published(s, b, clock + 1) ELSE s)
    /\ UNCHANGED <<merges, chained>>

\* people.update: a name, or more than a name.
Update(d, p, more) ==
    LET s == WithPerson(store[d], p, store[d][p].standing, clock + 1)
    IN  /\ Commit(d, IF more THEN Published(s, p, clock + 1) ELSE s)
        /\ UNCHANGED <<merges, chained>>

Delete(d, p) ==
    /\ Commit(d, Cascade(store[d], {p}, clock + 1))
    /\ UNCHANGED <<merges, chained>>

Merge(d, survivor, loser) ==
    /\ survivor # loser
    /\ Commit(d, Merged(store[d], survivor, loser, clock + 1))
    /\ survivors' = survivors \cup {survivor} /\ heir' = [heir EXCEPT ![loser] = survivor]
    /\ pruned' = pruned \cup Redundant(EdgesRepointed(store[d], loser, survivor, clock + 1), survivor)
    /\ UNCHANGED chained

\* drafts.create, publish, discard, and the discardAll of a start of the app.
StartDraft(d) ==
    /\ Unused(Person) # {}
    /\ Commit(d, WithPerson(store[d], Fresh(Person), Adding, clock + 1))
    /\ UNCHANGED <<merges, chained>>

PublishDraft(d, p) ==
    /\ Commit(d, WithPerson(store[d], p, Mine, clock + 1))
    /\ UNCHANGED <<merges, chained>>

DiscardDrafts(d, drafts) ==
    /\ drafts # {}
    /\ Commit(d, Cascade(store[d], drafts, clock + 1))
    /\ UNCHANGED <<merges, chained>>

-----------------------------------------------------------------------------
(* Sync: SyncEngine has its steps; here a push and a pull are one.         *)

Sync(d) ==
    /\ store' = [h \in Holder |-> IF h \in {d, Server} THEN Joined(store[Server], store[d]) ELSE store[h]]
    /\ store' # store
    /\ seen' = [h \in Holder |->
                  IF h \in {d, Server}
                  THEN [p \in Person |-> IF seen[d][p] > seen[Server][p] THEN seen[d][p] ELSE seen[Server][p]]
                  ELSE seen[h]]
    /\ UNCHANGED <<clock, ops, merges, contested, revived, chained>>

Operate(d) ==
    /\ ops < MaxOps
    /\ \/ StartDraft(d)
       \/ \E p \in People(store[d]) :
            \/ AddOther(d, p) \/ AddFact(d, p)
            \/ \E q \in Here(d, {Mine, Named}) : Relate(d, p, q)
            \/ \E more \in BOOLEAN : Update(d, p, more)
       \/ \E p \in Here(d, {Mine, Named}) :
            \/ Delete(d, p)
            \/ \E q \in Here(d, {Mine}) : Merge(d, p, q)
       \/ \E e \in Edge :
            \/ Unrelate(d, e)
            \/ Live(store[d][e]) /\ AddFact(d, e)
       \/ \E p \in Here(d, {Adding}) : PublishDraft(d, p) \/ DiscardDrafts(d, {p})
       \/ DiscardDrafts(d, Here(d, {Adding}))

PeopleNext == \E d \in Devices : Sync(d) \/ Operate(d)

PeopleSpec == PeopleInit /\ [][PeopleNext]_peopleVars

-----------------------------------------------------------------------------
(* What holds.                                                             *)

PeopleTypeOK ==
    /\ store \in [Holder -> Store] /\ clock \in Nat /\ ops \in 0 .. MaxOps
    /\ seen \in [Holder -> [Person -> Nat]]
    /\ survivors \subseteq Person /\ heir \in [Person -> Person]
    /\ contested \subseteq Person /\ revived \subseteq Fact
    /\ pruned \subseteq Edge /\ chained \subseteq Person

\* On every device, whatever has synced: a relationship joins two people still
\* there, and a milestone hangs from a person or a relationship still there,
\* except where two devices changed a person before seeing each other's change
\* and on the relationships a merge removed.
NothingDangles ==
    \A d \in Devices : LET s == store[d] IN
        /\ \A e \in Edge : Live(s[e]) /\ s[e].ends \cap contested = {}
              => s[e].ends \subseteq People(s) /\ \E p, q \in Person : p # q /\ s[e].ends = {p, q}
        /\ \A f \in Milestone : Live(s[f]) =>
              LET b == s[f].bearer
              IN  IF b \in Person THEN b \in People(s) \cup contested
                  ELSE Live(s[b]) \/ b \in pruned \/ s[b].ends \cap contested # {}

\* An unpublished person holds exactly one relationship, and no milestone of
\* their own, unless they were named on the page of one who is not published.
OneAnchor ==
    \A d \in Devices : \A p \in Here(d, {Named}) \ (contested \cup chained) :
        (\E e \in Edge : EdgesOf(store[d], p) = {e}) /\ FactsOn(store[d], p) = {}

\* Of p's timeline on d nothing is lost, but to a relationship a merge removed: it
\* is p's still, or that of whom they were merged into.
TimelineKept(d, p) ==
    LET q == IF p \in People(store'[d]) THEN p ELSE heir'[p]
        shown == IF q \in People(store'[d]) \ contested' THEN Timeline(store'[d], q) ELSE Fact
    IN  \A f \in Timeline(store[d], p) \ shown :
            \E e \in pruned' : Live(store'[d][f]) /\ store'[d][f].bearer = e

\* A milestone on a person's timeline stays on it for as long as they do:
\* through the deletion of the other person it was shared with, the end of the
\* relationship, and any merge but of the relationship it hangs from; and a
\* merged person's timeline becomes the survivor's.
FactsKept ==
    [][\A d \in Devices : store'[d] # store[d] =>
          \A p \in People(store[d]) \ contested' : TimelineKept(d, p)]_peopleVars

\* Devices that end the same relationship, before or after they sync, keep one
\* copy of a milestone for each of its ends and not the milestone too: nobody's
\* timeline shows one twice, unless they took over another's or a device that
\* did not know it was removed handed it on.
CopiesCoincide ==
    \A d \in Devices : \A p \in People(store[d]) \ survivors :
        \A f, g \in ShownOn(store[d], p) :
            Original(f) = Original(g) /\ Original(f) \notin revived => f = g
=============================================================================
