------------------------------ MODULE Kinship ------------------------------
(***************************************************************************)
(* What the relationships on record say of everybody else: the relatives   *)
(* worked out on every read (packages/data/src/kinship-service.ts), from   *)
(* roles and the rules they compose by (packages/schema/src/               *)
(* relationship.ts), against the operations that change the record on one  *)
(* device (relationship-service.ts, entity-service.ts, dismissals-repo.ts  *)
(* and their callers).                                                     *)
(*                                                                         *)
(* A role is a neutral base and the gender it implies of its holder.  A    *)
(* tie maps each of its two ends to the role that end has; the same tie    *)
(* recorded twice is one.  Notes and labels are left out.                  *)
(***************************************************************************)
EXTENDS Naturals, FiniteSets

CONSTANTS Person, Pet,
          Offered,  \* the roles the user picks from
          MaxOps    \* bound on the user's operations

Being == Person \cup Pet

VARIABLES
    standing,   \* of each being; "absent" before it is added, "gone" after
    gender,     \* as stated on its card
    ties,
    dismissed,  \* <<subject, other, base>>: relatives the user said are not
    rejected,   \* history: what was dismissed, of whom it was at the time
    heir,       \* history: whom each was last merged into, or itself
    ops

vars == <<standing, gender, ties, dismissed, rejected, heir, ops>>

-----------------------------------------------------------------------------
(* Roles.                                                                  *)

None == "none"
Gender == {"male", "female", None}

\* Of the bases without gendered forms that compose with nothing, two.
InverseBase ==
    [parent |-> "child", child |-> "parent", sibling |-> "sibling",
     spouse |-> "spouse", friend |-> "friend", owner |-> "pet", pet |-> "owner",
     grandparent |-> "grandchild", grandchild |-> "grandparent",
     pibling |-> "nibling", nibling |-> "pibling",
     parent_in_law |-> "child_in_law", child_in_law |-> "parent_in_law",
     sibling_in_law |-> "sibling_in_law"]

Base == DOMAIN InverseBase
Gendered == Base \ {"friend", "owner", "pet"}
Role == [base : Base, implies : Gender]

\* genderedVariant
Variant(base, g) == [base |-> base, implies |-> IF base \in Gendered THEN g ELSE None]
Neutral(base) == Variant(base, None)
InverseRole(role) == Neutral(InverseBase[role.base])

\* holderAllows
CanHold(role, b) == /\ role.base = "owner" => b \in Person
                    /\ role.base = "pet" => b \in Pet

\* compositionTable: M to S, O to M, and so O to S.
Composition ==
    {<<"parent", "parent", "grandparent">>, <<"parent", "sibling", "pibling">>,
     <<"sibling", "child", "nibling">>, <<"child", "child", "grandchild">>,
     <<"spouse", "parent", "parent_in_law">>,
     <<"spouse", "sibling", "sibling_in_law">>}

ASSUME KinshipAssumption ==
    /\ Person \cap Pet = {} /\ Cardinality(Person \cup Pet) >= 4
    /\ Offered \subseteq Role /\ MaxOps \in Nat

-----------------------------------------------------------------------------
(* Reading the record.                                                     *)

Alive(b) == standing[b] \notin {"absent", "gone"}
Published(b) == standing[b] = "published"
TiesOf(b) == {t \in ties : b \in DOMAIN t}
OtherEnd(t, b) == CHOOSE o \in DOMAIN t : o # b

\* genderFor: as stated, or as all the gendered roles of its own agree.
GenderFor(b) ==
    LET implied == {t[b].implies : t \in TiesOf(b)} \ {None}
    IN  IF gender[b] # None THEN gender[b]
        ELSE IF Cardinality(implied) = 1 THEN CHOOSE g \in implied : TRUE ELSE None

\* The ties a page shows: whatever the other end's standing, but a draft's.
Explicit(b) ==
    {o \in Being \ {b} : /\ \E t \in ties : DOMAIN t = {b, o}
                         /\ Alive(o) /\ standing[o] # "draft"}

\* The neighbours that are no route: unpublished, and not being drafted.
Inert(b) == {o \in Explicit(b) : ~Published(o)}

\* composeRoles
Composed(r, q) == {c[3] : c \in {d \in Composition : d[1] = r.base /\ d[2] = q.base}}

\* The ties that lead on from a neighbour of b, to the published.
Onward(m, b) == {t \in TiesOf(m) : OtherEnd(t, m) # b /\ Published(OtherEnd(t, m))}

\* Those whose roles compose through one neighbour.
Through(m, role, b) ==
    UNION {{[to |-> OtherEnd(t, m), role |-> r] : r \in Composed(role, t[OtherEnd(t, m)])} :
               t \in Onward(m, b)}

\* The walk, of one hop (MAX_DEPTH).
Candidates(b) ==
    UNION {Through(OtherEnd(s, b), s[OtherEnd(s, b)], b) :
               s \in {t \in TiesOf(b) : OtherEnd(t, b) \notin Inert(b)}}

Undismissed(b) == {c \in Candidates(b) : <<b, c.to, c.role>> \notin dismissed}

\* neighborsFor's derived edges: of the published, explicit ties first, and
\* none between two that the record gives two roles.
Derived(b) ==
    IF ~Published(b) THEN {}
    ELSE {c \in Undismissed(b) :
            /\ c.to \notin Explicit(b)
            /\ \A d \in Undismissed(b) : d.to = c.to => d.role = c.role}

\* The role a derived edge is shown with.
ShownRole(c) == Variant(c.role, GenderFor(c.to))

-----------------------------------------------------------------------------
(* Writing it.                                                             *)

Tie(a, ra, b, rb) == [e \in {a, b} |-> IF e = a THEN ra ELSE rb]

Op == ops < MaxOps /\ ops' = ops + 1

Promoted(bs) == [b \in Being |-> IF b \in bs /\ standing[b] = "unpublished"
                                 THEN "published" ELSE standing[b]]

\* relationshipSchema: each end may hold its role.
Holds(t) == \A b \in DOMAIN t : CanHold(t[b], b)

\* The tie that a page's form makes of another being in a role (inverseRole),
\* where relationshipInputOf lets it.
Formed(s, o, role) == Tie(s, InverseRole(role), o, role)
Fits(s, o, role) == s # o /\ CanHold(role, o) /\ Holds(Formed(s, o, role))

\* Strangers, or three in a row; one more being is still to be added.
Init ==
    /\ \E absent, a, b, c \in Being, r, q \in Offered :
          /\ Cardinality({absent, a, b, c}) = 4
          /\ standing = [d \in Being |-> IF d = absent THEN "absent" ELSE "published"]
          /\ Fits(a, b, r) /\ Fits(b, c, q)
          /\ ties \in {{}, {Formed(a, b, r), Formed(b, c, q)}}
    /\ gender = [b \in Being |-> None]
    /\ dismissed = {} /\ rejected = {}
    /\ heir = [b \in Being |-> b] /\ ops = 0

\* createFromSubject
Relate(s, o, role) ==
    /\ Op
    /\ Alive(s) /\ standing[o] \in {"published", "unpublished"} /\ Fits(s, o, role)
    /\ ties' = ties \cup {Formed(s, o, role)}
    /\ standing' = Promoted({s, o})
    /\ UNCHANGED <<gender, dismissed, rejected, heir>>

\* createWithNewOther
RelateNew(s, o, role) ==
    /\ Op
    /\ Alive(s) /\ standing[o] = "absent" /\ Fits(s, o, role)
    /\ ties' = ties \cup {Formed(s, o, role)}
    /\ standing' = [standing EXCEPT ![o] = "unpublished"]
    /\ UNCHANGED <<gender, dismissed, rejected, heir>>

\* A mutant of Edited: the subject keeps its role.
EditedOneEnd(t, s, role) == Tie(s, t[s], OtherEnd(t, s), role)

\* editFromSubject: the subject's own role follows, and keeps its gender.
Edited(t, s, role) ==
    Tie(s, Variant(InverseBase[role.base], t[s].implies), OtherEnd(t, s), role)

EditRole(s, t, role) ==
    /\ Op
    /\ t \in TiesOf(s) /\ Fits(s, OtherEnd(t, s), role)
    /\ ties' = (ties \ {t}) \cup {Edited(t, s, role)}
    /\ UNCHANGED <<standing, gender, dismissed, rejected, heir>>

\* softDelete and removeFacts of some, with what is left of the record.
Removed(bs, record) ==
    /\ standing' = [b \in Being |-> IF b \in bs THEN "gone" ELSE standing[b]]
    /\ ties' = {t \in record : DOMAIN t \cap bs = {}}
    /\ dismissed' = {d \in dismissed : {d[1], d[2]} \cap bs = {}}
    /\ UNCHANGED <<gender, rejected, heir>>

\* relationships.softDelete: an end that is not published goes with it.
Unrelate(t) ==
    /\ Op
    /\ Removed({b \in DOMAIN t : Alive(b) /\ ~Published(b)}, ties \ {t})

\* softDeleteCascade: with the unpublished on its page.
Delete(b) ==
    /\ Op
    /\ standing[b] \in {"published", "unpublished"}
    /\ Removed({b} \cup {o \in Explicit(b) : standing[o] = "unpublished"}, ties)

\* people.update with a gender, which is a fact of its own.
SetGender(b, g) ==
    /\ Op
    /\ Alive(b) /\ g # gender[b]
    /\ gender' = [gender EXCEPT ![b] = g]
    /\ standing' = Promoted({b})
    /\ UNCHANGED <<ties, dismissed, rejected, heir>>

\* kinship.dismiss, with the base of the role that is shown.
Dismiss(b, c) ==
    /\ Op
    /\ c \in Derived(b)
    /\ dismissed' = dismissed \cup {<<b, c.to, ShownRole(c).base>>}
    /\ rejected' = rejected \cup {<<b, c.to, c.role>>}
    /\ UNCHANGED <<standing, gender, ties, heir>>

\* kinship.undismiss
Restore(d) ==
    /\ Op
    /\ dismissed' = dismissed \ {d}
    /\ rejected' = {r \in rejected : <<heir[r[1]], heir[r[2]], r[3]>> # d}
    /\ UNCHANGED <<standing, gender, ties, heir>>

\* A mutant of Repointed: a dismissal's other end stays who it was.
RepointedSubject(d, survivor, loser) ==
    <<IF d[1] = loser THEN survivor ELSE d[1], d[2], d[3]>>

\* dismissals.repointEntity, of one
Repointed(d, survivor, loser) ==
    <<IF d[1] = loser THEN survivor ELSE d[1],
      IF d[2] = loser THEN survivor ELSE d[2], d[3]>>

\* relationships.repointEntity, of one
TieMoved(t, survivor, loser) ==
    IF loser \notin DOMAIN t THEN t
    ELSE Tie(survivor, t[loser], OtherEnd(t, loser), t[OtherEnd(t, loser)])

\* mergePeople: ties and dismissals move over, but for those between the two;
\* a gender the survivor has not, and a standing, come along.
Merge(survivor, loser) ==
    /\ Op
    /\ survivor # loser /\ {survivor, loser} \subseteq Person
    /\ standing[survivor] \in {"published", "unpublished"} /\ Published(loser)
    /\ ties' = {TieMoved(t, survivor, loser) :
                    t \in {u \in ties : DOMAIN u # {survivor, loser}}}
    /\ dismissed' = {d \in {Repointed(e, survivor, loser) : e \in dismissed} : d[1] # d[2]}
    /\ gender' = [gender EXCEPT ![survivor] = IF @ = None THEN gender[loser] ELSE @]
    /\ standing' = [standing EXCEPT ![survivor] = "published", ![loser] = "gone"]
    /\ heir' = [b \in Being |-> IF heir[b] = loser THEN survivor ELSE heir[b]]
    /\ UNCHANGED <<rejected>>

\* drafts.create, drafts.publish and discardDraft
StartDraft(b) ==
    /\ Op
    /\ standing[b] = "absent"
    /\ standing' = [standing EXCEPT ![b] = "draft"]
    /\ UNCHANGED <<gender, ties, dismissed, rejected, heir>>

PublishDraft(b) ==
    /\ Op
    /\ standing[b] = "draft"
    /\ standing' = [standing EXCEPT ![b] = "published"]
    /\ UNCHANGED <<gender, ties, dismissed, rejected, heir>>

DiscardDraft(b) ==
    /\ Op
    /\ standing[b] = "draft"
    /\ Removed({b} \cup {o \in Explicit(b) : standing[o] = "unpublished"}, ties)

Next ==
    \/ \E s, o \in Being, role \in Offered :
          \/ Relate(s, o, role) \/ RelateNew(s, o, role)
          \/ \E t \in ties : DOMAIN t = {s, o} /\ EditRole(s, t, role)
    \/ \E t \in ties : Unrelate(t)
    \/ \E b \in Being :
          \/ Delete(b) \/ StartDraft(b) \/ PublishDraft(b) \/ DiscardDraft(b)
          \/ \E g \in Gender : SetGender(b, g)
          \/ \E c \in Derived(b) : Dismiss(b, c)
          \/ \E o \in Being : Merge(b, o)
    \/ \E d \in dismissed : Restore(d)

Spec == Init /\ [][Next]_vars

-----------------------------------------------------------------------------
(* What holds.                                                             *)

TypeOK ==
    /\ standing \in [Being -> {"absent", "draft", "unpublished", "published", "gone"}]
    /\ gender \in [Being -> Gender]
    /\ \A t \in ties : \E a, b \in Being : a # b /\ t \in [{a, b} -> Role]
    /\ dismissed \subseteq Being \X Being \X Base
    /\ rejected \subseteq Being \X Being \X Base
    /\ heir \in [Being -> Being]
    /\ ops \in 0 .. MaxOps

Blood == {"grandparent", "grandchild", "pibling", "nibling"}

\* A relative by blood on one page has the first on theirs, in the inverse
\* role, whatever was edited from whichever end, deleted or merged; unless it
\* was dismissed there, or the record gives that page a second role for them.
MutualKin ==
    \A b \in Being : \A c \in {d \in Derived(b) : d.role \in Blood} :
        LET back == [to |-> b, role |-> InverseBase[c.role]]
        IN  \/ back \in Derived(c.to)
            \/ <<c.to, b, back.role>> \in dismissed
            \/ \E d \in Undismissed(c.to) : d.to = b /\ d.role # back.role

\* A relative once said not to be one never comes back in that role, under
\* whatever gender, and for whoever either was merged into, until the user
\* takes it back.
DismissedStays ==
    \A r \in rejected : \A c \in Derived(heir[r[1]]) :
        ~(c.to = heir[r[2]] /\ c.role = r[3])

-----------------------------------------------------------------------------
(* The inductive invariant behind them (DeviceProofs).                    *)

\* The two ends of a tie have inverse roles.
Paired ==
    \A t \in ties : \A a, b \in DOMAIN t : a # b => t[b].base = InverseBase[t[a].base]

\* Who was merged is gone.
Heirs == \A b \in Being : heir[b] # b => standing[b] = "gone"

\* A rejection is on record for whoever its two have become, while there are
\* two of them.
Recorded ==
    \A r \in rejected :
        LET b == heir[r[1]]
            o == heir[r[2]]
        IN  b = o \/ "gone" \in {standing[b], standing[o]} \/ <<b, o, r[3]>> \in dismissed

KInv == TypeOK /\ Paired /\ Heirs /\ Recorded
=============================================================================
