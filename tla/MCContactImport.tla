-------------------------- MODULE MCContactImport --------------------------
(* An instance of ContactImport for TLC. *)
EXTENDS ContactImport

CONSTANTS a1, a2, a3, a4, f1, f2, f3, f4, r, n, w

Plain(name, gender, holds) ==
    [name |-> name, gender |-> gender, holds |-> holds, related |-> {}, dates |-> {}]
To(card, id) == [to |-> card, id |-> id]
Wedding == [id |-> w, rel |-> r]

\* A phone: three cards that may be one person, and a business.  A file: a
\* couple with an id for their relation and a date on it, the child of one of
\* them by pair, and a second card of another that names a friend.
MCSays ==
    a1 :> Plain("Jo", None, {<<"home", "jo@h">>})
    @@ a2 :> Plain("Jo", "f", {<<"other", "jo@h">>, <<"work", "jo@w">>})
    @@ a3 :> Plain("Jo", None, {<<"other", "jo@w">>, <<"cell", "1">>})
    @@ a4 :> Plain(None, None, {<<"work", "2">>})
    @@ f1 :> [Plain("Al", None, {<<"home", "al@h">>}) EXCEPT
                !.related = {To(f2, r), To(f3, None)}, !.dates = {Wedding}]
    @@ f2 :> [Plain("Jo", None, {<<"home", "jo@h">>}) EXCEPT
                !.related = {To(f1, r)}, !.dates = {Wedding}]
    @@ f3 :> [Plain("Bo", None, {}) EXCEPT !.related = {To(f1, None)}]
    @@ f4 :> [Plain("Al", "m", {<<"work", "al@h">>}) EXCEPT
                !.related = {[to |-> None, id |-> n]}]

MCKnown == {[name |-> "Jo", gender |-> None, holds |-> {<<"work", "jo@w">>}],
            [name |-> "Jo", gender |-> "m", holds |-> {<<"home", "jo@h">>}]}
=============================================================================
