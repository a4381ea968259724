-------------------------------- MODULE Lww ---------------------------------
(***************************************************************************)
(* The whole-row last-writer-wins merge every synced table shares          *)
(* (packages/schema/src/merge.ts).                                         *)
(*                                                                         *)
(* A version of a row keeps what the merge can tell apart:                 *)
(*   at       updatedAt, the stamp of the device that wrote it             *)
(*   touched  hasHistory(row): whether anything happened to it after it    *)
(*            was minted; a table without the predicate compares no        *)
(*            history, which is every one of its rows being touched        *)
(*   gone     deletedAt # null, a tombstone                                *)
(*   body     the rest of the columns, as their rank in the order of the   *)
(*            canonical serialization                                      *)
(***************************************************************************)
EXTENDS Naturals

CONSTANT None   \* "no such row", or no record in hand

Row == [at : Nat, touched : BOOLEAN, gone : BOOLEAN, body : Nat]

ASSUME NoneAssumption == None \notin Row

\* canonical(a) > canonical(b): a total order on what is left of two versions
\* with one stamp.  JSON writes a live row's deletedAt as null, which sorts
\* above the digits of a tombstone's.
CanonicalAbove(a, b) ==
    \/ a.body > b.body
    \/ a.body = b.body /\ b.gone /\ ~a.gone

\* a strictly outranks b: history first, then the later stamp, then the
\* serialization.
Beats(a, b) ==
    \/ a.touched /\ ~b.touched
    \/ a.touched = b.touched /\ a.at > b.at
    \/ a.touched = b.touched /\ a.at = b.at /\ CanonicalAbove(a, b)

\* A mutant of resolveMerge: equal stamps are left to the local version.
MergeByStamp(a, b) == IF b.at > a.at THEN b ELSE a

\* resolveMerge(a, b, hasHistory): the surviving version of one row.
resolveMerge(a, b) == IF Beats(b, a) THEN b ELSE a

\* What a device holds, possibly None, is no older than the version r.
AtLeast(held, r) == held # None /\ (held = r \/ Beats(held, r))
=============================================================================
