----------------------------- MODULE AccountHome -----------------------------
(***************************************************************************)
(* What a device promises about where its user's rows live                 *)
(* (packages/store-layout/README.md, packages/account-flows/README.md):    *)
(* they have one home, the plaintext store or an account's; a flow that    *)
(* gives them another does it in one step and takes every row along; and   *)
(* they are given up only by a user who leaves.  StoreLifecycle is how the *)
(* code keeps the promise.                                                 *)
(***************************************************************************)
EXTENDS Naturals

CONSTANTS
    Account,    \* ids of accounts
    None        \* no account: the plaintext store

VARIABLES
    home,       \* the account whose store the next launch opens, or None
    rows,       \* the rows in it
    leaving     \* the user asked to forget the account, or to reset the app

Init ==
    /\ home = None
    /\ rows = 0
    /\ leaving = FALSE

\* The user adds a row.
Write ==
    /\ rows' = rows + 1
    /\ UNCHANGED <<home, leaving>>

\* An account is created, joined or recovered, or merged into.
Settle ==
    /\ ~leaving
    /\ home' \in Account \ {home}
    /\ UNCHANGED <<rows, leaving>>

\* The user asks to leave, and is done leaving: finished, or cut short.
Leave ==
    /\ leaving' = ~leaving
    /\ UNCHANGED <<home, rows>>

\* Leaving gives up the rows, the account, or both.
Erase ==
    /\ leaving
    /\ leaving' \in BOOLEAN
    /\ home' \in {home, None}
    /\ rows' = 0

Next == Write \/ Settle \/ Leave \/ Erase

Spec == Init /\ [][Next]_<<home, rows, leaving>>
=============================================================================
