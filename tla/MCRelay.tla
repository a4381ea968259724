------------------------------ MODULE MCRelay ------------------------------
(* Relay on two devices and two usernames.                                 *)
EXTENDS Relay, TLC
CONSTANTS d1, d2, h1, h2
MCDevice == {d1, d2}
MCHandle == {h1, h2}
MCTaken == {h2}
MCLives == {4}
=============================================================================
