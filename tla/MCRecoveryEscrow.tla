-------------------------- MODULE MCRecoveryEscrow --------------------------
(* Instances of RecoveryEscrow for TLC. *)
EXTENDS RecoveryEscrow
=============================================================================
