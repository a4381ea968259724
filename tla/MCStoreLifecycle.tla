-------------------------- MODULE MCStoreLifecycle --------------------------
(* Instances of StoreLifecycle for TLC. *)
EXTENDS StoreLifecycle
=============================================================================
