---------------------------- MODULE MCSyncEngine ----------------------------
(* Instances of SyncEngine for TLC. *)
EXTENDS SyncEngine

CONSTANTS d1, d2, k1, k2

TwoTables == [k \in {k1, k2} |-> IF k = k1 THEN 1 ELSE 2]
InStep == [d \in Device |-> 0]
OneAhead == [d \in Device |-> IF d = d1 THEN 1 ELSE 0]
=============================================================================
