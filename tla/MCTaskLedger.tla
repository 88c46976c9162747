---------------------------- MODULE MCTaskLedger ----------------------------
(* TaskLedger on a small instance.  TLC explores the recoverable sets too,   *)
(* so the number of states a crash may fall back to is bounded.              *)
EXTENDS TaskLedger

CONSTANTS MaxRecoverable   \* bound: Fast mutations between two syncs, plus one

BoundedRecoverable == Cardinality(recoverable) <= MaxRecoverable
=============================================================================
