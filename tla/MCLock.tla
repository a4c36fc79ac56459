------------------------------- MODULE MCLock -------------------------------
(* Small instances of Lock for TLC. *)
EXTENDS Lock

CONSTANTS t1, t2, t3
=============================================================================
