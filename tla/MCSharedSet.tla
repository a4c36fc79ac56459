---------------------------- MODULE MCSharedSet ----------------------------
(* Small instances of SharedSet for TLC. *)
EXTENDS SharedSet, TLC

CONSTANTS t1, t2

\* threads are interchangeable; no run of this module checks liveness
Symmetry == Permutations(Threads)
=============================================================================
