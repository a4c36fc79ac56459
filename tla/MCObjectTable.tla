---------------------------- MODULE MCObjectTable ----------------------------
(* Small instances of ObjectTable for TLC. *)
EXTENDS ObjectTable, TLC

CONSTANTS c1, c2, p1, i1, i2, i3, i4

\* ids and consumers are interchangeable; no run of this module checks liveness
Symmetry == Permutations(Ids) \union Permutations(Consumers)
=============================================================================
