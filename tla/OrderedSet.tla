----------------------------- MODULE OrderedSet -----------------------------
(***************************************************************************)
(* What a set promises: a set of keys, and one traversal at a time, which  *)
(* returns at each call the next key in order and at the end returns       *)
(* nothing.  SharedSet refines this module (SharedSet!Promise).            *)
(***************************************************************************)
EXTENDS Naturals

CONSTANTS Keys

VARIABLES elems,   \* the keys in the set
          cursor   \* the key returned last; 0 before the first and after the last

OrderedInit == elems = {} /\ cursor = 0

Add(k) == elems' = elems \union {k} /\ UNCHANGED cursor

\* dropping the key returned last may end the traversal
Drop(k) ==
  /\ elems' = elems \ {k}
  /\ cursor' = cursor \/ (cursor = k /\ cursor' = 0)

Begin == cursor' = 0 /\ UNCHANGED elems

Later == {k \in elems : k > cursor}
Advance ==
  /\ UNCHANGED elems
  /\ IF Later = {} THEN cursor' = 0
     ELSE cursor' \in {k \in Later : \A l \in Later : k <= l}

OrderedNext == Begin \/ Advance \/ \E k \in Keys : Add(k) \/ Drop(k)

OrderedSpec == OrderedInit /\ [][OrderedNext]_<<elems, cursor>>
=============================================================================
