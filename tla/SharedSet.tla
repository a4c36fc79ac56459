------------------------------ MODULE SharedSet ------------------------------
(***************************************************************************)
(* A set shared by threads (set.c, set.h): a red-black tree of items, one  *)
(* recursive lock, and one traverser for all.  set_insert, set_remove and  *)
(* set_find hold the lock for their tree operation; a traversal holds it   *)
(* from set_start to set_finish, which come from one thread.               *)
(*                                                                         *)
(* No caller inserts into the set it is traversing or starts a second      *)
(* traversal inside the first.  provider_shutdown removes the items it is  *)
(* given in its loop, and id_create inserts keys that may be there.  Where *)
(* freed memory is read, or left in the tree for the next comparison to    *)
(* read, the behaviour of the program is undefined: the model stops.       *)
(***************************************************************************)
EXTENDS RbTree

CONSTANTS Threads, None,
          Keys   \* global_id_t, positive

ASSUME SharedSetAssumption ==
  /\ Keys \subseteq Nat \ {0}
  /\ None \notin Threads

VARIABLES tree,     \* set->tree
          count,    \* set->tree->count
          trav,     \* set->trav
          holder,   \* the thread between set_start and set_finish
          removed,  \* history: has the traversal removed an item in its loop?
          crash     \* what made the behaviour undefined

vars == <<tree, count, trav, holder, removed, crash>>

NodePointers == Keys \union {Null, Freed}

TypeOK ==
  /\ DOMAIN tree \subseteq Keys \union {Root} /\ Root \in DOMAIN tree
  /\ \A n \in DOMAIN tree : tree[n] \in [link : [Sides -> Elements(tree) \union {Null}],
                                         color : {"red", "black"}]
  /\ count \in Nat
  /\ trav \in [init : BOOLEAN, p : NodePointers, stack : Seq(NodePointers)]
  /\ holder \in Threads \union {None}
  /\ removed \in BOOLEAN
  /\ crash \in {"none", "node", "item"}

Init ==
  /\ tree = EmptyTree
  /\ count = 0
  /\ trav = NoTraversal
  /\ holder = None
  /\ removed = FALSE
  /\ crash = "none"

-----------------------------------------------------------------------------

\* set_lock: a thread between set_start and set_finish has it already
Unlocked == crash = "none" /\ holder = None

\* set_insert of a new key
SetInsert(k) ==
  /\ Unlocked
  /\ ~Found(tree, k)
  /\ tree' = Insert(tree, k)
  /\ count' = count + 1
  /\ UNCHANGED <<trav, holder, removed, crash>>

\* set_insert of a key that is there: rb_insert returns the item in the tree,
\* which set_insert frees and returns false
SetInsertDuplicate(k) ==
  /\ Unlocked
  /\ Found(tree, k)
  /\ crash' = "item"
  /\ UNCHANGED <<tree, count, trav, holder, removed>>

\* the nodes a traverser points to after the deletion of k
TravAfterDelete(k) ==
  LET After(n) == PointerAfterDelete(tree, k, n) IN
  [trav EXCEPT !.p = After(@), !.stack = [i \in DOMAIN @ |-> After(@[i])]]

\* mutant: the tree's count is not kept
RemoveKeyUncounted(k) ==
  /\ Found(tree, k)
  /\ tree' = Delete(tree, k)
  /\ trav' = TravAfterDelete(k)
  /\ UNCHANGED count

\* rb_delete and free(item); of a key that is not there, nothing
RemoveKey(k) ==
  /\ Found(tree, k)
  /\ tree' = Delete(tree, k)
  /\ count' = count - 1
  /\ trav' = TravAfterDelete(k)

SetRemove(k) ==
  /\ Unlocked
  /\ RemoveKey(k)
  /\ UNCHANGED <<holder, removed, crash>>

\* set_remove on the key set_next has just returned
SetRemoveInLoop(t) ==
  /\ crash = "none"
  /\ holder = t
  /\ trav.init
  /\ trav.p \in Elements(tree)
  /\ RemoveKey(trav.p)
  /\ removed' = TRUE
  /\ UNCHANGED <<holder, crash>>

-----------------------------------------------------------------------------

\* mutant: the traverser is not reset
SetStartAsIs(t) ==
  /\ Unlocked
  /\ holder' = t
  /\ removed' = FALSE
  /\ UNCHANGED <<tree, count, trav, crash>>

\* set_start: rb_init_traverser only resets init
SetStart(t) ==
  /\ Unlocked
  /\ holder' = t
  /\ trav' = [trav EXCEPT !.init = FALSE]
  /\ removed' = FALSE
  /\ UNCHANGED <<tree, count, crash>>

\* set_next goes on from the node it returned last, and reads the next one's item.
SetNext(t) ==
  /\ crash = "none"
  /\ holder = t
  /\ IF (trav.init /\ trav.p = Freed) \/ Traverse(tree, trav).p = Freed
     THEN crash' = "node" /\ UNCHANGED trav
     ELSE trav' = Traverse(tree, trav) /\ UNCHANGED crash
  /\ UNCHANGED <<tree, count, holder, removed>>

\* set_finish, at the end or before it
SetFinish(t) ==
  /\ crash = "none"
  /\ holder = t
  /\ holder' = None
  /\ UNCHANGED <<tree, count, trav, removed, crash>>

-----------------------------------------------------------------------------

Next ==
  \/ \E k \in Keys : SetInsert(k) \/ SetInsertDuplicate(k) \/ SetRemove(k)
  \/ \E t \in Threads : SetStart(t) \/ SetNext(t) \/ SetRemoveInLoop(t) \/ SetFinish(t)

Spec == Init /\ [][Next]_vars

-----------------------------------------------------------------------------
(* Properties *)

\* Every insertion and deletion leaves a red-black tree: no red node under a
\* red one and as many black nodes on each way down (rb.c:409-485, 640-762), so
\* that the fixed stacks of RB_MAX_HEIGHT entries are enough.
RedBlack == Balanced(tree)

\* rb_find finds every key of the tree (rb.c:493-512), and count is their number
\* (set_count sizes the answer arrays of queries).
SearchTree == Ordered(tree) /\ count = Cardinality(Elements(tree))

Promise == INSTANCE OrderedSet WITH
  elems <- Elements(tree),
  cursor <- IF holder # None /\ trav.init /\ ~removed THEN trav.p ELSE 0

\* A set is the ordered set it promises to be: whoever inserts and removes
\* between, a traversal returns every key once, in order, starts from the first
\* whatever the traversal before it did, and does not mix with another thread's.
\* A traversal that removes an item in its loop is promised nothing more.
IsOrderedSet == Promise!OrderedSpec

-----------------------------------------------------------------------------
(* What the source says, and the code does not do *)

\* A duplicate item stays the tree's: rb_insert returns "a pointer to the
\* duplicate item" (rb.c:767-768), not to an item its caller is to free.
ItemsLive == crash # "item"
=============================================================================
