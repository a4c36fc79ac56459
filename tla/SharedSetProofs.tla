-------------------------- MODULE SharedSetProofs --------------------------
(***************************************************************************)
(* Proofs about the shared set, for any set of keys and any number of      *)
(* threads.  RbTreeProofs has what they rest on.                           *)
(***************************************************************************)
EXTENDS SharedSet, RbTreeProofs

-----------------------------------------------------------------------------
(* The inductive invariant *)

TreeInv ==
  /\ RedBlackTree(tree)
  /\ Elements(tree) \subseteq Keys
  /\ count = Cardinality(Elements(tree))

TravInv ==
  /\ trav \in Travs(Elements(tree))
  /\ trav.init => trav.p # Null

StateInv ==
  /\ holder \in Threads \union {None}
  /\ removed \in BOOLEAN
  /\ crash \in {"none", "node", "item"}

\* until it removes an item, a traversal has the keys after the last one on its stack
OrderInv == holder # None /\ trav.init /\ ~removed => Follows(tree, trav)

IInv == TreeInv /\ TravInv /\ StateInv /\ OrderInv

\* a traverser of a tree is one of a tree with more nodes
LEMMA TravsOfMore ==
  ASSUME NEW D, NEW E, D \subseteq E, NEW b \in Travs(D)
  PROVE  b \in Travs(E)
<1>1. PICK S, T : S = D \union {Freed} /\ T = E \union {Freed}
  OBVIOUS
<1>2. b = [init |-> b.init, p |-> b.p, stack |-> b.stack] /\ b.init \in BOOLEAN
      /\ b.p \in D \union {Freed, Null} /\ b.stack \in Seq(S)
  BY <1>1 DEF Travs
<1>3. b.stack \in Seq(T)
  BY <1>1, <1>2, SeqOfMore
<1> QED BY <1>1, <1>2, <1>3 DEF Travs

\* the empty tree is a red-black tree
LEMMA EmptyTreeIs == RedBlackTree(EmptyTree) /\ Elements(EmptyTree) = {}
<1>1. PICK h : h = EmptyTree
  OBVIOUS
<1>2. PICK node : node = NewNode("black")
  OBVIOUS
<1>3. DOMAIN h = {Root} /\ h[Root] = node /\ h = [n \in {Root} |-> node]
  BY <1>1, <1>2 DEF EmptyTree
<1>4. node \in [link : [Sides -> Pointers({Root})], color : Colors] /\ \A s \in Sides : node.link[s] = Null
  BY <1>2 DEF NewNode, Pointers, Colors
<1>5. Elements(h) = {}
  BY <1>3 DEF Elements
<1>6. IsHeap(h)
  <2>1. IsFiniteSet({Root}) /\ {Root} \subseteq Nat
    BY FS_Singleton DEF Root
  <2>2. h \in Heaps({Root})
    BY <1>3, <1>4 DEF Heaps
  <2> QED BY <2>1, <2>2, <1>3 DEF IsHeap
<1>7. PICK none : none = [n \in {} |-> {}]
  OBVIOUS
<1>8. \A n \in DOMAIN h, s \in Sides : h[n].link[s] = Null
  BY <1>3, <1>4
<1>9. Sorted(h, none)
  <2>1. 0 \in Sides /\ 1 \in Sides /\ Root \in DOMAIN h
    BY <1>3 DEF Sides
  <2>2. SubIs(h, none)
    BY <1>5, <1>7 DEF SubIs
  <2>3. InOrder(h, none)
    BY <1>5 DEF InOrder
  <2>4. FromTop(h, none)
    BY <2>1, <1>5, <1>8 DEF FromTop, Under
  <2>5. OnePlace(h)
    BY <1>8 DEF OnePlace
  <2> QED BY <2>2, <2>3, <2>4, <2>5 DEF Sorted
<1>10. Even(h, [n \in {} |-> 0], TopLink)
  BY <1>5 DEF Even
<1>11. RedsApart(h, TopLink) /\ ~Red(h, h[Root].link[0])
  BY <1>3, <1>5, <1>8 DEF RedsApart, Red, Sides
<1>12. Good(h, none, [n \in {} |-> 0])
  BY <1>9, <1>10, <1>11 DEF Good
<1> QED BY <1>1, <1>5, <1>6, <1>12 DEF RedBlackTree

\* the invariant holds of a new set
LEMMA InitInv == Init => IInv
<1> SUFFICES ASSUME Init PROVE IInv
  OBVIOUS
<1>1. TreeInv
  BY EmptyTreeIs, FS_EmptySet DEF Init, TreeInv
<1>2. TravInv
  <2>1. trav = [init |-> FALSE, p |-> Null, stack |-> <<>>] /\ Elements(tree) = {}
    BY EmptyTreeIs DEF Init, NoTraversal
  <2>2. <<>> \in Seq(Elements(tree) \union {Freed})
    OBVIOUS
  <2> QED BY <2>1, <2>2 DEF TravInv, Travs
<1>3. StateInv /\ OrderInv
  BY DEF Init, StateInv, OrderInv
<1> QED BY <1>1, <1>2, <1>3 DEF IInv

\* rb_find and the elements
LEMMA FoundHere ==
  ASSUME TreeInv, NEW k \in Nat
  PROVE  Found(tree, k) <=> k \in Elements(tree)
BY RedBlackTreeOrdered DEF TreeInv

\* the elements of a tree are finitely many
LEMMA CountIs ==
  ASSUME NEW h, RedBlackTree(h)
  PROVE  IsFiniteSet(Elements(h)) /\ Cardinality(Elements(h)) \in Nat
<1>1. IsFiniteSet(DOMAIN h)
  BY DEF RedBlackTree, IsHeap
<1>2. IsFiniteSet(Elements(h))
  BY <1>1, FS_Subset DEF Elements
<1> QED BY <1>2, FS_CardinalityType

-----------------------------------------------------------------------------
(* The steps *)

\* set_insert of a new key
LEMMA InsertKeeps ==
  ASSUME IInv, NEW k \in Keys, SetInsert(k)
  PROVE  IInv' /\ Elements(tree') = Elements(tree) \union {k}
<1>1. k \in Nat \ {Root} /\ k \notin Elements(tree) /\ k \notin DOMAIN tree
  <2>1. k \in Nat \ {Root}
    BY SharedSetAssumption DEF Root
  <2>2. k \notin Elements(tree)
    BY <2>1, FoundHere DEF IInv, SetInsert
  <2> QED BY <2>1, <2>2 DEF Elements
<1>2. RedBlackTree(tree') /\ Elements(tree') = Elements(tree) \union {k}
  <2>1. RedBlackTree(tree) /\ tree' = Insert(tree, k)
    BY DEF IInv, TreeInv, SetInsert
  <2> QED BY <2>1, <1>1, InsertIs
<1>3. TreeInv'
  <2>1. IsFiniteSet(Elements(tree)) /\ count = Cardinality(Elements(tree)) /\ Elements(tree) \subseteq Keys
    BY CountIs DEF IInv, TreeInv
  <2>2. Cardinality(Elements(tree) \union {k}) = Cardinality(Elements(tree)) + 1
    BY <2>1, <1>1, FS_AddElement
  <2>3. count' = count + 1
    BY DEF SetInsert
  <2> QED BY <2>1, <2>2, <2>3, <1>2 DEF TreeInv
<1>4. TravInv'
  <2>1. trav' = trav /\ trav \in Travs(Elements(tree)) /\ Elements(tree) \subseteq Elements(tree')
    BY <1>2 DEF IInv, TravInv, SetInsert
  <2>2. trav \in Travs(Elements(tree'))
    BY <2>1, TravsOfMore
  <2> QED BY <2>1, <2>2 DEF IInv, TravInv
<1>5. StateInv' /\ OrderInv'
  BY DEF IInv, StateInv, OrderInv, SetInsert, Unlocked
<1> QED BY <1>2, <1>3, <1>4, <1>5 DEF IInv

\* what rb_delete does to the tree, the count and the traverser
LEMMA RemoveKeeps ==
  ASSUME TreeInv, TravInv, NEW k \in Keys, RemoveKey(k)
  PROVE  TreeInv' /\ TravInv' /\ Elements(tree') = Elements(tree) \ {k}
<1>1. k \in Elements(tree)
  BY SharedSetAssumption, FoundHere DEF RemoveKey
<1>2. RedBlackTree(tree') /\ Elements(tree') = Elements(tree) \ {k}
  <2>1. RedBlackTree(tree) /\ tree' = Delete(tree, k)
    BY DEF TreeInv, RemoveKey
  <2> QED BY <2>1, <1>1, DeleteIs
<1>3. TreeInv'
  <2>1. IsFiniteSet(Elements(tree)) /\ count = Cardinality(Elements(tree)) /\ Elements(tree) \subseteq Keys
    BY CountIs DEF TreeInv
  <2>2. Cardinality(Elements(tree) \ {k}) = Cardinality(Elements(tree)) - 1
    BY <2>1, <1>1, FS_RemoveElement
  <2>3. count' = count - 1
    BY DEF RemoveKey
  <2> QED BY <2>1, <2>2, <2>3, <1>2 DEF TreeInv
<1>4. TravInv'
  <2>1. PICK E, F : E = Elements(tree) /\ F = Elements(tree')
    OBVIOUS
  <2>2. PICK init, p, stack :
          /\ trav = [init |-> init, p |-> p, stack |-> stack]
          /\ init \in BOOLEAN /\ p \in E \union {Freed, Null} /\ stack \in Seq(E \union {Freed})
          /\ init => p # Null
    BY <2>1 DEF TravInv, Travs
  <2>3. PICK q, rest : /\ q = PointerAfterDelete(tree, k, p)
                       /\ rest = [i \in DOMAIN stack |-> PointerAfterDelete(tree, k, stack[i])]
    OBVIOUS
  <2>4. trav' = [init |-> init, p |-> q, stack |-> rest]
    BY <2>2, <2>3 DEF RemoveKey, TravAfterDelete
  <2>5. /\ \A n \in E \union {Freed} : PointerAfterDelete(tree, k, n) \in F \union {Freed}
        /\ PointerAfterDelete(tree, k, Null) = Null
    BY <1>1, <1>2, <2>1, PointerIs DEF TreeInv
  <2>6. Null \notin F \union {Freed}
    <3>1. F \subseteq Nat
      BY <1>3, <2>1, SharedSetAssumption DEF TreeInv
    <3> QED BY <3>1, RbTreeAssumption
  <2>7. q \in F \union {Freed, Null} /\ (init => q # Null)
    BY <2>2, <2>3, <2>5, <2>6
  <2>8. rest \in Seq(F \union {Freed})
    <3>1. PICK n \in Nat : stack \in [1..n -> E \union {Freed}] /\ DOMAIN stack = 1..n
      BY <2>2, SeqDef
    <3>2. rest \in [1..n -> F \union {Freed}]
      BY <3>1, <2>3, <2>5
    <3> QED BY <3>2, SeqDef
  <2>9. trav'.init = init /\ trav'.p = q
    BY <2>4
  <2>10. trav' \in [init : BOOLEAN, p : F \union {Freed, Null}, stack : Seq(F \union {Freed})]
    BY <2>2, <2>4, <2>7, <2>8
  <2> QED BY <2>1, <2>7, <2>9, <2>10 DEF TravInv, Travs
<1> QED BY <1>2, <1>3, <1>4

\* set_next
LEMMA NextKeeps ==
  ASSUME IInv, NEW t \in Threads, SetNext(t)
  PROVE  /\ IInv'
         /\ ~removed => LET lo == IF trav.init THEN trav.p ELSE 0
                            new == IF trav'.init THEN trav'.p ELSE 0
                        IN IF \A m \in Elements(tree) : ~(lo < m) THEN new = 0
                           ELSE /\ new \in Elements(tree) /\ lo < new
                                /\ \A m \in Elements(tree) : lo < m => new <= m
<1>1. holder = t /\ holder # None /\ UNCHANGED <<tree, count, holder, removed>>
  BY SharedSetAssumption DEF SetNext
<1>2. ~removed => (trav.init => Follows(tree, trav))
  BY <1>1 DEF IInv, OrderInv
<1>3. TreeInv'
  BY <1>1 DEF IInv, TreeInv
<1>4. CASE trav.init /\ trav.p = Freed
  <2>1. crash' = "node" /\ UNCHANGED trav
    BY <1>4 DEF SetNext
  <2>2. removed
    <3>1. Freed \notin Elements(tree)
      BY SharedSetAssumption, RbTreeAssumption DEF IInv, TreeInv
    <3>2. removed \in BOOLEAN
      BY DEF IInv, StateInv
    <3> QED BY <3>1, <3>2, <1>2, <1>4 DEF Follows
  <2>3. IInv'
    BY <2>1, <1>1, <1>3 DEF IInv, TravInv, StateInv, OrderInv
  <2> QED BY <2>2, <2>3
<1>5. CASE ~(trav.init /\ trav.p = Freed)
  <2>1. PICK b : b = Traverse(tree, trav)
    OBVIOUS
  <2>3. RedBlackTree(tree) /\ trav \in Travs(Elements(tree)) /\ (trav.init => trav.p \in Elements(tree))
        /\ trav.init \in BOOLEAN
    <3>1. trav \in Travs(Elements(tree)) /\ RedBlackTree(tree) /\ (trav.init => trav.p # Null)
      BY DEF IInv, TravInv, TreeInv
    <3>2. trav.p \in Elements(tree) \union {Freed, Null} /\ trav.init \in BOOLEAN
      BY <3>1 DEF Travs
    <3> QED BY <3>1, <3>2, <1>5
  <2>4. b \in Travs(Elements(tree)) /\ (b.init => b.p # Null)
    BY <2>1, <2>3, TraverseTyped
  <2>6. PICK lo : lo = IF trav.init THEN trav.p ELSE 0
    OBVIOUS
  <2>7. ASSUME ~removed
        PROVE  \/ ~b.init /\ \A m \in Elements(tree) : ~(lo < m)
               \/ /\ b.init /\ Follows(tree, b) /\ lo < b.p
                  /\ \A m \in Elements(tree) : lo < m => b.p <= m
    BY <1>2, <2>1, <2>3, <2>6, <2>7, TraverseIs
  <2>10. ASSUME ~removed
         PROVE  IF \A m \in Elements(tree) : ~(lo < m) THEN (IF b.init THEN b.p ELSE 0) = 0
                ELSE /\ (IF b.init THEN b.p ELSE 0) \in Elements(tree) /\ lo < (IF b.init THEN b.p ELSE 0)
                     /\ \A m \in Elements(tree) : lo < m => (IF b.init THEN b.p ELSE 0) <= m
    BY <2>7, <2>10 DEF Follows
  <2>11. CASE b.p = Freed
    <3>1. crash' = "node" /\ UNCHANGED trav
      BY <2>1, <2>11 DEF SetNext
    <3>2. removed
      <4>1. Freed \notin Elements(tree) /\ Freed # Null
        BY SharedSetAssumption, RbTreeAssumption DEF IInv, TreeInv
      <4>2. ~b.init => b.p = Null
        BY <2>1 DEF Traverse, NoTraversal
      <4>3. removed \in BOOLEAN
        BY DEF IInv, StateInv
      <4> QED BY <4>1, <4>2, <4>3, <2>7, <2>11 DEF Follows
    <3>3. IInv'
      BY <3>1, <1>1, <1>3 DEF IInv, TravInv, StateInv, OrderInv
    <3> QED BY <3>2, <3>3
  <2>12. CASE b.p # Freed
    <3>1. trav' = b /\ crash' = crash
      BY <1>5, <2>1, <2>12 DEF SetNext
    <3>2. TravInv'
      BY <1>1, <2>4, <3>1 DEF TravInv
    <3>3. OrderInv'
      BY <1>1, <2>7, <3>1 DEF OrderInv
    <3>4. StateInv'
      BY <1>1, <3>1 DEF IInv, StateInv
    <3> QED BY <1>3, <2>6, <2>10, <3>1, <3>2, <3>3, <3>4 DEF IInv
  <2> QED BY <2>11, <2>12
<1> QED BY <1>4, <1>5

\* every step keeps the invariant
LEMMA StepInv == IInv /\ [Next]_vars => IInv'
<1> SUFFICES ASSUME IInv, [Next]_vars PROVE IInv'
  OBVIOUS
<1>1. ASSUME NEW k \in Keys, SetInsert(k) PROVE IInv'
  BY <1>1, InsertKeeps
<1>2. ASSUME NEW k \in Keys, SetInsertDuplicate(k) PROVE IInv'
  BY <1>2 DEF SetInsertDuplicate, IInv, TreeInv, TravInv, StateInv, OrderInv
<1>3. ASSUME NEW k \in Keys, SetRemove(k) PROVE IInv'
  <2>1. TreeInv' /\ TravInv'
    BY <1>3, RemoveKeeps DEF SetRemove, IInv
  <2>2. StateInv' /\ OrderInv'
    BY <1>3 DEF SetRemove, Unlocked, IInv, StateInv, OrderInv
  <2> QED BY <2>1, <2>2 DEF IInv
<1>4. ASSUME NEW t \in Threads, SetRemoveInLoop(t) PROVE IInv'
  <2>1. trav.p \in Keys
    BY <1>4 DEF SetRemoveInLoop, IInv, TreeInv
  <2>2. TreeInv' /\ TravInv'
    BY <1>4, <2>1, RemoveKeeps DEF SetRemoveInLoop, IInv
  <2>3. StateInv' /\ OrderInv'
    BY <1>4 DEF SetRemoveInLoop, IInv, StateInv, OrderInv
  <2> QED BY <2>2, <2>3 DEF IInv
<1>5. ASSUME NEW t \in Threads, SetStart(t) PROVE IInv'
  <2>1. trav' = [trav EXCEPT !.init = FALSE] /\ tree' = tree
    BY <1>5 DEF SetStart
  <2>2. PICK E, S : E = Elements(tree) \union {Freed, Null} /\ S = Seq(Elements(tree) \union {Freed})
    OBVIOUS
  <2>3. trav \in [init : BOOLEAN, p : E, stack : S]
    BY <2>2 DEF IInv, TravInv, Travs
  <2>4. trav' \in [init : BOOLEAN, p : E, stack : S] /\ ~trav'.init
    BY <2>1, <2>3
  <2>5. TravInv' /\ OrderInv'
    BY <2>1, <2>2, <2>4 DEF TravInv, Travs, OrderInv
  <2>6. TreeInv' /\ StateInv'
    BY <1>5 DEF SetStart, IInv, TreeInv, StateInv
  <2> QED BY <2>5, <2>6 DEF IInv
<1>6. ASSUME NEW t \in Threads, SetNext(t) PROVE IInv'
  BY <1>6, NextKeeps
<1>7. ASSUME NEW t \in Threads, SetFinish(t) PROVE IInv'
  BY <1>7 DEF SetFinish, IInv, TreeInv, TravInv, StateInv, OrderInv
<1>8. CASE UNCHANGED vars
  BY <1>8 DEF vars, IInv, TreeInv, TravInv, StateInv, OrderInv
<1> QED BY <1>1, <1>2, <1>3, <1>4, <1>5, <1>6, <1>7, <1>8 DEF Next

\* the inductive invariant holds in every state of the set and its users
LEMMA Invariant == Spec => []IInv
<1>1. Init => IInv
  BY InitInv
<1>2. IInv /\ [Next]_vars => IInv'
  BY StepInv
<1> QED BY <1>1, <1>2, PTL DEF Spec

-----------------------------------------------------------------------------
(* The theorems *)

\* The nodes of the tree are linked to nodes of the tree, and the traverser
\* points to nodes of it or to one that was freed, whatever is inserted and
\* removed before, between and in traversals (set.c:23-171).
THEOREM TypeCorrect == Spec => []TypeOK
<1>1. IInv => TypeOK
  <2> SUFFICES ASSUME IInv PROVE TypeOK
    OBVIOUS
  <2>1. PICK E, D : E = Elements(tree) /\ D = DOMAIN tree
    OBVIOUS
  <2>2. E \subseteq Keys /\ D = E \union {Root} /\ Root \in D
    BY <2>1 DEF IInv, TreeInv, RedBlackTree, IsHeap, Elements
  <2>3. ASSUME NEW n \in D PROVE tree[n] \in [link : [Sides -> E \union {Null}], color : {"red", "black"}]
    <3>1. tree \in [D -> [link : [Sides -> Pointers(D)], color : Colors]]
      BY <2>1 DEF IInv, TreeInv, RedBlackTree, IsHeap, Heaps
    <3>2. Pointers(D) = E \union {Null}
      BY <2>1 DEF Pointers, Elements
    <3>3. tree[n] \in [link : [Sides -> Pointers(D)], color : Colors]
      BY <3>1
    <3> QED BY <3>2, <3>3 DEF Colors
  <2>4. count \in Nat
    BY CountIs DEF IInv, TreeInv
  <2>5. trav \in [init : BOOLEAN, p : NodePointers, stack : Seq(NodePointers)]
    <3>1. PICK S, T : S = E \union {Freed} /\ T = NodePointers
      OBVIOUS
    <3>2. S \subseteq T /\ E \union {Freed, Null} \subseteq T
      BY <2>2, <3>1 DEF NodePointers
    <3>3. trav \in [init : BOOLEAN, p : E \union {Freed, Null}, stack : Seq(S)]
      BY <2>1, <3>1 DEF IInv, TravInv, Travs
    <3>4. trav.stack \in Seq(T)
      BY <3>2, <3>3, SeqOfMore
    <3>5. trav \in [init : BOOLEAN, p : T, stack : Seq(T)]
      BY <3>2, <3>3, <3>4
    <3> QED BY <3>1, <3>5
  <2> QED BY <2>1, <2>2, <2>3, <2>4, <2>5 DEF IInv, StateInv, TypeOK
<1> QED BY <1>1, Invariant, PTL

\* For any number of keys: after every insertion and deletion no red node is
\* under a red one and all ways down have as many black nodes (rb.c:409-485,
\* 640-762).
THEOREM RedBlackHolds == Spec => []RedBlack
<1>1. IInv => RedBlack
  BY RedBlackTreeBalanced DEF IInv, TreeInv, RedBlack
<1> QED BY <1>1, Invariant, PTL

\* For any number of keys: a search finds every node of the tree, and the
\* tree's count is their number (rb.c:493-512, set.h:79-83).
THEOREM SearchTreeHolds == Spec => []SearchTree
<1>1. IInv => SearchTree
  BY RedBlackTreeOrdered DEF IInv, TreeInv, SearchTree
<1> QED BY <1>1, Invariant, PTL

\* every step of the set is a step of the ordered set
LEMMA StepRefines ==
  ASSUME IInv, [Next]_vars
  PROVE  [Promise!OrderedNext]_<<Elements(tree), IF holder # None /\ trav.init /\ ~removed THEN trav.p ELSE 0>>
<1>1. ASSUME NEW k \in Keys, SetInsert(k) PROVE Promise!Add(k)
  <2>1. Elements(tree') = Elements(tree) \union {k}
    BY <1>1, InsertKeeps
  <2>2. holder = None /\ holder' = None
    BY <1>1 DEF SetInsert, Unlocked
  <2> QED BY <2>1, <2>2 DEF Promise!Add
<1>2. ASSUME NEW k \in Keys, SetRemove(k) PROVE Promise!Drop(k)
  <2>1. Elements(tree') = Elements(tree) \ {k}
    BY <1>2, RemoveKeeps DEF SetRemove, IInv
  <2>2. holder = None /\ holder' = None
    BY <1>2 DEF SetRemove, Unlocked
  <2> QED BY <2>1, <2>2 DEF Promise!Drop
<1>3. ASSUME NEW t \in Threads, SetRemoveInLoop(t) PROVE trav.p \in Keys /\ Promise!Drop(trav.p)
  <2>1. trav.p \in Keys
    BY <1>3 DEF SetRemoveInLoop, IInv, TreeInv
  <2>2. Elements(tree') = Elements(tree) \ {trav.p}
    BY <1>3, <2>1, RemoveKeeps DEF SetRemoveInLoop, IInv
  <2>3. removed' /\ holder # None /\ trav.init
    BY <1>3, SharedSetAssumption DEF SetRemoveInLoop
  <2>4. removed \in BOOLEAN
    BY DEF IInv, StateInv
  <2> QED BY <2>1, <2>2, <2>3, <2>4 DEF Promise!Drop
<1>4. ASSUME NEW t \in Threads, SetStart(t) \/ SetFinish(t) PROVE Promise!Begin
  <2>1. tree' = tree
    BY <1>4 DEF SetStart, SetFinish
  <2>2. CASE SetStart(t)
    <3>1. trav' = [trav EXCEPT !.init = FALSE] /\ trav \in Travs(Elements(tree))
      BY <2>2 DEF SetStart, IInv, TravInv
    <3>2. ~trav'.init
      BY <3>1 DEF Travs
    <3> QED BY <2>1, <3>2 DEF Promise!Begin
  <2>3. CASE SetFinish(t)
    <3>1. holder' = None
      BY <2>3 DEF SetFinish
    <3> QED BY <2>1, <3>1 DEF Promise!Begin
  <2> QED BY <1>4, <2>2, <2>3
<1>5. ASSUME NEW t \in Threads, SetNext(t)
      PROVE  \/ Promise!Advance
             \/ UNCHANGED <<Elements(tree), IF holder # None /\ trav.init /\ ~removed THEN trav.p ELSE 0>>
  <2>1. UNCHANGED <<tree, holder, removed>> /\ holder # None
    BY <1>5, SharedSetAssumption DEF SetNext
  <2>2. CASE removed
    BY <2>1, <2>2
  <2>3. CASE ~removed
    <3>1. PICK lo, new, E :
            /\ lo = IF trav.init THEN trav.p ELSE 0
            /\ new = IF trav'.init THEN trav'.p ELSE 0
            /\ E = Elements(tree)
      OBVIOUS
    <3>2. IF \A m \in E : ~(lo < m) THEN new = 0
          ELSE new \in E /\ lo < new /\ \A m \in E : lo < m => new <= m
      BY <1>5, <2>3, <3>1, NextKeeps
    <3>3. /\ lo = IF holder # None /\ trav.init /\ ~removed THEN trav.p ELSE 0
          /\ new = (IF holder # None /\ trav.init /\ ~removed THEN trav.p ELSE 0)'
          /\ E = Elements(tree) /\ Elements(tree)' = E
      BY <2>1, <2>3, <3>1
    <3>4. PICK later : later = {m \in E : m > lo}
      OBVIOUS
    <3>5. lo \in Nat /\ E \subseteq Nat
      <4>1. E \subseteq Nat
        BY <3>1, SharedSetAssumption DEF IInv, TreeInv
      <4>2. trav.init => trav.p \in E
        BY <2>1, <2>3, <3>1 DEF IInv, OrderInv, Follows
      <4> QED BY <4>1, <4>2, <3>1
    <3>6. IF later = {} THEN new = 0 ELSE new \in {m \in later : \A l \in later : m <= l}
      BY <3>2, <3>4, <3>5
    <3> QED BY <3>3, <3>4, <3>6 DEF Promise!Advance, Promise!Later
  <2> QED BY <2>2, <2>3 DEF IInv, StateInv
<1>6. ASSUME NEW k \in Keys, SetInsertDuplicate(k) PROVE UNCHANGED <<tree, trav, holder, removed>>
  BY <1>6 DEF SetInsertDuplicate
<1>7. CASE UNCHANGED vars
  BY <1>7 DEF vars
<1> QED BY <1>1, <1>2, <1>3, <1>4, <1>5, <1>6, <1>7 DEF Next, Promise!OrderedNext

\* For any number of keys and threads: the set is the ordered set it promises
\* to be.  A traversal, from set_start to set_finish, returns the least key
\* after the last, and nothing only after the greatest (rb.c:295-333).
THEOREM SetRefines == Spec => IsOrderedSet
<1>1. Init => Promise!OrderedInit
  BY EmptyTreeIs DEF Init, Promise!OrderedInit
<1>2. IInv /\ [Next]_vars
        => [Promise!OrderedNext]_<<Elements(tree), IF holder # None /\ trav.init /\ ~removed THEN trav.p ELSE 0>>
  BY StepRefines
<1> QED BY <1>1, <1>2, Invariant, PTL DEF Spec, IsOrderedSet, Promise!OrderedSpec
=============================================================================
