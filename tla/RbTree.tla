------------------------------- MODULE RbTree -------------------------------
(***************************************************************************)
(* The red-black tree under every set (common/rb.c): insertion and         *)
(* deletion with their rebalancing, and the traversal.                     *)
(*                                                                         *)
(* A tree is a heap of nodes.  Nodes are named by the key of the item they *)
(* carry; Root is the header node tree->root, whose link[0] is the top.    *)
(* Deletion of a node with two children moves its successor's item into    *)
(* it: it is then the node of that key.  A path is the C function's pair   *)
(* of stacks, of the nodes passed and of the side taken at each.           *)
(*                                                                         *)
(* Left and right are the sides 0 and 1; the C code writes each of its     *)
(* cases once per side.  A loop is a step that is repeated until it leaves *)
(* its state as it is (Until).                                             *)
(***************************************************************************)
EXTENDS Naturals, Sequences, FiniteSets

CONSTANTS Null,   \* no node
          Freed   \* a pointer to a node that has been freed

ASSUME RbTreeAssumption == Null \notin Nat /\ Freed \notin Nat \union {Null}

Root == 0
Sides == {0, 1}
Colors == {"red", "black"}

(* Where repeating the step leads to.  A step out of its own domain would  *)
(* be the last; no loop here takes one.                                    *)
Until(step) ==
  LET run[a \in DOMAIN step] ==
        IF step[a] = a \/ step[a] \notin DOMAIN step THEN step[a] ELSE run[step[a]]
  IN run

NewNode(color) == [link |-> [s \in Sides |-> Null], color |-> color]

\* rb_create
EmptyTree == [n \in {Root} |-> NewNode("black")]

Elements(h) == DOMAIN h \ {Root}

Pointers(D) == (D \ {Root}) \union {Null}
Heaps(D) == [D -> [link : [Sides -> Pointers(D)], color : Colors]]

Red(h, n) == n # Null /\ h[n].color = "red"
Paint(h, n, color) == [h EXCEPT ![n].color = color]
Hang(h, at, side, n) == [h EXCEPT ![at].link[side] = n]

\* the child of x on side s takes the place of x, which hangs at `at` on `side`
Rotate(h, x, s, at, side) ==
  LET y == h[x].link[s] IN
  [h EXCEPT ![x].link[s] = h[y].link[1 - s],
            ![y].link[1 - s] = x,
            ![at].link[side] = y]

Paths(D) == Seq([at : D, side : Sides]) \ {<<>>}
Last(path) == path[Len(path)]
Below(h, path) == h[Last(path).at].link[Last(path).side]
Step(n, s) == <<[at |-> n, side |-> s]>>
FromRoot == Step(Root, 0)

SearchStep(h, k, path) ==
  LET x == Below(h, path) IN
  IF x \in {Null, k} THEN path ELSE path \o Step(x, IF k < x THEN 0 ELSE 1)

\* the way to the node of key k, or to the place where it would hang
Search(h, k) == Until([path \in Paths(DOMAIN h) |-> SearchStep(h, k, path)])[FromRoot]

\* rb_find
Found(h, k) == Below(h, Search(h, k)) = k

-----------------------------------------------------------------------------
(* Insertion *)

\* case 1: the parent and the uncle get black, and the grandparent is the new red child
Recolour(h, path) ==
  LET k == Len(path)
      grand == path[k - 1].at
      uncle == h[grand].link[1 - path[k - 1].side]
  IN [heap |-> Paint(Paint(Paint(h, path[k].at, "black"), uncle, "black"), grand, "red"),
      path |-> SubSeq(path, 1, k - 2)]

\* case 2: the new child takes the place of its parent
Straighten(h, path) ==
  LET k == Len(path)
      grand == path[k - 1]
  IN IF path[k].side = grand.side THEN h
     ELSE Rotate(h, path[k].at, 1 - grand.side, grand.at, grand.side)

\* case 3: the grandparent goes down; the loop is left
Lift(h, path) ==
  LET k == Len(path)
      grand == path[k - 1]
      above == path[k - 2]
      top == h[grand.at].link[grand.side]
  IN [heap |-> Rotate(Paint(Paint(h, grand.at, "red"), top, "black"),
                      grand.at, grand.side, above.at, above.side),
      path |-> FromRoot]

InsertStep(a) ==
  LET k == Len(a.path)
      grand == a.path[k - 1]
  IN IF k < 3 \/ ~Red(a.heap, a.path[k].at) THEN a
     ELSE IF Red(a.heap, a.heap[grand.at].link[1 - grand.side]) THEN Recolour(a.heap, a.path)
     ELSE Lift(Straighten(a.heap, a.path), a.path)

\* the last node of the path has a new red child on the path's last side
InsertFix(h, path) ==
  Until([a \in [heap : Heaps(DOMAIN h), path : Paths(DOMAIN h)] |-> InsertStep(a)])
       [[heap |-> h, path |-> path]].heap

\* a red node for k at the end of the path
Attach(h, path, k) ==
  Hang([n \in DOMAIN h \union {k} |-> IF n = k THEN NewNode("red") ELSE h[n]],
       Last(path).at, Last(path).side, k)

\* mutant: the tree is not rebalanced
InsertUnbalanced(h, k) ==
  LET h2 == Attach(h, Search(h, k), k) IN Paint(h2, h2[Root].link[0], "black")

\* rb_probe for a key that is not in the tree
Insert(h, k) ==
  LET path == Search(h, k)
      h2 == InsertFix(Attach(h, path, k), path)
  IN Paint(h2, h2[Root].link[0], "black")

-----------------------------------------------------------------------------
(* Deletion *)

\* down the left links from the end of the path to a node without one
LeftmostPath(h, path) ==
  Until([p \in Paths(DOMAIN h) |->
           LET x == Below(h, p) IN IF h[x].link[0] = Null THEN p ELSE p \o Step(x, 0)])[path]

\* case 1: the red sibling takes the place of the parent, which gets red
LowerParent(h, path, x) ==
  LET k == Len(path)
      p == path[k].at
      s == path[k].side
      w == h[p].link[1 - s]
      above == path[k - 1]
  IN [heap |-> Rotate(Paint(Paint(h, w, "black"), p, "red"), p, 1 - s, above.at, above.side),
      path |-> [path EXCEPT ![k].at = w] \o Step(p, s), x |-> x]

\* case 3: the sibling's red child on the near side takes its place
TurnSibling(h, path) ==
  LET p == path[Len(path)].at
      s == path[Len(path)].side
      w == h[p].link[1 - s]
      near == h[w].link[s]
  IN IF Red(h, h[w].link[1 - s]) THEN h
     ELSE Rotate(Paint(Paint(h, near, "black"), w, "red"), w, s, p, 1 - s)

\* case 4: the sibling takes the place and the color of the parent; the loop is left
Replenish(h, path) ==
  LET k == Len(path)
      p == path[k].at
      s == path[k].side
      w == h[p].link[1 - s]
      above == path[k - 1]
  IN Rotate(Paint(Paint(Paint(h, w, h[p].color), p, "black"), h[w].link[1 - s], "black"),
            p, 1 - s, above.at, above.side)

DeleteStep(a) ==
  LET h == a.heap
      k == Len(a.path)
      p == a.path[k].at
      s == a.path[k].side
      w == h[p].link[1 - s]
  IN IF k = 1 \/ Red(h, a.x) THEN a
     ELSE IF Red(h, w) THEN LowerParent(h, a.path, a.x)
     ELSE IF \A c \in Sides : ~Red(h, h[w].link[c])              \* case 2
     THEN [heap |-> Paint(h, w, "red"), path |-> SubSeq(a.path, 1, k - 1), x |-> p]
     ELSE LET h1 == Replenish(TurnSibling(h, a.path), a.path)
          IN [heap |-> h1, path |-> FromRoot, x |-> h1[Root].link[0]]

\* x hangs at the end of the path and lacks a black node
DeleteFix(h, path, x) ==
  LET end == Until([a \in [heap : Heaps(DOMAIN h), path : Paths(DOMAIN h), x : Pointers(DOMAIN h)]
                      |-> DeleteStep(a)])
                  [[heap |-> h, path |-> path, x |-> x]]
  IN IF end.x = Null THEN end.heap ELSE Paint(end.heap, end.x, "black")

\* the node of k gets the item of the node of y, whose own node is freed
TakeItem(h, k, y) ==
  LET To(n) == IF n = k THEN y ELSE n IN
  [n \in DOMAIN h \ {k} |->
     LET old == h[IF n = y THEN k ELSE n] IN
     [old EXCEPT !.link = [s \in Sides |-> To(old.link[s])]]]

TwoChildren(h, k) == \A s \in Sides : h[k].link[s] # Null

\* mutant: the node is freed, but not taken out of its parent's link
DeleteStillLinked(h, k) == [n \in DOMAIN h \ {k} |-> h[n]]

\* rb_delete for a key in the tree
Delete(h, k) ==
  LET toK == Search(h, k) IN
  IF ~TwoChildren(h, k)
  THEN LET x == h[k].link[IF h[k].link[0] # Null THEN 0 ELSE 1]
           h1 == Hang(h, Last(toK).at, Last(toK).side, x)
           h2 == [n \in DOMAIN h \ {k} |-> h1[n]]
       IN IF Red(h, k) THEN h2 ELSE DeleteFix(h2, toK, x)
  ELSE LET toY == LeftmostPath(h, toK \o Step(k, 1))
           y == Below(h, toY)
           x == h[y].link[1]
           h1 == TakeItem(Hang(h, Last(toY).at, Last(toY).side, x), k, y)
           path == [n \in DOMAIN toY |->
                      IF toY[n].at = k THEN [toY[n] EXCEPT !.at = y] ELSE toY[n]]
       IN IF Red(h, y) THEN h1 ELSE DeleteFix(h1, path, x)

-----------------------------------------------------------------------------
(* Traversal *)

\* down the left side from p, stacking the nodes passed
DownLeft(h, stack, p) ==
  IF p = Null THEN stack
  ELSE Until([st \in Seq(Elements(h) \union {Freed}) \ {<<>>} |->
                LET x == h[Last(st)].link[0] IN IF x = Null THEN st ELSE Append(st, x)])
            [Append(stack, p)]

NoTraversal == [init |-> FALSE, p |-> Null, stack |-> <<>>]

\* rb_traverse: the traverser after the call; its p is the node returned
Traverse(h, trav) ==
  LET stack == IF trav.init THEN DownLeft(h, trav.stack, h[trav.p].link[1])
                            ELSE DownLeft(h, <<>>, h[Root].link[0])
  IN IF stack = <<>> THEN NoTraversal
     ELSE [init |-> TRUE, p |-> Last(stack), stack |-> SubSeq(stack, 1, Len(stack) - 1)]

\* Where pointers to nodes point after the deletion of k: the node of k that
\* takes over its successor's item remains, the successor's node is freed.
PointerAfterDelete(h, k, n) ==
  IF k \notin DOMAIN h THEN n
  ELSE LET y == IF TwoChildren(h, k)
                THEN Below(h, LeftmostPath(h, Search(h, k) \o Step(k, 1)))
                ELSE k
       IN CASE n = y -> Freed
            [] n = k /\ n # y -> y
            [] OTHER -> n

-----------------------------------------------------------------------------
(* What makes it a red-black tree *)

\* the nodes on the way to n, and n
Way(h, n) == LET path == Search(h, n) IN {path[i].at : i \in 2..Len(path)} \union {n}

BlackNodes(h, n) == {m \in Way(h, n) : ~Red(h, m)}

Balanced(h) ==
  /\ ~Red(h, h[Root].link[0])
  /\ \A n \in Elements(h) : Red(h, n) => \A s \in Sides : ~Red(h, h[n].link[s])
  /\ LET ends == {n \in Elements(h) : \E s \in Sides : h[n].link[s] = Null}
         heights == {Cardinality(BlackNodes(h, n)) : n \in ends}
     IN \A a, b \in heights : a = b

\* the nodes of the heap are those a search for their key ends at
Ordered(h) == \A n \in Elements(h) : Found(h, n)
=============================================================================
