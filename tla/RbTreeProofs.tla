---------------------------- MODULE RbTreeProofs ----------------------------
(***************************************************************************)
(* Proofs about the red-black tree of rb.c, for all trees.                 *)
(***************************************************************************)
EXTENDS RbTree, FiniteSetTheorems, SequenceTheorems, WellFoundedInduction, TLAPS

-----------------------------------------------------------------------------
(* Loops *)

\* what Until is: the function its definition describes exists
LEMMA UntilIs ==
  ASSUME NEW step, NEW S, S = DOMAIN step
  PROVE  Until(step) = [a \in S |-> IF step[a] = a \/ step[a] \notin S THEN step[a]
                                    ELSE Until(step)[step[a]]]
<1> DEFINE Ends(a) == step[a] = a \/ step[a] \notin S
           Closed == {T \in SUBSET S : \A a \in T : Ends(a) \/ step[a] \in T}
           Reach(a) == {b \in S : \A T \in Closed : a \in T => b \in T}
           Last0(a) == {b \in Reach(a) : Ends(b)}
           g == [a \in S |-> step[CHOOSE b \in Last0(a) : TRUE]]
<1>1. ASSUME NEW a \in S, Ends(a) PROVE Last0(a) = {a}
  <2>1. {a} \in Closed
    BY <1>1
  <2> QED BY <1>1, <2>1
<1>2. ASSUME NEW a \in S, ~Ends(a) PROVE Last0(a) = Last0(step[a])
  <2>1. Reach(step[a]) \subseteq Reach(a)
    <3>1. ASSUME NEW b \in Reach(step[a]), NEW T \in Closed, a \in T PROVE b \in T
      <4>1. step[a] \in T
        BY <1>2, <3>1
      <4> QED BY <3>1, <4>1
    <3> QED BY <3>1
  <2>2. ASSUME NEW b \in Reach(a), b # a PROVE b \in Reach(step[a])
    <3>1. ASSUME NEW T \in Closed, step[a] \in T PROVE b \in T
      <4>1. T \union {a} \in Closed
        BY <3>1
      <4>2. b \in T \union {a}
        BY <2>2, <4>1
      <4> QED BY <2>2, <4>2
    <3> QED BY <2>2, <3>1
  <2>3. \A b \in Last0(a) : b \in Last0(step[a])
    BY <1>2, <2>2
  <2>4. \A b \in Last0(step[a]) : b \in Last0(a)
    BY <2>1
  <2> QED BY <2>3, <2>4
<1>3. g = [a \in S |-> IF Ends(a) THEN step[a] ELSE g[step[a]]]
  <2>1. ASSUME NEW a \in S PROVE g[a] = IF Ends(a) THEN step[a] ELSE g[step[a]]
    <3>1. CASE Ends(a)
      <4>1. (CHOOSE b \in Last0(a) : TRUE) = a
        BY <1>1, <3>1
      <4> QED BY <3>1, <4>1
    <3>2. CASE ~Ends(a)
      <4>1. g[a] = step[CHOOSE b \in Last0(a) : TRUE]
        OBVIOUS
      <4>2. step[a] \in S /\ g[step[a]] = step[CHOOSE b \in Last0(step[a]) : TRUE]
        BY <3>2
      <4> QED BY <1>2, <3>2, <4>1, <4>2
    <3> QED BY <3>1, <3>2
  <2>2. PICK f : f = g
    OBVIOUS
  <2>3. f = [a \in S |-> f[a]]
    BY <2>2
  <2> HIDE DEF g
  <2>4. \A a \in S : f[a] = IF Ends(a) THEN step[a] ELSE f[step[a]]
    BY <2>1, <2>2
  <2>5. f = [a \in S |-> IF Ends(a) THEN step[a] ELSE f[step[a]]]
    BY <2>3, <2>4
  <2> QED BY <2>2, <2>5
<1> HIDE DEF g
<1>4. PICK run : run = [a \in S |-> IF step[a] = a \/ step[a] \notin S THEN step[a]
                                    ELSE run[step[a]]]
  BY <1>3
<1>5. Until(step) = CHOOSE r : r = [a \in S |-> IF step[a] = a \/ step[a] \notin S THEN step[a]
                                                     ELSE r[step[a]]]
  BY DEF Until
<1> QED BY <1>4, <1>5

\* a set of naturals has a least element
LEMMA LeastOf ==
  ASSUME NEW T \in SUBSET Nat, T # {}
  PROVE  \E n \in T : \A m \in T : n <= m
<1>1. PICK n \in T : \A m \in T : ~(<<m, n>> \in OpToRel(<, Nat))
  BY WFMin, NatLessThanWellFounded
<1>2. \A m \in T : ~(m < n)
  BY <1>1 DEF OpToRel
<1> QED BY <1>2

(* The rule for loops: what every step keeps holds in the end, if every    *)
(* step that is not the last makes a number smaller.                       *)
LEMMA LoopEnds ==
  ASSUME NEW step, NEW I, I \subseteq DOMAIN step, NEW size \in [I -> Nat],
         \A a \in I : step[a] = a \/ (step[a] \in I /\ size[step[a]] < size[a]),
         NEW a0 \in I
  PROVE  /\ Until(step)[a0] \in I
         /\ step[Until(step)[a0]] = Until(step)[a0]
<1> DEFINE Good(a) == Until(step)[a] \in I /\ step[Until(step)[a]] = Until(step)[a]
           Bad == {size[a] : a \in {b \in I : ~Good(b)}}
<1>1. \A a \in I : Until(step)[a] = IF step[a] = a THEN a ELSE Until(step)[step[a]]
  <2>1. PICK S : S = DOMAIN step
    OBVIOUS
  <2>2. PICK run : run = Until(step)
    OBVIOUS
  <2>3. run = [a \in S |-> IF step[a] = a \/ step[a] \notin S THEN step[a] ELSE run[step[a]]]
    BY <2>1, <2>2, UntilIs
  <2>4. \A a \in S : run[a] = IF step[a] = a \/ step[a] \notin S THEN step[a] ELSE run[step[a]]
    BY <2>3
  <2> QED BY <2>1, <2>2, <2>4
<1>2. ASSUME Bad # {} PROVE FALSE
  <2>1. PICK n \in Bad : \A m \in Bad : n <= m
    BY <1>2, LeastOf
  <2>2. PICK a \in I : ~Good(a) /\ n = size[a]
    BY <2>1
  <2>3. step[a] # a
    BY <1>1, <2>2
  <2>4. step[a] \in I /\ size[step[a]] < size[a]
    BY <2>3
  <2>5. ~Good(step[a])
    BY <1>1, <2>2, <2>3
  <2>6. size[step[a]] \in Bad
    BY <2>4, <2>5
  <2>7. n <= size[step[a]] /\ n \in Nat /\ size[step[a]] \in Nat
    BY <2>1, <2>2, <2>4, <2>6
  <2> QED BY <2>2, <2>4, <2>7
<1> QED BY <1>2

-----------------------------------------------------------------------------
(* Heaps *)

IsHeap(h) ==
  /\ Root \in DOMAIN h
  /\ DOMAIN h \subseteq Nat
  /\ IsFiniteSet(DOMAIN h)
  /\ h \in Heaps(DOMAIN h)

\* what a heap holds
LEMMA HeapHolds ==
  ASSUME NEW h, IsHeap(h)
  PROVE  /\ Root \in DOMAIN h
         /\ Elements(h) \subseteq Nat \ {Null}
         /\ Elements(h) = DOMAIN h \ {Root}
         /\ \A n \in DOMAIN h : h[n].color \in Colors
         /\ \A n \in DOMAIN h, s \in Sides : h[n].link[s] \in Elements(h) \union {Null}
<1>1. PICK D : D = DOMAIN h
  OBVIOUS
<1>2. h \in [D -> [link : [Sides -> Pointers(D)], color : Colors]]
  BY <1>1 DEF IsHeap, Heaps
<1>3. \A n \in D : h[n].color \in Colors /\ h[n].link \in [Sides -> Pointers(D)]
  BY <1>2
<1>4. Pointers(D) = Elements(h) \union {Null}
  BY <1>1 DEF Pointers, Elements
<1> QED BY <1>1, <1>3, <1>4, RbTreeAssumption DEF IsHeap, Elements

(* The heaps that the elementary changes lead to, node by node. *)

SameNodes(h, g) == IsHeap(g) /\ DOMAIN g = DOMAIN h /\ Elements(g) = Elements(h)
SameColors(h, g) == \A m \in DOMAIN h : g[m].color = h[m].color
SameLinks(h, g) == \A m \in DOMAIN h, s \in Sides : g[m].link[s] = h[m].link[s]

Hanged(h, g, at, side, n) ==
  /\ SameNodes(h, g) /\ SameColors(h, g)
  /\ \A m \in DOMAIN h, s \in Sides :
       g[m].link[s] = IF m = at /\ s = side THEN n ELSE h[m].link[s]

Painted(h, g, at, color) ==
  /\ SameNodes(h, g) /\ SameLinks(h, g)
  /\ \A m \in DOMAIN h : g[m].color = IF m = at THEN color ELSE h[m].color

Rotated(h, g, x, s, at, side, y) ==
  /\ SameNodes(h, g) /\ SameColors(h, g)
  /\ \A m \in DOMAIN h, c \in Sides :
       g[m].link[c] = IF m = x /\ c = s THEN h[y].link[1 - s]
                      ELSE IF m = y /\ c = 1 - s THEN x
                      ELSE IF m = at /\ c = side THEN y
                      ELSE h[m].link[c]

\* hanging a node or nothing under a node changes that one link
LEMMA HangIs ==
  ASSUME NEW h, IsHeap(h), NEW at \in DOMAIN h, NEW side \in Sides,
         NEW n \in Elements(h) \union {Null}, NEW g, g = Hang(h, at, side, n)
  PROVE  Hanged(h, g, at, side, n)
<1>1. PICK D : D = DOMAIN h
  OBVIOUS
<1>2. h \in [D -> [link : [Sides -> Pointers(D)], color : Colors]]
  BY <1>1 DEF IsHeap, Heaps
<1>3. n \in Pointers(D)
  BY <1>1 DEF Pointers, Elements
<1>4. g = [h EXCEPT ![at] = [h[at] EXCEPT !.link = [h[at].link EXCEPT ![side] = n]]]
  BY DEF Hang
<1>5. h[at] \in [link : [Sides -> Pointers(D)], color : Colors]
  BY <1>1, <1>2
<1>6. [h[at].link EXCEPT ![side] = n] \in [Sides -> Pointers(D)]
  BY <1>3, <1>5
<1>7. [h[at] EXCEPT !.link = [h[at].link EXCEPT ![side] = n]] \in [link : [Sides -> Pointers(D)], color : Colors]
  BY <1>5, <1>6
<1>8. g \in [D -> [link : [Sides -> Pointers(D)], color : Colors]]
  BY <1>1, <1>2, <1>4, <1>7
<1>9. DOMAIN g = D
  BY <1>8
<1>10. IsHeap(g)
  BY <1>1, <1>8, <1>9 DEF IsHeap, Heaps
<1>11. ASSUME NEW m \in D
       PROVE  g[m].color = h[m].color /\ \A s \in Sides :
                g[m].link[s] = IF m = at /\ s = side THEN n ELSE h[m].link[s]
  <2>1. CASE m = at
    <3>1. g[m] = [h[at] EXCEPT !.link = [h[at].link EXCEPT ![side] = n]]
      BY <1>1, <1>2, <1>4, <2>1
    <3>2. g[m].color = h[at].color /\ g[m].link = [h[at].link EXCEPT ![side] = n]
      BY <3>1, <1>5
    <3> QED BY <1>5, <2>1, <3>2
  <2>2. CASE m # at
    BY <1>1, <1>2, <1>4, <2>2
  <2> QED BY <2>1, <2>2
<1> QED BY <1>1, <1>9, <1>10, <1>11 DEF Hanged, SameNodes, SameColors, Elements

\* painting a node changes its color
LEMMA PaintIs ==
  ASSUME NEW h, IsHeap(h), NEW at \in DOMAIN h, NEW color \in Colors,
         NEW g, g = Paint(h, at, color)
  PROVE  Painted(h, g, at, color)
<1>1. PICK D : D = DOMAIN h
  OBVIOUS
<1>2. h \in [D -> [link : [Sides -> Pointers(D)], color : Colors]]
  BY <1>1 DEF IsHeap, Heaps
<1>4. g = [h EXCEPT ![at] = [h[at] EXCEPT !.color = color]]
  BY DEF Paint
<1>5. h[at] \in [link : [Sides -> Pointers(D)], color : Colors]
  BY <1>1, <1>2
<1>7. [h[at] EXCEPT !.color = color] \in [link : [Sides -> Pointers(D)], color : Colors]
  BY <1>5
<1>8. g \in [D -> [link : [Sides -> Pointers(D)], color : Colors]]
  BY <1>1, <1>2, <1>4, <1>7
<1>9. DOMAIN g = D
  BY <1>8
<1>10. IsHeap(g)
  BY <1>1, <1>8, <1>9 DEF IsHeap, Heaps
<1>11. ASSUME NEW m \in D
       PROVE  g[m].color = (IF m = at THEN color ELSE h[m].color) /\ g[m].link = h[m].link
  <2>1. CASE m = at
    <3>1. g[m] = [h[at] EXCEPT !.color = color]
      BY <1>1, <1>2, <1>4, <2>1
    <3> QED BY <1>5, <2>1, <3>1
  <2>2. CASE m # at
    BY <1>1, <1>2, <1>4, <2>2
  <2> QED BY <2>1, <2>2
<1> QED BY <1>1, <1>9, <1>10, <1>11 DEF Painted, SameNodes, SameLinks, Elements

\* a rotation turns the three links around x and its child
LEMMA RotateIs ==
  ASSUME NEW h, IsHeap(h), NEW x \in Elements(h), NEW s \in Sides,
         NEW at \in DOMAIN h, NEW side \in Sides, at # x,
         NEW y \in Elements(h), y = h[x].link[s], y # x, y # at,
         NEW g, g = Rotate(h, x, s, at, side)
  PROVE  Rotated(h, g, x, s, at, side, y)
<1>1. PICK t \in Sides : t = 1 - s
  BY DEF Sides
<1>2. PICK b \in Elements(h) \union {Null} : b = h[y].link[t]
  BY HeapHolds
<1>3. x \in DOMAIN h /\ y \in DOMAIN h
  BY DEF Elements
<1>4. PICK h1 : h1 = Hang(h, x, s, b)
  OBVIOUS
<1>5. PICK h2 : h2 = Hang(h1, y, t, x)
  OBVIOUS
<1>6. g = Hang(h2, at, side, y)
  BY <1>1, <1>2, <1>4, <1>5 DEF Rotate, Hang
<1>7. Hanged(h, h1, x, s, b)
  BY <1>3, <1>4, HangIs
<1>8. IsHeap(h1) /\ DOMAIN h1 = DOMAIN h /\ Elements(h1) = Elements(h)
  BY <1>7 DEF Hanged, SameNodes
<1>9. Hanged(h1, h2, y, t, x)
  BY <1>3, <1>5, <1>8, HangIs
<1>10. IsHeap(h2) /\ DOMAIN h2 = DOMAIN h /\ Elements(h2) = Elements(h)
  BY <1>8, <1>9 DEF Hanged, SameNodes
<1>11. Hanged(h2, g, at, side, y)
  BY <1>6, <1>10, HangIs
<1>12. SameNodes(h, g) /\ SameColors(h, g)
  BY <1>7, <1>8, <1>9, <1>10, <1>11 DEF Hanged, SameNodes, SameColors
<1>13. ASSUME NEW m \in DOMAIN h, NEW c \in Sides
       PROVE  g[m].link[c] = IF m = x /\ c = s THEN h[y].link[1 - s]
                             ELSE IF m = y /\ c = 1 - s THEN x
                             ELSE IF m = at /\ c = side THEN y
                             ELSE h[m].link[c]
  <2>1. h1[m].link[c] = IF m = x /\ c = s THEN b ELSE h[m].link[c]
    BY <1>7 DEF Hanged
  <2>2. h2[m].link[c] = IF m = y /\ c = t THEN x ELSE h1[m].link[c]
    BY <1>8, <1>9 DEF Hanged
  <2>3. g[m].link[c] = IF m = at /\ c = side THEN y ELSE h2[m].link[c]
    BY <1>10, <1>11 DEF Hanged
  <2> QED BY <1>1, <1>2, <2>1, <2>2, <2>3
<1> QED BY <1>12, <1>13 DEF Rotated

\* painting two nodes, and three
PaintedTwo(h, g, a, ca, b, cb) ==
  /\ SameNodes(h, g) /\ SameLinks(h, g)
  /\ \A m \in DOMAIN h : g[m].color = IF m = b THEN cb ELSE IF m = a THEN ca ELSE h[m].color

PaintedThree(h, g, a, ca, b, cb, c, cc) ==
  /\ SameNodes(h, g) /\ SameLinks(h, g)
  /\ \A m \in DOMAIN h : g[m].color = IF m = c THEN cc ELSE IF m = b THEN cb
                                       ELSE IF m = a THEN ca ELSE h[m].color

\* painting two nodes changes their colours only, the last paint counting
LEMMA PaintTwoIs ==
  ASSUME NEW h, IsHeap(h), NEW a \in DOMAIN h, NEW ca \in Colors, NEW b \in DOMAIN h, NEW cb \in Colors,
         NEW g, g = Paint(Paint(h, a, ca), b, cb)
  PROVE  PaintedTwo(h, g, a, ca, b, cb)
<1>1. PICK h1 : h1 = Paint(h, a, ca)
  OBVIOUS
<1>2. Painted(h, h1, a, ca)
  BY <1>1, PaintIs
<1>3. g = Paint(h1, b, cb) /\ b \in DOMAIN h1 /\ IsHeap(h1) /\ DOMAIN h1 = DOMAIN h
  BY <1>1, <1>2 DEF Painted, SameNodes
<1>4. Painted(h1, g, b, cb)
  BY <1>3, PaintIs
<1> QED BY <1>2, <1>3, <1>4 DEF Painted, PaintedTwo, SameNodes, SameLinks

\* painting three nodes changes their colours only, the last paint counting
LEMMA PaintThreeIs ==
  ASSUME NEW h, IsHeap(h), NEW a \in DOMAIN h, NEW ca \in Colors, NEW b \in DOMAIN h, NEW cb \in Colors,
         NEW c \in DOMAIN h, NEW cc \in Colors,
         NEW g, g = Paint(Paint(Paint(h, a, ca), b, cb), c, cc)
  PROVE  PaintedThree(h, g, a, ca, b, cb, c, cc)
<1>1. PICK h1 : h1 = Paint(Paint(h, a, ca), b, cb)
  OBVIOUS
<1>2. PaintedTwo(h, h1, a, ca, b, cb)
  BY <1>1, PaintTwoIs
<1>3. g = Paint(h1, c, cc) /\ c \in DOMAIN h1 /\ IsHeap(h1) /\ DOMAIN h1 = DOMAIN h
  BY <1>1, <1>2 DEF PaintedTwo, SameNodes
<1>4. Painted(h1, g, c, cc)
  BY <1>3, PaintIs
<1> QED BY <1>2, <1>3, <1>4 DEF Painted, PaintedTwo, PaintedThree, SameNodes, SameLinks

-----------------------------------------------------------------------------
(* Search trees *)

\* the keys at and below a node or nothing, if sub[n] is those of node n
Under(sub, x) == IF x = Null THEN {} ELSE sub[x]

\* key m lies on side s of key n
Beside(n, s, m) == IF s = 0 THEN m < n ELSE n < m

(* sub[n] is the keys at and below n, on each side of it those that lie    *)
(* there; every element hangs under the header, in one place.              *)
SubIs(h, sub) ==
  /\ sub \in [Elements(h) -> SUBSET Elements(h)]
  /\ \A n \in Elements(h) : sub[n] = {n} \union Under(sub, h[n].link[0]) \union Under(sub, h[n].link[1])
InOrder(h, sub) ==
  \A n \in Elements(h), s \in Sides : \A m \in Under(sub, h[n].link[s]) : Beside(n, s, m)
FromTop(h, sub) == Under(sub, h[Root].link[0]) = Elements(h) /\ h[Root].link[1] = Null
OnePlace(h) ==
  \A a, b \in DOMAIN h, s, t \in Sides :
    h[a].link[s] = h[b].link[t] /\ h[a].link[s] # Null => a = b /\ s = t

Sorted(h, sub) == SubIs(h, sub) /\ InOrder(h, sub) /\ FromTop(h, sub) /\ OnePlace(h)

\* a node has two sides, and 1 - s is the other one
LEMMA OtherSide ==
  ASSUME NEW s \in Sides
  PROVE  1 - s \in Sides /\ 1 - (1 - s) = s /\ 1 - s # s /\ Sides = {s, 1 - s}
BY DEF Sides

\* a tree of the same links is as sorted
LEMMA SameLinksSorted ==
  ASSUME NEW h, IsHeap(h), NEW g, SameNodes(h, g), SameLinks(h, g), NEW sub, Sorted(h, sub)
  PROVE  Sorted(g, sub)
<1>1. Elements(g) = Elements(h) /\ Elements(h) \subseteq DOMAIN h /\ Root \in DOMAIN h /\ 0 \in Sides /\ 1 \in Sides
  BY HeapHolds DEF Elements, Sides, SameNodes
<1>6. \A n \in DOMAIN h, s \in Sides : g[n].link[s] = h[n].link[s]
  BY DEF SameLinks
<1>2. SubIs(g, sub)
  BY <1>1, <1>6 DEF Sorted, SubIs
<1>3. InOrder(g, sub)
  BY <1>1, <1>6 DEF Sorted, InOrder
<1>4. FromTop(g, sub)
  BY <1>1, <1>6 DEF Sorted, FromTop
<1>5. OnePlace(g)
  BY <1>1, <1>6 DEF Sorted, OnePlace, SameNodes
<1> QED BY <1>2, <1>3, <1>4, <1>5 DEF Sorted

\* what sortedness says of a node and the child on side s
LEMMA SortedAt ==
  ASSUME NEW h, NEW sub, IsHeap(h), Sorted(h, sub), NEW n \in Elements(h), NEW s \in Sides
  PROVE  /\ sub[n] \subseteq Elements(h) /\ n \in sub[n]
         /\ sub[n] = {n} \union Under(sub, h[n].link[s]) \union Under(sub, h[n].link[1 - s])
         /\ Under(sub, h[n].link[s]) \subseteq sub[n]
         /\ \A m \in Under(sub, h[n].link[s]) : Beside(n, s, m)
         /\ h[n].link[s] # Null => h[n].link[s] \in Elements(h) /\ h[n].link[s] \in Under(sub, h[n].link[s])
<1>1. h[n].link[s] \in Elements(h) \union {Null} /\ Null \notin Elements(h)
  BY HeapHolds DEF Elements
<1>2. \A m \in Elements(h) : m \in sub[m] /\ sub[m] \subseteq Elements(h)
  BY DEF Sorted, SubIs
<1>3. sub[n] = {n} \union Under(sub, h[n].link[s]) \union Under(sub, h[n].link[1 - s])
  <2>1. CASE s = 0
    BY <2>1 DEF Sorted, SubIs
  <2>2. CASE s = 1
    BY <2>2 DEF Sorted, SubIs
  <2> QED BY <2>1, <2>2 DEF Sides
<1>4. \A m \in Under(sub, h[n].link[s]) : Beside(n, s, m)
  BY DEF Sorted, InOrder
<1> QED BY <1>1, <1>2, <1>3, <1>4 DEF Under

\* a key lies on one side of another
LEMMA BesideOnce ==
  ASSUME NEW n \in Nat, NEW m \in Nat, NEW s \in Sides
  PROVE  /\ Beside(n, s, m) => m # n /\ ~Beside(n, 1 - s, m) /\ Beside(m, 1 - s, n)
         /\ m # n => Beside(n, s, m) \/ Beside(n, 1 - s, m)
BY DEF Beside, Sides

\* what is beside a key, on the same side of another, is on that side of the other too
LEMMA BesideAfter ==
  ASSUME NEW n \in Nat, NEW m \in Nat, NEW l \in Nat, NEW s \in Sides, Beside(n, s, m), Beside(m, s, l)
  PROVE  Beside(n, s, l)
BY DEF Beside, Sides

\* a node hangs in one place, which is none of its own links
LEMMA HangsAt ==
  ASSUME NEW h, NEW sub, IsHeap(h), Sorted(h, sub),
         NEW at \in DOMAIN h, NEW side \in Sides, NEW x \in Elements(h), h[at].link[side] = x
  PROVE  /\ at # x
         /\ sub[x] = Under(sub, h[at].link[side])
         /\ at \notin sub[x]
         /\ \A n \in DOMAIN h, s \in Sides : h[n].link[s] = x => n = at /\ s = side
<1>1. x # Null /\ x \in sub[x] /\ sub[x] \subseteq Elements(h) /\ Elements(h) \subseteq Nat /\ Root \notin Elements(h)
  BY HeapHolds, SortedAt, OtherSide DEF Elements, Root
<1>2. Under(sub, h[at].link[side]) = sub[x]
  BY <1>1 DEF Under
<1>3. at \notin sub[x]
  <2>1. CASE at = Root
    BY <1>1, <2>1
  <2>2. CASE at \in Elements(h)
    BY <1>1, <1>2, <2>2, SortedAt, BesideOnce
  <2> QED BY <2>1, <2>2 DEF Elements
<1>4. \A n \in DOMAIN h, s \in Sides : h[n].link[s] = x => n = at /\ s = side
  BY <1>1 DEF Sorted, OnePlace
<1> QED BY <1>1, <1>2, <1>3, <1>4

\* the keys at and below each node after a rotation of x and y, its child on side s
Turned(h, sub, x, y, s) ==
  [n \in Elements(h) |-> IF n = y THEN sub[x]
                         ELSE IF n = x THEN sub[x] \ ({y} \union Under(sub, h[y].link[s]))
                         ELSE sub[n]]

\* a rotation keeps the tree sorted
LEMMA RotateSorted ==
  ASSUME NEW h, IsHeap(h), NEW sub, Sorted(h, sub), NEW x \in Elements(h), NEW s \in Sides,
         NEW at \in DOMAIN h, NEW side \in Sides, h[at].link[side] = x,
         NEW y, y = h[x].link[s], y # Null,
         NEW g, g = Rotate(h, x, s, at, side)
  PROVE  /\ y \in Elements(h) /\ y # x /\ y # at /\ at # x
         /\ Rotated(h, g, x, s, at, side, y)
         /\ Sorted(g, Turned(h, sub, x, y, s))
<1>1. y \in Elements(h) /\ y \in Under(sub, h[x].link[s]) /\ Beside(x, s, y)
  BY SortedAt
<1>2. Elements(h) \subseteq Nat \ {Null} /\ Elements(h) \subseteq DOMAIN h /\ Root \in DOMAIN h /\ Root \notin Elements(h)
  BY HeapHolds DEF Elements
<1>3. x \in DOMAIN h /\ y # x
  BY <1>1, <1>2, BesideOnce
<1>4. at # x /\ at \notin sub[x] /\ \A n \in DOMAIN h, c \in Sides : h[n].link[c] = x => n = at /\ c = side
  BY HangsAt
<1>5. x \notin sub[y] /\ \A n \in DOMAIN h, c \in Sides : h[n].link[c] = y => n = x /\ c = s
  BY <1>1, <1>3, HangsAt
<1>6. y # at
  BY <1>1, <1>4, SortedAt
<1>25. Rotated(h, g, x, s, at, side, y)
  BY <1>1, <1>3, <1>4, <1>6, RotateIs
<1>7. /\ IsHeap(g) /\ DOMAIN g = DOMAIN h
      /\ \A m \in DOMAIN h : g[m].color = h[m].color
      /\ \A m \in DOMAIN h, c \in Sides :
              g[m].link[c] = IF m = x /\ c = s THEN h[y].link[1 - s]
                             ELSE IF m = y /\ c = 1 - s THEN x
                             ELSE IF m = at /\ c = side THEN y
                             ELSE h[m].link[c]
  BY <1>25 DEF Rotated, SameNodes, SameColors
<1>8. Elements(g) = Elements(h)
  BY <1>25 DEF Rotated, SameNodes
<1>9. PICK t \in Sides : t = 1 - s /\ s # t /\ Sides = {s, t} /\ s = 1 - t
  BY OtherSide
<1>10. PICK A, B, C : A = Under(sub, h[x].link[t]) /\ B = Under(sub, h[y].link[t]) /\ C = Under(sub, h[y].link[s])
  OBVIOUS
<1>11. /\ sub[x] = {x} \union sub[y] \union A /\ sub[y] = {y} \union B \union C
       /\ sub[x] \subseteq Elements(h)
  <2>1. /\ sub[x] = {x} \union Under(sub, h[x].link[s]) \union Under(sub, h[x].link[t])
        /\ sub[x] \subseteq Elements(h)
    BY <1>9, SortedAt
  <2>2. sub[y] = {y} \union Under(sub, h[y].link[t]) \union Under(sub, h[y].link[s])
    BY <1>1, <1>9, SortedAt
  <2>3. Under(sub, h[x].link[s]) = sub[y]
    BY <1>1, <1>2 DEF Under
  <2> QED BY <2>1, <2>2, <2>3, <1>10
<1>12. /\ \A m \in sub[y] : Beside(x, s, m)
       /\ \A m \in A : Beside(x, t, m)
       /\ \A m \in B : Beside(y, t, m)
       /\ \A m \in C : Beside(y, s, m)
  <2>1. Under(sub, h[x].link[s]) = sub[y]
    BY <1>1, <1>2 DEF Under
  <2>2. \A m \in Under(sub, h[x].link[s]) : Beside(x, s, m)
    BY SortedAt
  <2>3. \A m \in Under(sub, h[x].link[t]) : Beside(x, t, m)
    BY <1>9, SortedAt
  <2>4. \A m \in Under(sub, h[y].link[t]) : Beside(y, t, m)
    BY <1>1, <1>9, SortedAt
  <2>5. \A m \in Under(sub, h[y].link[s]) : Beside(y, s, m)
    BY <1>1, SortedAt
  <2> QED BY <2>1, <2>2, <2>3, <2>4, <2>5, <1>10
<1>13. PICK new : new = Turned(h, sub, x, y, s)
  OBVIOUS
<1>14. \A n \in Elements(h) : new[n] = IF n = y THEN sub[x] ELSE IF n = x THEN sub[x] \ ({y} \union C) ELSE sub[n]
  BY <1>10, <1>13 DEF Turned
<1>15. new[x] = {x} \union A \union B
  <2>1. \A m \in A : m # y /\ m \notin C
    <3>1. ASSUME NEW m \in A, m = y \/ m \in C PROVE FALSE
      <4>1. m \in sub[y]
        BY <3>1, <1>11
      <4>2. Beside(x, s, m) /\ Beside(x, t, m) /\ m \in Nat /\ x \in Nat
        BY <4>1, <1>12, <1>11, <1>2
      <4> QED BY <4>2, <1>9, BesideOnce
    <3> QED BY <3>1
  <2>2. \A m \in B : m # y /\ m \notin C
    <3>1. ASSUME NEW m \in B, m = y \/ m \in C PROVE FALSE
      <4>2. Beside(y, t, m) /\ m \in Nat /\ y \in Nat /\ (m = y \/ Beside(y, s, m))
        BY <3>1, <1>12, <1>11, <1>2, <1>1
      <4> QED BY <4>2, <1>9, BesideOnce
    <3> QED BY <3>1
  <2>3. x # y /\ x \notin C
    BY <1>3, <1>5, <1>11
  <2> QED BY <1>14, <1>11, <2>1, <2>2, <2>3, <1>3
<1>16. new[y] = sub[x]
  BY <1>14, <1>1
<1>17. new \in [Elements(h) -> SUBSET Elements(h)]
  <2>1. \A n \in Elements(h) : sub[n] \subseteq Elements(h)
    BY DEF Sorted, SubIs
  <2>2. new = [n \in Elements(h) |-> new[n]]
    BY <1>13 DEF Turned
  <2>3. \A n \in Elements(h) : new[n] \subseteq Elements(h)
    BY <1>14, <2>1
  <2> QED BY <2>2, <2>3
<1>18. ASSUME NEW n \in DOMAIN h, n # x, n # y, NEW c \in Sides
       PROVE  Under(new, g[n].link[c]) = Under(sub, h[n].link[c])
  <2>1. CASE n = at /\ c = side
    BY <2>1, <1>7, <1>16, <1>18, <1>2, <1>1 DEF Under
  <2>2. CASE ~(n = at /\ c = side)
    <3>1. g[n].link[c] = h[n].link[c] /\ h[n].link[c] # x /\ h[n].link[c] # y
      BY <2>2, <1>4, <1>5, <1>7, <1>18
    <3>2. h[n].link[c] \in Elements(h) \union {Null}
      BY HeapHolds
    <3> QED BY <3>1, <3>2, <1>14 DEF Under
  <2> QED BY <2>1, <2>2
<1>19. Under(new, g[x].link[s]) = B /\ Under(new, g[x].link[t]) = A
  <2>1. g[x].link[s] = h[y].link[t] /\ g[x].link[t] = h[x].link[t]
    BY <1>3, <1>4, <1>7, <1>9
  <2>2. h[y].link[t] # x /\ h[y].link[t] # y /\ h[x].link[t] # x /\ h[x].link[t] # y
    BY <1>1, <1>2, <1>3, <1>4, <1>5, <1>6, <1>9
  <2>3. h[y].link[t] \in Elements(h) \union {Null} /\ h[x].link[t] \in Elements(h) \union {Null}
    BY <1>1, <1>2, HeapHolds
  <2> QED BY <2>1, <2>2, <2>3, <1>10, <1>14, ZenonT(60) DEF Under
<1>20. Under(new, g[y].link[s]) = C /\ Under(new, g[y].link[t]) = new[x]
  <2>1. g[y].link[s] = h[y].link[s] /\ g[y].link[t] = x
    BY <1>1, <1>2, <1>3, <1>6, <1>7, <1>9
  <2>2. h[y].link[s] # x /\ h[y].link[s] # y
    BY <1>1, <1>2, <1>3, <1>4, <1>5, <1>6
  <2>3. h[y].link[s] \in Elements(h) \union {Null}
    BY <1>1, <1>2, HeapHolds
  <2>4. new[x] = Under(new, x)
    BY <1>2 DEF Under
  <2>5. Under(new, h[y].link[s]) = Under(sub, h[y].link[s])
    BY <2>2, <2>3, <1>14 DEF Under
  <2> QED BY <2>1, <2>4, <2>5, <1>10
<1>21. SubIs(g, new)
  <2>1. ASSUME NEW n \in Elements(h)
        PROVE  new[n] = {n} \union Under(new, g[n].link[0]) \union Under(new, g[n].link[1])
    <3>1. new[n] = {n} \union Under(new, g[n].link[s]) \union Under(new, g[n].link[t])
      <4>1. CASE n = x
        BY <4>1, <1>15, <1>19
      <4>2. CASE n = y
        BY <4>2, <1>11, <1>15, <1>16, <1>20
      <4>3. CASE n # x /\ n # y
        <5>1. new[n] = sub[n]
          BY <4>3, <1>14
        <5>2. sub[n] = {n} \union Under(sub, h[n].link[s]) \union Under(sub, h[n].link[t])
          BY <1>9, SortedAt
        <5> QED BY <4>3, <5>1, <5>2, <1>18, <1>2
      <4> QED BY <4>1, <4>2, <4>3
    <3> QED BY <3>1, <1>9 DEF Sides
  <2> QED BY <2>1, <1>8, <1>17 DEF SubIs
<1>22. InOrder(g, new)
  <2>1. ASSUME NEW n \in Elements(h), NEW c \in Sides, NEW m \in Under(new, g[n].link[c])
        PROVE  Beside(n, c, m)
    <3>1. CASE n = x
      BY <3>1, <2>1, <1>9, <1>11, <1>12, <1>19
    <3>2. CASE n = y /\ c = s
      BY <3>2, <2>1, <1>12, <1>20
    <3>3. CASE n = y /\ c = t
      <4>1. m \in {x} \union A \union B
        BY <3>3, <2>1, <1>15, <1>20
      <4>2. Beside(y, t, x)
        BY <1>1, <1>2, <1>9, BesideOnce
      <4>3. CASE m \in A
        <5>1. Beside(x, t, m) /\ m \in Nat /\ x \in Nat /\ y \in Nat
          BY <4>3, <1>12, <1>11, <1>2, <1>1
        <5> QED BY <4>2, <5>1, <3>3, BesideAfter
      <4> QED BY <4>1, <4>2, <4>3, <3>3, <1>12
    <3>4. CASE n # x /\ n # y
      <4>1. m \in Under(sub, h[n].link[c])
        BY <3>4, <2>1, <1>18, <1>2
      <4> QED BY <4>1, SortedAt
    <3> QED BY <3>1, <3>2, <3>3, <3>4, <1>9
  <2> QED BY <2>1, <1>8 DEF InOrder
<1>23. FromTop(g, new)
  <2>1. 0 \in Sides /\ 1 \in Sides /\ Root # x /\ Root # y
    BY <1>1, <1>2 DEF Sides
  <2>2. Under(new, g[Root].link[0]) = Elements(g)
    BY <2>1, <1>2, <1>8, <1>18 DEF Sorted, FromTop
  <2>3. h[Root].link[1] = Null
    BY DEF Sorted, FromTop
  <2>4. ~(Root = at /\ 1 = side)
    BY <2>3, <1>2
  <2> QED BY <2>1, <2>2, <2>3, <2>4, <1>2, <1>7 DEF FromTop
<1>24. OnePlace(g)
  <2>1. ASSUME NEW a \in DOMAIN h, NEW b \in DOMAIN h, NEW c \in Sides, NEW d \in Sides,
               g[a].link[c] = g[b].link[d], g[a].link[c] # Null
        PROVE  a = b /\ c = d
    <3> DEFINE From(n, e) == IF n = x /\ e = s THEN <<y, t>>
                             ELSE IF n = y /\ e = t THEN <<at, side>>
                             ELSE IF n = at /\ e = side THEN <<x, s>>
                             ELSE <<n, e>>
    <3>1. ASSUME NEW n \in DOMAIN h, NEW e \in Sides
          PROVE  /\ From(n, e)[1] \in DOMAIN h /\ From(n, e)[2] \in Sides
                 /\ g[n].link[e] = h[From(n, e)[1]].link[From(n, e)[2]]
      BY <1>1, <1>2, <1>3, <1>7, <1>9
    <3>2. From(a, c) = From(b, d) => a = b /\ c = d
      BY <1>3, <1>4, <1>6, <1>9
    <3>3. From(a, c)[1] = From(b, d)[1] /\ From(a, c)[2] = From(b, d)[2]
      <4>1. PICK a1 \in DOMAIN h, c1 \in Sides : a1 = From(a, c)[1] /\ c1 = From(a, c)[2]
        BY <3>1, ZenonT(60)
      <4>2. PICK b1 \in DOMAIN h, d1 \in Sides : b1 = From(b, d)[1] /\ d1 = From(b, d)[2]
        BY <3>1, ZenonT(60)
      <4> HIDE DEF From
      <4>3. g[a].link[c] = h[a1].link[c1] /\ g[b].link[d] = h[b1].link[d1]
        BY <3>1, <4>1, <4>2
      <4>4. a1 = b1 /\ c1 = d1
        <5>1. h[a1].link[c1] = h[b1].link[d1] /\ h[a1].link[c1] # Null
          BY <2>1, <4>3
        <5>2. OnePlace(h)
          BY DEF Sorted
        <5> QED BY <5>1, <5>2 DEF OnePlace
      <4> QED BY <4>1, <4>2, <4>4
    <3>4. From(a, c) = <<From(a, c)[1], From(a, c)[2]>> /\ From(b, d) = <<From(b, d)[1], From(b, d)[2]>>
      OBVIOUS
    <3> HIDE DEF From
    <3> QED BY <3>2, <3>3, <3>4
  <2> QED BY <2>1, <1>7 DEF OnePlace
<1> QED BY <1>1, <1>3, <1>4, <1>6, <1>25, <1>13, <1>21, <1>22, <1>23, <1>24 DEF Sorted

-----------------------------------------------------------------------------
(* Paths *)

\* the node that hangs at an entry of a path
Hung(h, e) == h[e.at].link[e.side]

\* a path goes from the header down the links
Chain(h, path) ==
  /\ path \in Paths(DOMAIN h)
  /\ path[1] = [at |-> Root, side |-> 0]
  /\ \A i \in 1..Len(path) - 1 : path[i + 1].at \in Elements(h) /\ Hung(h, path[i]) = path[i + 1].at

\* what holds of 1 and is handed on holds of all numbers up to N
LEMMA Induct ==
  ASSUME NEW N \in Nat, NEW T, 1 \in T, \A i \in 1..N - 1 : i \in T => i + 1 \in T
  PROVE  \A i \in 1..N : i \in T
<1> DEFINE Bad == (1..N) \ T
<1>1. ASSUME Bad # {} PROVE FALSE
  <2>1. Bad \in SUBSET Nat
    OBVIOUS
  <2>2. PICK i \in Bad : \A j \in Bad : i <= j
    BY <1>1, <2>1, LeastOf
  <2>3. i \in 1..N /\ i \notin T /\ i # 1
    BY <2>2
  <2>4. i - 1 \in 1..N - 1 /\ i - 1 \notin Bad
    BY <2>2, <2>3
  <2>5. i - 1 \in T
    BY <2>4
  <2>6. (i - 1) + 1 \in T
    BY <2>4, <2>5
  <2> QED BY <2>3, <2>6
<1> QED BY <1>1

\* appending an entry to a path keeps what it has and adds the entry at its end
LEMMA StepIs ==
  ASSUME NEW T, NEW q \in Seq(T), NEW e \in T
  PROVE  /\ q \o <<e>> \in Seq(T) \ {<<>>}
         /\ Len(q \o <<e>>) = Len(q) + 1 /\ Len(q) \in Nat
         /\ \A i \in 1..Len(q) : (q \o <<e>>)[i] = q[i]
         /\ (q \o <<e>>)[Len(q) + 1] = e
<1>1. q \o <<e>> \in Seq(T)
  OBVIOUS
<1>2. Len(q \o <<e>>) = Len(q) + 1 /\ Len(q) \in Nat
  OBVIOUS
<1>3. \A i \in 1..Len(q) : (q \o <<e>>)[i] = q[i]
  OBVIOUS
<1>4. (q \o <<e>>)[Len(q) + 1] = e
  OBVIOUS
<1> QED BY <1>1, <1>2, <1>3, <1>4

\* the first n entries of a path
LEMMA FrontIs ==
  ASSUME NEW T, NEW q \in Seq(T), NEW n \in 1..Len(q)
  PROVE  /\ SubSeq(q, 1, n) \in Seq(T) \ {<<>>}
         /\ Len(SubSeq(q, 1, n)) = n
         /\ \A i \in 1..n : SubSeq(q, 1, n)[i] = q[i]
OBVIOUS

\* a sequence over a set is one over a larger set
LEMMA SeqOfMore ==
  ASSUME NEW S, NEW T, S \subseteq T, NEW q \in Seq(S)
  PROVE  q \in Seq(T)
<1>1. PICK n \in Nat : q \in [1..n -> S]
  BY SeqDef
<1>2. q \in [1..n -> T]
  BY <1>1
<1> QED BY <1>2, SeqDef

\* a chain is a path of links that exist and hold an element or nothing
LEMMA ChainHas ==
  ASSUME NEW h, IsHeap(h), NEW path, Chain(h, path)
  PROVE  /\ path \in Seq([at : DOMAIN h, side : Sides]) /\ path # <<>>
         /\ Len(path) \in Nat \ {0}
         /\ \A i \in 1..Len(path) : /\ path[i] \in [at : DOMAIN h, side : Sides]
                                    /\ path[i].at \in DOMAIN h /\ path[i].side \in Sides
                                    /\ Hung(h, path[i]) \in Elements(h) \union {Null}
                                    /\ i > 1 => path[i].at \in Elements(h)
         /\ Last(path) = path[Len(path)] /\ Len(path) \in 1..Len(path)
         /\ Last(path).at \in DOMAIN h /\ Last(path).side \in Sides
         /\ Below(h, path) = Hung(h, Last(path))
         /\ Below(h, path) \in Elements(h) \union {Null}
<1>1. path \in Seq([at : DOMAIN h, side : Sides]) /\ path # <<>>
  BY DEF Chain, Paths
<1>2. Len(path) \in Nat \ {0}
  BY <1>1
<1>3. ASSUME NEW i \in 1..Len(path)
      PROVE  /\ path[i] \in [at : DOMAIN h, side : Sides]
             /\ path[i].at \in DOMAIN h /\ path[i].side \in Sides
             /\ Hung(h, path[i]) \in Elements(h) \union {Null}
             /\ i > 1 => path[i].at \in Elements(h)
  <2>1. path[i] \in [at : DOMAIN h, side : Sides]
    <3>1. PICK T : T = [at : DOMAIN h, side : Sides]
      OBVIOUS
    <3>2. path \in Seq(T)
      BY <1>1, <3>1
    <3>3. path[i] \in T
      BY <3>2
    <3> QED BY <3>1, <3>3
  <2>2. path[i].at \in DOMAIN h /\ path[i].side \in Sides
    BY <2>1
  <2>3. Hung(h, path[i]) \in Elements(h) \union {Null}
    BY <2>2, HeapHolds DEF Hung
  <2>4. ASSUME i > 1 PROVE path[i].at \in Elements(h)
    <3>1. i - 1 \in 1..Len(path) - 1 /\ (i - 1) + 1 = i
      BY <2>4, <1>2
    <3> QED BY <3>1 DEF Chain
  <2> QED BY <2>1, <2>2, <2>3, <2>4
<1>4. Last(path) = path[Len(path)] /\ Len(path) \in 1..Len(path)
  BY <1>2 DEF Last
<1> QED BY <1>1, <1>2, <1>3, <1>4 DEF Below, Hung

\* a path goes on at the node that hangs at its end
LEMMA ChainGoesOn ==
  ASSUME NEW h, IsHeap(h), NEW path, Chain(h, path), Below(h, path) # Null, NEW s \in Sides
  PROVE  LET q == path \o Step(Below(h, path), s) IN
         /\ Chain(h, q)
         /\ Len(q) = Len(path) + 1
         /\ \A i \in 1..Len(path) : q[i] = path[i]
         /\ Last(q) = [at |-> Below(h, path), side |-> s]
         /\ q[Len(path) + 1] = Last(q)
         /\ Below(h, q) = h[Below(h, path)].link[s]
<1>1. PICK x \in Elements(h) : x = Below(h, path)
  BY ChainHas
<1>2. PICK e : e = [at |-> x, side |-> s]
  OBVIOUS
<1>3. e \in [at : DOMAIN h, side : Sides] /\ e.at = x /\ e.side = s
  BY <1>2 DEF Elements
<1>4. PICK q : q = path \o <<e>>
  OBVIOUS
<1>5. path \in Seq([at : DOMAIN h, side : Sides]) /\ Len(path) \in Nat \ {0}
  BY ChainHas
<1>6. /\ q \in Seq([at : DOMAIN h, side : Sides]) \ {<<>>}
      /\ Len(q) = Len(path) + 1
      /\ \A i \in 1..Len(path) : q[i] = path[i]
      /\ q[Len(path) + 1] = e
  BY <1>3, <1>4, <1>5, StepIs
<1>7. Last(q) = e
  BY <1>6 DEF Last
<1>8. ASSUME NEW i \in 1..Len(q) - 1 PROVE q[i + 1].at \in Elements(h) /\ Hung(h, q[i]) = q[i + 1].at
  <2>1. CASE i = Len(path)
    <3>1. q[i] = path[i] /\ Hung(h, path[i]) = x /\ q[i + 1].at = x
      BY <1>1, <1>3, <1>5, <1>6, <2>1, ChainHas
    <3> QED BY <3>1
  <2>2. CASE i # Len(path)
    <3>1. i \in 1..Len(path) - 1 /\ i \in 1..Len(path) /\ i + 1 \in 1..Len(path)
      BY <1>5, <1>6, <2>2
    <3> QED BY <3>1, <1>6 DEF Chain
  <2> QED BY <2>1, <2>2
<1>9. q[1] = [at |-> Root, side |-> 0]
  BY <1>5, <1>6 DEF Chain
<1>10. Chain(h, q)
  BY <1>6, <1>8, <1>9 DEF Chain, Paths
<1>11. Below(h, q) = h[x].link[s]
  BY <1>3, <1>7 DEF Below
<1> QED BY <1>1, <1>2, <1>4, <1>6, <1>7, <1>10, <1>11 DEF Step

\* a chain cut short is a chain, and leads to the next node of the longer one
LEMMA ChainFront ==
  ASSUME NEW h, IsHeap(h), NEW path, Chain(h, path), NEW n \in 1..Len(path)
  PROVE  LET q == SubSeq(path, 1, n) IN
         /\ Chain(h, q) /\ Len(q) = n /\ \A i \in 1..n : q[i] = path[i]
         /\ Last(q) = path[n] /\ Below(h, q) = Hung(h, path[n])
         /\ n < Len(path) => Below(h, q) = path[n + 1].at
<1>1. PICK q : q = SubSeq(path, 1, n)
  OBVIOUS
<1>2. path \in Seq([at : DOMAIN h, side : Sides]) /\ Len(path) \in Nat \ {0}
  BY ChainHas
<1>3. /\ q \in Seq([at : DOMAIN h, side : Sides]) \ {<<>>} /\ Len(q) = n
      /\ \A i \in 1..n : q[i] = path[i]
  BY <1>1, <1>2, FrontIs, ZenonT(60)
<1>4. \A i \in 1..n - 1 : q[i] = path[i] /\ q[i + 1] = path[i + 1] /\ i \in 1..Len(path) - 1
  BY <1>2, <1>3
<1>5. Chain(h, q)
  <2>1. q \in Paths(DOMAIN h)
    BY <1>3 DEF Paths
  <2>2. q[1] = [at |-> Root, side |-> 0]
    BY <1>2, <1>3 DEF Chain
  <2>3. \A i \in 1..Len(q) - 1 : q[i + 1].at \in Elements(h) /\ Hung(h, q[i]) = q[i + 1].at
    BY <1>3, <1>4 DEF Chain
  <2> QED BY <2>1, <2>2, <2>3 DEF Chain
<1>6. Last(q) = path[n] /\ Below(h, q) = Hung(h, path[n])
  BY <1>3 DEF Last, Below, Hung
<1>7. n < Len(path) => Hung(h, path[n]) = path[n + 1].at
  BY <1>2 DEF Chain
<1> QED BY <1>1, <1>3, <1>5, <1>6, <1>7

\* the path every search starts with leads to the topmost node
LEMMA ChainFromRoot ==
  ASSUME NEW h, IsHeap(h)
  PROVE  /\ Chain(h, FromRoot) /\ Len(FromRoot) = 1 /\ Last(FromRoot) = [at |-> Root, side |-> 0]
         /\ Below(h, FromRoot) = h[Root].link[0] /\ FromRoot[1] = Last(FromRoot)
<1>1. PICK e : e = [at |-> Root, side |-> 0]
  OBVIOUS
<1>2. e \in [at : DOMAIN h, side : Sides] /\ e.at = Root /\ e.side = 0
  BY <1>1, HeapHolds DEF Sides
<1>3. PICK q : q = <<e>>
  OBVIOUS
<1>4. q \in Seq([at : DOMAIN h, side : Sides]) /\ Len(q) = 1 /\ q[1] = e
  BY <1>2, <1>3
<1>5. Chain(h, q) /\ Last(q) = e
  BY <1>1, <1>4 DEF Chain, Paths, Last
<1> QED BY <1>1, <1>2, <1>3, <1>4, <1>5 DEF FromRoot, Step, Below

\* further down a path are fewer keys
LEMMA ChainDown ==
  ASSUME NEW h, IsHeap(h), NEW sub, Sorted(h, sub), NEW path, Chain(h, path),
         NEW i \in 1..Len(path)
  PROVE  \A j \in i..Len(path) : Under(sub, Hung(h, path[j])) \subseteq Under(sub, Hung(h, path[i]))
<1> DEFINE U(j) == Under(sub, Hung(h, path[j]))
           T == {j \in 1..Len(path) : j < i \/ U(j) \subseteq U(i)}
<1>1. Len(path) \in Nat \ {0}
  BY ChainHas
<1>2. 1 \in T
  BY <1>1
<1>3. ASSUME NEW j \in 1..Len(path) - 1, j \in T PROVE j + 1 \in T
  <2>1. j + 1 \in 1..Len(path) /\ j \in 1..Len(path)
    BY <1>1
  <2>2. CASE j + 1 <= i
    BY <2>1, <2>2
  <2>3. CASE j + 1 > i
    <3>1. U(j) \subseteq U(i)
      BY <1>3, <2>1, <2>3
    <3>2. PICK x \in Elements(h), s \in Sides : x = path[j + 1].at /\ s = path[j + 1].side /\ Hung(h, path[j]) = x
      BY <1>1, <2>1, ChainHas DEF Chain
    <3>3. U(j) = sub[x]
      BY <3>2, HeapHolds DEF Under
    <3>4. U(j + 1) \subseteq sub[x]
      BY <3>2, SortedAt DEF Hung
    <3> QED BY <2>1, <3>1, <3>3, <3>4
  <2> QED BY <2>1, <2>2, <2>3, <1>1
<1> HIDE DEF U
<1>4. \A j \in 1..Len(path) : j \in T
  <2> HIDE DEF T
  <2> QED BY <1>1, <1>2, <1>3, Induct
<1> QED BY <1>1, <1>4 DEF U

\* and no node occurs twice on it
LEMMA ChainOnce ==
  ASSUME NEW h, IsHeap(h), NEW sub, Sorted(h, sub), NEW path, Chain(h, path),
         NEW i \in 1..Len(path), NEW j \in i + 1..Len(path)
  PROVE  /\ path[j].at # path[i].at
         /\ path[j].at \in Under(sub, Hung(h, path[i])) /\ path[j].at \in Elements(h)
<1>1. Len(path) \in Nat \ {0}
  BY ChainHas
<1>2. j - 1 \in i..Len(path) /\ j - 1 \in 1..Len(path) - 1 /\ (j - 1) + 1 = j /\ j \in 1..Len(path)
  BY <1>1
<1>3. PICK x \in Elements(h) : x = path[j].at /\ Hung(h, path[j - 1]) = x
  BY <1>2 DEF Chain
<1>4. x \in Under(sub, Hung(h, path[j - 1]))
  BY <1>3, HeapHolds, SortedAt, OtherSide DEF Under, Sides
<1>5. x \in Under(sub, Hung(h, path[i]))
  BY <1>2, <1>4, ChainDown
<1>6. PICK n \in DOMAIN h, s \in Sides : n = path[i].at /\ s = path[i].side
  BY ChainHas
<1>7. x # n
  <2>1. CASE n = Root
    BY <2>1, HeapHolds DEF Elements
  <2>2. CASE n \in Elements(h)
    <3>1. Beside(n, s, x)
      BY <2>2, <1>5, <1>6, SortedAt DEF Hung
    <3> QED BY <2>2, <3>1, <1>3, HeapHolds, BesideOnce
  <2> QED BY <2>1, <2>2 DEF Elements
<1> QED BY <1>3, <1>5, <1>6, <1>7

-----------------------------------------------------------------------------
(* Ways down *)

\* there are fewer keys under a child than under its parent
LEMMA FewerBelow ==
  ASSUME NEW h, IsHeap(h), NEW sub, Sorted(h, sub), NEW x \in Elements(h), NEW s \in Sides
  PROVE  /\ Cardinality(sub[x]) \in Nat
         /\ Cardinality(Under(sub, h[x].link[s])) \in Nat
         /\ Cardinality(Under(sub, h[x].link[s])) < Cardinality(sub[x])
<1>1. IsFiniteSet(Elements(h))
  BY FS_Subset DEF IsHeap, Elements
<1>2. PICK U, V : U = Under(sub, h[x].link[s]) /\ V = sub[x]
  OBVIOUS
<1>3. V \subseteq Elements(h) /\ U \subseteq V /\ x \in V
  BY <1>2, SortedAt
<1>4. x \notin U
  BY <1>2, <1>3, HeapHolds, SortedAt, BesideOnce
<1>5. IsFiniteSet(V) /\ IsFiniteSet(U)
  BY <1>1, <1>3, FS_Subset
<1>6. Cardinality(U) \in Nat /\ Cardinality(V) \in Nat
  BY <1>5, FS_CardinalityType
<1>7. Cardinality(U) <= Cardinality(V) /\ (Cardinality(U) = Cardinality(V) => U = V)
  BY <1>3, <1>5, FS_Subset
<1>8. Cardinality(U) # Cardinality(V)
  BY <1>3, <1>4, <1>7
<1> QED BY <1>2, <1>6, <1>7, <1>8

\* each node passed has key k on the side taken
Toward(path, k) == \A i \in 2..Len(path) : Beside(path[i].at, path[i].side, k)

\* a search ends at the node of the key, or where it would hang
LEMMA SearchEnds ==
  ASSUME NEW h, IsHeap(h), NEW sub, Sorted(h, sub), NEW k \in Nat
  PROVE  /\ Chain(h, Search(h, k)) /\ Toward(Search(h, k), k)
         /\ Below(h, Search(h, k)) = IF k \in Elements(h) THEN k ELSE Null
<1> DEFINE P == Paths(DOMAIN h)
           Inv(p) == Chain(h, p) /\ Toward(p, k) /\ (k \in Elements(h) => k \in Under(sub, Below(h, p)))
           I == {p \in P : Inv(p)}
<1>1. PICK step : step = [p \in P |-> SearchStep(h, k, p)]
  OBVIOUS
<1>2. PICK size : size = [p \in I |-> Cardinality(Under(sub, Below(h, p)))]
  OBVIOUS
<1>3. ASSUME NEW p \in I
      PROVE  size[p] \in Nat /\ (step[p] = p \/ (step[p] \in I /\ size[step[p]] < size[p]))
  <2>1. Inv(p) /\ step[p] = SearchStep(h, k, p) /\ size[p] = Cardinality(Under(sub, Below(h, p)))
    BY <1>1, <1>2, <1>3
  <2>2. CASE Below(h, p) = Null
    <3>1. size[p] = 0
      BY <2>1, <2>2, FS_EmptySet DEF Under
    <3>2. step[p] = p
      BY <2>1, <2>2 DEF SearchStep
    <3> QED BY <3>1, <3>2
  <2>3. CASE Below(h, p) # Null
    <3>1. PICK x \in Elements(h) : x = Below(h, p)
      BY <2>1, <2>3, ChainHas
    <3>2. x \in Nat /\ x # Null
      BY <3>1, HeapHolds
    <3>3. size[p] = Cardinality(sub[x])
      BY <2>1, <2>3, <3>1 DEF Under
    <3>4. size[p] \in Nat
      BY <3>3, FewerBelow, OtherSide DEF Sides
    <3>5. CASE x = k
      <4>1. step[p] = p
        BY <2>1, <3>1, <3>5 DEF SearchStep
      <4> QED BY <3>4, <4>1
    <3>6. CASE x # k
      <4>1. PICK s \in Sides : s = IF k < x THEN 0 ELSE 1
        BY DEF Sides
      <4>2. Beside(x, s, k)
        BY <3>2, <3>6, <4>1 DEF Beside
      <4>3. PICK q : q = p \o Step(x, s)
        OBVIOUS
      <4>4. step[p] = q
        BY <2>1, <3>1, <3>2, <3>6, <4>1, <4>3 DEF SearchStep
      <4>5. /\ Chain(h, q) /\ Len(q) = Len(p) + 1 /\ \A i \in 1..Len(p) : q[i] = p[i]
            /\ q[Len(p) + 1] = [at |-> x, side |-> s] /\ Below(h, q) = h[x].link[s]
        BY <2>1, <3>1, <3>2, <4>3, ChainGoesOn
      <4>6. Toward(q, k)
        <5>1. Len(p) \in Nat
          BY <2>1, ChainHas
        <5>2. ASSUME NEW i \in 2..Len(q) PROVE Beside(q[i].at, q[i].side, k)
          <6>1. CASE i = Len(p) + 1
            BY <6>1, <4>2, <4>5
          <6>2. CASE i # Len(p) + 1
            <7>1. i \in 2..Len(p) /\ q[i] = p[i]
              BY <6>2, <5>1, <4>5
            <7> QED BY <7>1, <2>1 DEF Toward
          <6> QED BY <6>1, <6>2
        <5> QED BY <5>2 DEF Toward
      <4>7. ASSUME k \in Elements(h) PROVE k \in Under(sub, h[x].link[s])
        <5>1. k \in sub[x]
          BY <2>1, <3>1, <3>2, <4>7 DEF Under
        <5>2. k \notin Under(sub, h[x].link[1 - s])
          BY <4>2, <3>2, SortedAt, BesideOnce, OtherSide
        <5> QED BY <5>1, <5>2, <3>6, SortedAt
      <4>8. q \in I
        BY <4>5, <4>6, <4>7 DEF Chain
      <4>9. size[q] = Cardinality(Under(sub, h[x].link[s]))
        BY <1>2, <4>5, <4>8
      <4> QED BY <3>3, <3>4, <4>4, <4>8, <4>9, FewerBelow
    <3> QED BY <3>5, <3>6
  <2> QED BY <2>2, <2>3
<1>4. FromRoot \in I
  <2>1. Chain(h, FromRoot) /\ Len(FromRoot) = 1 /\ Below(h, FromRoot) = h[Root].link[0]
    BY ChainFromRoot
  <2>2. Toward(FromRoot, k)
    BY <2>1 DEF Toward
  <2>3. Under(sub, Below(h, FromRoot)) = Elements(h)
    BY <2>1 DEF Sorted, FromTop
  <2> QED BY <2>1, <2>2, <2>3 DEF Chain
<1>5. Search(h, k) = Until(step)[FromRoot]
  BY <1>1 DEF Search
<1>6. I \subseteq DOMAIN step /\ size \in [I -> Nat]
  BY <1>1, <1>2, <1>3
<1>7. Search(h, k) \in I /\ step[Search(h, k)] = Search(h, k)
  <2> HIDE DEF I
  <2>1. \A p \in I : step[p] = p \/ (step[p] \in I /\ size[step[p]] < size[p])
    BY <1>3
  <2> QED BY <1>4, <1>5, <1>6, <2>1, LoopEnds
<1>8. PICK p \in I : p = Search(h, k)
  BY <1>7
<1>9. Inv(p) /\ SearchStep(h, k, p) = p
  BY <1>1, <1>7, <1>8
<1>10. Below(h, p) \in {Null, k}
  <2>1. ASSUME Below(h, p) \notin {Null, k} PROVE FALSE
    <3>1. PICK x : x = Below(h, p)
      OBVIOUS
    <3>4. PICK s \in Sides : s = IF k < x THEN 0 ELSE 1
      BY DEF Sides
    <3>2. p \o Step(x, s) = p
      BY <1>9, <2>1, <3>1, <3>4 DEF SearchStep
    <3>3. Len(p \o Step(x, s)) = Len(p) + 1
      BY <1>9, <2>1, <3>1, ChainGoesOn
    <3> QED BY <3>2, <3>3, <1>9, ChainHas
  <2> QED BY <2>1
<1>11. Below(h, p) = IF k \in Elements(h) THEN k ELSE Null
  <2>1. k # Null
    BY RbTreeAssumption
  <2>2. Below(h, p) \in Elements(h) \union {Null}
    BY <1>9, ChainHas
  <2>3. k \in Elements(h) => Below(h, p) # Null
    BY <1>9 DEF Under
  <2> QED BY <1>10, <2>1, <2>2, <2>3
<1> QED BY <1>8, <1>9, <1>11

\* rb_find finds exactly the elements
LEMMA FoundIs ==
  ASSUME NEW h, IsHeap(h), NEW sub, Sorted(h, sub), NEW k \in Nat
  PROVE  Found(h, k) <=> k \in Elements(h)
BY SearchEnds, RbTreeAssumption DEF Found

\* the way down the left links ends at the least key
LEMMA LeftmostEnds ==
  ASSUME NEW h, IsHeap(h), NEW sub, Sorted(h, sub), NEW path, Chain(h, path), Below(h, path) # Null
  PROVE  LET q == LeftmostPath(h, path)
             y == Below(h, q)
         IN /\ Chain(h, q) /\ Len(path) <= Len(q) /\ \A i \in 1..Len(path) : q[i] = path[i]
            /\ y \in Elements(h) /\ h[y].link[0] = Null /\ y \in Under(sub, Below(h, path))
            /\ \A m \in Under(sub, Below(h, path)) : y <= m
<1> DEFINE P == Paths(DOMAIN h)
           U(p) == Under(sub, Below(h, p))
           Inv(p) == /\ Chain(h, p) /\ Len(path) <= Len(p) /\ \A i \in 1..Len(path) : p[i] = path[i]
                     /\ Below(h, p) # Null /\ U(p) \subseteq U(path)
                     /\ \A m \in U(path) \ U(p), j \in U(p) : j < m
           I == {p \in P : Inv(p)}
<1>1. PICK step : step = [p \in P |-> LET x == Below(h, p) IN IF h[x].link[0] = Null THEN p ELSE p \o Step(x, 0)]
  OBVIOUS
<1>2. PICK size : size = [p \in I |-> Cardinality(U(p))]
  OBVIOUS
<1>3. ASSUME NEW p \in I
      PROVE  size[p] \in Nat /\ (step[p] = p \/ (step[p] \in I /\ size[step[p]] < size[p]))
  <2>1. Inv(p) /\ size[p] = Cardinality(U(p))
    BY <1>2, <1>3
  <2>2. PICK x \in Elements(h) : x = Below(h, p)
    BY <2>1, ChainHas
  <2>3. step[p] = IF h[x].link[0] = Null THEN p ELSE p \o Step(x, 0)
    BY <1>1, <2>2
  <2>4. x \in Nat /\ x # Null /\ 0 \in Sides /\ 1 \in Sides /\ 1 - 0 = 1
    BY <2>2, HeapHolds DEF Sides
  <2>5. U(p) = sub[x]
    BY <2>1, <2>2 DEF Under
  <2>6. size[p] \in Nat
    BY <2>1, <2>4, <2>5, FewerBelow
  <2>7. CASE h[x].link[0] = Null
    BY <2>3, <2>6, <2>7
  <2>8. CASE h[x].link[0] # Null
    <3>1. PICK q : q = p \o Step(x, 0)
      OBVIOUS
    <3>2. step[p] = q
      BY <2>3, <2>8, <3>1
    <3>3. /\ Chain(h, q) /\ Len(q) = Len(p) + 1 /\ \A i \in 1..Len(p) : q[i] = p[i]
          /\ Below(h, q) = h[x].link[0]
      BY <2>1, <2>2, <2>4, <3>1, ChainGoesOn
    <3>4. PICK V : V = Under(sub, h[x].link[0])
      OBVIOUS
    <3>5. U(q) = V /\ V \subseteq sub[x] /\ sub[x] \subseteq Elements(h) /\ Elements(h) \subseteq Nat
      BY <2>4, <3>3, <3>4, SortedAt, HeapHolds
    <3>6. ASSUME NEW m \in sub[x] \ V, NEW j \in V PROVE j < m
      <4>1. j < x
        BY <2>4, <3>4, SortedAt DEF Beside
      <4>2. m = x \/ x < m
        BY <2>4, <3>4, <3>6, SortedAt DEF Beside
      <4> QED BY <4>1, <4>2, <3>5, <2>4
    <3>7. \A m \in U(path) \ V, j \in V : j < m
      BY <2>1, <2>5, <3>5, <3>6
    <3>8. Len(path) <= Len(q) /\ \A i \in 1..Len(path) : q[i] = path[i]
      BY <2>1, <3>3, ChainHas
    <3>9. U(q) \subseteq U(path)
      BY <2>1, <2>5, <3>5
    <3>10. q \in I
      BY <2>8, <3>3, <3>5, <3>7, <3>8, <3>9 DEF Chain
    <3>11. size[q] = Cardinality(V)
      BY <1>2, <3>5, <3>10
    <3> QED BY <2>1, <2>4, <2>5, <2>6, <3>2, <3>4, <3>10, <3>11, FewerBelow
  <2> QED BY <2>7, <2>8
<1>4. path \in I
  BY ChainHas DEF Chain
<1>5. LeftmostPath(h, path) = Until(step)[path]
  BY <1>1 DEF LeftmostPath
<1>6. I \subseteq DOMAIN step /\ size \in [I -> Nat]
  BY <1>1, <1>2, <1>3
<1>7. LeftmostPath(h, path) \in I /\ step[LeftmostPath(h, path)] = LeftmostPath(h, path)
  <2> HIDE DEF I
  <2>1. \A p \in I : step[p] = p \/ (step[p] \in I /\ size[step[p]] < size[p])
    BY <1>3
  <2> QED BY <1>4, <1>5, <1>6, <2>1, LoopEnds
<1>8. PICK q \in I : q = LeftmostPath(h, path)
  BY <1>7
<1>9. PICK y \in Elements(h) : y = Below(h, q)
  BY <1>8, ChainHas
<1>10. y # Null /\ y \in Nat /\ 0 \in Sides /\ 1 \in Sides /\ 1 - 0 = 1
  BY <1>9, HeapHolds DEF Sides
<1>11. h[y].link[0] = Null
  <2>1. ASSUME h[y].link[0] # Null PROVE FALSE
    <3>1. q \o Step(y, 0) = q
      BY <1>1, <1>7, <1>8, <1>9, <2>1
    <3>2. Len(q \o Step(y, 0)) = Len(q) + 1
      BY <1>8, <1>9, <1>10, ChainGoesOn
    <3> QED BY <3>1, <3>2, <1>8, ChainHas
  <2> QED BY <2>1
<1>12. U(q) = sub[y] /\ y \in sub[y]
  BY <1>9, <1>10, SortedAt DEF Under
<1>13. \A m \in sub[y] : m = y \/ y < m
  BY <1>10, <1>11, SortedAt DEF Under, Beside
<1>14. U(path) \subseteq Nat
  <2>1. Below(h, path) \in Elements(h)
    BY ChainHas
  <2> QED BY <2>1, <1>10, SortedAt, HeapHolds DEF Under
<1>15. \A m \in U(path) : y <= m
  BY <1>8, <1>10, <1>12, <1>13, <1>14
<1>16. y \in U(path)
  BY <1>8, <1>12
<1> QED BY <1>8, <1>9, <1>11, <1>15, <1>16

-----------------------------------------------------------------------------
(* Red-black trees *)

TopLink == [at |-> Root, side |-> 0]

\* how many black nodes a node counts for, and are below a node or nothing
Shade(h, n) == IF Red(h, n) THEN 0 ELSE 1
Blacks(bh, x) == IF x = Null THEN 0 ELSE bh[x]

(* bh[n] is the number of black nodes on each way down from n; a black     *)
(* node lacks at entry e.                                                  *)
Even(h, bh, e) ==
  /\ bh \in [Elements(h) -> Nat]
  /\ \A n \in Elements(h), s \in Sides :
       bh[n] = Blacks(bh, h[n].link[s]) + Shade(h, n) + (IF n = e.at /\ s = e.side THEN 1 ELSE 0)

\* no red node is under a red one, but perhaps at entry e
RedsApart(h, e) ==
  \A n \in Elements(h), s \in Sides :
    Red(h, n) /\ Red(h, h[n].link[s]) => n = e.at /\ s = e.side

Good(h, sub, bh) ==
  /\ Sorted(h, sub)
  /\ Even(h, bh, TopLink)
  /\ RedsApart(h, TopLink)
  /\ ~Red(h, h[Root].link[0])

RedBlackTree(h) == IsHeap(h) /\ \E sub, bh : Good(h, sub, bh)

\* the link of the pseudo node that holds the topmost node
LEMMA TopLinkIs == TopLink.at = Root /\ TopLink.side = 0 /\ Last(FromRoot) = TopLink /\ FromRoot[1] = TopLink
BY DEF TopLink, FromRoot, Step, Last

\* what a red-black tree says of one node and one of its sides
LEMMA GoodAt ==
  ASSUME NEW h, IsHeap(h), NEW sub, NEW bh, Good(h, sub, bh), NEW n \in Elements(h), NEW s \in Sides
  PROVE  /\ bh[n] = Blacks(bh, h[n].link[s]) + Shade(h, n)
         /\ bh[n] \in Nat /\ Blacks(bh, h[n].link[s]) \in Nat
         /\ Red(h, n) => ~Red(h, h[n].link[s])
<1>1. n # TopLink.at
  BY TopLinkIs DEF Elements
<1>2. h[n].link[s] \in Elements(h) \union {Null}
  BY HeapHolds DEF Elements
<1>3. bh[n] \in Nat /\ Blacks(bh, h[n].link[s]) \in Nat
  BY <1>2 DEF Good, Even, Blacks
<1>4. bh[n] = Blacks(bh, h[n].link[s]) + Shade(h, n) + (IF n = TopLink.at /\ s = TopLink.side THEN 1 ELSE 0)
  BY DEF Good, Even
<1> QED BY <1>1, <1>3, <1>4 DEF Good, RedsApart, Shade

\* the black nodes passed and those below are as many at each entry of a path
LEMMA ChainBlacks ==
  ASSUME NEW h, IsHeap(h), NEW sub, NEW bh, Good(h, sub, bh), NEW path, Chain(h, path)
  PROVE  LET B == {m \in {path[i].at : i \in 2..Len(path)} : ~Red(h, m)} IN
         Cardinality(B) \in Nat /\ Cardinality(B) + Blacks(bh, Below(h, path)) = Blacks(bh, h[Root].link[0])
<1> DEFINE B(j) == {m \in {path[i].at : i \in 2..j} : ~Red(h, m)}
           T == {j \in 1..Len(path) : /\ IsFiniteSet(B(j)) /\ Cardinality(B(j)) \in Nat
                                      /\ Cardinality(B(j)) + Blacks(bh, Hung(h, path[j])) = Blacks(bh, h[Root].link[0])}
<1>1. Len(path) \in Nat \ {0} /\ Sorted(h, sub)
  BY ChainHas DEF Good
<1>2. 1 \in T
  <2>1. B(1) = {}
    OBVIOUS
  <2>2. IsFiniteSet(B(1)) /\ Cardinality(B(1)) = 0
    BY <2>1, FS_EmptySet
  <2>3. Hung(h, path[1]) = h[Root].link[0]
    BY DEF Chain, Hung
  <2>4. Blacks(bh, h[Root].link[0]) \in Nat
    <3>1. h[Root].link[0] \in Elements(h) \union {Null}
      BY HeapHolds DEF Sides
    <3> QED BY <3>1 DEF Blacks, Good, Even
  <2> HIDE DEF B
  <2> QED BY <1>1, <2>2, <2>3, <2>4
<1>3. ASSUME NEW j \in 1..Len(path) - 1, j \in T PROVE j + 1 \in T
  <2>1. j + 1 \in 1..Len(path) /\ j \in 1..Len(path) /\ j + 1 \in 2..j + 1 /\ 2..j + 1 = (2..j) \union {j + 1}
    BY <1>1
  <2>2. PICK x \in Elements(h), s \in Sides : x = path[j + 1].at /\ s = path[j + 1].side /\ Hung(h, path[j]) = x
    BY <1>1, <2>1, ChainHas DEF Chain
  <2>3. Hung(h, path[j + 1]) = h[x].link[s] /\ x # Null
    BY <2>2, HeapHolds DEF Hung
  <2>4. /\ bh[x] = Blacks(bh, h[x].link[s]) + Shade(h, x)
        /\ bh[x] \in Nat /\ Blacks(bh, h[x].link[s]) \in Nat
    BY GoodAt
  <2>5. Blacks(bh, x) = bh[x]
    BY <2>3 DEF Blacks
  <2>6. x \notin B(j)
    <3>1. ASSUME NEW i \in 2..j PROVE path[i].at # x
      <4>1. i \in 1..Len(path) /\ j + 1 \in i + 1..Len(path)
        BY <1>1
      <4> QED BY <4>1, <1>1, <2>2, ChainOnce
    <3> QED BY <3>1
  <2>7. B(j + 1) = IF Red(h, x) THEN B(j) ELSE B(j) \union {x}
    BY <2>1, <2>2
  <2>8. IsFiniteSet(B(j)) /\ Cardinality(B(j)) \in Nat /\ Cardinality(B(j)) + bh[x] = Blacks(bh, h[Root].link[0])
    BY <1>3, <2>2, <2>5
  <2> HIDE DEF B
  <2>9. IsFiniteSet(B(j + 1)) /\ Cardinality(B(j + 1)) = Cardinality(B(j)) + Shade(h, x)
    BY <2>6, <2>7, <2>8, FS_AddElement DEF Shade
  <2>10. Shade(h, x) \in Nat
    BY DEF Shade
  <2> QED BY <2>1, <2>3, <2>4, <2>8, <2>9, <2>10
<1>4. Len(path) \in T
  <2> HIDE DEF T
  <2>1. \A j \in 1..Len(path) : j \in T
    BY <1>1, <1>2, <1>3, Induct
  <2> QED BY <1>1, <2>1
<1>5. Hung(h, path[Len(path)]) = Below(h, path)
  BY ChainHas
<1> QED BY <1>4, <1>5

\* in a red-black tree all ways down have equally many black nodes and no red node is under another
LEMMA RedBlackTreeBalanced ==
  ASSUME NEW h, RedBlackTree(h)
  PROVE  Balanced(h)
<1>1. IsHeap(h)
  BY DEF RedBlackTree
<1>2. PICK sub, bh : Good(h, sub, bh)
  BY DEF RedBlackTree
<1>3. ASSUME NEW n \in Elements(h), NEW s \in Sides, h[n].link[s] = Null
      PROVE  Cardinality(BlackNodes(h, n)) = Blacks(bh, h[Root].link[0])
  <2>1. PICK p : p = Search(h, n)
    OBVIOUS
  <2>2. n \in Nat /\ n # Null
    BY <1>1, HeapHolds
  <2>3. Chain(h, p) /\ Below(h, p) = n
    BY <1>1, <1>2, <2>1, <2>2, SearchEnds DEF Good
  <2>4. PICK q : q = p \o Step(n, s)
    OBVIOUS
  <2>5. /\ Chain(h, q) /\ Len(q) = Len(p) + 1 /\ \A i \in 1..Len(p) : q[i] = p[i]
        /\ q[Len(p) + 1].at = n /\ Below(h, q) = Null
    BY <1>1, <1>3, <2>2, <2>3, <2>4, ChainGoesOn
  <2>6. Len(p) \in Nat \ {0}
    BY <1>1, <2>3, ChainHas
  <2>7. {q[i].at : i \in 2..Len(q)} = {p[i].at : i \in 2..Len(p)} \union {n}
    <3>1. 2..Len(q) = (2..Len(p)) \union {Len(p) + 1}
      BY <2>5, <2>6
    <3>2. \A i \in 2..Len(p) : q[i] = p[i]
      BY <2>5, <2>6
    <3> QED BY <2>5, <3>1, <3>2
  <2>8. BlackNodes(h, n) = {m \in {q[i].at : i \in 2..Len(q)} : ~Red(h, m)}
    BY <2>1, <2>7 DEF BlackNodes, Way
  <2>9. Cardinality(BlackNodes(h, n)) \in Nat /\ Cardinality(BlackNodes(h, n)) + 0 = Blacks(bh, h[Root].link[0])
    BY <1>1, <1>2, <2>5, <2>8, ChainBlacks DEF Blacks
  <2> QED BY <2>9
<1>4. \A n \in Elements(h) : Red(h, n) => \A s \in Sides : ~Red(h, h[n].link[s])
  BY <1>1, <1>2, GoodAt
<1>5. ~Red(h, h[Root].link[0])
  BY <1>2 DEF Good
<1> QED BY <1>3, <1>4, <1>5 DEF Balanced

\* in a red-black tree the keys are in order, and the search of rb_find finds the elements
LEMMA RedBlackTreeOrdered ==
  ASSUME NEW h, RedBlackTree(h)
  PROVE  Ordered(h) /\ \A k \in Nat : Found(h, k) <=> k \in Elements(h)
BY FoundIs, HeapHolds DEF RedBlackTree, Good, Ordered

-----------------------------------------------------------------------------
(* A new node *)

Attached(h, g, path, k) ==
  /\ IsHeap(g) /\ DOMAIN g = DOMAIN h \union {k} /\ Elements(g) = Elements(h) \union {k}
  /\ g[k].color = "red" /\ \A c \in Sides : g[k].link[c] = Null
  /\ \A m \in DOMAIN h : g[m].color = h[m].color
  /\ \A m \in DOMAIN h, c \in Sides :
       g[m].link[c] = IF m = Last(path).at /\ c = Last(path).side THEN k ELSE h[m].link[c]

\* rb_probe: hanging a new red node changes one link and adds the node
LEMMA AttachIs ==
  ASSUME NEW h, IsHeap(h), NEW path, Chain(h, path), NEW k \in Nat \ {Root}, k \notin DOMAIN h,
         NEW g, g = Attach(h, path, k)
  PROVE  Attached(h, g, path, k)
<1>1. PICK D : D = DOMAIN h
  OBVIOUS
<1>2. h \in [D -> [link : [Sides -> Pointers(D)], color : Colors]]
  BY <1>1 DEF IsHeap, Heaps
<1>3. PICK E : E = D \union {k}
  OBVIOUS
<1>4. PICK h1 : h1 = [n \in E |-> IF n = k THEN NewNode("red") ELSE h[n]]
  OBVIOUS
<1>5. Pointers(D) \subseteq Pointers(E) /\ Null \in Pointers(E)
  BY <1>3 DEF Pointers
<1>6. NewNode("red") \in [link : [Sides -> Pointers(E)], color : Colors]
  BY <1>5 DEF NewNode, Colors
<1>7. \A n \in D : h[n] \in [link : [Sides -> Pointers(E)], color : Colors]
  <2>1. ASSUME NEW n \in D PROVE h[n] \in [link : [Sides -> Pointers(E)], color : Colors]
    <3>1. h[n] \in [link : [Sides -> Pointers(D)], color : Colors]
      BY <1>2
    <3>2. h[n].link \in [Sides -> Pointers(E)]
      BY <1>5, <3>1
    <3> QED BY <3>1, <3>2
  <2> QED BY <2>1
<1>8. h1 \in [E -> [link : [Sides -> Pointers(E)], color : Colors]]
  BY <1>3, <1>4, <1>6, <1>7
<1>9. DOMAIN h1 = E /\ Elements(h1) = Elements(h) \union {k}
  BY <1>1, <1>3, <1>4 DEF Elements
<1>10. IsFiniteSet(E)
  BY <1>1, <1>3, FS_AddElement DEF IsHeap
<1>11. IsHeap(h1)
  BY <1>1, <1>3, <1>8, <1>9, <1>10 DEF IsHeap, Heaps
<1>12. /\ h1[k].color = "red" /\ \A c \in Sides : h1[k].link[c] = Null
       /\ \A m \in D : h1[m] = h[m]
  BY <1>1, <1>3, <1>4 DEF NewNode
<1>13. PICK at \in D, side \in Sides : at = Last(path).at /\ side = Last(path).side
  BY <1>1, ChainHas
<1>14. g = Hang(h1, at, side, k)
  BY <1>1, <1>3, <1>4, <1>13 DEF Attach
<1>15. Hanged(h1, g, at, side, k)
  <2>1. at \in DOMAIN h1 /\ k \in Elements(h1) \union {Null}
    BY <1>3, <1>9, <1>13
  <2> QED BY <1>11, <1>14, <2>1, HangIs
<1>16. k # at /\ k \in E /\ D \subseteq E /\ Elements(g) = Elements(h1) /\ IsHeap(g) /\ DOMAIN g = DOMAIN h1
  BY <1>1, <1>3, <1>15 DEF Hanged, SameNodes
<1>17. /\ \A m \in DOMAIN h1 : g[m].color = h1[m].color
       /\ \A m \in DOMAIN h1, s \in Sides :
              g[m].link[s] = IF m = at /\ s = side THEN k ELSE h1[m].link[s]
  BY <1>15 DEF Hanged, SameColors
<1>18. /\ IsHeap(g) /\ DOMAIN g = DOMAIN h \union {k} /\ Elements(g) = Elements(h) \union {k}
       /\ g[k].color = "red" /\ \A c \in Sides : g[k].link[c] = Null
  BY <1>1, <1>3, <1>9, <1>12, <1>16, <1>17
<1>19. /\ \A m \in DOMAIN h : g[m].color = h[m].color
       /\ \A m \in DOMAIN h, c \in Sides :
              g[m].link[c] = IF m = Last(path).at /\ c = Last(path).side THEN k ELSE h[m].link[c]
  BY <1>1, <1>9, <1>12, <1>13, <1>16, <1>17
<1> QED BY <1>18, <1>19 DEF Attached

\* the keys at and below each node when k hangs at the end of the path
SubWith(h, sub, path, k) ==
  [n \in Elements(h) \union {k} |->
     IF n = k THEN {k}
     ELSE IF \E i \in 1..Len(path) : path[i].at = n THEN sub[n] \union {k}
     ELSE sub[n]]

\* hanged where its search ended, the new node keeps the keys in order
LEMMA AttachSorted ==
  ASSUME NEW h, IsHeap(h), NEW sub, Sorted(h, sub), NEW k \in Nat \ {Root}, k \notin DOMAIN h,
         NEW path, Chain(h, path), Toward(path, k), Below(h, path) = Null,
         NEW g, g = Attach(h, path, k)
  PROVE  Sorted(g, SubWith(h, sub, path, k)) /\ Chain(g, path) /\ Below(g, path) = k
<1>1. PICK L \in Nat \ {0} : L = Len(path) /\ Last(path) = path[L]
  BY ChainHas
<1>2. PICK at \in DOMAIN h, side \in Sides : at = path[L].at /\ side = path[L].side
  BY <1>1, ChainHas
<1>3. /\ IsHeap(g) /\ DOMAIN g = DOMAIN h \union {k} /\ Elements(g) = Elements(h) \union {k}
      /\ \A c \in Sides : g[k].link[c] = Null
      /\ \A m \in DOMAIN h, c \in Sides :
              g[m].link[c] = IF m = at /\ c = side THEN k ELSE h[m].link[c]
  <2>1. at = Last(path).at /\ side = Last(path).side
    BY <1>1, <1>2
  <2>2. Attached(h, g, path, k)
    BY AttachIs
  <2> QED BY <2>1, <2>2 DEF Attached
<1>4. h[at].link[side] = Null
  BY <1>1, <1>2 DEF Below
<1>5. Elements(h) \subseteq Nat \ {Null} /\ Elements(h) \subseteq DOMAIN h /\ Root \in DOMAIN h /\ Root \notin Elements(h)
      /\ k # Null /\ k \notin Elements(h) /\ k # Root
  BY HeapHolds, RbTreeAssumption DEF Elements
<1>6. /\ path \in Seq([at : DOMAIN h, side : Sides]) /\ path # <<>>
      /\ \A i \in 1..L : /\ path[i].at \in DOMAIN h /\ path[i].side \in Sides
                         /\ i > 1 => path[i].at \in Elements(h)
  BY <1>1, ChainHas
<1>7. \A i, j \in 1..L : i # j => path[i].at # path[j].at
  <2>1. ASSUME NEW i \in 1..L, NEW j \in 1..L, i < j PROVE path[i].at # path[j].at
    <3>1. j \in i + 1..Len(path) /\ i \in 1..Len(path)
      BY <1>1, <2>1
    <3> QED BY <3>1, ChainOnce
  <2> QED BY <2>1
<1>8. ASSUME NEW i \in 1..L, i # L
      PROVE  /\ h[path[i].at].link[path[i].side] = path[i + 1].at /\ path[i + 1].at \in Elements(h)
             /\ g[path[i].at].link[path[i].side] = path[i + 1].at
  <2>1. i \in 1..Len(path) - 1 /\ L \in 1..L
    BY <1>1, <1>8
  <2>2. h[path[i].at].link[path[i].side] = path[i + 1].at /\ path[i + 1].at \in Elements(h)
    BY <2>1 DEF Chain, Hung
  <2>3. path[i].at # at
    BY <1>2, <1>7, <1>8, <2>1
  <2> QED BY <2>2, <2>3, <1>3, <1>6
<1>9. Chain(g, path)
  <2>1. path \in Paths(DOMAIN g)
    <3>1. [at : DOMAIN h, side : Sides] \subseteq [at : DOMAIN g, side : Sides]
      BY <1>3
    <3>2. PICK S, T : S = [at : DOMAIN h, side : Sides] /\ T = [at : DOMAIN g, side : Sides]
      OBVIOUS
    <3>3. path \in Seq(T)
      <4>1. path \in Seq(S) /\ S \subseteq T
        BY <1>6, <3>1, <3>2
      <4> QED BY <4>1, SeqOfMore
    <3> QED BY <3>2, <3>3, <1>6 DEF Paths
  <2>2. \A i \in 1..L - 1 : i \in 1..L /\ i # L
    BY <1>1
  <2>3. \A i \in 1..Len(path) - 1 : path[i + 1].at \in Elements(g) /\ Hung(g, path[i]) = path[i + 1].at
    BY <1>1, <1>3, <1>8, <2>2 DEF Hung
  <2> QED BY <2>1, <2>3 DEF Chain
<1>10. Below(g, path) = k
  BY <1>1, <1>2, <1>3 DEF Below
<1> DEFINE On(n) == \E i \in 1..L : path[i].at = n
           Slot(n, c) == \E i \in 1..L : path[i].at = n /\ path[i].side = c
<1>11. PICK new : new = SubWith(h, sub, path, k)
  OBVIOUS
<1>12. /\ \A n \in Elements(h) : new[n] = IF On(n) THEN sub[n] \union {k} ELSE sub[n]
       /\ new[k] = {k}
  BY <1>1, <1>5, <1>11 DEF SubWith
<1>13. ASSUME NEW n \in DOMAIN h, NEW c \in Sides
       PROVE  Under(new, g[n].link[c]) = Under(sub, h[n].link[c]) \union (IF Slot(n, c) THEN {k} ELSE {})
  <2>1. CASE n = at /\ c = side
    <3>1. Slot(n, c)
      BY <1>1, <1>2, <2>1
    <3> QED BY <2>1, <3>1, <1>3, <1>4, <1>5, <1>12 DEF Under
  <2>2. CASE ~(n = at /\ c = side) /\ Slot(n, c)
    <3>1. PICK i \in 1..L : path[i].at = n /\ path[i].side = c /\ i # L
      BY <2>2, <1>2
    <3>2. PICK x \in Elements(h) : x = path[i + 1].at /\ h[n].link[c] = x /\ g[n].link[c] = x
      BY <3>1, <1>8
    <3>3. On(x)
      <4>1. i + 1 \in 1..L
        BY <3>1, <1>1
      <4> QED BY <3>2, <4>1
    <3> QED BY <2>2, <3>2, <3>3, <1>5, <1>12 DEF Under
  <2>3. CASE ~Slot(n, c)
    <3>1. g[n].link[c] = h[n].link[c]
      BY <2>3, <1>1, <1>2, <1>3
    <3>2. h[n].link[c] \in Elements(h) \union {Null}
      BY HeapHolds
    <3>3. ASSUME h[n].link[c] # Null PROVE ~On(h[n].link[c])
      <4>1. ASSUME NEW j \in 1..L, path[j].at = h[n].link[c] PROVE FALSE
        <5>1. j # 1
          BY <4>1, <3>2, <3>3, <1>5 DEF Chain
        <5>2. j - 1 \in 1..L /\ j - 1 # L /\ (j - 1) + 1 = j
          BY <4>1, <5>1, <1>1
        <5>3. h[path[j - 1].at].link[path[j - 1].side] = h[n].link[c]
          BY <4>1, <5>2, <1>8
        <5>4. PICK b \in DOMAIN h, d \in Sides : b = path[j - 1].at /\ d = path[j - 1].side
          BY <5>2, <1>6
        <5>5. b = n /\ d = c
          BY <5>3, <5>4, <3>3 DEF Sorted, OnePlace
        <5> QED BY <5>2, <5>4, <5>5, <2>3
      <4> QED BY <4>1
    <3> QED BY <2>3, <3>1, <3>2, <3>3, <1>12 DEF Under
  <2> QED BY <2>1, <2>2, <2>3
<1>14. \A n \in DOMAIN h : On(n) <=> Slot(n, 0) \/ Slot(n, 1)
  BY <1>6 DEF Sides
<1>15. ASSUME NEW n \in Elements(h), NEW c \in Sides, Slot(n, c) PROVE Beside(n, c, k)
  <2>1. PICK i \in 1..L : path[i].at = n /\ path[i].side = c
    BY <1>15
  <2>2. i # 1
    BY <2>1, <1>5, <1>15 DEF Chain
  <2>3. i \in 2..Len(path)
    BY <2>1, <2>2, <1>1
  <2> QED BY <2>1, <2>3 DEF Toward
<1>16. SubIs(g, new)
  <2>1. 0 \in Sides /\ 1 \in Sides
    BY DEF Sides
  <2>2. \A n \in Elements(h) : new[n] = {n} \union Under(new, g[n].link[0]) \union Under(new, g[n].link[1])
    <3>1. ASSUME NEW n \in Elements(h)
          PROVE  new[n] = {n} \union Under(new, g[n].link[0]) \union Under(new, g[n].link[1])
      <4>1. sub[n] = {n} \union Under(sub, h[n].link[0]) \union Under(sub, h[n].link[1])
        BY DEF Sorted, SubIs
      <4>2. n \in DOMAIN h
        BY <1>5
      <4>3. On(n) <=> Slot(n, 0) \/ Slot(n, 1)
        BY <4>2, <1>14
      <4>4. Under(new, g[n].link[0]) = Under(sub, h[n].link[0]) \union (IF Slot(n, 0) THEN {k} ELSE {})
        BY <4>2, <2>1, <1>13
      <4>5. Under(new, g[n].link[1]) = Under(sub, h[n].link[1]) \union (IF Slot(n, 1) THEN {k} ELSE {})
        BY <4>2, <2>1, <1>13
      <4>6. new[n] = IF On(n) THEN sub[n] \union {k} ELSE sub[n]
        BY <1>12
      <4> HIDE DEF On, Slot
      <4> QED BY <4>1, <4>3, <4>4, <4>5, <4>6
    <3> QED BY <3>1
  <2>3. new[k] = {k} \union Under(new, g[k].link[0]) \union Under(new, g[k].link[1])
    BY <2>1, <1>3, <1>12 DEF Under
  <2>4. new \in [Elements(g) -> SUBSET Elements(g)]
    <3>1. \A n \in Elements(h) : sub[n] \subseteq Elements(h)
      BY DEF Sorted, SubIs
    <3>2. \A n \in Elements(g) : new[n] \subseteq Elements(g)
      <4>1. \A n \in Elements(h) : new[n] = sub[n] \/ new[n] = sub[n] \union {k}
        BY <1>12
      <4> HIDE DEF On
      <4> QED BY <3>1, <4>1, <1>3, <1>12
    <3>3. new = [n \in Elements(g) |-> new[n]]
      BY <1>3, <1>11 DEF SubWith
    <3> QED BY <3>2, <3>3
  <2> QED BY <2>2, <2>3, <2>4, <1>3 DEF SubIs
<1>17. InOrder(g, new)
  <2>1. ASSUME NEW n \in Elements(g), NEW c \in Sides, NEW m \in Under(new, g[n].link[c])
        PROVE  Beside(n, c, m)
    <3>1. CASE n = k
      BY <2>1, <3>1, <1>3 DEF Under
    <3>2. CASE n \in Elements(h)
      <4>1. m \in Under(sub, h[n].link[c]) \/ (Slot(n, c) /\ m = k)
        <5>1. n \in DOMAIN h
          BY <3>2, <1>5
        <5> HIDE DEF Slot
        <5> QED BY <2>1, <5>1, <1>13
      <4> QED BY <3>2, <4>1, <1>15, SortedAt
    <3> QED BY <3>1, <3>2, <1>3
  <2> QED BY <2>1 DEF InOrder
<1>18. FromTop(g, new)
  <2>1. 0 \in Sides /\ 1 \in Sides
    BY DEF Sides
  <2>2. Slot(Root, 0)
    <3>1. path[1].at = Root /\ path[1].side = 0
      BY DEF Chain
    <3> QED BY <1>1, <3>1
  <2>3. Under(new, g[Root].link[0]) = Elements(h) \union {k}
    BY <2>1, <2>2, <1>5, <1>13 DEF Sorted, FromTop
  <2>4. ~(at = Root /\ side = 1)
    <3>1. ASSUME at = Root /\ side = 1 PROVE FALSE
      <4>1. L = 1
        BY <3>1, <1>1, <1>2, <1>5, <1>6
      <4> QED BY <3>1, <4>1, <1>2 DEF Chain
    <3> QED BY <3>1
  <2>5. g[Root].link[1] = Null
    BY <2>1, <2>4, <1>3, <1>5 DEF Sorted, FromTop
  <2> QED BY <2>3, <2>5, <1>3 DEF FromTop
<1>19. OnePlace(g)
  <2>1. ASSUME NEW a \in DOMAIN g, NEW b \in DOMAIN g, NEW c \in Sides, NEW d \in Sides,
               g[a].link[c] = g[b].link[d], g[a].link[c] # Null
        PROVE  a = b /\ c = d
    <3>1. a \in DOMAIN h /\ b \in DOMAIN h
      BY <2>1, <1>3
    <3>2. h[a].link[c] # k /\ h[b].link[d] # k
      BY <3>1, <1>5, HeapHolds
    <3>3. CASE a = at /\ c = side
      BY <2>1, <3>1, <3>2, <3>3, <1>3
    <3>4. CASE ~(a = at /\ c = side)
      <4>1. ~(b = at /\ d = side)
        BY <2>1, <3>1, <3>2, <3>4, <1>3
      <4>2. h[a].link[c] = h[b].link[d] /\ h[a].link[c] # Null
        BY <2>1, <3>1, <3>4, <4>1, <1>3
      <4>3. OnePlace(h)
        BY DEF Sorted
      <4> QED BY <3>1, <4>2, <4>3 DEF OnePlace
    <3> QED BY <3>3, <3>4
  <2> QED BY <2>1 DEF OnePlace
<1> QED BY <1>9, <1>10, <1>11, <1>16, <1>17, <1>18, <1>19 DEF Sorted

-----------------------------------------------------------------------------
(* Rebalancing after an insertion *)

\* a tree of the same links has the same paths
LEMMA SameLinksChain ==
  ASSUME NEW h, IsHeap(h), NEW g, SameNodes(h, g), SameLinks(h, g), NEW path, Chain(h, path)
  PROVE  Chain(g, path) /\ Below(g, path) = Below(h, path)
<1>1. Elements(g) = Elements(h) /\ DOMAIN g = DOMAIN h
  BY DEF SameNodes
<1>2. Len(path) \in Nat \ {0}
  BY ChainHas
<1>3. \A i \in 1..Len(path) : Hung(g, path[i]) = Hung(h, path[i])
  BY ChainHas DEF Hung, SameLinks
<1>4. \A i \in 1..Len(path) - 1 : path[i + 1].at \in Elements(g) /\ Hung(g, path[i]) = path[i + 1].at
  BY <1>1, <1>2, <1>3 DEF Chain
<1>5. Below(g, path) = Below(h, path)
  BY ChainHas DEF Below, SameLinks
<1> QED BY <1>1, <1>4, <1>5 DEF Chain

\* the loop of rb_probe: the node at the end of the path may be red as its parent is
Rising(h, path, sub, bh) ==
  /\ IsHeap(h) /\ Chain(h, path)
  /\ Sorted(h, sub)
  /\ Even(h, bh, TopLink)
  /\ RedsApart(h, Last(path))
  /\ Len(path) > 1 => Red(h, Below(h, path))
  /\ Red(h, h[Root].link[0]) => Len(path) = 1

\* what Even says away from the header
LEMMA EvenAt ==
  ASSUME NEW h, IsHeap(h), NEW bh, Even(h, bh, TopLink), NEW n \in Elements(h), NEW s \in Sides
  PROVE  /\ bh[n] = Blacks(bh, h[n].link[s]) + Shade(h, n)
         /\ bh[n] \in Nat /\ Blacks(bh, h[n].link[s]) \in Nat /\ Shade(h, n) \in {0, 1}
<1>1. n # TopLink.at
  BY TopLinkIs DEF Elements
<1>2. h[n].link[s] \in Elements(h) \union {Null}
  BY HeapHolds DEF Elements
<1>3. bh[n] \in Nat /\ Blacks(bh, h[n].link[s]) \in Nat
  BY <1>2 DEF Even, Blacks
<1>4. bh[n] = Blacks(bh, h[n].link[s]) + Shade(h, n) + (IF n = TopLink.at /\ s = TopLink.side THEN 1 ELSE 0)
  BY DEF Even
<1> QED BY <1>1, <1>3, <1>4 DEF Shade

\* to show that no way down lacks a black node, one node and one side suffice
LEMMA EvenIs ==
  ASSUME NEW h, NEW bh \in [Elements(h) -> Nat],
         \A n \in Elements(h), s \in Sides : bh[n] = Blacks(bh, h[n].link[s]) + Shade(h, n)
  PROVE  Even(h, bh, TopLink)
<1>1. \A n \in Elements(h) : n # TopLink.at
  BY TopLinkIs DEF Elements
<1>2. ASSUME NEW n \in Elements(h), NEW s \in Sides
      PROVE  bh[n] = Blacks(bh, h[n].link[s]) + Shade(h, n) + (IF n = TopLink.at /\ s = TopLink.side THEN 1 ELSE 0)
  <2>1. bh[n] = Blacks(bh, h[n].link[s]) + Shade(h, n) /\ n # TopLink.at /\ bh[n] \in Nat
    BY <1>1
  <2> QED BY <2>1
<1> QED BY <1>2 DEF Even

\* a red node has no red child
LEMMA ApartAt ==
  ASSUME NEW h, RedsApart(h, TopLink), NEW n \in Elements(h), NEW s \in Sides, Red(h, n)
  PROVE  ~Red(h, h[n].link[s])
BY TopLinkIs DEF RedsApart, Elements

\* the new node is where the loop begins
LEMMA AttachRises ==
  ASSUME NEW h, RedBlackTree(h), NEW k \in Nat \ {Root}, k \notin DOMAIN h,
         NEW path, Chain(h, path), Toward(path, k), Below(h, path) = Null,
         NEW g, g = Attach(h, path, k)
  PROVE  /\ DOMAIN g = DOMAIN h \union {k}
         /\ \E sub, bh : Rising(g, path, sub, bh)
<1>1. IsHeap(h)
  BY DEF RedBlackTree
<1>2. PICK sub, bh : Good(h, sub, bh)
  BY DEF RedBlackTree
<1>3. Sorted(h, sub)
  BY <1>2 DEF Good
<1>4. Elements(h) \subseteq Nat \ {Null} /\ Elements(h) \subseteq DOMAIN h /\ Root \in DOMAIN h /\ Root \notin Elements(h)
      /\ k # Null /\ k \notin Elements(h) /\ k # Root
  BY <1>1, HeapHolds, RbTreeAssumption DEF Elements
<1>6. PICK at \in DOMAIN h, side \in Sides : at = Last(path).at /\ side = Last(path).side
  BY <1>1, ChainHas
<1>7. /\ IsHeap(g) /\ DOMAIN g = DOMAIN h \union {k} /\ Elements(g) = Elements(h) \union {k}
      /\ g[k].color = "red" /\ \A c \in Sides : g[k].link[c] = Null
      /\ \A m \in DOMAIN h : g[m].color = h[m].color
      /\ \A m \in DOMAIN h, c \in Sides :
           g[m].link[c] = IF m = Last(path).at /\ c = Last(path).side THEN k ELSE h[m].link[c]
  <2>1. Attached(h, g, path, k)
    BY <1>1, AttachIs
  <2> QED BY <2>1 DEF Attached
<1>8. Sorted(g, SubWith(h, sub, path, k)) /\ Chain(g, path) /\ Below(g, path) = k
  BY <1>1, <1>3, AttachSorted
<1>9. h[at].link[side] = Null
  BY <1>6 DEF Below
<1>10. ASSUME NEW m \in DOMAIN h, NEW c \in Sides
       PROVE  /\ g[m].link[c] = IF m = at /\ c = side THEN k ELSE h[m].link[c]
              /\ h[m].link[c] \in Elements(h) \union {Null} /\ h[m].link[c] # k
              /\ Red(g, h[m].link[c]) <=> Red(h, h[m].link[c])
  <2>1. h[m].link[c] \in Elements(h) \union {Null}
    BY <1>1, HeapHolds
  <2> QED BY <2>1, <1>4, <1>6, <1>7 DEF Red
<1>11. PICK new : new = [n \in Elements(g) |-> IF n = k THEN 0 ELSE bh[n]]
  OBVIOUS
<1>12. new[k] = 0 /\ \A n \in Elements(h) : new[n] = bh[n] /\ bh[n] \in Nat
  BY <1>2, <1>4, <1>7, <1>11 DEF Good, Even
<1>13. new \in [Elements(g) -> Nat]
  BY <1>7, <1>11, <1>12
<1>14. ASSUME NEW n \in Elements(g), NEW s \in Sides
       PROVE  new[n] = Blacks(new, g[n].link[s]) + Shade(g, n)
  <2>1. CASE n = k
    BY <2>1, <1>4, <1>7, <1>12 DEF Blacks, Shade, Red
  <2>2. CASE n \in Elements(h)
    <3>1. bh[n] = Blacks(bh, h[n].link[s]) + Shade(h, n)
      BY <2>2, <1>1, <1>2, GoodAt
    <3>2. Shade(g, n) = Shade(h, n)
      BY <2>2, <1>4, <1>7 DEF Shade, Red
    <3>3. Blacks(new, g[n].link[s]) = Blacks(bh, h[n].link[s])
      BY <2>2, <1>4, <1>9, <1>10, <1>12 DEF Blacks
    <3> QED BY <2>2, <3>1, <3>2, <3>3, <1>12
  <2> QED BY <2>1, <2>2, <1>7
<1>15. Even(g, new, TopLink)
  BY <1>13, <1>14, EvenIs
<1>16. RedsApart(g, Last(path))
  <2>1. ASSUME NEW n \in Elements(g), NEW s \in Sides, Red(g, n), Red(g, g[n].link[s]), ~(n = at /\ s = side)
        PROVE  FALSE
    <3>1. n # k
      BY <2>1, <1>7 DEF Red
    <3>2. n \in Elements(h) /\ n \in DOMAIN h
      BY <3>1, <1>4, <1>7
    <3>3. Red(h, n) /\ Red(h, h[n].link[s])
      BY <2>1, <3>2, <1>7, <1>10 DEF Red
    <3> QED BY <3>2, <3>3, <1>1, <1>2, GoodAt
  <2> QED BY <2>1, <1>6 DEF RedsApart
<1>17. Red(g, k)
  BY <1>4, <1>7 DEF Red
<1>18. Red(g, g[Root].link[0]) => Len(path) = 1
  <2>1. ASSUME Len(path) # 1 PROVE ~Red(g, g[Root].link[0])
    <3>5. Len(path) \in Nat \ {0} /\ Last(path) = path[Len(path)]
      BY <1>1, ChainHas
    <3>1. Len(path) \in 1..Len(path) /\ Len(path) > 1
      <4>1. PICK l \in Nat \ {0} : l = Len(path)
        BY <3>5
      <4>2. l \in 1..l /\ l > 1
        BY <2>1, <4>1
      <4> QED BY <4>1, <4>2
    <3>2. at \in Elements(h)
      BY <3>1, <3>5, <1>1, <1>6, ChainHas
    <3>3. 0 \in Sides
      BY DEF Sides
    <3>4. ~Red(h, h[Root].link[0])
      BY <1>2 DEF Good
    <3> QED BY <3>2, <3>3, <3>4, <1>4, <1>10
  <2> QED BY <2>1
<1>19. Rising(g, path, SubWith(h, sub, path, k), new)
  BY <1>7, <1>8, <1>15, <1>16, <1>17, <1>18 DEF Rising
<1> QED BY <1>7, <1>19

\* the last three entries of a path that is long enough, and the nodes around them
LEMMA ThreeLast ==
  ASSUME NEW h, IsHeap(h), NEW sub, Sorted(h, sub), NEW path, Chain(h, path), Len(path) >= 3
  PROVE  \E n \in Nat, at \in DOMAIN h, side \in Sides, g \in Elements(h), s \in Sides, p \in Elements(h), t \in Sides :
           /\ n = Len(path) /\ n - 2 \in 1..n /\ n - 1 \in 1..n /\ n \in 1..n /\ n - 2 > 0
           /\ path[n - 2].at = at /\ path[n - 2].side = side
           /\ path[n - 1].at = g /\ path[n - 1].side = s
           /\ path[n].at = p /\ path[n].side = t /\ Last(path) = path[n]
           /\ h[at].link[side] = g /\ h[g].link[s] = p /\ h[p].link[t] = Below(h, path)
           /\ (at = Root => n = 3 /\ side = 0)
           /\ g # p /\ at # g /\ at # p
           /\ \A m \in DOMAIN h, c \in Sides : h[m].link[c] = g => m = at /\ c = side
           /\ \A m \in DOMAIN h, c \in Sides : h[m].link[c] = p => m = g /\ c = s
<1>1. PICK n \in Nat : n = Len(path) /\ n >= 3 /\ Last(path) = path[n]
  BY ChainHas
<1>2. n - 2 \in 1..n - 1 /\ n - 1 \in 1..n - 1 /\ n - 2 \in 1..n /\ n - 1 \in 1..n /\ n \in 1..n /\ n - 1 > 1 /\ n > 1
      /\ (n - 2) + 1 = n - 1 /\ (n - 1) + 1 = n /\ n - 2 > 0
  BY <1>1
<1>3. PICK at \in DOMAIN h, side \in Sides : at = path[n - 2].at /\ side = path[n - 2].side
  BY <1>1, <1>2, ChainHas
<1>4. PICK g \in Elements(h), s \in Sides : g = path[n - 1].at /\ s = path[n - 1].side
  BY <1>1, <1>2, ChainHas
<1>5. PICK p \in Elements(h), t \in Sides : p = path[n].at /\ t = path[n].side
  BY <1>1, <1>2, ChainHas
<1>6. Hung(h, path[n - 2]) = g /\ Hung(h, path[n - 1]) = p
  BY <1>1, <1>2, <1>4, <1>5 DEF Chain
<1>7. h[at].link[side] = g /\ h[g].link[s] = p /\ h[p].link[t] = Below(h, path)
  BY <1>1, <1>3, <1>4, <1>5, <1>6 DEF Hung, Below
<1>8. g \in DOMAIN h /\ p \in DOMAIN h
  BY DEF Elements
<1>9. at # g /\ \A m \in DOMAIN h, c \in Sides : h[m].link[c] = g => m = at /\ c = side
  BY <1>7, HangsAt
<1>10. g # p /\ \A m \in DOMAIN h, c \in Sides : h[m].link[c] = p => m = g /\ c = s
  BY <1>7, <1>8, HangsAt
<1>11. at # p
  <2>1. n - 2 \in 1..Len(path) /\ n \in (n - 2) + 1..Len(path)
    BY <1>1, <1>2
  <2> QED BY <2>1, <1>3, <1>5, ChainOnce
<1>12. at = Root => n = 3 /\ side = 0
  <2>1. ASSUME at = Root PROVE n - 2 = 1
    <3>1. ~(n - 2 > 1)
      <4>1. n - 2 > 1 => at \in Elements(h)
        BY <1>1, <1>2, <1>3, ChainHas
      <4> QED BY <4>1, <2>1 DEF Elements
    <3> QED BY <3>1, <1>2, <1>1
  <2>2. path[1].side = 0
    BY DEF Chain
  <2>3. at = Root => n = 3
    BY <2>1, <1>1
  <2>4. at = Root => side = 0
    BY <1>3, <2>1, <2>2
  <2> QED BY <2>3, <2>4
<1>13. n = Len(path) /\ n - 2 \in 1..n /\ n - 1 \in 1..n /\ n \in 1..n /\ n - 2 > 0
  BY <1>1, <1>2
<1>14. /\ path[n - 2].at = at /\ path[n - 2].side = side
       /\ path[n - 1].at = g /\ path[n - 1].side = s
       /\ path[n].at = p /\ path[n].side = t /\ Last(path) = path[n]
  BY <1>1, <1>3, <1>4, <1>5
<1> QED BY <1>7, <1>9, <1>10, <1>11, <1>12, <1>13, <1>14, SMTT(60)

\* case 1 keeps the loop's invariant on a shorter path
LEMMA RecolourRises ==
  ASSUME NEW h, NEW path, NEW sub, NEW bh, Rising(h, path, sub, bh),
         Len(path) >= 3, Red(h, path[Len(path)].at),
         Red(h, h[path[Len(path) - 1].at].link[1 - path[Len(path) - 1].side]),
         NEW a, a = Recolour(h, path)
  PROVE  /\ DOMAIN a.heap = DOMAIN h /\ Len(a.path) = Len(path) - 2
         /\ \E bh2 : Rising(a.heap, a.path, sub, bh2)
<1>1. IsHeap(h) /\ Chain(h, path) /\ Sorted(h, sub)
  BY DEF Rising
<1>2. PICK n \in Nat, at \in DOMAIN h, side \in Sides, g \in Elements(h), s \in Sides, p \in Elements(h), t \in Sides :
           /\ n = Len(path) /\ n - 2 \in 1..n /\ n - 1 \in 1..n /\ n \in 1..n /\ n - 2 > 0
           /\ path[n - 2].at = at /\ path[n - 2].side = side
           /\ path[n - 1].at = g /\ path[n - 1].side = s
           /\ path[n].at = p /\ path[n].side = t /\ Last(path) = path[n]
           /\ h[at].link[side] = g /\ h[g].link[s] = p /\ h[p].link[t] = Below(h, path)
           /\ (at = Root => n = 3 /\ side = 0)
           /\ g # p /\ at # g /\ at # p
           /\ \A m \in DOMAIN h, c \in Sides : h[m].link[c] = g => m = at /\ c = side
           /\ \A m \in DOMAIN h, c \in Sides : h[m].link[c] = p => m = g /\ c = s
  BY <1>1, ThreeLast
<1>3. Elements(h) \subseteq Nat \ {Null} /\ Elements(h) \subseteq DOMAIN h /\ Root \in DOMAIN h /\ Root \notin Elements(h)
      /\ \A m \in DOMAIN h, c \in Sides : h[m].link[c] \in Elements(h) \union {Null}
  BY <1>1, HeapHolds DEF Elements
<1>4. 1 - s \in Sides /\ 1 - s # s /\ Sides = {s, 1 - s} /\ 0 \in Sides
  BY OtherSide DEF Sides
<1>5. PICK u \in Elements(h) : u = h[g].link[1 - s] /\ Red(h, u)
  BY <1>2, <1>3, <1>4 DEF Red
<1>6. u # g /\ u # p /\ \A m \in DOMAIN h, c \in Sides : h[m].link[c] = u => m = g /\ c = 1 - s
  BY <1>1, <1>2, <1>3, <1>4, <1>5, HangsAt
<1>7. Red(h, p) /\ ~Red(h, g)
  <2>1. Red(h, p)
    BY <1>2
  <2>2. RedsApart(h, path[n])
    BY <1>2 DEF Rising
  <2> QED BY <2>1, <2>2, <1>2 DEF RedsApart
<1>10. PICK h3 : h3 = Paint(Paint(Paint(h, p, "black"), u, "black"), g, "red")
  OBVIOUS
<1>14. PaintedThree(h, h3, p, "black", u, "black", g, "red")
  <2>1. "red" \in Colors /\ "black" \in Colors /\ g \in DOMAIN h /\ u \in DOMAIN h /\ p \in DOMAIN h
    BY <1>3 DEF Colors
  <2> QED BY <1>1, <1>10, <2>1, PaintThreeIs
<1>15. /\ IsHeap(h3) /\ DOMAIN h3 = DOMAIN h /\ Elements(h3) = Elements(h)
       /\ \A m \in Elements(h) : Red(h3, m) <=> m = g \/ (Red(h, m) /\ m # p /\ m # u)
       /\ \A m \in DOMAIN h, c \in Sides : h3[m].link[c] = h[m].link[c]
  BY <1>2, <1>3, <1>6, <1>14 DEF Red, PaintedThree, SameNodes, SameLinks
<1>16. PICK q : q = SubSeq(path, 1, n - 2)
  OBVIOUS
<1>17. a.heap = h3 /\ a.path = q
  BY <1>2, <1>5, <1>10, <1>16 DEF Recolour
<1>18. Chain(h, q) /\ Len(q) = n - 2 /\ Last(q) = path[n - 2] /\ Below(h, q) = g
  <2>1. n - 2 \in 1..Len(path) /\ Hung(h, path[n - 2]) = g
    BY <1>2 DEF Hung
  <2>2. n - 2 \in 1..Len(path) /\ IsHeap(h) /\ Chain(h, path)
    BY <1>1, <2>1
  <2>3. LET f == SubSeq(path, 1, n - 2) IN
         /\ Chain(h, f) /\ Len(f) = n - 2
         /\ Last(f) = path[n - 2] /\ Below(h, f) = Hung(h, path[n - 2])
    BY <2>2, ChainFront
  <2> QED BY <2>1, <2>3, <1>16
<1>19. Chain(h3, q) /\ Below(h3, q) = g
  BY <1>1, <1>14, <1>18, SameLinksChain DEF PaintedThree
<1>20. Sorted(h3, sub)
  BY <1>1, <1>14, SameLinksSorted DEF PaintedThree
<1>21. PICK bh2 : bh2 = [m \in Elements(h) |-> IF m = p \/ m = u THEN bh[m] + 1 ELSE bh[m]]
  OBVIOUS
<1>22. \A m \in Elements(h) : bh[m] \in Nat
  BY DEF Rising, Even
<1>23. bh2 \in [Elements(h3) -> Nat]
  BY <1>15, <1>21, <1>22
<1>24. ASSUME NEW m \in Elements(h), NEW c \in Sides
       PROVE  bh2[m] = Blacks(bh2, h3[m].link[c]) + Shade(h3, m)
  <2>1. /\ bh[m] = Blacks(bh, h[m].link[c]) + Shade(h, m)
        /\ Blacks(bh, h[m].link[c]) \in Nat
    BY <1>1, EvenAt DEF Rising
  <2>2. h3[m].link[c] = h[m].link[c] /\ h[m].link[c] \in Elements(h) \union {Null}
    BY <1>3, <1>15
  <2>3. CASE m = g
    <3>1. h[m].link[c] = p \/ h[m].link[c] = u
      BY <2>3, <1>2, <1>4, <1>5
    <3>2. Blacks(bh2, h[m].link[c]) = Blacks(bh, h[m].link[c]) + 1
      BY <3>1, <1>3, <1>21, <1>22 DEF Blacks
    <3>3. Shade(h, m) = 1 /\ Shade(h3, m) = 0
      BY <2>3, <1>7, <1>15 DEF Shade
    <3> QED BY <2>1, <2>2, <2>3, <3>2, <3>3, <1>2, <1>6, <1>21
  <2>4. CASE m # g
    <3>1. Blacks(bh2, h[m].link[c]) = Blacks(bh, h[m].link[c])
      BY <2>2, <2>4, <1>2, <1>3, <1>6, <1>21 DEF Blacks
    <3>2. CASE m = p \/ m = u
      <4>1. Shade(h, m) = 0 /\ Shade(h3, m) = 1
        BY <3>2, <2>4, <1>5, <1>7, <1>15 DEF Shade
      <4> QED BY <2>1, <2>2, <3>1, <3>2, <4>1, <1>21
    <3>3. CASE m # p /\ m # u
      <4>1. Shade(h3, m) = Shade(h, m)
        BY <3>3, <2>4, <1>15 DEF Shade
      <4> QED BY <2>1, <2>2, <3>1, <3>3, <4>1, <1>21
    <3> QED BY <3>2, <3>3
  <2> QED BY <2>3, <2>4
<1>25. Even(h3, bh2, TopLink)
  BY <1>15, <1>23, <1>24, EvenIs
<1>26. RedsApart(h3, Last(q))
  <2>1. ASSUME NEW m \in Elements(h), NEW c \in Sides, Red(h3, m), Red(h3, h3[m].link[c])
        PROVE  m = at /\ c = side
    <3>1. h3[m].link[c] = h[m].link[c] /\ h[m].link[c] \in Elements(h)
      <4>1. m \in DOMAIN h
        BY <1>3
      <4>2. h3[m].link[c] = h[m].link[c]
        BY <4>1, <1>15
      <4>3. h[m].link[c] # Null
        BY <2>1, <4>2 DEF Red
      <4> QED BY <4>1, <4>2, <4>3, <1>3
    <3>2. CASE h[m].link[c] = g
      BY <3>2, <1>2, <1>3
    <3>3. CASE h[m].link[c] # g
      <4>1. m # g
        BY <2>1, <3>1, <3>3, <1>2, <1>4, <1>5, <1>15
      <4>2. Red(h, m) /\ Red(h, h[m].link[c]) /\ m # p
        BY <2>1, <3>1, <3>3, <4>1, <1>15
      <4>3. RedsApart(h, path[n])
        BY <1>2 DEF Rising
      <4> QED BY <4>2, <4>3, <1>2 DEF RedsApart
    <3> QED BY <3>2, <3>3
  <2> QED BY <2>1, <1>2, <1>15, <1>18 DEF RedsApart
<1>27. Red(h3, Below(h3, q))
  BY <1>15, <1>19
<1>28. ASSUME Red(h3, h3[Root].link[0]) PROVE Len(q) = 1
  <2>1. h3[Root].link[0] = h[Root].link[0] /\ h[Root].link[0] \in Elements(h)
    <3>1. h3[Root].link[0] = h[Root].link[0]
      BY <1>3, <1>4, <1>15
    <3>2. h[Root].link[0] # Null
      BY <1>28, <3>1 DEF Red
    <3> QED BY <3>1, <3>2, <1>3, <1>4
  <2>2. ~Red(h, h[Root].link[0])
    <3>1. n # 1
      BY <1>2
    <3> QED BY <3>1, <1>2 DEF Rising
  <2>3. h[Root].link[0] = g
    BY <1>28, <2>1, <2>2, <1>15
  <2>4. at = Root
    BY <2>3, <1>2, <1>3, <1>4
  <2> QED BY <2>4, <1>2, <1>18
<1>29. Rising(h3, q, sub, bh2)
  BY <1>15, <1>19, <1>20, <1>25, <1>26, <1>27, <1>28 DEF Rising
<1> QED BY <1>2, <1>15, <1>17, <1>18, <1>29

\* between the cases 2 and 3: the red child of g on side s may have a red child there
Straight(h, sub, bh, at, side, g, s) ==
  /\ IsHeap(h) /\ Sorted(h, sub) /\ Even(h, bh, TopLink)
  /\ at \in DOMAIN h /\ side \in Sides /\ h[at].link[side] = g
  /\ g \in Elements(h) /\ s \in Sides
  /\ Red(h, h[g].link[s]) /\ ~Red(h, h[g].link[1 - s])
  /\ RedsApart(h, [at |-> h[g].link[s], side |-> s])
  /\ ~Red(h, h[Root].link[0])

\* case 2 brings the two red nodes on one side of the grandparent
LEMMA StraightenIs ==
  ASSUME NEW h, NEW path, NEW sub, NEW bh, Rising(h, path, sub, bh),
         Len(path) >= 3, Red(h, path[Len(path)].at),
         ~Red(h, h[path[Len(path) - 1].at].link[1 - path[Len(path) - 1].side]),
         NEW k, k = Straighten(h, path)
  PROVE  /\ DOMAIN k = DOMAIN h
         /\ \E new : Straight(k, new, bh, path[Len(path) - 2].at, path[Len(path) - 2].side,
                              path[Len(path) - 1].at, path[Len(path) - 1].side)
<1>1. IsHeap(h) /\ Chain(h, path) /\ Sorted(h, sub) /\ Even(h, bh, TopLink)
  BY DEF Rising
<1>2. PICK n \in Nat, at \in DOMAIN h, side \in Sides, g \in Elements(h), s \in Sides, p \in Elements(h), t \in Sides :
           /\ n = Len(path) /\ n - 2 \in 1..n /\ n - 1 \in 1..n /\ n \in 1..n /\ n - 2 > 0
           /\ path[n - 2].at = at /\ path[n - 2].side = side
           /\ path[n - 1].at = g /\ path[n - 1].side = s
           /\ path[n].at = p /\ path[n].side = t /\ Last(path) = path[n]
           /\ h[at].link[side] = g /\ h[g].link[s] = p /\ h[p].link[t] = Below(h, path)
           /\ (at = Root => n = 3 /\ side = 0)
           /\ g # p /\ at # g /\ at # p
           /\ \A m \in DOMAIN h, c \in Sides : h[m].link[c] = g => m = at /\ c = side
           /\ \A m \in DOMAIN h, c \in Sides : h[m].link[c] = p => m = g /\ c = s
  BY <1>1, ThreeLast
<1>3. Elements(h) \subseteq Nat \ {Null} /\ Elements(h) \subseteq DOMAIN h /\ Root \in DOMAIN h /\ Root \notin Elements(h)
      /\ \A m \in DOMAIN h, c \in Sides : h[m].link[c] \in Elements(h) \union {Null}
  BY <1>1, HeapHolds DEF Elements
<1>4. 1 - s \in Sides /\ 1 - s # s /\ Sides = {s, 1 - s} /\ 0 \in Sides /\ 1 - (1 - s) = s
  BY OtherSide DEF Sides
<1>5. Red(h, p) /\ ~Red(h, h[g].link[1 - s]) /\ n > 1 /\ n # 1
  BY <1>2
<1>6. ~Red(h, h[Root].link[0])
  BY <1>2, <1>5 DEF Rising
<1>7. \A m \in Elements(h), c \in Sides : Red(h, m) /\ Red(h, h[m].link[c]) => m = p /\ c = t
  BY <1>2 DEF Rising, RedsApart
<1>8. ~Red(h, g)
  BY <1>2, <1>5, <1>7
<1>9. CASE t = s
  <2>1. k = h
    BY <1>2, <1>9 DEF Straighten
  <2>2. RedsApart(h, [at |-> h[g].link[s], side |-> s])
    BY <1>2, <1>7, <1>9 DEF RedsApart
  <2>3. Straight(h, sub, bh, at, side, g, s)
    BY <1>1, <1>2, <1>5, <1>6, <2>2 DEF Straight
  <2> QED BY <1>2, <2>1, <2>3
<1>10. CASE t # s
  <2>1. t = 1 - s
    BY <1>4, <1>10
  <2>2. PICK c \in Elements(h) : c = h[p].link[t] /\ Red(h, c)
    BY <1>2, <1>3, <1>5 DEF Rising, Red
  <2>3. k = Rotate(h, p, t, g, s)
    BY <1>2, <1>10, <2>1 DEF Straighten
  <2>4. PICK new : new = Turned(h, sub, p, c, t)
    OBVIOUS
  <2>5. /\ c # p /\ c # g
        /\ Rotated(h, k, p, t, g, s, c)
        /\ Sorted(k, new)
    <3>1. g \in DOMAIN h /\ c # Null
      BY <1>3
    <3> QED BY <3>1, <1>1, <1>2, <2>2, <2>3, <2>4, RotateSorted
  <2>6. /\ IsHeap(k) /\ DOMAIN k = DOMAIN h /\ Elements(k) = Elements(h)
        /\ \A m \in Elements(h) : Red(k, m) <=> Red(h, m)
        /\ \A m \in Elements(h) : Shade(k, m) = Shade(h, m)
    BY <1>3, <2>5 DEF Rotated, SameNodes, SameColors, Red, Shade
  <2>7. \A m \in DOMAIN h, d \in Sides :
           k[m].link[d] = IF m = p /\ d = t THEN h[c].link[s]
                          ELSE IF m = c /\ d = s THEN p
                          ELSE IF m = g /\ d = s THEN c
                          ELSE h[m].link[d]
    BY <1>4, <2>1, <2>5 DEF Rotated
  <2>8. \A d \in Sides : ~Red(h, h[c].link[d])
    BY <1>7, <2>2, <2>5
  <2>9. /\ \A m \in DOMAIN h, d \in Sides : h[m].link[d] = c => m = p /\ d = t
    BY <1>1, <1>2, <1>3, <2>2, HangsAt
  <2>10. ASSUME NEW m \in Elements(h), NEW d \in Sides
         PROVE  /\ bh[m] = Blacks(bh, k[m].link[d]) + Shade(k, m)
                /\ Red(k, m) /\ Red(k, k[m].link[d]) => m = c /\ d = s
    <3>1. /\ bh[m] = Blacks(bh, h[m].link[d]) + Shade(h, m)
          /\ bh[m] \in Nat /\ Blacks(bh, h[m].link[d]) \in Nat
      BY <1>1, EvenAt
    <3>2. Shade(k, m) = Shade(h, m) /\ (Red(k, m) <=> Red(h, m))
      BY <2>6
    <3>3. \A x \in Elements(h) \union {Null} : Red(k, x) <=> Red(h, x)
      BY <2>6, <1>3 DEF Red
    <3>4. CASE m = p /\ d = t
      <4>1. bh[p] = Blacks(bh, c) + Shade(h, p)
        BY <3>1, <3>4, <2>2
      <4>2. bh[c] = Blacks(bh, h[c].link[s]) + Shade(h, c) /\ Blacks(bh, h[c].link[s]) \in Nat
        BY <1>1, <1>2, EvenAt
      <4>3. Shade(h, c) = 0 /\ Shade(h, p) = 0 /\ Blacks(bh, c) = bh[c]
        BY <1>3, <1>5, <2>2 DEF Shade, Blacks
      <4>4. k[m].link[d] = h[c].link[s] /\ h[c].link[s] \in Elements(h) \union {Null} /\ ~Red(h, h[c].link[s])
        BY <3>4, <1>3, <1>2, <2>7, <2>8
      <4> QED BY <3>2, <3>3, <3>4, <4>1, <4>2, <4>3, <4>4
    <3>5. CASE m = c /\ d = s
      <4>1. bh[p] = Blacks(bh, h[p].link[t]) + Shade(h, p) /\ bh[p] \in Nat /\ Blacks(bh, h[p].link[t]) \in Nat
        BY <1>1, EvenAt
      <4>2. Shade(h, c) = 0 /\ Shade(h, p) = 0 /\ Blacks(bh, c) = bh[c] /\ Blacks(bh, p) = bh[p]
        BY <1>3, <1>5, <2>2 DEF Shade, Blacks
      <4>3. k[m].link[d] = p
        BY <3>5, <1>3, <2>5, <2>7
      <4>4. bh[m] \in Nat
        BY <3>1
      <4> QED BY <3>2, <3>5, <4>1, <4>2, <4>3, <4>4, <2>2
    <3>6. CASE m = g /\ d = s
      <4>1. bh[p] = Blacks(bh, h[p].link[t]) + Shade(h, p) /\ bh[p] \in Nat /\ Blacks(bh, h[p].link[t]) \in Nat
        BY <1>1, EvenAt
      <4>2. Shade(h, p) = 0 /\ Blacks(bh, c) = bh[c] /\ Blacks(bh, p) = bh[p]
        BY <1>3, <1>5, <2>2 DEF Shade, Blacks
      <4>3. k[m].link[d] = c /\ h[m].link[d] = p
        BY <3>6, <1>2, <1>3, <2>5, <2>7
      <4> QED BY <3>1, <3>2, <3>6, <4>1, <4>2, <4>3, <2>2, <1>8
    <3>7. CASE ~(m = p /\ d = t) /\ ~(m = c /\ d = s) /\ ~(m = g /\ d = s)
      <4>1. k[m].link[d] = h[m].link[d]
        BY <3>7, <1>3, <2>7
      <4>2. Red(k, k[m].link[d]) <=> Red(h, h[m].link[d])
        BY <4>1, <3>3, <1>3
      <4> QED BY <3>1, <3>2, <3>7, <4>1, <4>2, <1>7
    <3> QED BY <3>4, <3>5, <3>6, <3>7
  <2>11. Even(k, bh, TopLink)
    <3>1. bh \in [Elements(k) -> Nat]
      BY <1>1, <2>6 DEF Even
    <3> QED BY <3>1, <2>6, <2>10, EvenIs
  <2>12. k[g].link[s] = c /\ k[g].link[1 - s] = h[g].link[1 - s] /\ k[at].link[side] = g
    <3>1. k[g].link[s] = c
      BY <1>2, <1>3, <2>5, <2>7
    <3>2. k[g].link[1 - s] = h[g].link[1 - s]
      BY <1>2, <1>3, <1>4, <2>1, <2>5, <2>7
    <3>4. at # c
      <4>1. at \notin sub[g]
        BY <1>1, <1>2, HangsAt
      <4>2. sub[p] \subseteq sub[g]
        BY <1>1, <1>2, <1>3, SortedAt DEF Under
      <4>3. c \in sub[p]
        <5>1. h[p].link[t] # Null
          BY <1>3, <2>2
        <5> QED BY <5>1, <1>1, <2>2, SortedAt
      <4> QED BY <4>1, <4>2, <4>3
    <3>3. k[at].link[side] = h[at].link[side]
      BY <1>2, <3>4, <2>7
    <3> QED BY <3>1, <3>2, <3>3, <1>2
  <2>13. RedsApart(k, [at |-> c, side |-> s])
    BY <2>6, <2>10 DEF RedsApart
  <2>14. ~Red(k, h[g].link[1 - s]) /\ Red(k, c)
    BY <1>2, <1>3, <1>4, <1>5, <2>2, <2>6 DEF Red
  <2>15. ~Red(k, k[Root].link[0])
    <3>1. k[Root].link[0] = h[Root].link[0]
      BY <1>2, <1>3, <1>4, <2>7, <2>2
    <3> QED BY <3>1, <1>3, <1>4, <1>6, <2>6 DEF Red
  <2>16. Straight(k, new, bh, at, side, g, s)
    BY <1>2, <2>5, <2>6, <2>11, <2>12, <2>13, <2>14, <2>15 DEF Straight
  <2> QED BY <1>2, <2>6, <2>16
<1> QED BY <1>9, <1>10

\* case 3 ends the loop with a red-black tree
LEMMA LiftIs ==
  ASSUME NEW h, NEW sub, NEW bh, NEW at, NEW side, NEW g, NEW s, Straight(h, sub, bh, at, side, g, s),
         NEW q, q = h[g].link[s],
         NEW k, k = Rotate(Paint(Paint(h, g, "red"), q, "black"), g, s, at, side)
  PROVE  DOMAIN k = DOMAIN h /\ RedBlackTree(k)
<1>1. /\ IsHeap(h) /\ Sorted(h, sub) /\ Even(h, bh, TopLink)
      /\ at \in DOMAIN h /\ side \in Sides /\ h[at].link[side] = g
      /\ g \in Elements(h) /\ s \in Sides
      /\ Red(h, q) /\ ~Red(h, h[g].link[1 - s])
      /\ ~Red(h, h[Root].link[0])
  BY DEF Straight
<1>2. \A m \in Elements(h), c \in Sides : Red(h, m) /\ Red(h, h[m].link[c]) => m = q /\ c = s
  BY DEF Straight, RedsApart
<1>3. Elements(h) \subseteq Nat \ {Null} /\ Elements(h) \subseteq DOMAIN h /\ Root \in DOMAIN h /\ Root \notin Elements(h)
      /\ \A m \in DOMAIN h, c \in Sides : h[m].link[c] \in Elements(h) \union {Null}
  BY <1>1, HeapHolds DEF Elements
<1>4. PICK t \in Sides : t = 1 - s /\ t # s /\ Sides = {s, t} /\ 1 - t = s /\ 0 \in Sides
  BY <1>1, OtherSide DEF Sides
<1>5. q \in Elements(h)
  BY <1>1, <1>3 DEF Red
<1>6. /\ g # at /\ \A m \in DOMAIN h, d \in Sides : h[m].link[d] = g => m = at /\ d = side
      /\ q # g /\ \A m \in DOMAIN h, d \in Sides : h[m].link[d] = q => m = g /\ d = s
  BY <1>1, <1>3, <1>5, HangsAt
<1>7. ~Red(h, g)
  BY <1>1, <1>2, <1>6
<1>8. PICK h1 : h1 = Paint(Paint(h, g, "red"), q, "black")
  OBVIOUS
<1>9. PaintedTwo(h, h1, g, "red", q, "black")
  <2>1. "red" \in Colors /\ "black" \in Colors /\ g \in DOMAIN h /\ q \in DOMAIN h
    BY <1>1, <1>3, <1>5 DEF Colors
  <2> QED BY <1>1, <1>8, <2>1, PaintTwoIs
<1>10. /\ IsHeap(h1) /\ DOMAIN h1 = DOMAIN h /\ Elements(h1) = Elements(h) /\ SameNodes(h, h1) /\ SameLinks(h, h1)
       /\ \A m \in DOMAIN h, c \in Sides : h1[m].link[c] = h[m].link[c]
       /\ \A m \in DOMAIN h : h1[m].color = IF m = q THEN "black" ELSE IF m = g THEN "red" ELSE h[m].color
  BY <1>9 DEF PaintedTwo, SameNodes, SameLinks
<1>11. Sorted(h1, sub)
  BY <1>1, <1>10, SameLinksSorted
<1>12. k = Rotate(h1, g, s, at, side)
  BY <1>8
<1>13. q # at /\ Rotated(h1, k, g, s, at, side, q) /\ Sorted(k, Turned(h1, sub, g, q, s))
  <2>1. /\ g \in Elements(h1) /\ at \in DOMAIN h1 /\ h1[at].link[side] = g
        /\ q = h1[g].link[s] /\ q # Null
    BY <1>1, <1>3, <1>5, <1>10
  <2> QED BY <2>1, <1>1, <1>10, <1>11, <1>12, RotateSorted
<1>14. /\ IsHeap(k) /\ DOMAIN k = DOMAIN h /\ Elements(k) = Elements(h)
       /\ \A m \in DOMAIN h, d \in Sides :
            k[m].link[d] = IF m = g /\ d = s THEN h[q].link[t]
                           ELSE IF m = q /\ d = t THEN g
                           ELSE IF m = at /\ d = side THEN q
                           ELSE h[m].link[d]
       /\ \A m \in DOMAIN h : k[m].color = IF m = q THEN "black" ELSE IF m = g THEN "red" ELSE h[m].color
  <2>1. IsHeap(k) /\ DOMAIN k = DOMAIN h /\ Elements(k) = Elements(h)
    BY <1>10, <1>13 DEF Rotated, SameNodes
  <2>2. ASSUME NEW m \in DOMAIN h
        PROVE  k[m].color = IF m = q THEN "black" ELSE IF m = g THEN "red" ELSE h[m].color
    <3>1. k[m].color = h1[m].color
      BY <1>10, <1>13 DEF Rotated, SameColors
    <3> QED BY <3>1, <1>6, <1>10
  <2>3. ASSUME NEW m \in DOMAIN h, NEW d \in Sides
        PROVE  k[m].link[d] = IF m = g /\ d = s THEN h[q].link[t]
                              ELSE IF m = q /\ d = t THEN g
                              ELSE IF m = at /\ d = side THEN q
                              ELSE h[m].link[d]
    <3>1. k[m].link[d] = IF m = g /\ d = s THEN h1[q].link[t]
                         ELSE IF m = q /\ d = t THEN g
                         ELSE IF m = at /\ d = side THEN q
                         ELSE h1[m].link[d]
      <4>1. Rotated(h1, k, g, s, at, side, q)
        BY <1>13
      <4>2. m \in DOMAIN h1 /\ 1 - s = t
        BY <1>4, <1>10
      <4> QED BY <4>1, <4>2 DEF Rotated
    <3>2. h1[q].link[t] = h[q].link[t] /\ h1[m].link[d] = h[m].link[d]
      BY <1>3, <1>5, <1>10
    <3> QED BY <3>1, <3>2
  <2> QED BY <2>1, <2>2, <2>3
<1>15. /\ \A m \in Elements(h) : Red(k, m) <=> m = g \/ (Red(h, m) /\ m # q)
       /\ \A m \in Elements(h) : m # g /\ m # q => Shade(k, m) = Shade(h, m)
       /\ Shade(k, g) = 0 /\ Shade(k, q) = 1 /\ Shade(h, g) = 1 /\ Shade(h, q) = 0
       /\ ~Red(k, Null)
  <2>1. ~Red(k, Null)
    BY DEF Red
  <2>2. ASSUME NEW m \in Elements(h) PROVE Red(k, m) <=> m = g \/ (Red(h, m) /\ m # q)
    <3>1. m # Null /\ m \in DOMAIN h /\ q # g
      BY <1>3, <1>6
    <3>2. k[m].color = IF m = q THEN "black" ELSE IF m = g THEN "red" ELSE h[m].color
      BY <3>1, <1>14
    <3> QED BY <3>1, <3>2 DEF Red
  <2>3. Red(k, g) /\ ~Red(k, q)
    BY <2>2, <1>1, <1>5, <1>6
  <2> QED BY <2>1, <2>2, <2>3, <1>1, <1>5, <1>7 DEF Shade
<1>16. \A m \in Elements(h) : bh[m] \in Nat
  BY <1>1 DEF Even
<1>17. bh[g] = bh[q] + 1
  <2>1. bh[g] = Blacks(bh, h[g].link[s]) + Shade(h, g)
    BY <1>1, EvenAt
  <2> QED BY <2>1, <1>3, <1>5, <1>15 DEF Blacks
<1>18. PICK new : new = [m \in Elements(h) |-> IF m = q THEN bh[q] + 1 ELSE IF m = g THEN bh[q] ELSE bh[m]]
  OBVIOUS
<1>19. new \in [Elements(k) -> Nat]
  BY <1>5, <1>14, <1>16, <1>18
<1>20. \A x \in Elements(h) \union {Null} : x # g /\ x # q => Blacks(new, x) = Blacks(bh, x)
  BY <1>18 DEF Blacks
<1>21. new[g] = bh[q] /\ new[q] = bh[q] + 1 /\ Blacks(new, g) = bh[q] /\ Blacks(new, q) = bh[q] + 1
  BY <1>1, <1>3, <1>5, <1>6, <1>18 DEF Blacks
<1>22. ASSUME NEW m \in Elements(h), NEW d \in Sides
       PROVE  /\ new[m] = Blacks(new, k[m].link[d]) + Shade(k, m)
              /\ ~(Red(k, m) /\ Red(k, k[m].link[d]))
  <2>1. /\ bh[m] = Blacks(bh, h[m].link[d]) + Shade(h, m)
        /\ bh[m] \in Nat /\ Blacks(bh, h[m].link[d]) \in Nat
    BY <1>1, EvenAt
  <2>2. h[m].link[d] \in Elements(h) \union {Null}
    BY <1>3
  <2>3. CASE m = g /\ d = s
    <3>1. PICK x \in Elements(h) \union {Null} : x = h[q].link[t]
      BY <1>3, <1>5
    <3>2. x # g /\ x # q
      BY <3>1, <1>3, <1>4, <1>5, <1>6, <1>13
    <3>3. bh[q] = Blacks(bh, x) + Shade(h, q) /\ Blacks(bh, x) \in Nat
      BY <3>1, <1>1, <1>5, EvenAt
    <3>4. ~Red(h, x)
      BY <3>1, <1>1, <1>2, <1>4, <1>5
    <3>5. ~Red(k, x)
      BY <3>1, <3>2, <3>4, <1>15
    <3>6. k[m].link[d] = x
      BY <2>3, <3>1, <1>3, <1>14
    <3>7. Blacks(new, x) = Blacks(bh, x)
      BY <3>1, <3>2, <1>20
    <3>8. new[g] = bh[q] /\ Shade(h, q) = 0 /\ Shade(k, g) = 0
      BY <1>15, <1>21
    <3> QED BY <2>3, <3>3, <3>5, <3>6, <3>7, <3>8
  <2>4. CASE m = g /\ d = t
    <3>1. k[m].link[d] = h[g].link[t] /\ h[g].link[t] # g /\ h[g].link[t] # q
      <4>1. g \in DOMAIN h
        BY <1>1, <1>3
      <4>2. h[g].link[t] # g
        BY <4>1, <1>6
      <4>3. h[g].link[t] # q
        BY <4>1, <1>4, <1>6
      <4>4. k[g].link[t] = h[g].link[t]
        BY <4>1, <1>4, <1>6, <1>14
      <4> QED BY <2>4, <4>2, <4>3, <4>4
    <3>2. ~Red(k, h[g].link[t])
      BY <2>2, <2>4, <3>1, <1>1, <1>4, <1>15
    <3>3. Blacks(new, k[m].link[d]) = Blacks(bh, h[g].link[t])
      BY <2>2, <2>4, <3>1, <1>20
    <3>4. new[g] = bh[q] /\ Shade(k, g) = 0 /\ Shade(h, g) = 1 /\ bh[g] = bh[q] + 1 /\ bh[q] \in Nat
      BY <1>5, <1>15, <1>16, <1>17, <1>21
    <3>5. bh[g] = Blacks(bh, h[g].link[t]) + Shade(h, g) /\ Blacks(bh, h[g].link[t]) \in Nat
      BY <2>1, <2>4
    <3> QED BY <2>4, <3>1, <3>2, <3>3, <3>4, <3>5
  <2>5. CASE m = q /\ d = t
    <3>1. k[m].link[d] = g
      BY <2>5, <1>3, <1>4, <1>6, <1>14
    <3>2. ~Red(k, q)
      BY <1>5, <1>6, <1>15
    <3>3. new[q] = bh[q] + 1 /\ Blacks(new, g) = bh[q] /\ Shade(k, q) = 1
      BY <1>15, <1>21
    <3> QED BY <2>5, <3>1, <3>2, <3>3
  <2>6. CASE m = q /\ d = s
    <3>1. k[m].link[d] = h[q].link[s] /\ h[q].link[s] # g /\ h[q].link[s] # q
      BY <2>6, <1>3, <1>4, <1>6, <1>13, <1>14
    <3>2. Blacks(new, k[m].link[d]) = Blacks(bh, h[q].link[s])
      BY <2>2, <2>6, <3>1, <1>20
    <3>3. new[q] = bh[q] + 1 /\ Shade(k, q) = 1 /\ Shade(h, q) = 0 /\ ~Red(k, q)
      <4>1. ~Red(k, q)
        BY <1>5, <1>6, <1>15
      <4> QED BY <4>1, <1>15, <1>21
    <3>4. bh[q] = Blacks(bh, h[q].link[s]) + Shade(h, q) /\ Blacks(bh, h[q].link[s]) \in Nat
      BY <2>1, <2>6
    <3> QED BY <2>6, <3>2, <3>3, <3>4
  <2>7. CASE m = at /\ d = side
    <3>1. k[m].link[d] = q /\ h[m].link[d] = g /\ m # g /\ m # q
      BY <2>7, <1>1, <1>3, <1>6, <1>13, <1>14
    <3>2. Blacks(bh, g) = bh[g]
      BY <1>1, <1>3 DEF Blacks
    <3>3. new[m] = bh[m] /\ Shade(k, m) = Shade(h, m)
      BY <3>1, <1>15, <1>18
    <3> QED BY <2>1, <3>1, <3>2, <3>3, <1>5, <1>15, <1>17, <1>21
  <2>8. CASE m # g /\ m # q /\ ~(m = at /\ d = side)
    <3>1. k[m].link[d] = h[m].link[d] /\ h[m].link[d] # g /\ h[m].link[d] # q
      <4>1. m \in DOMAIN h
        BY <1>3
      <4>2. k[m].link[d] = h[m].link[d]
        BY <4>1, <2>8, <1>14
      <4> QED BY <4>1, <4>2, <2>8, <1>6
    <3>2. new[m] = bh[m] /\ Shade(k, m) = Shade(h, m)
      BY <2>8, <1>15, <1>18
    <3>3. ~(Red(h, m) /\ Red(h, h[m].link[d]))
      BY <2>8, <1>2
    <3> QED BY <2>1, <2>2, <2>8, <3>1, <3>2, <3>3, <1>15, <1>20
  <2> QED BY <2>3, <2>4, <2>5, <2>6, <2>7, <2>8, <1>4
<1>23. Even(k, new, TopLink)
  BY <1>14, <1>19, <1>22, EvenIs
<1>24. RedsApart(k, TopLink)
  BY <1>14, <1>22 DEF RedsApart
<1>25. ~Red(k, k[Root].link[0])
  <2>1. h[Root].link[0] \in Elements(h) \union {Null} /\ Root # g /\ Root # q
    BY <1>1, <1>3, <1>4, <1>5
  <2>2. CASE at = Root /\ side = 0
    BY <2>1, <2>2, <1>3, <1>4, <1>5, <1>6, <1>14, <1>15
  <2>3. CASE ~(at = Root /\ side = 0)
    <3>1. k[Root].link[0] = h[Root].link[0] /\ h[Root].link[0] # g
      BY <2>1, <2>3, <1>3, <1>4, <1>6, <1>14
    <3> QED BY <2>1, <3>1, <1>1, <1>15
  <2> QED BY <2>2, <2>3
<1> QED BY <1>13, <1>14, <1>23, <1>24, <1>25 DEF RedBlackTree, Good

\* the header's child may be painted black
LEMMA PaintTop ==
  ASSUME NEW h, IsHeap(h), NEW sub, Sorted(h, sub), NEW bh, Even(h, bh, TopLink), RedsApart(h, TopLink),
         NEW x \in Elements(h), x = h[Root].link[0], NEW g, g = Paint(h, x, "black")
  PROVE  DOMAIN g = DOMAIN h /\ RedBlackTree(g)
<1>1. /\ Elements(h) \subseteq Nat \ {Null} /\ Elements(h) \subseteq DOMAIN h /\ Root \in DOMAIN h /\ Root \notin Elements(h)
      /\ \A m \in DOMAIN h, c \in Sides : h[m].link[c] \in Elements(h) \union {Null}
      /\ 0 \in Sides /\ "black" \in Colors
  BY HeapHolds DEF Elements, Sides, Colors
<1>2. Painted(h, g, x, "black")
  BY <1>1, PaintIs
<1>3. /\ IsHeap(g) /\ DOMAIN g = DOMAIN h /\ Elements(g) = Elements(h) /\ SameNodes(h, g) /\ SameLinks(h, g)
      /\ \A m \in DOMAIN h, c \in Sides : g[m].link[c] = h[m].link[c]
      /\ \A m \in DOMAIN h : g[m].color = IF m = x THEN "black" ELSE h[m].color
  BY <1>2 DEF Painted, SameNodes, SameLinks
<1>4. Sorted(g, sub)
  BY <1>3, SameLinksSorted
<1>5. \A m \in DOMAIN h, c \in Sides : h[m].link[c] = x => m = Root
  BY <1>1, HangsAt
<1>6. /\ \A m \in Elements(h) : Red(g, m) <=> Red(h, m) /\ m # x
      /\ ~Red(h, Null) /\ ~Red(g, Null)
      /\ \A m \in Elements(h) : m # x => Shade(g, m) = Shade(h, m)
      /\ Shade(g, x) = 1
  BY <1>1, <1>3 DEF Red, Shade
<1>7. PICK new : new = [m \in Elements(h) |-> IF m = x THEN bh[m] + 1 - Shade(h, x) ELSE bh[m]]
  OBVIOUS
<1>8. Shade(h, x) \in {0, 1} /\ \A m \in Elements(h) : bh[m] \in Nat
  BY DEF Shade, Even
<1>9. new \in [Elements(g) -> Nat]
  BY <1>3, <1>7, <1>8
<1>10. ASSUME NEW m \in Elements(h), NEW c \in Sides
       PROVE  /\ new[m] = Blacks(new, g[m].link[c]) + Shade(g, m)
              /\ ~(Red(g, m) /\ Red(g, g[m].link[c]))
  <2>1. /\ bh[m] = Blacks(bh, h[m].link[c]) + Shade(h, m)
        /\ bh[m] \in Nat /\ Blacks(bh, h[m].link[c]) \in Nat
    BY EvenAt
  <2>2. g[m].link[c] = h[m].link[c] /\ h[m].link[c] \in Elements(h) \union {Null} /\ h[m].link[c] # x
    BY <1>1, <1>3, <1>5
  <2>3. Blacks(new, h[m].link[c]) = Blacks(bh, h[m].link[c])
    BY <2>2, <1>7 DEF Blacks
  <2>4. ~(Red(g, m) /\ Red(g, g[m].link[c]))
    BY <2>2, <1>6, ApartAt
  <2>5. new[m] = Blacks(new, g[m].link[c]) + Shade(g, m)
    BY <2>1, <2>2, <2>3, <1>6, <1>7, <1>8
  <2> QED BY <2>4, <2>5
<1>11. Even(g, new, TopLink)
  BY <1>3, <1>9, <1>10, EvenIs
<1>12. RedsApart(g, TopLink)
  BY <1>3, <1>10 DEF RedsApart
<1>13. ~Red(g, g[Root].link[0])
  BY <1>1, <1>3, <1>6
<1> QED BY <1>3, <1>4, <1>11, <1>12, <1>13 DEF RedBlackTree, Good

\* a step of the loop of rb_probe is the last or shortens the path
LEMMA InsertStepIs ==
  ASSUME NEW D, NEW S, S = [heap : Heaps(D), path : Paths(D)],
         NEW a \in S, DOMAIN a.heap = D, NEW sub, NEW bh, Rising(a.heap, a.path, sub, bh)
  PROVE  \/ InsertStep(a) = a /\ RedsApart(a.heap, TopLink)
         \/ LET b == InsertStep(a) IN
            /\ b \in S /\ DOMAIN b.heap = D /\ (\E sub2, bh2 : Rising(b.heap, b.path, sub2, bh2))
            /\ Len(b.path) < Len(a.path)
<1>1. PICK h, path : h = a.heap /\ path = a.path
  OBVIOUS
<1>2. Rising(h, path, sub, bh) /\ DOMAIN h = D /\ IsHeap(h) /\ Chain(h, path) /\ Sorted(h, sub)
  BY <1>1 DEF Rising
<1>3. PICK n \in Nat \ {0} : n = Len(path)
  BY <1>2, ChainHas
<1>4. PICK b : b = InsertStep(a)
  OBVIOUS
<1>5. ASSUME NEW c, c = [heap |-> c.heap, path |-> c.path], DOMAIN c.heap = D, NEW sub2, NEW bh2, Rising(c.heap, c.path, sub2, bh2)
      PROVE  c \in S
  <2>1. c.heap \in Heaps(D) /\ c.path \in Paths(D)
    BY <1>5 DEF Rising, IsHeap, Chain
  <2> QED BY <1>5, <2>1
<1>6. CASE n < 3 \/ ~Red(h, path[n].at)
  <2>1. b = a
    BY <1>1, <1>3, <1>4, <1>6 DEF InsertStep
  <2>2. ASSUME NEW m \in Elements(h), NEW c \in Sides, Red(h, m), Red(h, h[m].link[c]) PROVE FALSE
    <3>1. m = path[n].at
      BY <2>2, <1>2, <1>3, ChainHas DEF Rising, RedsApart
    <3>2. n < 3
      BY <3>1, <2>2, <1>6
    <3>3. CASE n = 1
      BY <3>1, <3>3, <1>2 DEF Chain, Elements
    <3>4. CASE n = 2
      <4>1. 1 \in 1..n - 1 /\ 1 + 1 = 2
        BY <3>4
      <4>2. Hung(h, path[1]) = path[2].at
        BY <4>1, <1>2, <1>3 DEF Chain
      <4>3. h[Root].link[0] = m
        BY <3>1, <3>4, <4>2, <1>2 DEF Chain, Hung
      <4>4. Red(h, h[Root].link[0]) => Len(path) = 1
        BY <1>2 DEF Rising
      <4> QED BY <4>3, <4>4, <2>2, <3>4, <1>3
    <3> QED BY <3>2, <3>3, <3>4
  <2>3. RedsApart(h, TopLink)
    BY <2>2 DEF RedsApart
  <2> QED BY <1>1, <1>4, <2>1, <2>3
<1>7. CASE n >= 3 /\ Red(h, path[n].at) /\ Red(h, h[path[n - 1].at].link[1 - path[n - 1].side])
  <2>1. b = Recolour(h, path)
    <3>1. InsertStep(a) = IF n < 3 \/ ~Red(h, path[n].at) THEN a
                          ELSE IF Red(h, h[path[n - 1].at].link[1 - path[n - 1].side]) THEN Recolour(h, path)
                          ELSE Lift(Straighten(h, path), path)
      BY <1>1, <1>3 DEF InsertStep
    <3>2. ~(n < 3)
      BY <1>3, <1>7
    <3> QED BY <3>1, <3>2, <1>4, <1>7
  <2>2. /\ DOMAIN b.heap = D /\ Len(b.path) = n - 2
        /\ \E bh2 : Rising(b.heap, b.path, sub, bh2)
    BY <2>1, <1>2, <1>3, <1>7, RecolourRises
  <2>3. b = [heap |-> b.heap, path |-> b.path]
    BY <2>1 DEF Recolour
  <2>4. b \in S
    BY <2>2, <2>3, <1>5
  <2>5. Len(b.path) < n
    BY <2>2
  <2> QED BY <2>2, <2>4, <2>5, <1>1, <1>3, <1>4
<1>8. CASE n >= 3 /\ Red(h, path[n].at) /\ ~Red(h, h[path[n - 1].at].link[1 - path[n - 1].side])
  <2>1. PICK k : k = Straighten(h, path)
    OBVIOUS
  <2>2. b = Lift(k, path)
    <3>1. ~(n < 3)
      BY <1>8
    <3> QED BY <3>1, <2>1, <1>1, <1>3, <1>4, <1>8 DEF InsertStep
  <2>3. DOMAIN k = D /\ \E new : Straight(k, new, bh, path[n - 2].at, path[n - 2].side, path[n - 1].at, path[n - 1].side)
    BY <2>1, <1>2, <1>3, <1>8, StraightenIs
  <2>4. PICK new : Straight(k, new, bh, path[n - 2].at, path[n - 2].side, path[n - 1].at, path[n - 1].side)
    BY <2>3
  <2>5. PICK q : q = k[path[n - 1].at].link[path[n - 1].side]
    OBVIOUS
  <2>6. PICK k2 : k2 = Rotate(Paint(Paint(k, path[n - 1].at, "red"), q, "black"), path[n - 1].at, path[n - 1].side,
                              path[n - 2].at, path[n - 2].side)
    OBVIOUS
  <2>7. DOMAIN k2 = DOMAIN k /\ RedBlackTree(k2)
    <3>1. PICK at, side, g, s : /\ at = path[n - 2].at /\ side = path[n - 2].side
                                /\ g = path[n - 1].at /\ s = path[n - 1].side
      OBVIOUS
    <3>2. Straight(k, new, bh, at, side, g, s)
      BY <2>4, <3>1
    <3>3. q = k[g].link[s] /\ k2 = Rotate(Paint(Paint(k, g, "red"), q, "black"), g, s, at, side)
      BY <2>5, <2>6, <3>1
    <3> QED BY <3>2, <3>3, LiftIs
  <2>8. b = [heap |-> k2, path |-> FromRoot]
    BY <2>2, <2>5, <2>6, <1>3 DEF Lift
  <2>9. b.heap = k2 /\ b.path = FromRoot
    BY <2>8
  <2>10. IsHeap(k2)
    BY <2>7 DEF RedBlackTree
  <2>11. PICK sub2, bh2 : Good(k2, sub2, bh2)
    BY <2>7 DEF RedBlackTree
  <2>12. Chain(k2, FromRoot) /\ Len(FromRoot) = 1 /\ Last(FromRoot) = TopLink
    BY <2>10, ChainFromRoot, TopLinkIs
  <2>13. Rising(b.heap, b.path, sub2, bh2)
    BY <2>9, <2>10, <2>11, <2>12 DEF Rising, Good
  <2>14. DOMAIN b.heap = D
    BY <2>3, <2>7, <2>9
  <2>15. b \in S
    BY <2>8, <2>9, <2>13, <2>14, <1>5
  <2>16. Len(b.path) < n
    BY <2>9, <2>12, <1>8
  <2> QED BY <2>13, <2>14, <2>15, <2>16, <1>1, <1>3, <1>4
<1> QED BY <1>6, <1>7, <1>8

\* rb_probe adds the key and leaves a red-black tree
LEMMA InsertIs ==
  ASSUME NEW h, RedBlackTree(h), NEW k \in Nat \ {Root}, k \notin DOMAIN h
  PROVE  RedBlackTree(Insert(h, k)) /\ Elements(Insert(h, k)) = Elements(h) \union {k}
<1>1. PICK path : path = Search(h, k)
  OBVIOUS
<1>2. PICK g : g = Attach(h, path, k)
  OBVIOUS
<1>3. Chain(h, path) /\ Toward(path, k) /\ Below(h, path) = Null
  <2>1. k \in Nat /\ k \notin Elements(h) /\ IsHeap(h)
    BY DEF RedBlackTree, Elements
  <2>2. PICK sub, bh : Good(h, sub, bh)
    BY DEF RedBlackTree
  <2>3. Sorted(h, sub)
    BY <2>2 DEF Good
  <2> QED BY <2>1, <2>3, <1>1, SearchEnds
<1>4. DOMAIN g = DOMAIN h \union {k} /\ \E sub, bh : Rising(g, path, sub, bh)
  BY <1>2, <1>3, AttachRises
<1>5. PICK D : D = DOMAIN g
  OBVIOUS
<1>6. PICK S : S = [heap : Heaps(D), path : Paths(D)]
  OBVIOUS
<1>7. PICK step : step = [a \in S |-> InsertStep(a)]
  OBVIOUS
<1>8. PICK I : I = {a \in S : DOMAIN a.heap = D /\ \E sub, bh : Rising(a.heap, a.path, sub, bh)}
  OBVIOUS
<1>9. PICK size : size = [a \in I |-> Len(a.path)]
  OBVIOUS
<1>10. ASSUME NEW a \in I
       PROVE  /\ size[a] \in Nat
              /\ \/ step[a] = a /\ RedsApart(a.heap, TopLink)
                 \/ step[a] \in I /\ size[step[a]] < size[a]
  <2>1. PICK sub, bh : Rising(a.heap, a.path, sub, bh)
    BY <1>8
  <2>2. a \in S /\ DOMAIN a.heap = D /\ size[a] = Len(a.path) /\ step[a] = InsertStep(a)
    BY <1>7, <1>8, <1>9
  <2>3. Len(a.path) \in Nat
    BY <2>1, ChainHas DEF Rising
  <2>4. \/ InsertStep(a) = a /\ RedsApart(a.heap, TopLink)
        \/ LET b == InsertStep(a) IN
            /\ b \in S /\ DOMAIN b.heap = D /\ (\E sub2, bh2 : Rising(b.heap, b.path, sub2, bh2))
            /\ Len(b.path) < Len(a.path)
    BY <2>1, <2>2, <1>6, InsertStepIs
  <2>5. CASE InsertStep(a) = a /\ RedsApart(a.heap, TopLink)
    BY <2>2, <2>3, <2>5
  <2>6. CASE LET b == InsertStep(a) IN
            /\ b \in S /\ DOMAIN b.heap = D /\ (\E sub2, bh2 : Rising(b.heap, b.path, sub2, bh2))
            /\ Len(b.path) < Len(a.path)
    <3>1. InsertStep(a) \in I
      BY <2>6, <1>8
    <3>2. size[InsertStep(a)] = Len(InsertStep(a).path)
      BY <3>1, <1>9
    <3> QED BY <2>2, <2>3, <2>6, <3>1, <3>2
  <2> QED BY <2>4, <2>5, <2>6
<1>11. PICK a0 : a0 = [heap |-> g, path |-> path]
  OBVIOUS
<1>12. a0 \in I
  <2>1. g \in Heaps(D) /\ path \in Paths(D)
    BY <1>4, <1>5 DEF Rising, IsHeap, Chain
  <2> QED BY <2>1, <1>4, <1>5, <1>6, <1>8, <1>11
<1>13. PICK a : a = Until(step)[a0]
  OBVIOUS
<1>14. a \in I /\ step[a] = a
  <2>1. I \subseteq DOMAIN step /\ size \in [I -> Nat]
    BY <1>7, <1>8, <1>9, <1>10
  <2>2. \A b \in I : step[b] = b \/ (step[b] \in I /\ size[step[b]] < size[b])
    BY <1>10
  <2> QED BY <2>1, <2>2, <1>12, <1>13, LoopEnds
<1>15. RedsApart(a.heap, TopLink)
  BY <1>10, <1>14
<1>16. PICK f : f = a.heap
  OBVIOUS
<1>17. PICK sub, bh : Rising(f, a.path, sub, bh)
  BY <1>8, <1>14, <1>16
<1>18. IsHeap(f) /\ DOMAIN f = D /\ Sorted(f, sub) /\ Even(f, bh, TopLink)
  BY <1>8, <1>14, <1>16, <1>17 DEF Rising
<1>19. PICK x \in Elements(f) : x = f[Root].link[0]
  <2>1. k \in Elements(f)
    BY <1>4, <1>5, <1>18 DEF Elements
  <2>2. f[Root].link[0] # Null
    BY <2>1, <1>18 DEF Sorted, FromTop, Under
  <2> QED BY <2>2, <1>18, HeapHolds DEF Sides
<1>20. DOMAIN Paint(f, x, "black") = D /\ RedBlackTree(Paint(f, x, "black"))
  BY <1>15, <1>16, <1>18, <1>19, PaintTop
<1>21. InsertFix(g, path) = f
  BY <1>5, <1>6, <1>7, <1>11, <1>13, <1>16 DEF InsertFix
<1>22. Insert(h, k) = Paint(f, x, "black")
  BY <1>1, <1>2, <1>19, <1>21 DEF Insert
<1>23. D \ {Root} = Elements(h) \union {k}
  BY <1>4, <1>5 DEF Elements
<1> QED BY <1>20, <1>22, <1>23 DEF Elements

-----------------------------------------------------------------------------
(* Removal of a node *)

\* the nodes of a path are not below its entries
LEMMA ChainOutside ==
  ASSUME NEW h, IsHeap(h), NEW sub, Sorted(h, sub), NEW path, Chain(h, path),
         NEW i \in 1..Len(path), NEW j \in i..Len(path)
  PROVE  path[i].at \notin Under(sub, Hung(h, path[j]))
<1>1. Under(sub, Hung(h, path[j])) \subseteq Under(sub, Hung(h, path[i]))
  BY ChainDown
<1>2. PICK n \in DOMAIN h, s \in Sides : n = path[i].at /\ s = path[i].side
  BY ChainHas
<1>3. n \notin Under(sub, h[n].link[s])
  <2>1. CASE n = Root
    <3>1. Under(sub, h[n].link[s]) \subseteq Elements(h)
      <4>1. h[n].link[s] \in Elements(h) \union {Null}
        BY HeapHolds
      <4> QED BY <4>1 DEF Under, Sorted, SubIs
    <3> QED BY <2>1, <3>1 DEF Elements
  <2>2. CASE n \in Elements(h)
    <3>1. \A m \in Under(sub, h[n].link[s]) : Beside(n, s, m) /\ m \in Nat
      BY <2>2, SortedAt, HeapHolds
    <3> QED BY <2>2, <3>1, HeapHolds, BesideOnce
  <2> QED BY <2>1, <2>2 DEF Elements
<1> QED BY <1>1, <1>2, <1>3 DEF Hung

\* all other keys are before or behind those at an end of a path
LEMMA ChainParts ==
  ASSUME NEW h, IsHeap(h), NEW sub, Sorted(h, sub), NEW path, Chain(h, path),
         NEW m \in Elements(h), m \notin Under(sub, Below(h, path))
  PROVE  (\A j \in Under(sub, Below(h, path)) : j < m) \/ (\A j \in Under(sub, Below(h, path)) : m < j)
<1> DEFINE T == {i \in 1..Len(path) : m \in Under(sub, Hung(h, path[i]))}
<1>1. PICK n \in Nat \ {0} : n = Len(path) /\ Below(h, path) = Hung(h, path[n])
  BY ChainHas
<1>2. PICK U : U = Under(sub, Below(h, path))
  OBVIOUS
<1>3. 1 \in T
  <2>1. Hung(h, path[1]) = h[Root].link[0]
    BY DEF Chain, Hung
  <2>2. m \in Under(sub, Hung(h, path[1]))
    BY <2>1 DEF Sorted, FromTop
  <2> QED BY <2>2, <1>1
<1>4. \E i \in 1..n - 1 : i \in T /\ i + 1 \notin T
  <2>1. n \notin T
    BY <1>1
  <2> HIDE DEF T
  <2>2. ASSUME \A i \in 1..n - 1 : i \in T => i + 1 \in T PROVE FALSE
    <3>1. \A i \in 1..n : i \in T
      BY <1>3, <2>2, Induct
    <3> QED BY <2>1, <3>1
  <2> QED BY <2>2
<1>5. PICK i \in 1..n - 1 : i \in T /\ i + 1 \notin T
  BY <1>4
<1>6. i + 1 \in 1..n /\ i \in 1..n /\ n \in i + 1..n
  BY <1>1
<1>7. PICK q \in Elements(h), c \in Sides : q = path[i + 1].at /\ c = path[i + 1].side /\ Hung(h, path[i]) = q
  <2>1. path[i + 1].side \in Sides
    BY <1>1, <1>6, ChainHas
  <2> QED BY <1>1, <2>1 DEF Chain
<1>8. m \in sub[q] /\ m \notin Under(sub, h[q].link[c])
  <2>1. q # Null
    BY HeapHolds
  <2> QED BY <1>1, <1>5, <1>6, <1>7, <2>1 DEF Under, Hung
<1>9. m = q \/ Beside(q, 1 - c, m)
  BY <1>8, SortedAt, OtherSide
<1>10. U \subseteq Under(sub, h[q].link[c])
  BY <1>1, <1>2, <1>6, <1>7, ChainDown DEF Hung
<1>11. \A j \in U : Beside(q, c, j) /\ j \in Nat
  BY <1>10, SortedAt, HeapHolds
<1>12. q \in Nat /\ m \in Nat
  BY HeapHolds
<1>13. CASE c = 0
  BY <1>2, <1>9, <1>11, <1>12, <1>13 DEF Beside
<1>14. CASE c = 1
  BY <1>2, <1>9, <1>11, <1>12, <1>14 DEF Beside
<1> QED BY <1>13, <1>14 DEF Sides

\* the heap without node k, which hung at the end of the path, its child x in its place
Removed(h, g, path, k, x) ==
  /\ IsHeap(g) /\ DOMAIN g = DOMAIN h \ {k} /\ Elements(g) = Elements(h) \ {k}
  /\ \A m \in DOMAIN g : g[m].color = h[m].color
  /\ \A m \in DOMAIN g, c \in Sides :
       g[m].link[c] = IF m = Last(path).at /\ c = Last(path).side THEN x ELSE h[m].link[c]

\* rb_delete: taking out a node with one child at most puts the child in its place
LEMMA RemoveIs ==
  ASSUME NEW h, IsHeap(h), NEW sub, Sorted(h, sub), NEW path, Chain(h, path),
         NEW k \in Elements(h), Below(h, path) = k,
         NEW c \in Sides, h[k].link[1 - c] = Null, NEW x, x = h[k].link[c],
         NEW g, g = [n \in DOMAIN h \ {k} |-> Hang(h, Last(path).at, Last(path).side, x)[n]]
  PROVE  Removed(h, g, path, k, x)
<1>1. PICK at \in DOMAIN h, side \in Sides : at = Last(path).at /\ side = Last(path).side
  BY ChainHas
<1>2. h[at].link[side] = k
  BY <1>1 DEF Below
<1>3. Elements(h) \subseteq Nat \ {Null} /\ Elements(h) \subseteq DOMAIN h /\ Root \in DOMAIN h /\ Root \notin Elements(h)
      /\ \A m \in DOMAIN h, d \in Sides : h[m].link[d] \in Elements(h) \union {Null}
  BY HeapHolds DEF Elements
<1>4. at # k /\ \A m \in DOMAIN h, d \in Sides : h[m].link[d] = k => m = at /\ d = side
  BY <1>2, HangsAt
<1>5. x \in Elements(h) \union {Null} /\ x # k
  BY <1>3, <1>4
<1>6. PICK h1 : h1 = Hang(h, at, side, x)
  OBVIOUS
<1>7. Hanged(h, h1, at, side, x)
  BY <1>1, <1>5, <1>6, HangIs
<1>8. /\ IsHeap(h1) /\ DOMAIN h1 = DOMAIN h
      /\ \A m \in DOMAIN h : h1[m].color = h[m].color
      /\ \A m \in DOMAIN h, d \in Sides :
           h1[m].link[d] = IF m = at /\ d = side THEN x ELSE h[m].link[d]
  BY <1>7 DEF Hanged, SameNodes, SameColors
<1>9. PICK D, F : D = DOMAIN h /\ F = D \ {k}
  OBVIOUS
<1>10. g = [n \in F |-> h1[n]]
  BY <1>1, <1>6, <1>9
<1>11. ASSUME NEW n \in F PROVE h1[n] \in [link : [Sides -> Pointers(F)], color : Colors]
  <2>1. h1 \in [D -> [link : [Sides -> Pointers(D)], color : Colors]]
    BY <1>8, <1>9 DEF IsHeap, Heaps
  <2>2. h1[n] \in [link : [Sides -> Pointers(D)], color : Colors]
    BY <2>1, <1>9
  <2>3. \A d \in Sides : h1[n].link[d] # k
    BY <1>4, <1>5, <1>8, <1>9
  <2>4. \A d \in Sides : h1[n].link[d] \in Pointers(F)
    BY <2>2, <2>3, <1>9 DEF Pointers
  <2>5. h1[n].link \in [Sides -> Pointers(F)]
    BY <2>2, <2>4
  <2> QED BY <2>2, <2>5
<1>12. g \in [F -> [link : [Sides -> Pointers(F)], color : Colors]] /\ DOMAIN g = F
  BY <1>10, <1>11
<1>13. IsFiniteSet(F) /\ F \subseteq Nat /\ Root \in F
  BY <1>3, <1>9, FS_Subset DEF IsHeap
<1>14. IsHeap(g)
  BY <1>12, <1>13 DEF IsHeap, Heaps
<1>15. Elements(g) = Elements(h) \ {k}
  BY <1>9, <1>12 DEF Elements
<1>16. \A m \in F : g[m] = h1[m] /\ m \in DOMAIN h
  BY <1>9, <1>10
<1>17. /\ \A m \in F : g[m].color = h[m].color
       /\ \A m \in F, d \in Sides : g[m].link[d] = IF m = at /\ d = side THEN x ELSE h[m].link[d]
  <2>1. ASSUME NEW m \in F PROVE g[m].color = h[m].color
    BY <1>8, <1>16
  <2>2. ASSUME NEW m \in F, NEW d \in Sides
        PROVE  g[m].link[d] = IF m = at /\ d = side THEN x ELSE h[m].link[d]
    <3>1. m \in DOMAIN h /\ g[m].link[d] = h1[m].link[d]
      BY <1>16
    <3> QED BY <3>1, <1>8
  <2> QED BY <2>1, <2>2
<1>21. \A m \in DOMAIN g : g[m].color = h[m].color
  BY <1>12, <1>17
<1>22. \A m \in DOMAIN g, d \in Sides :
         g[m].link[d] = IF m = Last(path).at /\ d = Last(path).side THEN x ELSE h[m].link[d]
  <2>1. DOMAIN g = F
    BY <1>12
  <2>2. ASSUME NEW m \in F, NEW d \in Sides
        PROVE  g[m].link[d] = IF m = Last(path).at /\ d = Last(path).side THEN x ELSE h[m].link[d]
    <3>1. g[m].link[d] = IF m = at /\ d = side THEN x ELSE h[m].link[d]
      BY <1>17
    <3> QED BY <3>1, <1>1
  <2> QED BY <2>1, <2>2
<1>23. DOMAIN g = DOMAIN h \ {k}
  BY <1>9, <1>12
<1> QED BY <1>14, <1>15, <1>21, <1>22, <1>23 DEF Removed

SubWithout(h, sub, k) == [n \in Elements(h) \ {k} |-> sub[n] \ {k}]

\* and keeps the keys in order
LEMMA RemoveSorted ==
  ASSUME NEW h, IsHeap(h), NEW sub, Sorted(h, sub), NEW path, Chain(h, path),
         NEW k \in Elements(h), Below(h, path) = k,
         NEW c \in Sides, h[k].link[1 - c] = Null, NEW x, x = h[k].link[c],
         NEW g, Removed(h, g, path, k, x)
  PROVE  Sorted(g, SubWithout(h, sub, k)) /\ Chain(g, path) /\ Below(g, path) = x
<1>1. PICK at \in DOMAIN h, side \in Sides : at = Last(path).at /\ side = Last(path).side
  BY ChainHas
<1>2. h[at].link[side] = k
  BY <1>1 DEF Below
<1>3. Elements(h) \subseteq Nat \ {Null} /\ Elements(h) \subseteq DOMAIN h /\ Root \in DOMAIN h /\ Root \notin Elements(h)
      /\ \A m \in DOMAIN h, d \in Sides : h[m].link[d] \in Elements(h) \union {Null}
  BY HeapHolds DEF Elements
<1>4. at # k /\ \A m \in DOMAIN h, d \in Sides : h[m].link[d] = k => m = at /\ d = side
  BY <1>2, HangsAt
<1>5. x \in Elements(h) \union {Null} /\ x # k
  BY <1>3, <1>4
<1>6. /\ IsHeap(g) /\ DOMAIN g = DOMAIN h \ {k} /\ Elements(g) = Elements(h) \ {k}
      /\ \A m \in DOMAIN g, d \in Sides : g[m].link[d] = IF m = at /\ d = side THEN x ELSE h[m].link[d]
  <2>1. PICK last : last = Last(path)
    OBVIOUS
  <2>2. /\ IsHeap(g) /\ DOMAIN g = DOMAIN h \ {k} /\ Elements(g) = Elements(h) \ {k}
        /\ \A m \in DOMAIN g, d \in Sides :
             g[m].link[d] = IF m = last.at /\ d = last.side THEN x ELSE h[m].link[d]
    BY <2>1 DEF Removed
  <2> QED BY <2>1, <2>2, <1>1
<1>7. PICK new : new = SubWithout(h, sub, k)
  OBVIOUS
<1>8. \A n \in Elements(g) : new[n] = sub[n] \ {k}
  BY <1>6, <1>7 DEF SubWithout
<1>9. sub[k] = {k} \union Under(sub, x) /\ k \notin Under(sub, x)
  <2>1. \A m \in Under(sub, x) : Beside(k, c, m) /\ m \in Nat
    BY <1>3, SortedAt
  <2>2. sub[k] = {k} \union Under(sub, x)
    BY SortedAt DEF Under
  <2> QED BY <2>1, <2>2, <1>3, BesideOnce
<1>10. ASSUME NEW n \in DOMAIN g, NEW d \in Sides
       PROVE  Under(new, g[n].link[d]) = Under(sub, h[n].link[d]) \ {k}
  <2>1. n \in DOMAIN h /\ n # k
    BY <1>6
  <2>2. CASE n = at /\ d = side
    <3>1. g[n].link[d] = x /\ Under(sub, h[n].link[d]) = sub[k]
      BY <2>2, <1>2, <1>3, <1>6 DEF Under
    <3>2. Under(new, x) = Under(sub, x) \ {k}
      BY <1>5, <1>6, <1>8 DEF Under
    <3> QED BY <3>1, <3>2, <1>9
  <2>3. CASE ~(n = at /\ d = side)
    <3>1. g[n].link[d] = h[n].link[d] /\ h[n].link[d] # k /\ h[n].link[d] \in Elements(h) \union {Null}
      BY <2>1, <2>3, <1>3, <1>4, <1>6
    <3> QED BY <3>1, <1>6, <1>8 DEF Under
  <2> QED BY <2>2, <2>3
<1>11. SubIs(g, new)
  <2>1. ASSUME NEW n \in Elements(g)
        PROVE  new[n] = {n} \union Under(new, g[n].link[0]) \union Under(new, g[n].link[1])
    <3>1. n \in Elements(h) /\ n # k /\ n \in DOMAIN g /\ 0 \in Sides /\ 1 \in Sides
      BY <1>3, <1>6 DEF Sides
    <3>2. sub[n] = {n} \union Under(sub, h[n].link[0]) \union Under(sub, h[n].link[1])
      BY <3>1 DEF Sorted, SubIs
    <3> QED BY <3>1, <3>2, <1>8, <1>10
  <2>2. new \in [Elements(g) -> SUBSET Elements(g)]
    <3>1. \A n \in Elements(h) : sub[n] \subseteq Elements(h)
      BY DEF Sorted, SubIs
    <3>2. \A n \in Elements(g) : new[n] \subseteq Elements(g)
      BY <3>1, <1>6, <1>8
    <3>3. new = [n \in Elements(g) |-> new[n]]
      BY <1>6, <1>7 DEF SubWithout
    <3> QED BY <3>2, <3>3
  <2> QED BY <2>1, <2>2 DEF SubIs
<1>12. InOrder(g, new)
  <2>1. ASSUME NEW n \in Elements(g), NEW d \in Sides, NEW m \in Under(new, g[n].link[d])
        PROVE  Beside(n, d, m)
    <3>1. n \in Elements(h) /\ n \in DOMAIN g
      BY <1>3, <1>6
    <3>2. m \in Under(sub, h[n].link[d])
      BY <2>1, <3>1, <1>10
    <3> QED BY <3>1, <3>2, SortedAt
  <2> QED BY <2>1 DEF InOrder
<1>13. FromTop(g, new)
  <2>1. Root \in DOMAIN g /\ 0 \in Sides /\ 1 \in Sides
    BY <1>3, <1>6 DEF Sides
  <2>2. Under(sub, h[Root].link[0]) = Elements(h) /\ h[Root].link[1] = Null
    BY DEF Sorted, FromTop
  <2>3. ~(Root = at /\ 1 = side)
    BY <2>2, <1>2, <1>3
  <2> QED BY <2>1, <2>2, <2>3, <1>6, <1>10, Z3T(60) DEF FromTop
<1>14. OnePlace(g)
  <2>1. ASSUME NEW a \in DOMAIN g, NEW b \in DOMAIN g, NEW d \in Sides, NEW e \in Sides,
               g[a].link[d] = g[b].link[e], g[a].link[d] # Null
        PROVE  a = b /\ d = e
    <3>1. a \in DOMAIN h /\ b \in DOMAIN h /\ a # k /\ b # k /\ k \in DOMAIN h
      BY <1>3, <1>6
    <3>2. \A n \in DOMAIN h, f \in Sides : h[n].link[f] = x /\ x # Null => n = k /\ f = c
      BY <3>1 DEF Sorted, OnePlace
    <3>3. CASE (a = at /\ d = side) \/ (b = at /\ e = side)
      BY <2>1, <3>1, <3>2, <3>3, <1>6
    <3>4. CASE ~(a = at /\ d = side) /\ ~(b = at /\ e = side)
      <4>1. h[a].link[d] = h[b].link[e] /\ h[a].link[d] # Null
        BY <2>1, <3>4, <1>6
      <4>2. OnePlace(h)
        BY DEF Sorted
      <4> QED BY <3>1, <4>1, <4>2 DEF OnePlace
    <3> QED BY <3>3, <3>4
  <2> QED BY <2>1 DEF OnePlace
<1>15. PICK n \in Nat \ {0} : n = Len(path) /\ Last(path) = path[n]
  BY ChainHas
<1>16. \A i \in 1..n : path[i].at # k /\ path[i].at \in DOMAIN g /\ path[i].side \in Sides
  <2>1. ASSUME NEW i \in 1..n PROVE path[i].at # k /\ path[i].at \in DOMAIN g /\ path[i].side \in Sides
    <3>1. i \in 1..Len(path) /\ n \in i..Len(path)
      BY <1>15
    <3>2. path[i].at \notin Under(sub, Hung(h, path[n]))
      BY <3>1, ChainOutside
    <3>3. k \in Under(sub, Hung(h, path[n]))
      <4>1. Hung(h, path[n]) = k
        BY <1>15 DEF Below, Hung
      <4> QED BY <4>1, <1>3, SortedAt DEF Under
    <3>4. path[i].at \in DOMAIN h /\ path[i].side \in Sides
      BY <3>1, ChainHas
    <3> QED BY <3>2, <3>3, <3>4, <1>6
  <2> QED BY <2>1
<1>17. \A i \in 1..n - 1 : path[i].at # at
  <2>1. ASSUME NEW i \in 1..n - 1 PROVE path[i].at # at
    <3>1. i \in 1..Len(path) /\ n \in i + 1..Len(path)
      BY <1>15
    <3> QED BY <3>1, <1>1, <1>15, ChainOnce
  <2> QED BY <2>1
<1>18. Below(g, path) = x
  <2>1. at \in DOMAIN g
    BY <1>4, <1>6
  <2> QED BY <2>1, <1>1, <1>6 DEF Below
<1>19. Chain(g, path)
  <2>1. path \in Paths(DOMAIN g)
    <3>1. path \in Seq([at : DOMAIN h, side : Sides]) /\ path # <<>>
      BY ChainHas
    <3>2. \A i \in 1..n : path[i] \in [at : DOMAIN g, side : Sides]
      <4>1. \A i \in 1..n : path[i] \in [at : DOMAIN h, side : Sides]
        BY <1>15, ChainHas
      <4> QED BY <4>1, <1>16
    <3>3. path \in [1..n -> [at : DOMAIN g, side : Sides]]
      <4>1. path \in [1..n -> [at : DOMAIN h, side : Sides]]
        BY <3>1, <1>15, LenProperties
      <4>2. PICK T : T = [at : DOMAIN g, side : Sides]
        OBVIOUS
      <4>3. path \in [1..n -> T]
        BY <3>2, <4>1, <4>2
      <4> QED BY <4>2, <4>3
    <3>4. path \in Seq([at : DOMAIN g, side : Sides])
      <4>1. PICK T : T = [at : DOMAIN g, side : Sides]
        OBVIOUS
      <4>2. path \in [1..n -> T] /\ n \in Nat
        BY <3>3, <4>1
      <4>3. path \in Seq(T)
        BY <4>2, SeqDef
      <4> QED BY <4>1, <4>3
    <3> QED BY <3>1, <3>4 DEF Paths
  <2>2. ASSUME NEW i \in 1..n - 1 PROVE path[i + 1].at \in Elements(g) /\ Hung(g, path[i]) = path[i + 1].at
    <3>1. path[i + 1].at \in Elements(h) /\ Hung(h, path[i]) = path[i + 1].at
      BY <1>15 DEF Chain
    <3>2. i \in 1..n /\ i + 1 \in 1..n
      BY <1>15
    <3> QED BY <3>1, <3>2, <1>6, <1>16, <1>17 DEF Hung
  <2>3. path[1] = [at |-> Root, side |-> 0]
    BY DEF Chain
  <2> QED BY <2>1, <2>2, <2>3, <1>15 DEF Chain
<1> QED BY <1>7, <1>11, <1>12, <1>13, <1>14, <1>18, <1>19 DEF Sorted

-----------------------------------------------------------------------------
(* The loop of deletion *)

\* a sorted tree without red nodes under red ones, in which a black node may lack at entry e
Sound(h, sub, bh, e) ==
  /\ IsHeap(h) /\ Sorted(h, sub) /\ Even(h, bh, e)
  /\ \A n \in Elements(h), s \in Sides : ~(Red(h, n) /\ Red(h, h[n].link[s]))
  /\ ~Red(h, h[Root].link[0])

(* The loop's invariant: a black node lacks at the end of the path, where  *)
(* x hangs; if x is red, it may be under a red node and have red children. *)
Sinking(h, path, x, sub, bh) ==
  /\ IsHeap(h) /\ Chain(h, path) /\ Below(h, path) = x /\ Sorted(h, sub)
  /\ Even(h, bh, Last(path))
  /\ \A n \in Elements(h), s \in Sides :
       Red(h, n) /\ Red(h, h[n].link[s]) => n = x \/ (n = Last(path).at /\ s = Last(path).side)
  /\ Red(h, h[Root].link[0]) => Len(path) = 1

\* without a lacking node it is a red-black tree
LEMMA SoundIs ==
  ASSUME NEW h, NEW sub, NEW bh, Sound(h, sub, bh, TopLink)
  PROVE  RedBlackTree(h)
<1>1. RedsApart(h, TopLink)
  BY DEF Sound, RedsApart
<1> QED BY <1>1 DEF Sound, Good, RedBlackTree

\* what evenness says of a link
LEMMA LackAt ==
  ASSUME NEW h, IsHeap(h), NEW bh, NEW e, Even(h, bh, e), NEW n \in Elements(h), NEW s \in Sides
  PROVE  /\ bh[n] \in Nat /\ Blacks(bh, h[n].link[s]) \in Nat /\ Shade(h, n) \in {0, 1}
         /\ bh[n] = Blacks(bh, h[n].link[s]) + Shade(h, n) + (IF n = e.at /\ s = e.side THEN 1 ELSE 0)
<1>1. h[n].link[s] \in Elements(h) \union {Null}
  BY HeapHolds DEF Elements
<1>2. bh[n] \in Nat /\ Blacks(bh, h[n].link[s]) \in Nat
  BY <1>1 DEF Even, Blacks
<1> QED BY <1>2 DEF Even, Shade

\* the last two entries of a path that is long enough
LEMMA TwoLast ==
  ASSUME NEW h, IsHeap(h), NEW sub, Sorted(h, sub), NEW path, Chain(h, path), Len(path) # 1
  PROVE  \E n \in Nat, at \in DOMAIN h, side \in Sides, p \in Elements(h), s \in Sides :
           /\ n = Len(path) /\ n - 1 \in 1..n /\ n \in 1..n /\ n - 1 > 0 /\ n > 1
           /\ path[n - 1].at = at /\ path[n - 1].side = side
           /\ path[n].at = p /\ path[n].side = s /\ Last(path) = path[n]
           /\ h[at].link[side] = p /\ h[p].link[s] = Below(h, path)
           /\ (at = Root => n = 2 /\ side = 0)
           /\ at # p
           /\ \A m \in DOMAIN h, c \in Sides : h[m].link[c] = p => m = at /\ c = side
<1>1. PICK n \in Nat : n = Len(path) /\ n >= 2 /\ Last(path) = path[n]
  <2>1. PICK n \in Nat \ {0} : n = Len(path) /\ Last(path) = path[n]
    BY ChainHas
  <2>2. n >= 2
    BY <2>1
  <2> QED BY <2>1, <2>2
<1>2. n - 1 \in 1..n - 1 /\ n - 1 \in 1..n /\ n \in 1..n /\ n - 1 > 0 /\ n > 1 /\ (n - 1) + 1 = n
  BY <1>1
<1>3. PICK at \in DOMAIN h, side \in Sides : at = path[n - 1].at /\ side = path[n - 1].side
  BY <1>1, <1>2, ChainHas
<1>4. PICK p \in Elements(h), s \in Sides : p = path[n].at /\ s = path[n].side
  BY <1>1, <1>2, ChainHas
<1>5. Hung(h, path[n - 1]) = p
  BY <1>1, <1>2, <1>4 DEF Chain
<1>6. h[at].link[side] = p /\ h[p].link[s] = Below(h, path)
  BY <1>1, <1>3, <1>4, <1>5 DEF Hung, Below
<1>7. at # p /\ \A m \in DOMAIN h, c \in Sides : h[m].link[c] = p => m = at /\ c = side
  BY <1>6, HangsAt
<1>8. at = Root => n = 2 /\ side = 0
  <2>1. ASSUME at = Root PROVE n = 2
    <3>1. ~(n - 1 > 1)
      <4>1. n - 1 > 1 => at \in Elements(h)
        BY <1>1, <1>2, <1>3, ChainHas
      <4> QED BY <4>1, <2>1 DEF Elements
    <3> QED BY <3>1, <1>2, <1>1
  <2>2. path[1].side = 0
    BY DEF Chain
  <2>3. ASSUME at = Root PROVE side = 0
    <3>1. n - 1 = 1
      BY <2>1, <2>3
    <3> QED BY <3>1, <2>2, <1>3
  <2> QED BY <2>1, <2>3
<1> QED BY <1>1, <1>2, <1>3, <1>4, <1>6, <1>7, <1>8

\* the nodes around x, of which p lacks a black node on side s, and its sibling w
Around(h, path, x, sub, bh, n, at, side, p, s, w) ==
  /\ Sound(h, sub, bh, path[n]) /\ Chain(h, path)
  /\ n = Len(path) /\ n - 1 \in 1..n /\ n \in 1..n /\ n - 1 > 0 /\ n > 1
  /\ path[n - 1].at = at /\ path[n - 1].side = side
  /\ path[n].at = p /\ path[n].side = s /\ Last(path) = path[n]
  /\ h[at].link[side] = p /\ h[p].link[s] = x /\ h[p].link[1 - s] = w
  /\ (at = Root => n = 2 /\ side = 0)
  /\ at # p /\ w # p /\ w # at /\ w # x
  /\ \A m \in DOMAIN h, c \in Sides : h[m].link[c] = p => m = at /\ c = side
  /\ \A m \in DOMAIN h, c \in Sides : h[m].link[c] = w => m = p /\ c = 1 - s
  /\ x \in Elements(h) \union {Null} /\ ~Red(h, x)
  /\ bh[w] = Blacks(bh, x) + 1

\* a loop that goes on finds x with a parent and a sibling
LEMMA AroundIs ==
  ASSUME NEW h, NEW path, NEW x, NEW sub, NEW bh, Sinking(h, path, x, sub, bh), Len(path) # 1, ~Red(h, x)
  PROVE  \E n \in Nat, at \in DOMAIN h, side \in Sides, p \in Elements(h), s \in Sides, w \in Elements(h) :
           Around(h, path, x, sub, bh, n, at, side, p, s, w)
<1>1. IsHeap(h) /\ Chain(h, path) /\ Sorted(h, sub) /\ Even(h, bh, Last(path)) /\ Below(h, path) = x
  BY DEF Sinking
<1>2. PICK n \in Nat, at \in DOMAIN h, side \in Sides, p \in Elements(h), s \in Sides :
           /\ n = Len(path) /\ n - 1 \in 1..n /\ n \in 1..n /\ n - 1 > 0 /\ n > 1
           /\ path[n - 1].at = at /\ path[n - 1].side = side
           /\ path[n].at = p /\ path[n].side = s /\ Last(path) = path[n]
           /\ h[at].link[side] = p /\ h[p].link[s] = Below(h, path)
           /\ (at = Root => n = 2 /\ side = 0)
           /\ at # p
           /\ \A m \in DOMAIN h, c \in Sides : h[m].link[c] = p => m = at /\ c = side
  BY <1>1, TwoLast
<1>3. Elements(h) \subseteq Nat \ {Null} /\ Elements(h) \subseteq DOMAIN h
      /\ \A m \in DOMAIN h, c \in Sides : h[m].link[c] \in Elements(h) \union {Null}
  BY <1>1, HeapHolds DEF Elements
<1>4. 1 - s \in Sides /\ 1 - s # s
  BY OtherSide
<1>5. x \in Elements(h) \union {Null} /\ h[p].link[s] = x
  BY <1>1, <1>2, <1>3
<1>6. PICK w : w = h[p].link[1 - s]
  OBVIOUS
<1>7. Blacks(bh, w) = Blacks(bh, x) + 1 /\ Blacks(bh, x) \in Nat
  <2>1. /\ Blacks(bh, x) \in Nat /\ Shade(h, p) \in {0, 1}
        /\ bh[p] = Blacks(bh, x) + Shade(h, p) + 1
    BY <1>1, <1>2, <1>5, LackAt
  <2>2. /\ Blacks(bh, w) \in Nat
        /\ bh[p] = Blacks(bh, w) + Shade(h, p)
    BY <1>1, <1>2, <1>4, <1>6, LackAt
  <2> QED BY <2>1, <2>2
<1>8. w \in Elements(h)
  <2>1. w \in Elements(h) \union {Null}
    BY <1>3, <1>4, <1>6
  <2> QED BY <2>1, <1>7 DEF Blacks
<1>9. w # p /\ \A m \in DOMAIN h, c \in Sides : h[m].link[c] = w => m = p /\ c = 1 - s
  BY <1>1, <1>3, <1>4, <1>6, <1>8, HangsAt
<1>10. w # at
  <2>1. at \notin sub[p]
    BY <1>1, <1>2, HangsAt
  <2>2. w \in sub[p]
    BY <1>1, <1>3, <1>4, <1>6, <1>8, SortedAt
  <2> QED BY <2>1, <2>2
<1>11. w # x
  BY <1>3, <1>4, <1>5, <1>9
<1>12. bh[w] = Blacks(bh, x) + 1
  BY <1>3, <1>7, <1>8 DEF Blacks
<1>13. Sound(h, sub, bh, path[n])
  <2>1. \A m \in Elements(h), c \in Sides : Red(h, m) /\ Red(h, h[m].link[c]) => m = x \/ (m = p /\ c = s)
    BY <1>2 DEF Sinking
  <2>2. \A m \in Elements(h), c \in Sides : ~(Red(h, m) /\ Red(h, h[m].link[c]))
    BY <2>1, <1>5
  <2>3. ~Red(h, h[Root].link[0])
    BY DEF Sinking
  <2> QED BY <2>2, <2>3, <1>1, <1>2 DEF Sound
<1>14. Around(h, path, x, sub, bh, n, at, side, p, s, w)
  BY <1>1, <1>2, <1>5, <1>6, <1>9, <1>10, <1>11, <1>12, <1>13 DEF Around
<1> QED BY <1>8, <1>14

\* x, which was black, went down under its red child y, and got y's color for its own
Swung(h, g, x, c, at, side, y) ==
  /\ SameNodes(h, g)
  /\ \A m \in DOMAIN h, d \in Sides :
       g[m].link[d] = IF m = x /\ d = c THEN h[y].link[1 - c]
                      ELSE IF m = y /\ d = 1 - c THEN x
                      ELSE IF m = at /\ d = side THEN y
                      ELSE h[m].link[d]
  /\ \A m \in DOMAIN h : g[m].color = IF m = y THEN "black" ELSE IF m = x THEN "red" ELSE h[m].color

\* this keeps the tree sound: the cases 1 and 3
LEMMA SwungSound ==
  ASSUME NEW h, NEW sub, NEW bh, NEW e, Sound(h, sub, bh, e), NEW x \in Elements(h), NEW c \in Sides,
         NEW y, y = h[x].link[c], Red(h, y), ~Red(h, h[x].link[1 - c]),
         NEW at \in DOMAIN h, NEW side \in Sides, h[at].link[side] = x,
         ~(e.at = x /\ e.side = c), e.at # y, ~(e.at = at /\ e.side = side),
         NEW g, g = Rotate(Paint(Paint(h, y, "black"), x, "red"), x, c, at, side)
  PROVE  /\ y \in Elements(h) /\ y # at /\ y # x /\ x # at
         /\ Swung(h, g, x, c, at, side, y)
         /\ \E sub2, bh2 : Sound(g, sub2, bh2, e)
<1>1. /\ IsHeap(h) /\ Sorted(h, sub) /\ Even(h, bh, e)
      /\ \A m \in Elements(h), d \in Sides : ~(Red(h, m) /\ Red(h, h[m].link[d]))
      /\ ~Red(h, h[Root].link[0])
  BY DEF Sound
<1>3. Elements(h) \subseteq Nat \ {Null} /\ Elements(h) \subseteq DOMAIN h /\ Root \in DOMAIN h /\ Root \notin Elements(h)
      /\ \A m \in DOMAIN h, d \in Sides : h[m].link[d] \in Elements(h) \union {Null}
  BY <1>1, HeapHolds DEF Elements
<1>4. PICK t \in Sides : t = 1 - c /\ t # c /\ Sides = {c, t} /\ 1 - t = c /\ 0 \in Sides
  BY OtherSide DEF Sides
<1>5. y \in Elements(h)
  BY <1>3 DEF Red
<1>6. /\ x # at /\ \A m \in DOMAIN h, d \in Sides : h[m].link[d] = x => m = at /\ d = side
      /\ y # x /\ \A m \in DOMAIN h, d \in Sides : h[m].link[d] = y => m = x /\ d = c
  BY <1>1, <1>3, <1>5, HangsAt
<1>7. ~Red(h, x)
  BY <1>1
<1>8. PICK h1 : h1 = Paint(Paint(h, y, "black"), x, "red")
  OBVIOUS
<1>9. PaintedTwo(h, h1, y, "black", x, "red")
  <2>1. "red" \in Colors /\ "black" \in Colors /\ x \in DOMAIN h /\ y \in DOMAIN h
    BY <1>3, <1>5 DEF Colors
  <2> QED BY <1>1, <1>8, <2>1, PaintTwoIs
<1>10. /\ IsHeap(h1) /\ DOMAIN h1 = DOMAIN h /\ Elements(h1) = Elements(h) /\ SameNodes(h, h1) /\ SameLinks(h, h1)
       /\ \A m \in DOMAIN h, d \in Sides : h1[m].link[d] = h[m].link[d]
       /\ \A m \in DOMAIN h : h1[m].color = IF m = x THEN "red" ELSE IF m = y THEN "black" ELSE h[m].color
  BY <1>9 DEF PaintedTwo, SameNodes, SameLinks
<1>11. Sorted(h1, sub)
  BY <1>1, <1>10, SameLinksSorted
<1>12. g = Rotate(h1, x, c, at, side)
  BY <1>8
<1>13. y # at /\ Rotated(h1, g, x, c, at, side, y) /\ Sorted(g, Turned(h1, sub, x, y, c))
  <2>1. /\ x \in Elements(h1) /\ at \in DOMAIN h1 /\ h1[at].link[side] = x
        /\ y = h1[x].link[c] /\ y # Null
    BY <1>1, <1>3, <1>5, <1>10
  <2> QED BY <2>1, <1>1, <1>10, <1>11, <1>12, RotateSorted
<1>14. /\ IsHeap(g) /\ DOMAIN g = DOMAIN h /\ Elements(g) = Elements(h)
       /\ \A m \in DOMAIN h, d \in Sides :
            g[m].link[d] = IF m = x /\ d = c THEN h[y].link[t]
                           ELSE IF m = y /\ d = t THEN x
                           ELSE IF m = at /\ d = side THEN y
                           ELSE h[m].link[d]
       /\ \A m \in DOMAIN h : g[m].color = IF m = y THEN "black" ELSE IF m = x THEN "red" ELSE h[m].color
  <2>1. IsHeap(g) /\ DOMAIN g = DOMAIN h /\ Elements(g) = Elements(h)
    BY <1>10, <1>13 DEF Rotated, SameNodes
  <2>2. ASSUME NEW m \in DOMAIN h
        PROVE  g[m].color = IF m = y THEN "black" ELSE IF m = x THEN "red" ELSE h[m].color
    <3>1. g[m].color = h1[m].color
      BY <1>10, <1>13 DEF Rotated, SameColors
    <3> QED BY <3>1, <1>6, <1>10
  <2>3. ASSUME NEW m \in DOMAIN h, NEW d \in Sides
        PROVE  g[m].link[d] = IF m = x /\ d = c THEN h[y].link[t]
                              ELSE IF m = y /\ d = t THEN x
                              ELSE IF m = at /\ d = side THEN y
                              ELSE h[m].link[d]
    <3>1. g[m].link[d] = IF m = x /\ d = c THEN h1[y].link[t]
                         ELSE IF m = y /\ d = t THEN x
                         ELSE IF m = at /\ d = side THEN y
                         ELSE h1[m].link[d]
      <4>1. Rotated(h1, g, x, c, at, side, y)
        BY <1>13
      <4>2. m \in DOMAIN h1 /\ 1 - c = t
        BY <1>4, <1>10
      <4> QED BY <4>1, <4>2 DEF Rotated
    <3>2. h1[y].link[t] = h[y].link[t] /\ h1[m].link[d] = h[m].link[d]
      BY <1>3, <1>5, <1>10
    <3> QED BY <3>1, <3>2
  <2> QED BY <2>1, <2>2, <2>3
<1>15. /\ \A m \in Elements(h) : Red(g, m) <=> m = x \/ (Red(h, m) /\ m # y)
       /\ \A m \in Elements(h) : m # x /\ m # y => Shade(g, m) = Shade(h, m)
       /\ Shade(g, x) = 0 /\ Shade(g, y) = 1 /\ Shade(h, x) = 1 /\ Shade(h, y) = 0
       /\ ~Red(g, Null)
  <2>1. ~Red(g, Null)
    BY DEF Red
  <2>2. ASSUME NEW m \in Elements(h) PROVE Red(g, m) <=> m = x \/ (Red(h, m) /\ m # y)
    <3>1. m # Null /\ m \in DOMAIN h /\ y # x
      BY <1>3, <1>6
    <3>2. g[m].color = IF m = y THEN "black" ELSE IF m = x THEN "red" ELSE h[m].color
      BY <3>1, <1>14
    <3> QED BY <3>1, <3>2 DEF Red
  <2>3. Red(g, x) /\ ~Red(g, y)
    BY <2>2, <1>1, <1>5, <1>6
  <2> QED BY <2>1, <2>2, <2>3, <1>1, <1>5, <1>7 DEF Shade
<1>16. \A m \in Elements(h) : bh[m] \in Nat
  BY <1>1 DEF Even
<1>17. bh[x] = bh[y] + 1
  <2>1. bh[x] = Blacks(bh, h[x].link[c]) + Shade(h, x) + 0 /\ Blacks(bh, h[x].link[c]) \in Nat
    BY <1>1, LackAt
  <2> QED BY <2>1, <1>3, <1>5, <1>15 DEF Blacks
<1>18. PICK new : new = [m \in Elements(h) |-> IF m = y THEN bh[x] ELSE IF m = x THEN bh[y] ELSE bh[m]]
  OBVIOUS
<1>19. new \in [Elements(g) -> Nat]
  BY <1>5, <1>14, <1>16, <1>18
<1>20. \A z \in Elements(h) \union {Null} : z # x /\ z # y => Blacks(new, z) = Blacks(bh, z)
  BY <1>18 DEF Blacks
<1>21. new[x] = bh[y] /\ new[y] = bh[x] /\ Blacks(new, x) = bh[y] /\ Blacks(new, y) = bh[x]
  BY <1>3, <1>5, <1>6, <1>18 DEF Blacks
<1>22. ASSUME NEW m \in Elements(h), NEW d \in Sides
       PROVE  /\ new[m] = Blacks(new, g[m].link[d]) + Shade(g, m) + (IF m = e.at /\ d = e.side THEN 1 ELSE 0)
              /\ ~(Red(g, m) /\ Red(g, g[m].link[d]))
  <2> DEFINE more == IF m = e.at /\ d = e.side THEN 1 ELSE 0
  <2>1. /\ bh[m] = Blacks(bh, h[m].link[d]) + Shade(h, m) + more
        /\ bh[m] \in Nat /\ Blacks(bh, h[m].link[d]) \in Nat /\ more \in {0, 1}
    BY <1>1, LackAt
  <2>2. h[m].link[d] \in Elements(h) \union {Null}
    BY <1>3
  <2>3. CASE m = x /\ d = c
    <3>1. PICK z \in Elements(h) \union {Null} : z = h[y].link[t]
      BY <1>3, <1>5
    <3>2. z # x /\ z # y
      BY <3>1, <1>3, <1>4, <1>5, <1>6, <1>13
    <3>3. bh[y] = Blacks(bh, z) + Shade(h, y) + 0 /\ Blacks(bh, z) \in Nat
      BY <3>1, <1>1, <1>5, LackAt
    <3>4. ~Red(h, z)
      BY <3>1, <1>1, <1>4, <1>5
    <3>5. ~Red(g, z)
      BY <3>1, <3>2, <3>4, <1>15
    <3>6. g[m].link[d] = z /\ more = 0
      BY <2>3, <3>1, <1>3, <1>14
    <3> QED BY <2>3, <3>1, <3>2, <3>3, <3>5, <3>6, <1>15, <1>20, <1>21, ZenonT(60)
  <2>4. CASE m = x /\ d = t
    <3>1. g[m].link[d] = h[x].link[t] /\ h[x].link[t] # x /\ h[x].link[t] # y
      BY <2>4, <1>1, <1>3, <1>4, <1>5, <1>6, <1>14, ZenonT(60)
    <3>2. ~Red(g, h[x].link[t])
      BY <2>2, <2>4, <3>1, <1>1, <1>4, <1>15
    <3>3. Blacks(new, g[m].link[d]) = Blacks(bh, h[x].link[t])
      BY <2>2, <2>4, <3>1, <1>20
    <3>4. new[x] = bh[y] /\ Shade(g, x) = 0 /\ Shade(h, x) = 1 /\ bh[x] = bh[y] + 1 /\ bh[y] \in Nat
      BY <1>5, <1>15, <1>16, <1>17, <1>21
    <3>5. ~Red(g, g[m].link[d])
      BY <3>1, <3>2
    <3>6. bh[x] = Blacks(bh, h[x].link[t]) + 1 + more /\ Blacks(bh, h[x].link[t]) \in Nat /\ more \in {0, 1}
      BY <2>1, <2>4, <3>4
    <3> HIDE DEF more
    <3>7. new[m] = Blacks(new, g[m].link[d]) + Shade(g, m) + more
      BY <2>4, <3>3, <3>4, <3>6
    <3> QED BY <3>5, <3>7 DEF more
  <2>5. CASE m = y /\ d = t
    <3>1. g[m].link[d] = x /\ more = 0
      BY <2>5, <1>3, <1>4, <1>6, <1>14
    <3>2. ~Red(g, y)
      BY <1>5, <1>6, <1>15
    <3>3. bh[x] \in Nat /\ new[y] = bh[x] /\ Blacks(new, x) = bh[y] /\ bh[x] = bh[y] + 1 /\ Shade(g, y) = 1
      BY <1>15, <1>16, <1>17, <1>21
    <3> QED BY <2>5, <3>1, <3>2, <3>3
  <2>6. CASE m = y /\ d = c
    <3>1. g[m].link[d] = h[y].link[c] /\ h[y].link[c] # x /\ h[y].link[c] # y /\ more = 0
      BY <2>6, <1>3, <1>4, <1>6, <1>13, <1>14, ZenonT(60)
    <3>2. Blacks(new, g[m].link[d]) = Blacks(bh, h[y].link[c])
      BY <2>2, <2>6, <3>1, <1>20
    <3>3. new[y] = bh[y] + 1 /\ Shade(g, y) = 1 /\ Shade(h, y) = 0 /\ ~Red(g, y) /\ bh[y] \in Nat
      <4>1. ~Red(g, y)
        BY <1>5, <1>6, <1>15
      <4> QED BY <4>1, <1>5, <1>15, <1>16, <1>17, <1>21
    <3>4. /\ bh[m] = Blacks(bh, h[m].link[d]) + Shade(h, m) + more
          /\ Blacks(bh, h[m].link[d]) \in Nat
      BY <2>1
    <3>5. more = 0
      BY <3>1
    <3> HIDE DEF more
    <3>6. bh[y] = Blacks(bh, h[y].link[c]) /\ Blacks(bh, h[y].link[c]) \in Nat
      BY <3>4, <2>6, <3>3, <3>5
    <3>7. new[m] = Blacks(new, g[m].link[d]) + Shade(g, m) + more
      <4>1. new[y] = Blacks(bh, h[y].link[c]) + 1 + 0
        BY <3>3, <3>6
      <4> QED BY <4>1, <2>6, <3>2, <3>3, <3>5
    <3>8. ~Red(g, m)
      BY <2>6, <3>3
    <3> QED BY <3>7, <3>8 DEF more
  <2>7. CASE m = at /\ d = side
    <3>1. g[m].link[d] = y /\ h[m].link[d] = x /\ m # x /\ m # y /\ more = 0
      BY <2>7, <1>1, <1>3, <1>6, <1>13, <1>14
    <3>2. Blacks(bh, x) = bh[x]
      BY <1>1, <1>3 DEF Blacks
    <3>3. new[m] = bh[m] /\ Shade(g, m) = Shade(h, m)
      BY <3>1, <1>15, <1>18
    <3>4. /\ bh[m] = Blacks(bh, h[m].link[d]) + Shade(h, m) + more
          /\ Blacks(bh, h[m].link[d]) \in Nat
      BY <2>1
    <3> HIDE DEF more
    <3>5. Blacks(new, g[m].link[d]) = Blacks(bh, h[m].link[d])
      BY <3>1, <3>2, <1>21
    <3>6. new[m] = Blacks(new, g[m].link[d]) + Shade(g, m) + more
      BY <3>3, <3>4, <3>5
    <3>7. ~Red(g, g[m].link[d])
      BY <3>1, <1>5, <1>6, <1>15
    <3> QED BY <3>6, <3>7 DEF more
  <2>8. CASE m # x /\ m # y /\ ~(m = at /\ d = side)
    <3>1. g[m].link[d] = h[m].link[d] /\ h[m].link[d] # x /\ h[m].link[d] # y
      <4>1. m \in DOMAIN h
        BY <1>3
      <4>2. g[m].link[d] = h[m].link[d]
        BY <4>1, <2>8, <1>14
      <4> QED BY <4>1, <4>2, <2>8, <1>6
    <3>2. new[m] = bh[m] /\ Shade(g, m) = Shade(h, m)
      BY <2>8, <1>15, <1>18
    <3>3. ~(Red(h, m) /\ Red(h, h[m].link[d]))
      BY <1>1
    <3> QED BY <2>1, <2>2, <2>8, <3>1, <3>2, <3>3, <1>15, <1>20
  <2> QED BY <2>3, <2>4, <2>5, <2>6, <2>7, <2>8, <1>4
<1>23. Even(g, new, e)
  <2>1. Elements(g) = Elements(h)
    BY <1>14
  <2>2. \A m \in Elements(g), d \in Sides :
          new[m] = Blacks(new, g[m].link[d]) + Shade(g, m) + (IF m = e.at /\ d = e.side THEN 1 ELSE 0)
    BY <2>1, <1>22
  <2> QED BY <2>2, <1>19 DEF Even
<1>25. ~Red(g, g[Root].link[0])
  <2>1. h[Root].link[0] \in Elements(h) \union {Null} /\ Root # x /\ Root # y
    BY <1>1, <1>3, <1>4, <1>5
  <2>2. CASE at = Root /\ side = 0
    <3>1. g[Root].link[0] = y
      BY <2>1, <2>2, <1>3, <1>4, <1>6, <1>14, ZenonT(60)
    <3>2. y # x
      BY <1>6
    <3>3. ~Red(g, y)
      BY <3>2, <1>5, <1>15
    <3> QED BY <3>1, <3>3
  <2>3. CASE ~(at = Root /\ side = 0)
    <3>1. h[Root].link[0] # x
      BY <2>3, <1>3, <1>4, <1>6
    <3>2. g[Root].link[0] = IF Root = x /\ 0 = c THEN h[y].link[t]
                            ELSE IF Root = y /\ 0 = t THEN x
                            ELSE IF Root = at /\ 0 = side THEN y
                            ELSE h[Root].link[0]
      <4>1. Root \in DOMAIN h /\ 0 \in Sides
        BY <1>3, <1>4
      <4> QED BY <4>1, <1>14
    <3>3. g[Root].link[0] = h[Root].link[0]
      BY <2>1, <2>3, <3>2
    <3> QED BY <2>1, <3>1, <3>3, <1>1, <1>15
  <2> QED BY <2>2, <2>3
<1>26. Swung(h, g, x, c, at, side, y)
  <2>1. SameNodes(h, g)
    BY <1>14 DEF SameNodes
  <2>2. \A m \in DOMAIN h, d \in Sides :
          g[m].link[d] = IF m = x /\ d = c THEN h[y].link[1 - c]
                         ELSE IF m = y /\ d = 1 - c THEN x
                         ELSE IF m = at /\ d = side THEN y
                         ELSE h[m].link[d]
    <3> SUFFICES ASSUME NEW m \in DOMAIN h, NEW d \in Sides
                 PROVE  g[m].link[d] = IF m = x /\ d = c THEN h[y].link[t]
                                       ELSE IF m = y /\ d = t THEN x
                                       ELSE IF m = at /\ d = side THEN y
                                       ELSE h[m].link[d]
      BY <1>4
    <3> QED BY <1>14
  <2> QED BY <2>1, <2>2, <1>14 DEF Swung
<1>27. Sound(g, Turned(h1, sub, x, y, c), new, e)
  <2>1. \A m \in Elements(g), d \in Sides : ~(Red(g, m) /\ Red(g, g[m].link[d]))
    <3>1. Elements(g) = Elements(h)
      BY <1>14
    <3>2. \A m \in Elements(h), d \in Sides : ~(Red(g, m) /\ Red(g, g[m].link[d]))
      BY <1>22
    <3> QED BY <3>1, <3>2, Zenon
  <2> QED BY <2>1, <1>13, <1>14, <1>23, <1>25 DEF Sound
<1> QED BY <1>5, <1>6, <1>13, <1>26, <1>27

\* where case 4 applies: node p lacks a black node on side s, its sibling w has a red child f
Short(h, sub, bh, p, s, at, side, w, f) ==
  /\ Sound(h, sub, bh, [at |-> p, side |-> s])
  /\ h[at].link[side] = p /\ h[p].link[1 - s] = w /\ h[w].link[1 - s] = f
  /\ ~Red(h, w) /\ ~Red(h, h[p].link[s]) /\ Red(h, f)

\* case 4: the sibling's other child, which was red, makes up for the black node that lacked
LEMMA ReplenishSound ==
  ASSUME NEW h, NEW sub, NEW bh, NEW p \in Elements(h), NEW s \in Sides,
         NEW at \in DOMAIN h, NEW side \in Sides, NEW w \in Elements(h), NEW f,
         Short(h, sub, bh, p, s, at, side, w, f),
         NEW g, g = Rotate(Paint(Paint(Paint(h, w, h[p].color), p, "black"), f, "black"), p, 1 - s, at, side)
  PROVE  DOMAIN g = DOMAIN h /\ RedBlackTree(g)
<1>1. /\ IsHeap(h) /\ Sorted(h, sub) /\ Even(h, bh, [at |-> p, side |-> s])
      /\ \A m \in Elements(h), d \in Sides : ~(Red(h, m) /\ Red(h, h[m].link[d]))
      /\ ~Red(h, h[Root].link[0])
      /\ h[at].link[side] = p /\ ~Red(h, w) /\ ~Red(h, h[p].link[s]) /\ Red(h, f)
  BY DEF Short, Sound
<1>2. /\ Elements(h) \subseteq Nat \ {Null} /\ Elements(h) \subseteq DOMAIN h /\ Root \in DOMAIN h /\ Root \notin Elements(h)
      /\ \A m \in DOMAIN h, d \in Sides : h[m].link[d] \in Elements(h) \union {Null}
      /\ \A m \in DOMAIN h : h[m].color \in Colors
  BY <1>1, HeapHolds DEF Elements
<1>3. PICK t \in Sides : t = 1 - s /\ t # s /\ Sides = {s, t} /\ 1 - t = s /\ 0 \in Sides
  BY <1>1, OtherSide DEF Sides
<1>28. w = h[p].link[t] /\ f = h[w].link[t]
  BY <1>3 DEF Short
<1>4. f \in Elements(h)
  BY <1>1, <1>2, <1>3, <1>28 DEF Red
<1>29. ASSUME NEW m \in Elements(h), NEW d \in Sides
       PROVE  /\ bh[m] = Blacks(bh, h[m].link[d]) + Shade(h, m) + (IF m = p /\ d = s THEN 1 ELSE 0)
              /\ Blacks(bh, h[m].link[d]) \in Nat /\ Shade(h, m) \in {0, 1} /\ bh[m] \in Nat
  <2>1. PICK e : e = [at |-> p, side |-> s]
    OBVIOUS
  <2>2. e.at = p /\ e.side = s /\ Even(h, bh, e)
    BY <2>1, <1>1
  <2>3. /\ bh[m] \in Nat /\ Blacks(bh, h[m].link[d]) \in Nat /\ Shade(h, m) \in {0, 1}
        /\ bh[m] = Blacks(bh, h[m].link[d]) + Shade(h, m) + (IF m = e.at /\ d = e.side THEN 1 ELSE 0)
    BY <2>2, <1>1, LackAt
  <2> QED BY <2>2, <2>3
<1>5. /\ p # at /\ \A m \in DOMAIN h, d \in Sides : h[m].link[d] = p => m = at /\ d = side
      /\ w # p /\ \A m \in DOMAIN h, d \in Sides : h[m].link[d] = w => m = p /\ d = t
      /\ f # w /\ \A m \in DOMAIN h, d \in Sides : h[m].link[d] = f => m = w /\ d = t
  <2>1. at # p /\ \A m \in DOMAIN h, d \in Sides : h[m].link[d] = p => m = at /\ d = side
    BY <1>1, HangsAt
  <2>2. p \in DOMAIN h /\ w \in DOMAIN h
    BY <1>2
  <2>3. p # w /\ \A m \in DOMAIN h, d \in Sides : h[m].link[d] = w => m = p /\ d = t
    BY <2>2, <1>1, <1>28, HangsAt
  <2>4. w # f /\ \A m \in DOMAIN h, d \in Sides : h[m].link[d] = f => m = w /\ d = t
    BY <2>2, <1>1, <1>4, <1>28, HangsAt
  <2> QED BY <2>1, <2>3, <2>4
<1>6. /\ at \notin sub[p] /\ w \in sub[p] /\ f \in sub[w] /\ sub[w] \subseteq sub[p]
  <2>1. at \notin sub[p]
    BY <1>1, HangsAt
  <2>2. w # Null /\ f # Null
    BY <1>2, <1>4
  <2>3. w \in Under(sub, w) /\ Under(sub, w) \subseteq sub[p]
    BY <2>2, <1>1, <1>28, SortedAt
  <2>4. f \in Under(sub, f) /\ Under(sub, f) \subseteq sub[w]
    BY <2>2, <1>1, <1>28, SortedAt
  <2> QED BY <2>1, <2>2, <2>3, <2>4 DEF Under
<1>7. w # at /\ f # at /\ f # p
  <2>1. p \notin sub[w]
    <3>1. p \in DOMAIN h
      BY <1>2
    <3> QED BY <3>1, <1>1, <1>28, HangsAt
  <2> QED BY <2>1, <1>6
<1>8. PICK h1 : h1 = Paint(Paint(Paint(h, w, h[p].color), p, "black"), f, "black")
  OBVIOUS
<1>9. PaintedThree(h, h1, w, h[p].color, p, "black", f, "black")
  <2>1. h[p].color \in Colors /\ "black" \in Colors /\ w \in DOMAIN h /\ p \in DOMAIN h /\ f \in DOMAIN h
    BY <1>2, <1>4 DEF Colors
  <2> QED BY <2>1, <1>1, <1>8, PaintThreeIs
<1>10. /\ IsHeap(h1) /\ DOMAIN h1 = DOMAIN h /\ Elements(h1) = Elements(h) /\ SameNodes(h, h1) /\ SameLinks(h, h1)
       /\ \A m \in DOMAIN h, d \in Sides : h1[m].link[d] = h[m].link[d]
       /\ \A m \in DOMAIN h : h1[m].color = IF m = f THEN "black" ELSE IF m = p THEN "black"
                                             ELSE IF m = w THEN h[p].color ELSE h[m].color
  BY <1>9 DEF PaintedThree, SameNodes, SameLinks
<1>11. Sorted(h1, sub)
  BY <1>1, <1>10, SameLinksSorted
<1>12. g = Rotate(h1, p, t, at, side)
  BY <1>3, <1>8
<1>13. Rotated(h1, g, p, t, at, side, w) /\ Sorted(g, Turned(h1, sub, p, w, t))
  <2>1. /\ p \in Elements(h1) /\ at \in DOMAIN h1 /\ h1[at].link[side] = p
        /\ w = h1[p].link[t] /\ w # Null
    BY <1>1, <1>2, <1>3, <1>10, <1>28
  <2> QED BY <2>1, <1>1, <1>10, <1>11, <1>12, RotateSorted
<1>14. /\ IsHeap(g) /\ DOMAIN g = DOMAIN h /\ Elements(g) = Elements(h)
       /\ \A m \in DOMAIN h, d \in Sides :
            g[m].link[d] = IF m = p /\ d = t THEN h[w].link[s]
                           ELSE IF m = w /\ d = s THEN p
                           ELSE IF m = at /\ d = side THEN w
                           ELSE h[m].link[d]
       /\ \A m \in DOMAIN h : g[m].color = IF m = f THEN "black" ELSE IF m = p THEN "black"
                                             ELSE IF m = w THEN h[p].color ELSE h[m].color
  <2>1. SameNodes(h1, g) /\ SameColors(h1, g)
    BY <1>13 DEF Rotated
  <2>2. \A m \in DOMAIN h1, d \in Sides :
            g[m].link[d] = IF m = p /\ d = t THEN h1[w].link[s]
                           ELSE IF m = w /\ d = s THEN p
                           ELSE IF m = at /\ d = side THEN w
                           ELSE h1[m].link[d]
    BY <1>3, <1>13 DEF Rotated
  <2>3. h1[w].link[s] = h[w].link[s]
    BY <1>2, <1>10
  <2>4. IsHeap(g) /\ DOMAIN g = DOMAIN h /\ Elements(g) = Elements(h) /\ \A m \in DOMAIN h : g[m].color = h1[m].color
    BY <2>1, <1>10 DEF SameNodes, SameColors
  <2>5. ASSUME NEW m \in DOMAIN h, NEW d \in Sides
        PROVE  g[m].link[d] = IF m = p /\ d = t THEN h[w].link[s]
                              ELSE IF m = w /\ d = s THEN p
                              ELSE IF m = at /\ d = side THEN w
                              ELSE h[m].link[d]
    <3>1. m \in DOMAIN h1 /\ h1[m].link[d] = h[m].link[d]
      BY <1>10
    <3> QED BY <3>1, <2>2, <2>3
  <2> QED BY <2>4, <2>5, <1>10
<1>15. /\ \A m \in Elements(h) : Red(g, m) <=> (m = w /\ Red(h, p)) \/ (Red(h, m) /\ m # p /\ m # w /\ m # f)
       /\ \A m \in Elements(h) : m # p /\ m # w /\ m # f => Shade(g, m) = Shade(h, m)
       /\ Shade(g, p) = 1 /\ Shade(g, f) = 1 /\ Shade(g, w) = Shade(h, p)
       /\ Shade(h, f) = 0 /\ Shade(h, w) = 1
       /\ ~Red(g, Null)
  <2>1. ~Red(g, Null)
    BY DEF Red
  <2>2. ASSUME NEW m \in Elements(h)
        PROVE  Red(g, m) <=> (m = w /\ Red(h, p)) \/ (Red(h, m) /\ m # p /\ m # w /\ m # f)
    <3>1. m # Null /\ p # Null /\ m \in DOMAIN h /\ w # p /\ f # w /\ f # p
      BY <1>2, <1>4, <1>5, <1>7
    <3>2. g[m].color = IF m = f THEN "black" ELSE IF m = p THEN "black"
                       ELSE IF m = w THEN h[p].color ELSE h[m].color
      BY <3>1, <1>14
    <3> QED BY <3>1, <3>2 DEF Red
  <2>3. ~Red(g, p) /\ ~Red(g, f) /\ (Red(g, w) <=> Red(h, p))
    BY <2>2, <1>2, <1>4, <1>5, <1>7
  <2>4. Red(h, f) /\ ~Red(h, w)
    BY <1>1
  <2> QED BY <2>1, <2>2, <2>3, <2>4 DEF Shade
<1>16. \A m \in Elements(h) : bh[m] \in Nat
  BY <1>1 DEF Even
<1>17. PICK x \in Elements(h) \union {Null}, near \in Elements(h) \union {Null} : x = h[p].link[s] /\ near = h[w].link[s]
  BY <1>2
<1>18. /\ bh[p] = Blacks(bh, x) + Shade(h, p) + 1 /\ Blacks(bh, x) \in Nat /\ Shade(h, p) \in {0, 1}
       /\ bh[p] = bh[w] + Shade(h, p)
  <2>1. /\ bh[p] = Blacks(bh, x) + Shade(h, p) + 1 /\ Blacks(bh, x) \in Nat /\ Shade(h, p) \in {0, 1}
    BY <1>1, <1>17, <1>29
  <2>2. bh[p] = Blacks(bh, w) + Shade(h, p) + 0 /\ Blacks(bh, w) \in Nat
    BY <1>3, <1>28, <1>29
  <2>3. Blacks(bh, w) = bh[w]
    BY <1>2 DEF Blacks
  <2> QED BY <2>1, <2>2, <2>3
<1>19. bh[w] = Blacks(bh, near) + 1 /\ Blacks(bh, near) \in Nat /\ bh[w] = bh[f] + 1
  <2>1. bh[w] = Blacks(bh, near) + Shade(h, w) + 0 /\ Blacks(bh, near) \in Nat
    BY <1>1, <1>5, <1>17, <1>29
  <2>2. bh[w] = Blacks(bh, f) + Shade(h, w) + 0 /\ Blacks(bh, f) \in Nat
    BY <1>3, <1>5, <1>28, <1>29
  <2>3. Blacks(bh, f) = bh[f]
    BY <1>2, <1>4 DEF Blacks
  <2> QED BY <2>1, <2>2, <2>3, <1>15
<1>20. PICK new : new = [m \in Elements(h) |-> IF m = w THEN bh[p] ELSE IF m = p \/ m = f THEN bh[w] ELSE bh[m]]
  OBVIOUS
<1>21. new \in [Elements(g) -> Nat]
  BY <1>14, <1>16, <1>20
<1>22. \A z \in Elements(h) \union {Null} : z # p /\ z # w /\ z # f => Blacks(new, z) = Blacks(bh, z)
  BY <1>20 DEF Blacks
<1>23. /\ new[p] = bh[w] /\ new[w] = bh[p] /\ new[f] = bh[w]
       /\ Blacks(new, p) = bh[w] /\ Blacks(new, w) = bh[p] /\ Blacks(new, f) = bh[w]
  BY <1>2, <1>4, <1>5, <1>7, <1>20 DEF Blacks
<1>24. ASSUME NEW m \in Elements(h), NEW d \in Sides
       PROVE  /\ new[m] = Blacks(new, g[m].link[d]) + Shade(g, m)
              /\ ~(Red(g, m) /\ Red(g, g[m].link[d]))
  <2>1. h[m].link[d] \in Elements(h) \union {Null}
    BY <1>2
  <2>2. CASE m = p /\ d = t
    <3>1. g[m].link[d] = near /\ near # p /\ near # w /\ near # f
      BY <2>2, <1>2, <1>3, <1>5, <1>7, <1>14, <1>17
    <3> QED BY <2>2, <3>1, <1>7, <1>5, <1>15, <1>17, <1>19, <1>22, <1>23
  <2>3. CASE m = p /\ d = s
    <3>1. g[m].link[d] = x /\ x # p /\ x # w /\ x # f
      BY <2>3, <1>2, <1>3, <1>5, <1>7, <1>14, <1>17
    <3> QED BY <2>3, <3>1, <1>5, <1>7, <1>15, <1>16, <1>18, <1>22, <1>23
  <2>4. CASE m = w /\ d = s
    <3>1. g[m].link[d] = p
      BY <2>4, <1>2, <1>3, <1>5, <1>14
    <3> QED BY <2>4, <3>1, <1>5, <1>15, <1>18, <1>23
  <2>5. CASE m = w /\ d = t
    <3>1. g[m].link[d] = f
      BY <2>5, <1>2, <1>3, <1>5, <1>7, <1>14, <1>28
    <3> QED BY <2>5, <3>1, <1>4, <1>5, <1>15, <1>18, <1>23
  <2>6. CASE m = f
    <3>1. PICK z \in Elements(h) \union {Null} : z = h[f].link[d]
      BY <2>6, <2>1
    <3>2. z # p /\ z # w /\ z # f
      BY <3>1, <1>2, <1>4, <1>5, <1>7
    <3>3. g[m].link[d] = z
      BY <2>6, <3>1, <1>2, <1>4, <1>5, <1>7, <1>14
    <3>4. bh[f] = Blacks(bh, z) + Shade(h, f) + 0 /\ Blacks(bh, z) \in Nat
      BY <3>1, <1>1, <1>4, <1>7, <1>29
    <3> QED BY <2>6, <3>2, <3>3, <3>4, <1>4, <1>5, <1>15, <1>19, <1>22, <1>23
  <2>7. CASE m = at /\ d = side
    <3>1. g[m].link[d] = w /\ h[m].link[d] = p /\ m # p /\ m # w /\ m # f
      BY <2>7, <1>1, <1>2, <1>5, <1>7, <1>14
    <3>2. bh[m] = Blacks(bh, p) + Shade(h, m) + 0 /\ Blacks(bh, p) \in Nat /\ Blacks(bh, p) = bh[p]
      BY <2>7, <3>1, <1>1, <1>2, <1>29 DEF Blacks
    <3>3. new[m] = bh[m] /\ Shade(g, m) = Shade(h, m)
      BY <3>1, <1>15, <1>20
    <3>4. ~(Red(h, m) /\ Red(h, p))
      BY <3>1, <1>1
    <3>5. Shade(h, m) \in Nat
      BY DEF Shade
    <3> QED BY <3>1, <3>2, <3>3, <3>4, <3>5, <1>5, <1>15, <1>23
  <2>8. CASE m # p /\ m # w /\ m # f /\ ~(m = at /\ d = side)
    <3>1. g[m].link[d] = h[m].link[d] /\ h[m].link[d] # p /\ h[m].link[d] # w /\ h[m].link[d] # f
      BY <2>8, <1>2, <1>5, <1>14
    <3>2. new[m] = bh[m] /\ Shade(g, m) = Shade(h, m)
      BY <2>8, <1>15, <1>20
    <3>3. ~(Red(h, m) /\ Red(h, h[m].link[d]))
      BY <1>1
    <3>4. /\ bh[m] = Blacks(bh, h[m].link[d]) + Shade(h, m) + 0
          /\ Blacks(bh, h[m].link[d]) \in Nat /\ Shade(h, m) \in {0, 1}
      BY <2>8, <1>1, <1>29
    <3> QED BY <2>1, <2>8, <3>1, <3>2, <3>3, <3>4, <1>15, <1>22
  <2> QED BY <2>2, <2>3, <2>4, <2>5, <2>6, <2>7, <2>8, <1>3
<1>25. Even(g, new, TopLink)
  BY <1>14, <1>21, <1>24, EvenIs
<1>26. ~Red(g, g[Root].link[0])
  <2>1. h[Root].link[0] \in Elements(h) \union {Null} /\ Root # p /\ Root # w
    BY <1>2, <1>3
  <2>2. CASE at = Root /\ side = 0
    BY <2>1, <2>2, <1>1, <1>2, <1>3, <1>5, <1>14, <1>15
  <2>3. CASE ~(at = Root /\ side = 0)
    <3>1. g[Root].link[0] = h[Root].link[0] /\ h[Root].link[0] # p /\ h[Root].link[0] # w
      BY <2>1, <2>3, <1>2, <1>3, <1>5, <1>14
    <3> QED BY <2>1, <3>1, <1>1, <1>15
  <2> QED BY <2>2, <2>3
<1>27. Sound(g, Turned(h1, sub, p, w, t), new, TopLink)
  BY <1>13, <1>14, <1>24, <1>25, <1>26 DEF Sound
<1> QED BY <1>14, <1>27, SoundIs

\* case 1 goes down with x, under a parent that is red now
LEMMA LowerSinks ==
  ASSUME NEW h, NEW path, NEW x, NEW sub, NEW bh, NEW n \in Nat, NEW at \in DOMAIN h, NEW side \in Sides,
         NEW p \in Elements(h), NEW s \in Sides, NEW w \in Elements(h),
         Around(h, path, x, sub, bh, n, at, side, p, s, w), Red(h, w),
         NEW a, a = LowerParent(h, path, x)
  PROVE  /\ DOMAIN a.heap = DOMAIN h /\ a.x = x /\ Len(a.path) = n + 1
         /\ Red(a.heap, Last(a.path).at)
         /\ \E sub2, bh2 : Sinking(a.heap, a.path, x, sub2, bh2)
<1>1. /\ Sound(h, sub, bh, path[n]) /\ Chain(h, path)
      /\ n = Len(path) /\ n - 1 \in 1..n /\ n \in 1..n /\ n - 1 > 0 /\ n > 1
      /\ path[n - 1].at = at /\ path[n - 1].side = side
      /\ path[n].at = p /\ path[n].side = s /\ Last(path) = path[n]
      /\ h[at].link[side] = p /\ h[p].link[s] = x /\ h[p].link[1 - s] = w
      /\ at # p /\ w # p /\ w # at /\ w # x
      /\ \A m \in DOMAIN h, c \in Sides : h[m].link[c] = p => m = at /\ c = side
      /\ \A m \in DOMAIN h, c \in Sides : h[m].link[c] = w => m = p /\ c = 1 - s
      /\ x \in Elements(h) \union {Null} /\ ~Red(h, x)
  BY DEF Around
<1>2. IsHeap(h) /\ Sorted(h, sub) /\ ~Red(h, p)
  <2>1. 1 - s \in Sides
    BY OtherSide
  <2>2. ~(Red(h, p) /\ Red(h, h[p].link[1 - s]))
    BY <2>1, <1>1 DEF Sound
  <2> QED BY <2>2, <1>1 DEF Sound
<1>3. Elements(h) \subseteq Nat \ {Null} /\ Elements(h) \subseteq DOMAIN h /\ Root \in DOMAIN h /\ Root \notin Elements(h)
      /\ \A m \in DOMAIN h, d \in Sides : h[m].link[d] \in Elements(h) \union {Null}
  BY <1>2, HeapHolds DEF Elements
<1>4. PICK t \in Sides : t = 1 - s /\ t # s /\ Sides = {s, t} /\ 1 - t = s
  BY OtherSide
<1>5. PICK g : g = Rotate(Paint(Paint(h, w, "black"), p, "red"), p, t, at, side)
  OBVIOUS
<1>6. /\ Swung(h, g, p, t, at, side, w)
      /\ \E sub2, bh2 : Sound(g, sub2, bh2, path[n])
  <2>1. w = h[p].link[t] /\ ~Red(h, h[p].link[1 - t])
    BY <1>1, <1>4
  <2>2. /\ ~(path[n].at = p /\ path[n].side = t) /\ path[n].at # w
        /\ ~(path[n].at = at /\ path[n].side = side)
    BY <1>1, <1>4
  <2> QED BY <2>1, <2>2, <1>1, <1>5, SwungSound
<1>7. PICK sub2, bh2 : Sound(g, sub2, bh2, path[n])
  BY <1>6
<1>8. /\ IsHeap(g) /\ DOMAIN g = DOMAIN h /\ Elements(g) = Elements(h)
      /\ \A m \in DOMAIN h, d \in Sides :
            g[m].link[d] = IF m = p /\ d = t THEN h[w].link[s]
                           ELSE IF m = w /\ d = s THEN p
                           ELSE IF m = at /\ d = side THEN w
                           ELSE h[m].link[d]
      /\ \A m \in DOMAIN h : g[m].color = IF m = w THEN "black" ELSE IF m = p THEN "red" ELSE h[m].color
  BY <1>4, <1>6 DEF Swung, SameNodes
<1>9. PICK T : T = [at : DOMAIN h, side : Sides]
  OBVIOUS
<1>10. path \in Seq(T) /\ path # <<>> /\ \A i \in 1..n : path[i] \in T /\ path[i].at \in DOMAIN h /\ path[i].side \in Sides
  BY <1>1, <1>2, <1>9, ChainHas
<1>11. PICK q : q = [path EXCEPT ![n].at = w]
  OBVIOUS
<1>12. /\ q \in Seq(T) /\ Len(q) = n
       /\ \A i \in 1..n - 1 : q[i] = path[i]
       /\ q[n] = [at |-> w, side |-> s]
  <2>1. path \in [1..n -> T] /\ n \in Nat
    BY <1>1, <1>10, LenProperties
  <2>2. PICK e : e = [at |-> w, side |-> s]
    OBVIOUS
  <2>3. e \in T
    BY <2>2, <1>3, <1>9
  <2>4. [path[n] EXCEPT !.at = w] = e
    BY <2>2, <1>1, <1>9, <1>10
  <2>5. q = [path EXCEPT ![n] = e]
    BY <2>4, <1>11
  <2>6. q \in [1..n -> T]
    BY <2>1, <2>3, <2>5
  <2>7. q \in Seq(T) /\ Len(q) = n
    BY <2>6, <2>1, SeqDef, LenProperties
  <2>8. \A i \in 1..n : i # n => q[i] = path[i]
    BY <2>1, <2>5
  <2>9. q[n] = e
    BY <2>1, <2>5, <1>1
  <2> QED BY <2>2, <2>7, <2>8, <2>9, <1>1
<1>13. PICK f : f = [at |-> p, side |-> s]
  OBVIOUS
<1>14. PICK r : r = q \o <<f>>
  OBVIOUS
<1>15. /\ r \in Seq(T) \ {<<>>} /\ Len(r) = n + 1
       /\ \A i \in 1..n : r[i] = q[i]
       /\ r[n + 1] = f
  <2>1. f \in T
    BY <1>3, <1>9, <1>13
  <2>2. q \in Seq(T)
    BY <1>12
  <2>3. /\ q \o <<f>> \in Seq(T) \ {<<>>}
        /\ Len(q \o <<f>>) = Len(q) + 1 /\ Len(q) \in Nat
        /\ \A i \in 1..Len(q) : (q \o <<f>>)[i] = q[i]
        /\ (q \o <<f>>)[Len(q) + 1] = f
    BY <2>1, <2>2, StepIs
  <2> QED BY <2>3, <1>12, <1>14
<1>16. a.heap = g /\ a.path = r /\ a.x = x
  BY <1>1, <1>4, <1>5, <1>11, <1>13, <1>14 DEF LowerParent, Step
<1>17. /\ \A i \in 1..n - 1 : r[i] = path[i]
       /\ r[n] = [at |-> w, side |-> s] /\ r[n + 1] = [at |-> p, side |-> s]
  BY <1>1, <1>12, <1>13, <1>15
<1>18. \A i \in 1..n - 1 : path[i].at \notin {p, w} /\ (i # n - 1 => path[i].at # at)
  <2>1. ASSUME NEW i \in 1..n - 1 PROVE path[i].at \notin {p, w} /\ (i # n - 1 => path[i].at # at)
    <3>1. i \in 1..Len(path) /\ n \in i + 1..Len(path) /\ n - 1 \in i..Len(path)
      BY <1>1
    <3>2. path[i].at # p
      BY <3>1, <1>1, <1>2, ChainOnce
    <3>3. path[i].at \notin Under(sub, Hung(h, path[n - 1]))
      BY <3>1, <1>1, <1>2, ChainOutside
    <3>4. Under(sub, Hung(h, path[n - 1])) = sub[p]
      BY <1>1, <1>3 DEF Hung, Under
    <3>5. w \in sub[p]
      BY <1>1, <1>2, <1>3, <1>4, SortedAt
    <3>6. i # n - 1 => path[i].at # at
      <4>1. i # n - 1 => n - 1 \in i + 1..Len(path)
        BY <1>1
      <4> QED BY <4>1, <3>1, <1>1, <1>2, ChainOnce
    <3> QED BY <3>2, <3>3, <3>4, <3>5, <3>6
  <2> QED BY <2>1
<1>19. Chain(g, r)
  <2>1. r \in Paths(DOMAIN g)
    BY <1>8, <1>9, <1>15 DEF Paths
  <2>2. r[1] = [at |-> Root, side |-> 0]
    BY <1>1, <1>17 DEF Chain
  <2>3. ASSUME NEW i \in 1..n PROVE r[i + 1].at \in Elements(g) /\ Hung(g, r[i]) = r[i + 1].at
    <3>1. CASE i = n
      <4>1. Hung(g, r[i]) = g[w].link[s]
        BY <3>1, <1>17 DEF Hung
      <4>2. g[w].link[s] = p
        BY <1>1, <1>3, <1>8
      <4> QED BY <3>1, <4>1, <4>2, <1>8, <1>17
    <3>2. CASE i = n - 1
      <4>1. i + 1 = n /\ i \in 1..n - 1
        BY <3>2, <1>1
      <4>2. Hung(g, r[i]) = g[at].link[side]
        BY <3>2, <4>1, <1>1, <1>17 DEF Hung
      <4>3. g[at].link[side] = w
        BY <1>1, <1>3, <1>8
      <4> QED BY <4>1, <4>2, <4>3, <1>8, <1>17
    <3>3. CASE i < n - 1
      <4>1. i \in 1..n - 1 /\ i + 1 \in 1..n - 1 /\ i # n - 1
        BY <3>3, <1>1
      <4>2. path[i + 1].at \in Elements(h) /\ Hung(h, path[i]) = path[i + 1].at
        BY <4>1, <1>1 DEF Chain
      <4>3. path[i].at \in DOMAIN h /\ path[i].side \in Sides
        BY <4>1, <1>1, <1>10
      <4>4. Hung(g, path[i]) = Hung(h, path[i])
        BY <4>1, <4>3, <1>8, <1>18 DEF Hung
      <4> QED BY <4>1, <4>2, <4>4, <1>8, <1>17
    <3> QED BY <3>1, <3>2, <3>3, <1>1
  <2>4. Len(r) - 1 = n
    BY <1>15
  <2> QED BY <2>1, <2>2, <2>3, <2>4 DEF Chain
<1>20. Last(r) = [at |-> p, side |-> s]
  BY <1>15, <1>17 DEF Last
<1>21. Last(r) = path[n]
  <2>1. path[n] \in T
    BY <1>1, <1>10
  <2> QED BY <2>1, <1>1, <1>9, <1>20
<1>22. Below(g, r) = x
  <2>1. Below(g, r) = g[p].link[s]
    BY <1>20 DEF Below
  <2> QED BY <2>1, <1>1, <1>3, <1>4, <1>8
<1>23. Red(g, p)
  BY <1>1, <1>3, <1>8 DEF Red
<1>24. Sinking(g, r, x, sub2, bh2)
  BY <1>7, <1>19, <1>21, <1>22 DEF Sinking, Sound
<1> QED BY <1>8, <1>15, <1>16, <1>20, <1>23, <1>24

\* case 2 makes the sibling red: now a black node lacks at the parent
LEMMA RaiseSinks ==
  ASSUME NEW h, NEW path, NEW x, NEW sub, NEW bh, NEW n \in Nat, NEW at \in DOMAIN h, NEW side \in Sides,
         NEW p \in Elements(h), NEW s \in Sides, NEW w \in Elements(h),
         Around(h, path, x, sub, bh, n, at, side, p, s, w), ~Red(h, w),
         \A c \in Sides : ~Red(h, h[w].link[c]),
         NEW g, g = Paint(h, w, "red"),
         NEW q, Chain(h, q), Len(q) = n - 1, Last(q) = path[n - 1]
  PROVE  /\ DOMAIN g = DOMAIN h /\ (Red(g, p) <=> Red(h, p))
         /\ \E bh2 : Sinking(g, q, p, sub, bh2)
<1>1. /\ Sound(h, sub, bh, path[n]) /\ Chain(h, path)
      /\ n = Len(path) /\ n - 1 \in 1..n /\ n \in 1..n /\ n - 1 > 0 /\ n > 1
      /\ path[n - 1].at = at /\ path[n - 1].side = side
      /\ path[n].at = p /\ path[n].side = s /\ Last(path) = path[n]
      /\ h[at].link[side] = p /\ h[p].link[s] = x /\ h[p].link[1 - s] = w
      /\ (at = Root => n = 2 /\ side = 0)
      /\ at # p /\ w # p /\ w # at /\ w # x
      /\ \A m \in DOMAIN h, c \in Sides : h[m].link[c] = p => m = at /\ c = side
      /\ \A m \in DOMAIN h, c \in Sides : h[m].link[c] = w => m = p /\ c = 1 - s
      /\ x \in Elements(h) \union {Null} /\ ~Red(h, x)
      /\ bh[w] = Blacks(bh, x) + 1
  BY DEF Around
<1>2. /\ IsHeap(h) /\ Sorted(h, sub) /\ Even(h, bh, path[n])
      /\ \A m \in Elements(h), c \in Sides : ~(Red(h, m) /\ Red(h, h[m].link[c]))
      /\ ~Red(h, h[Root].link[0])
  BY <1>1 DEF Sound
<1>3. Elements(h) \subseteq Nat \ {Null} /\ Elements(h) \subseteq DOMAIN h /\ Root \in DOMAIN h /\ Root \notin Elements(h)
      /\ \A m \in DOMAIN h, d \in Sides : h[m].link[d] \in Elements(h) \union {Null}
  BY <1>2, HeapHolds DEF Elements
<1>4. PICK t \in Sides : t = 1 - s /\ t # s /\ Sides = {s, t} /\ 0 \in Sides
  BY OtherSide DEF Sides
<1>5. Painted(h, g, w, "red")
  <2>1. w \in DOMAIN h /\ "red" \in Colors
    BY <1>3 DEF Colors
  <2> QED BY <2>1, <1>2, PaintIs
<1>6. /\ IsHeap(g) /\ DOMAIN g = DOMAIN h /\ Elements(g) = Elements(h) /\ SameNodes(h, g) /\ SameLinks(h, g)
      /\ \A m \in DOMAIN h, c \in Sides : g[m].link[c] = h[m].link[c]
      /\ \A m \in DOMAIN h : g[m].color = IF m = w THEN "red" ELSE h[m].color
  BY <1>5 DEF Painted, SameNodes, SameLinks
<1>7. /\ \A m \in Elements(h) : Red(g, m) <=> m = w \/ Red(h, m)
      /\ \A m \in Elements(h) : m # w => Shade(g, m) = Shade(h, m)
      /\ Shade(g, w) = 0 /\ Shade(h, w) = 1 /\ ~Red(g, Null)
  BY <1>3, <1>6 DEF Red, Shade
<1>8. Below(h, q) = p
  BY <1>1 DEF Below
<1>9. Chain(g, q) /\ Below(g, q) = p
  BY <1>2, <1>6, <1>8, SameLinksChain
<1>10. Sorted(g, sub)
  BY <1>2, <1>6, SameLinksSorted
<1>11. ASSUME NEW m \in Elements(h), NEW d \in Sides
       PROVE  /\ bh[m] = Blacks(bh, h[m].link[d]) + Shade(h, m) + (IF m = p /\ d = s THEN 1 ELSE 0)
              /\ Blacks(bh, h[m].link[d]) \in Nat /\ Shade(h, m) \in {0, 1} /\ bh[m] \in Nat
  <2>1. PICK e : e = path[n]
    OBVIOUS
  <2>2. e.at = p /\ e.side = s /\ Even(h, bh, e)
    BY <2>1, <1>1, <1>2
  <2>3. /\ bh[m] \in Nat /\ Blacks(bh, h[m].link[d]) \in Nat /\ Shade(h, m) \in {0, 1}
        /\ bh[m] = Blacks(bh, h[m].link[d]) + Shade(h, m) + (IF m = e.at /\ d = e.side THEN 1 ELSE 0)
    BY <2>2, <1>2, LackAt
  <2> QED BY <2>2, <2>3
<1>12. bh[p] = Blacks(bh, x) + Shade(h, p) + 1 /\ Blacks(bh, x) \in Nat /\ Shade(h, p) \in {0, 1}
  BY <1>1, <1>11
<1>13. PICK new : new = [m \in Elements(h) |-> IF m = p \/ m = w THEN bh[m] - 1 ELSE bh[m]]
  OBVIOUS
<1>14. /\ new[p] = Blacks(bh, x) + Shade(h, p) /\ new[w] = Blacks(bh, x)
       /\ Blacks(new, p) = new[p] /\ Blacks(new, w) = new[w]
       /\ \A m \in Elements(h) : m # p /\ m # w => new[m] = bh[m]
       /\ \A z \in Elements(h) \union {Null} : z # p /\ z # w => Blacks(new, z) = Blacks(bh, z)
  <2>1. new[p] = bh[p] - 1 /\ new[w] = bh[w] - 1
    BY <1>13
  <2>2. new[p] = Blacks(bh, x) + Shade(h, p) /\ new[w] = Blacks(bh, x)
    BY <2>1, <1>1, <1>12
  <2>3. p # Null /\ w # Null
    BY <1>3
  <2> QED BY <2>2, <2>3, <1>13 DEF Blacks
<1>15. new \in [Elements(g) -> Nat]
  <2>1. \A m \in Elements(h) : new[m] \in Nat
    <3>1. ASSUME NEW m \in Elements(h) PROVE new[m] \in Nat
      <4>1. bh[m] \in Nat
        BY <1>4, <1>11
      <4>2. new[p] \in Nat /\ new[w] \in Nat
        BY <1>12, <1>14
      <4> QED BY <4>1, <4>2, <1>14
    <3> QED BY <3>1
  <2> QED BY <2>1, <1>6, <1>13
<1>16. ASSUME NEW m \in Elements(h), NEW d \in Sides
       PROVE  /\ new[m] = Blacks(new, g[m].link[d]) + Shade(g, m) + (IF m = at /\ d = side THEN 1 ELSE 0)
              /\ Red(g, m) /\ Red(g, g[m].link[d]) => m = p
  <2>1. g[m].link[d] = h[m].link[d] /\ h[m].link[d] \in Elements(h) \union {Null}
    BY <1>3, <1>6
  <2>2. /\ bh[m] = Blacks(bh, h[m].link[d]) + Shade(h, m) + (IF m = p /\ d = s THEN 1 ELSE 0)
        /\ Blacks(bh, h[m].link[d]) \in Nat /\ Shade(h, m) \in {0, 1} /\ bh[m] \in Nat
    BY <1>11
  <2>3. CASE m = p /\ d = s
    <3>1. x # p /\ x # w
      BY <1>1, <1>3
    <3> QED BY <2>1, <2>3, <3>1, <1>1, <1>7, <1>12, <1>14
  <2>4. CASE m = p /\ d = t
    <3>1. h[m].link[d] = w
      BY <2>4, <1>1, <1>4
    <3> QED BY <2>1, <2>4, <3>1, <1>1, <1>7, <1>12, <1>14
  <2>5. CASE m = w
    <3>1. h[m].link[d] # p /\ h[m].link[d] # w /\ ~Red(h, h[m].link[d])
      BY <2>5, <1>1, <1>3
    <3>2. ~Red(g, h[m].link[d])
      BY <2>1, <3>1, <1>7
    <3>3. bh[w] = Blacks(bh, h[m].link[d]) + 1 + 0
      BY <2>2, <2>5, <1>1, <1>7
    <3> QED BY <2>1, <2>2, <2>5, <3>1, <3>2, <3>3, <1>1, <1>7, <1>12, <1>14
  <2>6. CASE m = at /\ d = side
    <3>1. h[m].link[d] = p /\ m # p /\ m # w
      BY <2>6, <1>1
    <3>2. ~(Red(h, m) /\ Red(h, p))
      BY <3>1, <1>2
    <3>3. bh[m] = bh[p] + Shade(h, m) + 0
      BY <2>2, <3>1, <1>3 DEF Blacks
    <3>4. ~(Red(g, m) /\ Red(g, p))
      BY <3>1, <3>2, <1>1, <1>7
    <3> QED BY <2>1, <2>2, <2>6, <3>1, <3>3, <3>4, <1>7, <1>12, <1>14
  <2>7. CASE m # p /\ m # w /\ ~(m = at /\ d = side)
    <3>1. h[m].link[d] # p /\ h[m].link[d] # w
      BY <2>7, <1>1, <1>3
    <3>2. ~(Red(h, m) /\ Red(h, h[m].link[d]))
      BY <1>2
    <3>3. ~(Red(g, m) /\ Red(g, h[m].link[d]))
      BY <2>1, <2>7, <3>1, <3>2, <1>7
    <3> QED BY <2>1, <2>2, <2>7, <3>1, <3>3, <1>7, <1>14
  <2> QED BY <2>3, <2>4, <2>5, <2>6, <2>7, <1>4
<1>17. PICK e : e = Last(q)
  OBVIOUS
<1>18. e.at = at /\ e.side = side
  BY <1>1, <1>17
<1>19. Even(g, new, e)
  BY <1>6, <1>15, <1>16, <1>18 DEF Even
<1>20. Red(g, g[Root].link[0]) => Len(q) = 1
  <2>1. ASSUME Red(g, g[Root].link[0]) PROVE FALSE
    <3>1. g[Root].link[0] = h[Root].link[0] /\ h[Root].link[0] \in Elements(h) \union {Null}
      BY <1>3, <1>4, <1>6
    <3>2. h[Root].link[0] # w
      BY <1>1, <1>3, <1>4
    <3> QED BY <2>1, <3>1, <3>2, <1>2, <1>7
  <2> QED BY <2>1
<1>21. Sinking(g, q, p, sub, new)
  BY <1>6, <1>9, <1>10, <1>16, <1>17, <1>19, <1>20 DEF Sinking
<1>22. Red(g, p) <=> Red(h, p)
  BY <1>1, <1>7
<1> QED BY <1>6, <1>21, <1>22

\* the cases 3 and 4 end the loop with a red-black tree
LEMMA ReplenishIs ==
  ASSUME NEW h, NEW path, NEW x, NEW sub, NEW bh, NEW n \in Nat, NEW at \in DOMAIN h, NEW side \in Sides,
         NEW p \in Elements(h), NEW s \in Sides, NEW w \in Elements(h),
         Around(h, path, x, sub, bh, n, at, side, p, s, w), ~Red(h, w),
         ~\A c \in Sides : ~Red(h, h[w].link[c]),
         NEW g, g = Replenish(TurnSibling(h, path), path)
  PROVE  DOMAIN g = DOMAIN h /\ RedBlackTree(g)
<1>1. /\ Sound(h, sub, bh, path[n]) /\ Chain(h, path)
      /\ n = Len(path) /\ n - 1 \in 1..n /\ n \in 1..n /\ n - 1 > 0 /\ n > 1
      /\ path[n - 1].at = at /\ path[n - 1].side = side
      /\ path[n].at = p /\ path[n].side = s
      /\ h[at].link[side] = p /\ h[p].link[s] = x /\ h[p].link[1 - s] = w
      /\ at # p /\ w # p /\ w # at /\ w # x
      /\ ~Red(h, x)
  BY DEF Around
<1>2. IsHeap(h) /\ Sorted(h, sub)
  BY <1>1 DEF Sound
<1>3. Elements(h) \subseteq Nat \ {Null} /\ Elements(h) \subseteq DOMAIN h
      /\ \A m \in DOMAIN h, d \in Sides : h[m].link[d] \in Elements(h) \union {Null}
  BY <1>2, HeapHolds DEF Elements
<1>4. PICK t \in Sides : t = 1 - s /\ t # s /\ Sides = {s, t} /\ 1 - t = s
  BY OtherSide
<1>5. path[n] = [at |-> p, side |-> s]
  <2>1. path[n] \in [at : DOMAIN h, side : Sides]
    BY <1>1, <1>2, ChainHas
  <2> QED BY <2>1, <1>1
<1>6. PICK k : k = TurnSibling(h, path)
  OBVIOUS
<1>7. PICK v, f, sub2, bh2 : v \in Elements(h) /\ DOMAIN k = DOMAIN h /\ Elements(k) = Elements(h)
                                             /\ Short(k, sub2, bh2, p, s, at, side, v, f)
  <2>1. CASE Red(h, h[w].link[t])
    <3>1. k = h
      BY <2>1, <1>1, <1>4, <1>6 DEF TurnSibling
    <3>2. Short(h, sub, bh, p, s, at, side, w, h[w].link[t])
      BY <2>1, <1>1, <1>4, <1>5 DEF Short
    <3> QED BY <3>1, <3>2
  <2>2. CASE ~Red(h, h[w].link[t])
    <3>1. PICK near : near = h[w].link[s] /\ Red(h, near)
      BY <2>2, <1>4
    <3>2. k = Rotate(Paint(Paint(h, near, "black"), w, "red"), w, s, p, t)
      BY <2>2, <3>1, <1>1, <1>4, <1>6 DEF TurnSibling
    <3>3. /\ near \in Elements(h) /\ near # p /\ near # w
          /\ Swung(h, k, w, s, p, t, near)
          /\ \E sub2, bh2 : Sound(k, sub2, bh2, path[n])
      <4>1. p \in DOMAIN h /\ h[p].link[t] = w /\ ~Red(h, h[w].link[1 - s])
        BY <2>2, <1>1, <1>3, <1>4
      <4>2. path[n].at # near
        <5>1. near \in Elements(h) /\ w \in DOMAIN h /\ p \in DOMAIN h
          BY <3>1, <1>3 DEF Red
        <5>2. near \in sub[w]
          BY <5>1, <3>1, <1>2, <1>3, SortedAt
        <5>3. p \notin sub[w]
          BY <4>1, <5>1, <1>2, HangsAt
        <5> QED BY <5>2, <5>3, <1>1
      <4>3. ~(path[n].at = w /\ path[n].side = s) /\ ~(path[n].at = p /\ path[n].side = t)
        BY <1>1, <1>4
      <4> QED BY <4>1, <4>2, <4>3, <3>1, <3>2, <1>1, SwungSound
    <3>4. PICK sub2, bh2 : Sound(k, sub2, bh2, path[n])
      BY <3>3
    <3>5. /\ DOMAIN k = DOMAIN h /\ Elements(k) = Elements(h)
          /\ \A m \in DOMAIN h, d \in Sides :
                k[m].link[d] = IF m = w /\ d = s THEN h[near].link[t]
                               ELSE IF m = near /\ d = t THEN w
                               ELSE IF m = p /\ d = t THEN near
                               ELSE h[m].link[d]
          /\ \A m \in DOMAIN h : k[m].color = IF m = near THEN "black" ELSE IF m = w THEN "red" ELSE h[m].color
      BY <3>3, <1>4 DEF Swung, SameNodes
    <3>6. near # at
      <4>1. at \notin sub[p]
        BY <1>1, <1>2, HangsAt
      <4>2. near \in sub[w] /\ sub[w] \subseteq sub[p]
        <5>1. w # Null /\ near # Null
          BY <3>3, <1>3
        <5>2. near \in Under(sub, near) /\ Under(sub, near) \subseteq sub[w]
          BY <5>1, <3>1, <1>2, SortedAt
        <5>3. Under(sub, w) \subseteq sub[p]
          BY <1>1, <1>2, <1>4, SortedAt
        <5> QED BY <5>1, <5>2, <5>3 DEF Under
      <4> QED BY <4>1, <4>2
    <3>7. k[at].link[side] = p /\ k[p].link[s] = x /\ k[p].link[t] = near /\ k[near].link[t] = w
      BY <3>3, <3>5, <3>6, <1>1, <1>3, <1>4
    <3>8. ~Red(k, near) /\ Red(k, w)
      BY <3>3, <3>5, <1>3 DEF Red
    <3>9. ~Red(k, x)
      <4>1. x \in Elements(h) \union {Null} /\ x # w
        BY <1>1, <1>3
      <4> QED BY <4>1, <3>5, <1>1, <1>3 DEF Red
    <3>10. Short(k, sub2, bh2, p, s, at, side, near, w)
      BY <3>4, <3>7, <3>8, <3>9, <1>4, <1>5 DEF Short
    <3> QED BY <3>3, <3>5, <3>10
  <2> QED BY <2>1, <2>2
<1>8. k[p].link[1 - s] = v /\ k[v].link[1 - s] = f
  BY <1>7 DEF Short
<1>9. g = Rotate(Paint(Paint(Paint(k, v, k[p].color), p, "black"), f, "black"), p, 1 - s, at, side)
  <2>1. path[Len(path)].at = p /\ path[Len(path)].side = s
        /\ path[Len(path) - 1].at = at /\ path[Len(path) - 1].side = side
    BY <1>1
  <2> QED BY <2>1, <1>6, <1>8 DEF Replenish
<1> QED BY <1>7, <1>9, ReplenishSound

\* after the loop x gets the black node that lacks
LEMMA SinkEnds ==
  ASSUME NEW h, NEW path, NEW x, NEW sub, NEW bh, Sinking(h, path, x, sub, bh),
         Len(path) = 1 \/ Red(h, x), NEW g, g = IF x = Null THEN h ELSE Paint(h, x, "black")
  PROVE  DOMAIN g = DOMAIN h /\ RedBlackTree(g)
<1>1. /\ IsHeap(h) /\ Chain(h, path) /\ Below(h, path) = x /\ Sorted(h, sub)
      /\ Even(h, bh, Last(path))
      /\ \A n \in Elements(h), s \in Sides :
           Red(h, n) /\ Red(h, h[n].link[s]) => n = x \/ (n = Last(path).at /\ s = Last(path).side)
      /\ Red(h, h[Root].link[0]) => Len(path) = 1
  BY DEF Sinking
<1>2. /\ Elements(h) \subseteq Nat \ {Null} /\ Elements(h) \subseteq DOMAIN h /\ Root \in DOMAIN h /\ Root \notin Elements(h)
      /\ \A m \in DOMAIN h, d \in Sides : h[m].link[d] \in Elements(h) \union {Null}
      /\ 0 \in Sides /\ "black" \in Colors
  BY <1>1, HeapHolds DEF Elements, Sides, Colors
<1>3. PICK at \in DOMAIN h, side \in Sides : at = Last(path).at /\ side = Last(path).side /\ h[at].link[side] = x
  BY <1>1, ChainHas DEF Below
<1>4. Len(path) = 1 => at = Root /\ side = 0
  <2>1. path[1] = [at |-> Root, side |-> 0]
    BY <1>1 DEF Chain
  <2> QED BY <2>1, <1>3 DEF Last
<1>5. ASSUME NEW m \in Elements(h), NEW d \in Sides
      PROVE  /\ bh[m] = Blacks(bh, h[m].link[d]) + Shade(h, m) + (IF m = at /\ d = side THEN 1 ELSE 0)
             /\ Blacks(bh, h[m].link[d]) \in Nat /\ Shade(h, m) \in {0, 1} /\ bh[m] \in Nat
  <2>1. PICK e : e = Last(path)
    OBVIOUS
  <2>2. e.at = at /\ e.side = side /\ Even(h, bh, e)
    BY <2>1, <1>1, <1>3
  <2>3. /\ bh[m] \in Nat /\ Blacks(bh, h[m].link[d]) \in Nat /\ Shade(h, m) \in {0, 1}
        /\ bh[m] = Blacks(bh, h[m].link[d]) + Shade(h, m) + (IF m = e.at /\ d = e.side THEN 1 ELSE 0)
    BY <2>2, <1>1, LackAt
  <2> QED BY <2>2, <2>3
<1>6. bh \in [Elements(h) -> Nat]
  BY <1>1 DEF Even
<1>7. CASE x = Null
  <2>1. g = h /\ at = Root /\ side = 0 /\ ~Red(h, x)
    BY <1>7, <1>4 DEF Red
  <2>2. \A m \in Elements(h), d \in Sides : bh[m] = Blacks(bh, h[m].link[d]) + Shade(h, m)
    <3>1. ASSUME NEW m \in Elements(h), NEW d \in Sides PROVE bh[m] = Blacks(bh, h[m].link[d]) + Shade(h, m)
      <4>1. m # at
        BY <2>1, <1>2
      <4> QED BY <4>1, <1>5
    <3> QED BY <3>1
  <2>3. Even(h, bh, TopLink)
    BY <2>2, <1>6, EvenIs
  <2>4. \A n \in Elements(h), s \in Sides : ~(Red(h, n) /\ Red(h, h[n].link[s]))
    BY <2>1, <1>1, <1>2, <1>3, <1>7
  <2>5. ~Red(h, h[Root].link[0])
    BY <2>1, <1>3
  <2>6. Sound(h, sub, bh, TopLink)
    BY <2>3, <2>4, <2>5, <1>1 DEF Sound
  <2> QED BY <2>1, <2>6, SoundIs
<1>8. CASE x # Null
  <2>1. x \in Elements(h) /\ g = Paint(h, x, "black")
    BY <1>2, <1>3, <1>8
  <2>2. Painted(h, g, x, "black")
    BY <2>1, <1>1, <1>2, PaintIs
  <2>3. /\ IsHeap(g) /\ DOMAIN g = DOMAIN h /\ Elements(g) = Elements(h) /\ SameNodes(h, g) /\ SameLinks(h, g)
        /\ \A m \in DOMAIN h, c \in Sides : g[m].link[c] = h[m].link[c]
        /\ \A m \in DOMAIN h : g[m].color = IF m = x THEN "black" ELSE h[m].color
    BY <2>2 DEF Painted, SameNodes, SameLinks
  <2>4. /\ \A m \in Elements(h) : Red(g, m) <=> m # x /\ Red(h, m)
        /\ \A m \in Elements(h) : m # x => Shade(g, m) = Shade(h, m)
        /\ Shade(g, x) = 1 /\ ~Red(g, Null)
    BY <2>1, <2>3, <1>2 DEF Red, Shade
  <2>5. at # x /\ \A m \in DOMAIN h, d \in Sides : h[m].link[d] = x => m = at /\ d = side
    BY <2>1, <1>1, <1>3, HangsAt
  <2>6. PICK more \in {0, 1} : more = 1 - Shade(h, x)
    BY DEF Shade
  <2>7. PICK new : new = [m \in Elements(h) |-> IF m = x THEN bh[m] + more ELSE bh[m]]
    OBVIOUS
  <2>8. /\ new \in [Elements(g) -> Nat] /\ new[x] = bh[x] + more /\ Blacks(new, x) = bh[x] + more
        /\ \A m \in Elements(h) : m # x => new[m] = bh[m]
        /\ \A z \in Elements(h) \union {Null} : z # x => Blacks(new, z) = Blacks(bh, z)
        /\ bh[x] \in Nat /\ Blacks(bh, x) = bh[x]
    BY <2>1, <2>3, <2>6, <2>7, <1>2, <1>6 DEF Blacks
  <2>9. ASSUME NEW m \in Elements(h), NEW d \in Sides
        PROVE  /\ new[m] = Blacks(new, g[m].link[d]) + Shade(g, m)
               /\ ~(Red(g, m) /\ Red(g, g[m].link[d]))
    <3>1. g[m].link[d] = h[m].link[d] /\ h[m].link[d] \in Elements(h) \union {Null}
      BY <2>3, <1>2
    <3>2. /\ bh[m] = Blacks(bh, h[m].link[d]) + Shade(h, m) + (IF m = at /\ d = side THEN 1 ELSE 0)
          /\ Blacks(bh, h[m].link[d]) \in Nat /\ Shade(h, m) \in {0, 1} /\ bh[m] \in Nat
      BY <1>5
    <3>3. CASE m = x
      <4>1. h[m].link[d] # x
        BY <3>3, <2>5, <2>1, <1>2
      <4>2. bh[x] = Blacks(bh, h[m].link[d]) + Shade(h, x) + 0
        BY <3>2, <3>3, <2>5
      <4> QED BY <3>1, <3>2, <3>3, <4>1, <4>2, <2>4, <2>6, <2>8
    <3>4. CASE m = at /\ d = side
      <4>1. m # x /\ h[m].link[d] = x /\ at # Root
        BY <3>4, <2>5, <1>2, <1>3
      <4>2. Red(h, x)
        BY <4>1, <1>4
      <4>3. more = 1
        BY <4>2, <2>6 DEF Shade
      <4>4. bh[m] = bh[x] + Shade(h, m) + 1
        BY <3>2, <3>4, <4>1, <2>8
      <4>5. new[m] = bh[m] /\ Shade(g, m) = Shade(h, m) /\ ~Red(g, x)
        BY <4>1, <2>1, <2>4, <2>8
      <4> QED BY <3>1, <3>2, <4>1, <4>3, <4>4, <4>5, <2>8
    <3>5. CASE m # x /\ ~(m = at /\ d = side)
      <4>1. h[m].link[d] # x
        BY <3>5, <2>5, <1>2
      <4>2. ~(Red(h, m) /\ Red(h, h[m].link[d]))
        BY <3>5, <1>1, <1>3
      <4>3. ~(Red(g, m) /\ Red(g, h[m].link[d]))
        BY <3>1, <4>1, <4>2, <2>4
      <4> QED BY <3>1, <3>2, <3>5, <4>1, <4>3, <2>4, <2>8
    <3> QED BY <3>3, <3>4, <3>5
  <2>10. Even(g, new, TopLink)
    BY <2>3, <2>8, <2>9, EvenIs
  <2>11. ~Red(g, g[Root].link[0])
    <3>1. g[Root].link[0] = h[Root].link[0] /\ h[Root].link[0] \in Elements(h) \union {Null}
      BY <2>3, <1>2
    <3>2. CASE Red(h, h[Root].link[0])
      <4>1. h[Root].link[0] = x
        BY <3>2, <1>1, <1>3, <1>4
      <4> QED BY <3>1, <4>1, <2>1, <2>4
    <3>3. CASE ~Red(h, h[Root].link[0])
      BY <3>1, <3>3, <2>4
    <3> QED BY <3>2, <3>3
  <2>12. Sorted(g, sub)
    BY <2>3, <1>1, SameLinksSorted
  <2>13. Sound(g, sub, new, TopLink)
    BY <2>3, <2>9, <2>10, <2>11, <2>12 DEF Sound
  <2> QED BY <2>3, <2>13, SoundIs
<1> QED BY <1>7, <1>8

\* a red-black tree lacks no black node
LEMMA FromRootSinks ==
  ASSUME NEW h, RedBlackTree(h), NEW x, x = h[Root].link[0]
  PROVE  /\ Len(FromRoot) = 1
         /\ \E sub, bh : Sinking(h, FromRoot, x, sub, bh)
<1>1. IsHeap(h)
  BY DEF RedBlackTree
<1>2. PICK sub, bh : Good(h, sub, bh)
  BY DEF RedBlackTree
<1>3. /\ Chain(h, FromRoot) /\ Len(FromRoot) = 1 /\ Last(FromRoot) = TopLink /\ Below(h, FromRoot) = x
  BY <1>1, ChainFromRoot, TopLinkIs
<1>4. \A n \in Elements(h), s \in Sides : ~(Red(h, n) /\ Red(h, h[n].link[s]))
  BY <1>1, <1>2, GoodAt
<1>5. Sinking(h, FromRoot, x, sub, bh)
  BY <1>1, <1>2, <1>3, <1>4 DEF Good, Sinking
<1> QED BY <1>3, <1>5

(* What becomes smaller with each step: case 1 makes the parent red, and   *)
(* under a red parent the next step is the last.                           *)
Weight(a) ==
  LET last == Last(a.path) IN
  IF Len(a.path) = 1 \/ Red(a.heap, a.x) THEN 0
  ELSE IF Red(a.heap, last.at) THEN 1
  ELSE 2 * Len(a.path) + (IF Red(a.heap, a.heap[last.at].link[1 - last.side]) THEN 1 ELSE 0)

\* a step of the loop of rb_delete is the last or makes the weight smaller
LEMMA DeleteStepIs ==
  ASSUME NEW D, NEW S, S = [heap : Heaps(D), path : Paths(D), x : Pointers(D)],
         NEW a \in S, DOMAIN a.heap = D, NEW sub, NEW bh, Sinking(a.heap, a.path, a.x, sub, bh)
  PROVE  /\ Weight(a) \in Nat
         /\ \/ DeleteStep(a) = a /\ (Len(a.path) = 1 \/ Red(a.heap, a.x))
            \/ LET b == DeleteStep(a) IN
               /\ b \in S /\ DOMAIN b.heap = D /\ (\E sub2, bh2 : Sinking(b.heap, b.path, b.x, sub2, bh2))
               /\ Weight(b) < Weight(a)
<1>1. PICK h, path, x : h = a.heap /\ path = a.path /\ x = a.x
  OBVIOUS
<1>2. Sinking(h, path, x, sub, bh) /\ DOMAIN h = D /\ IsHeap(h) /\ Chain(h, path) /\ Sorted(h, sub)
  BY <1>1 DEF Sinking
<1>3. PICK l \in Nat \ {0} : l = Len(path)
  BY <1>2, ChainHas
<1>4. PICK b : b = DeleteStep(a)
  OBVIOUS
<1>5. ASSUME NEW c, c = [heap |-> c.heap, path |-> c.path, x |-> c.x], DOMAIN c.heap = D,
             NEW sub2, NEW bh2, Sinking(c.heap, c.path, c.x, sub2, bh2)
      PROVE  c \in S
  <2>1. IsHeap(c.heap) /\ Chain(c.heap, c.path) /\ Below(c.heap, c.path) = c.x
    BY <1>5 DEF Sinking
  <2>2. c.heap \in Heaps(D) /\ c.path \in Paths(D)
    BY <2>1, <1>5 DEF IsHeap, Chain
  <2>3. c.x \in Elements(c.heap) \union {Null}
    BY <2>1, ChainHas
  <2>4. c.x \in Pointers(D)
    BY <2>3, <1>5 DEF Elements, Pointers
  <2> QED BY <2>2, <2>4, <1>5
<1>6. CASE l = 1 \/ Red(h, x)
  <2>1. b = a
    BY <1>1, <1>3, <1>4, <1>6 DEF DeleteStep
  <2>2. Weight(a) = 0
    BY <1>1, <1>3, <1>6 DEF Weight
  <2>3. DeleteStep(a) = a
    BY <2>1, <1>4
  <2>4. Len(a.path) = 1 \/ Red(a.heap, a.x)
    BY <1>1, <1>3, <1>6
  <2> QED BY <2>2, <2>3, <2>4
<1>7. CASE l # 1 /\ ~Red(h, x)
  <2>1. PICK n \in Nat, at \in DOMAIN h, side \in Sides, p \in Elements(h), s \in Sides, w \in Elements(h) :
           Around(h, path, x, sub, bh, n, at, side, p, s, w)
    BY <1>2, <1>3, <1>7, AroundIs
  <2>2. /\ n = l /\ path[l].at = p /\ path[l].side = s /\ Last(path) = path[n] /\ h[p].link[1 - s] = w /\ n > 1
    BY <2>1, <1>3 DEF Around
  <2>3. Weight(a) = IF Red(h, p) THEN 1 ELSE 2 * n + (IF Red(h, w) THEN 1 ELSE 0)
    BY <2>2, <1>1, <1>3, <1>7 DEF Weight
  <2>4. CASE Red(h, w)
    <3>1. b = LowerParent(h, path, x)
      BY <2>2, <2>4, <1>1, <1>3, <1>4, <1>7 DEF DeleteStep
    <3>2. /\ DOMAIN b.heap = DOMAIN h /\ b.x = x /\ Len(b.path) = n + 1
          /\ Red(b.heap, Last(b.path).at)
          /\ \E sub2, bh2 : Sinking(b.heap, b.path, x, sub2, bh2)
      BY <2>1, <2>4, <3>1, LowerSinks
    <3>3. b = [heap |-> b.heap, path |-> b.path, x |-> b.x]
      BY <3>1 DEF LowerParent
    <3>4. b \in S
      BY <3>2, <3>3, <1>2, <1>5
    <3>5. Weight(b) \in {0, 1}
      BY <3>2 DEF Weight
    <3>6. ~Red(h, p)
      <4>1. 1 - s \in Sides
        BY OtherSide
      <4> QED BY <4>1, <2>1, <2>4 DEF Around, Sound
    <3>7. Weight(a) = 2 * n + 1
      BY <3>6, <2>3, <2>4
    <3> QED BY <3>2, <3>4, <3>5, <3>7, <2>2, <1>2, <1>4
  <2>5. CASE ~Red(h, w) /\ \A c \in Sides : ~Red(h, h[w].link[c])
    <3>1. b = [heap |-> Paint(h, w, "red"), path |-> SubSeq(path, 1, n - 1), x |-> p]
      BY <2>2, <2>5, <1>1, <1>3, <1>4, <1>7 DEF DeleteStep
    <3>2. b.heap = Paint(h, w, "red") /\ b.path = SubSeq(path, 1, n - 1) /\ b.x = p
          /\ b = [heap |-> b.heap, path |-> b.path, x |-> b.x]
      BY <3>1
    <3>3. PICK g : g = Paint(h, w, "red")
      OBVIOUS
    <3>4. PICK q : q = SubSeq(path, 1, n - 1)
      OBVIOUS
    <3>12. Chain(h, q) /\ Len(q) = n - 1 /\ Last(q) = path[n - 1]
      <4>1. n - 1 \in 1..Len(path)
        BY <1>3, <2>2
      <4>2. LET f == SubSeq(path, 1, n - 1) IN
            /\ Chain(h, f) /\ Len(f) = n - 1 /\ Last(f) = path[n - 1]
        BY <4>1, <1>2, ChainFront
      <4> QED BY <4>2, <3>4
    <3>5. /\ DOMAIN g = DOMAIN h /\ (Red(g, p) <=> Red(h, p))
          /\ \E bh2 : Sinking(g, q, p, sub, bh2)
      BY <2>1, <2>5, <3>3, <3>12, RaiseSinks
    <3>6. b.heap = g /\ b.path = q
      BY <3>2, <3>3, <3>4
    <3>7. b \in S
      BY <3>2, <3>5, <3>6, <1>2, <1>5
    <3>8. Red(h, p) => Weight(b) = 0
      BY <3>2, <3>5, <3>6, <3>12 DEF Weight
    <3>9. Weight(b) \in {0, 1, 2 * (n - 1), 2 * (n - 1) + 1}
      BY <3>2, <3>5, <3>6, <3>12 DEF Weight
    <3>10. Weight(b) < Weight(a)
      BY <3>8, <3>9, <2>2, <2>3, <2>5
    <3>11. Weight(a) \in Nat
      BY <2>2, <2>3
    <3> QED BY <3>2, <3>5, <3>6, <3>7, <3>10, <3>11, <1>2, <1>4
  <2>6. CASE ~Red(h, w) /\ ~\A c \in Sides : ~Red(h, h[w].link[c])
    <3>1. PICK g : g = Replenish(TurnSibling(h, path), path)
      OBVIOUS
    <3>2. b = [heap |-> g, path |-> FromRoot, x |-> g[Root].link[0]]
      BY <3>1, <2>2, <2>6, <1>1, <1>3, <1>4, <1>7 DEF DeleteStep
    <3>3. DOMAIN g = DOMAIN h /\ RedBlackTree(g)
      BY <2>1, <2>6, <3>1, ReplenishIs
    <3>4. PICK y : y = g[Root].link[0]
      OBVIOUS
    <3>5. Len(FromRoot) = 1 /\ \E sub2, bh2 : Sinking(g, FromRoot, y, sub2, bh2)
      BY <3>3, <3>4, FromRootSinks
    <3>6. b.heap = g /\ b.path = FromRoot /\ b.x = y /\ b = [heap |-> b.heap, path |-> b.path, x |-> b.x]
      BY <3>2, <3>4
    <3>7. b \in S
      BY <3>3, <3>5, <3>6, <1>2, <1>5
    <3>8. Weight(b) = 0
      BY <3>5, <3>6 DEF Weight
    <3>9. Weight(a) > 0 /\ Weight(a) \in Nat
      BY <2>2, <2>3
    <3> QED BY <3>3, <3>5, <3>6, <3>7, <3>8, <3>9, <1>2, <1>4
  <2> QED BY <2>4, <2>5, <2>6
<1> QED BY <1>6, <1>7

\* the loop ends, and the node x that it ends with makes up for the black node that lacks
LEMMA DeleteFixIs ==
  ASSUME NEW h, NEW path, NEW x, NEW sub0, NEW bh0, Sinking(h, path, x, sub0, bh0)
  PROVE  DOMAIN DeleteFix(h, path, x) = DOMAIN h /\ RedBlackTree(DeleteFix(h, path, x))
<1>1. PICK D : D = DOMAIN h
  OBVIOUS
<1>2. PICK S : S = [heap : Heaps(D), path : Paths(D), x : Pointers(D)]
  OBVIOUS
<1>3. PICK step : step = [a \in S |-> DeleteStep(a)]
  OBVIOUS
<1>4. PICK I : I = {a \in S : DOMAIN a.heap = D /\ \E sub, bh : Sinking(a.heap, a.path, a.x, sub, bh)}
  OBVIOUS
<1>5. PICK size : size = [a \in I |-> Weight(a)]
  OBVIOUS
<1>6. ASSUME NEW a \in I
      PROVE  /\ size[a] \in Nat
             /\ \/ step[a] = a /\ (Len(a.path) = 1 \/ Red(a.heap, a.x))
                \/ step[a] \in I /\ size[step[a]] < size[a]
  <2>1. PICK sub, bh : Sinking(a.heap, a.path, a.x, sub, bh)
    BY <1>4
  <2>2. a \in S /\ DOMAIN a.heap = D /\ size[a] = Weight(a) /\ step[a] = DeleteStep(a)
    BY <1>3, <1>4, <1>5
  <2>3. /\ Weight(a) \in Nat
        /\ \/ DeleteStep(a) = a /\ (Len(a.path) = 1 \/ Red(a.heap, a.x))
           \/ LET b == DeleteStep(a) IN
               /\ b \in S /\ DOMAIN b.heap = D /\ (\E sub2, bh2 : Sinking(b.heap, b.path, b.x, sub2, bh2))
               /\ Weight(b) < Weight(a)
    <3>1. a \in S /\ DOMAIN a.heap = D
      BY <2>2
    <3> QED BY <3>1, <2>1, <1>2, DeleteStepIs, ZenonT(150)
  <2>4. CASE DeleteStep(a) = a /\ (Len(a.path) = 1 \/ Red(a.heap, a.x))
    BY <2>2, <2>3, <2>4
  <2>5. CASE LET b == DeleteStep(a) IN
               /\ b \in S /\ DOMAIN b.heap = D /\ (\E sub2, bh2 : Sinking(b.heap, b.path, b.x, sub2, bh2))
               /\ Weight(b) < Weight(a)
    <3>1. DeleteStep(a) \in I
      BY <2>5, <1>4
    <3>2. size[DeleteStep(a)] = Weight(DeleteStep(a))
      BY <3>1, <1>5
    <3> QED BY <2>2, <2>3, <2>5, <3>1, <3>2
  <2> QED BY <2>3, <2>4, <2>5
<1>7. PICK a0 : a0 = [heap |-> h, path |-> path, x |-> x]
  OBVIOUS
<1>8. a0 \in I
  <2>1. IsHeap(h) /\ Chain(h, path) /\ Below(h, path) = x
    BY DEF Sinking
  <2>2. h \in Heaps(D) /\ path \in Paths(D)
    BY <2>1, <1>1 DEF IsHeap, Chain
  <2>3. x \in Elements(h) \union {Null}
    BY <2>1, ChainHas
  <2>4. x \in Pointers(D)
    BY <2>3, <1>1 DEF Elements, Pointers
  <2> QED BY <2>2, <2>4, <1>1, <1>2, <1>4, <1>7
<1>9. PICK a : a = Until(step)[a0]
  OBVIOUS
<1>10. a \in I /\ step[a] = a
  <2>1. I \subseteq DOMAIN step /\ size \in [I -> Nat]
    BY <1>3, <1>4, <1>5, <1>6
  <2>2. \A b \in I : step[b] = b \/ (step[b] \in I /\ size[step[b]] < size[b])
    BY <1>6
  <2> QED BY <2>1, <2>2, <1>8, <1>9, LoopEnds
<1>11. Len(a.path) = 1 \/ Red(a.heap, a.x)
  BY <1>6, <1>10
<1>12. PICK sub, bh : Sinking(a.heap, a.path, a.x, sub, bh)
  BY <1>4, <1>10
<1>13. DOMAIN a.heap = D
  BY <1>4, <1>10
<1>14. PICK g : g = IF a.x = Null THEN a.heap ELSE Paint(a.heap, a.x, "black")
  OBVIOUS
<1>15. DOMAIN g = D /\ RedBlackTree(g)
  BY <1>11, <1>12, <1>13, <1>14, SinkEnds
<1>16. DeleteFix(h, path, x) = g
  BY <1>1, <1>2, <1>3, <1>7, <1>9, <1>14 DEF DeleteFix
<1> QED BY <1>1, <1>15, <1>16

-----------------------------------------------------------------------------
(* Deletion *)

\* without a node that had a child at most, it is a red-black tree, or a black node lacks
LEMMA RemoveSinks ==
  ASSUME NEW h, IsHeap(h), NEW sub, NEW bh, Good(h, sub, bh), NEW path, Chain(h, path),
         NEW k \in Elements(h), Below(h, path) = k,
         NEW c \in Sides, h[k].link[1 - c] = Null, NEW x, x = h[k].link[c],
         NEW g, Removed(h, g, path, k, x)
  PROVE  \E sub2, bh2 : IF Red(h, k) THEN Good(g, sub2, bh2) ELSE Sinking(g, path, x, sub2, bh2)
<1>1. Sorted(h, sub) /\ Even(h, bh, TopLink) /\ RedsApart(h, TopLink) /\ ~Red(h, h[Root].link[0])
  BY DEF Good
<1>2. PICK at \in DOMAIN h, side \in Sides : at = Last(path).at /\ side = Last(path).side /\ h[at].link[side] = k
  BY ChainHas DEF Below
<1>3. Elements(h) \subseteq Nat \ {Null} /\ Elements(h) \subseteq DOMAIN h /\ Root \in DOMAIN h /\ Root \notin Elements(h)
      /\ 0 \in Sides
      /\ \A m \in DOMAIN h, d \in Sides : h[m].link[d] \in Elements(h) \union {Null}
  BY HeapHolds DEF Elements, Sides
<1>4. at # k /\ \A m \in DOMAIN h, d \in Sides : h[m].link[d] = k => m = at /\ d = side
  BY <1>1, <1>2, HangsAt
<1>5. x \in Elements(h) \union {Null} /\ x # k
  BY <1>3, <1>4
<1>6. PICK new : new = SubWithout(h, sub, k)
  OBVIOUS
<1>7. Sorted(g, new) /\ Chain(g, path) /\ Below(g, path) = x
  BY <1>1, <1>6, RemoveSorted
<1>8. /\ IsHeap(g) /\ DOMAIN g = DOMAIN h \ {k} /\ Elements(g) = Elements(h) \ {k}
      /\ \A m \in DOMAIN g : g[m].color = h[m].color
      /\ \A m \in DOMAIN g, d \in Sides : g[m].link[d] = IF m = at /\ d = side THEN x ELSE h[m].link[d]
  <2>1. PICK last : last = Last(path)
    OBVIOUS
  <2>2. /\ IsHeap(g) /\ DOMAIN g = DOMAIN h \ {k} /\ Elements(g) = Elements(h) \ {k}
        /\ \A m \in DOMAIN g : g[m].color = h[m].color
        /\ \A m \in DOMAIN g, d \in Sides :
             g[m].link[d] = IF m = last.at /\ d = last.side THEN x ELSE h[m].link[d]
    BY <2>1 DEF Removed
  <2> QED BY <2>1, <2>2, <1>2
<1>9. \A m \in Elements(g) \union {Null} : m \in Elements(h) \union {Null} /\ (Red(g, m) <=> Red(h, m)) /\ Shade(g, m) = Shade(h, m)
  BY <1>3, <1>8 DEF Red, Shade
<1>10. PICK bh2 : bh2 = [m \in Elements(g) |-> bh[m]]
  OBVIOUS
<1>11. bh2 \in [Elements(g) -> Nat]
  BY <1>1, <1>8, <1>10 DEF Even
<1>12. \A z \in Elements(g) \union {Null} : Blacks(bh2, z) = Blacks(bh, z)
  BY <1>10 DEF Blacks
<1>13. /\ bh[k] = Shade(h, k) /\ bh[k] = Blacks(bh, x) + Shade(h, k)
       /\ Blacks(bh, x) = 0 /\ Shade(h, k) \in {0, 1}
  <2>1. /\ bh[k] = Blacks(bh, x) + Shade(h, k) /\ Blacks(bh, x) \in Nat /\ Shade(h, k) \in {0, 1}
    BY <1>1, EvenAt
  <2>2. 1 - c \in Sides
    BY OtherSide
  <2>3. bh[k] = Blacks(bh, Null) + Shade(h, k)
    BY <2>2, <1>1, EvenAt
  <2> QED BY <2>1, <2>3 DEF Blacks
<1>14. ASSUME NEW m \in Elements(g), NEW d \in Sides
       PROVE  /\ bh2[m] = Blacks(bh2, g[m].link[d]) + Shade(g, m) + (IF m = at /\ d = side THEN Shade(h, k) ELSE 0)
              /\ Red(g, m) /\ Red(g, g[m].link[d]) => m = at /\ d = side
  <2>1. m \in Elements(h) /\ m \in DOMAIN g /\ m \in DOMAIN h
    BY <1>3, <1>8 DEF Elements
  <2>2. /\ bh[m] = Blacks(bh, h[m].link[d]) + Shade(h, m)
        /\ bh[m] \in Nat /\ Blacks(bh, h[m].link[d]) \in Nat /\ Shade(h, m) \in {0, 1}
    BY <2>1, <1>1, EvenAt
  <2>3. CASE m = at /\ d = side
    <3>1. g[m].link[d] = x /\ x \in Elements(g) \union {Null}
      BY <2>1, <2>3, <1>5, <1>8
    <3>2. Blacks(bh, h[m].link[d]) = Shade(h, k)
      BY <2>3, <1>2, <1>3, <1>13 DEF Blacks
    <3> QED BY <2>1, <2>2, <2>3, <3>1, <3>2, <1>9, <1>10, <1>12, <1>13
  <2>4. CASE ~(m = at /\ d = side)
    <3>1. g[m].link[d] = h[m].link[d] /\ h[m].link[d] \in Elements(g) \union {Null}
      BY <2>1, <2>4, <1>3, <1>4, <1>8
    <3>2. ~(Red(h, m) /\ Red(h, h[m].link[d]))
      BY <2>1, <1>1, ApartAt
    <3>3. ~(Red(g, m) /\ Red(g, g[m].link[d]))
      BY <3>1, <3>2, <1>9
    <3>4. bh2[m] = bh[m] /\ Shade(g, m) = Shade(h, m) /\ Blacks(bh2, g[m].link[d]) = Blacks(bh, h[m].link[d])
      BY <3>1, <1>9, <1>10, <1>12
    <3> QED BY <2>2, <2>4, <3>3, <3>4
  <2> QED BY <2>3, <2>4
<1>15. ~(at = Root /\ side = 0) => ~Red(g, g[Root].link[0])
  <2>1. ASSUME ~(at = Root /\ side = 0) PROVE ~Red(g, g[Root].link[0])
    <3>1. Root \in DOMAIN g
      BY <1>3, <1>8
    <3>2. g[Root].link[0] = h[Root].link[0] /\ h[Root].link[0] \in Elements(g) \union {Null}
      BY <2>1, <3>1, <1>3, <1>4, <1>8
    <3> QED BY <3>2, <1>1, <1>9
  <2> QED BY <2>1
<1>16. CASE Red(h, k)
  <2>1. Shade(h, k) = 0
    BY <1>16 DEF Shade
  <2>2. ~Red(g, x)
    <3>1. ~Red(h, x)
      BY <1>1, <1>16, ApartAt
    <3> QED BY <3>1, <1>5, <1>8, <1>9
  <2>3. \A m \in Elements(g), d \in Sides : bh2[m] = Blacks(bh2, g[m].link[d]) + Shade(g, m)
    <3>1. ASSUME NEW m \in Elements(g), NEW d \in Sides PROVE bh2[m] = Blacks(bh2, g[m].link[d]) + Shade(g, m)
      <4>1. g[m].link[d] \in Elements(g) \union {Null}
        BY <1>8, HeapHolds DEF Elements
      <4>2. Blacks(bh2, g[m].link[d]) \in Nat /\ Shade(g, m) \in Nat
        BY <4>1, <1>11 DEF Blacks, Shade
      <4> QED BY <4>2, <2>1, <1>14
    <3> QED BY <3>1
  <2>4. Even(g, bh2, TopLink)
    BY <2>3, <1>11, EvenIs
  <2>5. RedsApart(g, TopLink)
    <3>1. \A m \in Elements(g), d \in Sides : ~(Red(g, m) /\ Red(g, g[m].link[d]))
      <4>1. ASSUME NEW m \in Elements(g), NEW d \in Sides, Red(g, m), Red(g, g[m].link[d]) PROVE FALSE
        <5>1. m = at /\ d = side /\ m \in DOMAIN g
          BY <4>1, <1>14 DEF Elements
        <5> QED BY <4>1, <5>1, <2>2, <1>8
      <4> QED BY <4>1
    <3> QED BY <3>1 DEF RedsApart
  <2>6. ~Red(g, g[Root].link[0])
    <3>1. ~(at = Root /\ side = 0)
      BY <1>1, <1>2, <1>16
    <3> QED BY <3>1, <1>15
  <2>7. Good(g, new, bh2)
    BY <2>4, <2>5, <2>6, <1>7 DEF Good
  <2> QED BY <2>7, <1>16
<1>17. CASE ~Red(h, k)
  <2>1. Shade(h, k) = 1
    BY <1>17 DEF Shade
  <2>2. PICK e : e = Last(path)
    OBVIOUS
  <2>3. Even(g, bh2, e)
    BY <2>1, <2>2, <1>2, <1>11, <1>14 DEF Even
  <2>4. at = Root => Len(path) = 1
    <3>1. PICK l : l = Len(path)
      OBVIOUS
    <3>2. l \in Nat \ {0} /\ l \in 1..l /\ Last(path) = path[l]
      BY <3>1, ChainHas
    <3>3. l > 1 => path[l].at \in Elements(h)
      BY <3>1, <3>2, ChainHas
    <3>4. at = Root => ~(l > 1)
      BY <3>2, <3>3, <1>2, <1>3
    <3> QED BY <3>1, <3>2, <3>4
  <2>5. Red(g, g[Root].link[0]) => Len(path) = 1
    BY <2>4, <1>15
  <2>6. Sinking(g, path, x, new, bh2)
    BY <2>2, <2>3, <2>5, <1>2, <1>7, <1>8, <1>14 DEF Sinking
  <2> QED BY <2>6, <1>17
<1> QED BY <1>16, <1>17

\* node k is node y from now on
Named(k, y, m) == IF m = k THEN y ELSE m

\* heap g is h, but node k, which got the item of y, is node y
Renamed(h, g, k, y) ==
  /\ IsHeap(g) /\ DOMAIN g = (DOMAIN h \ {k}) \union {y} /\ Elements(g) = (Elements(h) \ {k}) \union {y}
  /\ \A m \in DOMAIN h : g[Named(k, y, m)].color = h[m].color
  /\ \A m \in DOMAIN h, d \in Sides : g[Named(k, y, m)].link[d] = Named(k, y, h[m].link[d])

\* the successor's node is freed, and its item moves to the node of k
LEMMA TakeItemIs ==
  ASSUME NEW h, IsHeap(h), NEW path, Chain(h, path), NEW y \in Elements(h), Below(h, path) = y,
         NEW x \in Elements(h) \union {Null}, x # y, NEW g, Removed(h, g, path, y, x),
         NEW k \in Elements(h), k # y,
         NEW f, f = TakeItem(Hang(h, Last(path).at, Last(path).side, x), k, y)
  PROVE  Renamed(g, f, k, y)
<1>1. PICK at \in DOMAIN h, side \in Sides : at = Last(path).at /\ side = Last(path).side
  BY ChainHas
<1>2. Elements(h) \subseteq Nat \ {Null} /\ Elements(h) \subseteq DOMAIN h /\ Root \in DOMAIN h /\ Root \notin Elements(h)
      /\ \A m \in DOMAIN h, d \in Sides : h[m].link[d] \in Elements(h) \union {Null}
  BY HeapHolds DEF Elements
<1>3. PICK h1 : h1 = Hang(h, at, side, x)
  OBVIOUS
<1>4. Hanged(h, h1, at, side, x)
  BY <1>1, <1>3, HangIs
<1>5. /\ IsHeap(h1) /\ DOMAIN h1 = DOMAIN h
      /\ \A m \in DOMAIN h : h1[m].color = h[m].color
      /\ \A m \in DOMAIN h, d \in Sides :
           h1[m].link[d] = IF m = at /\ d = side THEN x ELSE h[m].link[d]
  BY <1>4 DEF Hanged, SameNodes, SameColors
<1>6. /\ IsHeap(g) /\ DOMAIN g = DOMAIN h \ {y} /\ Elements(g) = Elements(h) \ {y}
      /\ \A m \in DOMAIN g : g[m].color = h1[m].color
      /\ \A m \in DOMAIN g, d \in Sides : g[m].link[d] = h1[m].link[d]
  <2>1. PICK last : last = Last(path)
    OBVIOUS
  <2>2. /\ IsHeap(g) /\ DOMAIN g = DOMAIN h \ {y} /\ Elements(g) = Elements(h) \ {y}
        /\ \A m \in DOMAIN g : g[m].color = h[m].color
        /\ \A m \in DOMAIN g, d \in Sides :
             g[m].link[d] = IF m = last.at /\ d = last.side THEN x ELSE h[m].link[d]
    BY <2>1 DEF Removed
  <2>3. last.at = at /\ last.side = side /\ \A m \in DOMAIN g : m \in DOMAIN h
    BY <2>1, <2>2, <1>1
  <2> QED BY <2>2, <2>3, <1>5
<1>7. PICK F : F = DOMAIN h \ {k}
  OBVIOUS
<1>8. f = [n \in F |-> [h1[IF n = y THEN k ELSE n] EXCEPT
                          !.link = [d \in Sides |-> Named(k, y, h1[IF n = y THEN k ELSE n].link[d])]]]
  BY <1>1, <1>3, <1>5, <1>7 DEF TakeItem, Named
<1>9. ASSUME NEW m \in DOMAIN g
      PROVE  /\ Named(k, y, m) \in F
             /\ f[Named(k, y, m)].color = g[m].color
             /\ f[Named(k, y, m)].link = [d \in Sides |-> Named(k, y, g[m].link[d])]
  <2>1. m \in DOMAIN h /\ m # y
    BY <1>6
  <2>2. PICK n : n = Named(k, y, m)
    OBVIOUS
  <2>3. n \in F /\ (IF n = y THEN k ELSE n) = m
    BY <2>1, <2>2, <1>2, <1>7 DEF Named
  <2>4. f[n] = [h1[m] EXCEPT !.link = [d \in Sides |-> Named(k, y, h1[m].link[d])]]
    BY <2>3, <1>8
  <2>5. PICK D : D = DOMAIN h
    OBVIOUS
  <2>6. h1[m] \in [link : [Sides -> Pointers(D)], color : Colors]
    <3>1. h1 \in [D -> [link : [Sides -> Pointers(D)], color : Colors]]
      BY <2>5, <1>5 DEF IsHeap, Heaps
    <3> QED BY <3>1, <2>1, <2>5
  <2>7. PICK L : L = [d \in Sides |-> Named(k, y, h1[m].link[d])]
    OBVIOUS
  <2>8. f[n] = [h1[m] EXCEPT !.link = L]
    BY <2>4, <2>7
  <2>9. f[n].color = h1[m].color /\ f[n].link = L
    BY <2>6, <2>8
  <2>10. L = [d \in Sides |-> Named(k, y, g[m].link[d])]
    BY <2>7, <1>6
  <2> QED BY <2>2, <2>3, <2>9, <2>10, <1>6
<1>10. \A z \in Elements(g) \union {Null} : Named(k, y, z) \in Pointers(F)
  BY <1>2, <1>6, <1>7 DEF Named, Pointers, Elements
<1>11. \A n \in F : \E m \in DOMAIN g : n = Named(k, y, m)
  <2>1. ASSUME NEW n \in F PROVE \E m \in DOMAIN g : n = Named(k, y, m)
    <3>1. CASE n = y
      BY <3>1, <1>2, <1>6 DEF Named
    <3>2. CASE n # y
      BY <3>2, <1>6, <1>7 DEF Named
    <3> QED BY <3>1, <3>2
  <2> QED BY <2>1
<1>12. ASSUME NEW n \in F PROVE f[n] \in [link : [Sides -> Pointers(F)], color : Colors]
  <2>1. PICK m \in DOMAIN g : n = Named(k, y, m)
    BY <1>11
  <2>2. f[n].link = [d \in Sides |-> Named(k, y, g[m].link[d])] /\ f[n].color = g[m].color
    BY <2>1, <1>9
  <2>3. \A d \in Sides : g[m].link[d] \in Elements(g) \union {Null}
    BY <1>6, HeapHolds
  <2>4. f[n].link \in [Sides -> Pointers(F)]
    BY <2>2, <2>3, <1>10
  <2>5. f[n].color \in Colors
    BY <2>2, <1>6, HeapHolds
  <2>6. f[n] = [link |-> f[n].link, color |-> f[n].color]
    <3>1. PICK D, j : D = DOMAIN h /\ j = IF n = y THEN k ELSE n
      OBVIOUS
    <3>2. j \in D
      BY <3>1, <1>2, <1>7
    <3>3. h1[j] \in [link : [Sides -> Pointers(D)], color : Colors]
      <4>1. h1 \in [D -> [link : [Sides -> Pointers(D)], color : Colors]]
        BY <3>1, <1>5 DEF IsHeap, Heaps
      <4> QED BY <3>2, <4>1
    <3>4. PICK L : L = [d \in Sides |-> Named(k, y, h1[j].link[d])]
      OBVIOUS
    <3>5. f[n] = [h1[j] EXCEPT !.link = L]
      BY <3>1, <3>4, <1>8
    <3> QED BY <3>3, <3>5
  <2> QED BY <2>4, <2>5, <2>6
<1>13. DOMAIN f = F
  BY <1>8
<1>14. f \in [F -> [link : [Sides -> Pointers(F)], color : Colors]]
  <2>1. f = [n \in F |-> f[n]]
    BY <1>8
  <2> QED BY <2>1, <1>12
<1>15. IsFiniteSet(F) /\ F \subseteq Nat /\ Root \in F
  <2>1. IsFiniteSet(DOMAIN h) /\ DOMAIN h \subseteq Nat
    BY DEF IsHeap
  <2> QED BY <2>1, <1>2, <1>7, FS_Subset
<1>16. IsHeap(f)
  BY <1>13, <1>14, <1>15 DEF IsHeap, Heaps
<1>17. DOMAIN f = (DOMAIN g \ {k}) \union {y}
  BY <1>2, <1>6, <1>7, <1>13
<1>18. Elements(f) = (Elements(g) \ {k}) \union {y}
  BY <1>2, <1>17, <1>6 DEF Elements
<1> QED BY <1>9, <1>16, <1>17, <1>18 DEF Renamed

\* the keys below each node, the numbers of black nodes, and a path, after node k has become y
SubNamed(sub, D, k, y) == [n \in D |-> {Named(k, y, j) : j \in sub[Named(y, k, n)]}]
BlacksNamed(bh, D, k, y) == [n \in D |-> bh[Named(y, k, n)]]
PathNamed(path, k, y) ==
  [i \in DOMAIN path |-> IF path[i].at = k THEN [path[i] EXCEPT !.at = y] ELSE path[i]]

\* what Renamed says of each node
LEMMA RenamedAt ==
  ASSUME NEW h, IsHeap(h), NEW k \in Elements(h), NEW y \in Nat \ {Root}, y \notin DOMAIN h,
         NEW g, Renamed(h, g, k, y)
  PROVE  /\ IsHeap(g) /\ Named(k, y, Root) = Root /\ Named(k, y, Null) = Null /\ y # Null
         /\ \A m \in DOMAIN h : Named(k, y, m) \in DOMAIN g
         /\ \A m \in Elements(h) : Named(k, y, m) \in Elements(g)
         /\ \A n \in DOMAIN g : \E m \in DOMAIN h : n = Named(k, y, m)
         /\ \A n \in Elements(g) : \E m \in Elements(h) : n = Named(k, y, m)
         /\ \A m \in Elements(h) \union {Null} : Named(y, k, Named(k, y, m)) = m
         /\ \A m, n \in DOMAIN h \union {Null} : Named(k, y, m) = Named(k, y, n) => m = n
         /\ \A m \in DOMAIN h, d \in Sides : g[Named(k, y, m)].link[d] = Named(k, y, h[m].link[d])
         /\ \A m \in Elements(h) \union {Null} : Red(g, Named(k, y, m)) <=> Red(h, m)
         /\ \A m \in Elements(h) : Shade(g, Named(k, y, m)) = Shade(h, m)
<1>1. Elements(h) \subseteq Nat \ {Null} /\ DOMAIN h = Elements(h) \union {Root} /\ Root \in DOMAIN h /\ Root \notin Elements(h)
      /\ DOMAIN h \subseteq Nat
  BY HeapHolds DEF Elements, IsHeap
<1>2. y # Null /\ Null \notin DOMAIN h
  BY <1>1, RbTreeAssumption
<1>3. /\ IsHeap(g) /\ DOMAIN g = (DOMAIN h \ {k}) \union {y} /\ Elements(g) = (Elements(h) \ {k}) \union {y}
      /\ \A m \in DOMAIN h : g[Named(k, y, m)].color = h[m].color
      /\ \A m \in DOMAIN h, d \in Sides : g[Named(k, y, m)].link[d] = Named(k, y, h[m].link[d])
  BY DEF Renamed
<1>4. Named(k, y, Root) = Root /\ Named(k, y, Null) = Null
  BY <1>1, <1>2 DEF Named
<1>5. /\ \A m \in DOMAIN h : Named(k, y, m) \in DOMAIN g
      /\ \A m \in Elements(h) : Named(k, y, m) \in Elements(g)
      /\ \A m \in Elements(h) \union {Null} : Named(y, k, Named(k, y, m)) = m
  BY <1>1, <1>2, <1>3 DEF Named
<1>6. /\ \A n \in DOMAIN g : \E m \in DOMAIN h : n = Named(k, y, m)
      /\ \A n \in Elements(g) : \E m \in Elements(h) : n = Named(k, y, m)
  <2>1. y = Named(k, y, k) /\ k \in DOMAIN h
    BY <1>1 DEF Named
  <2>2. \A m \in DOMAIN h : m # k => Named(k, y, m) = m
    BY DEF Named
  <2> QED BY <2>1, <2>2, <1>1, <1>3
<1>7. \A m, n \in DOMAIN h \union {Null} : Named(k, y, m) = Named(k, y, n) => m = n
  BY <1>2 DEF Named
<1>8. \A m \in Elements(h) \union {Null} : Named(k, y, m) = Null <=> m = Null
  BY <1>1, <1>2 DEF Named
<1>9. \A m \in Elements(h) \union {Null} : Red(g, Named(k, y, m)) <=> Red(h, m)
  BY <1>1, <1>3, <1>8 DEF Red
<1>10. \A m \in Elements(h) : Shade(g, Named(k, y, m)) = Shade(h, m)
  BY <1>9 DEF Shade
<1> QED BY <1>2, <1>3, <1>4, <1>5, <1>6, <1>7, <1>9, <1>10

\* if y takes the place of k in the order of keys, too, the tree stays sorted
LEMMA RenameSorted ==
  ASSUME NEW h, IsHeap(h), NEW k \in Elements(h), NEW y \in Nat \ {Root}, y \notin DOMAIN h,
         NEW g, Renamed(h, g, k, y), NEW sub, Sorted(h, sub),
         \A a, b \in Elements(h) : a < b => Named(k, y, a) < Named(k, y, b)
  PROVE  Sorted(g, SubNamed(sub, Elements(g), k, y))
<1>1. /\ IsHeap(g) /\ Named(k, y, Root) = Root /\ Named(k, y, Null) = Null /\ y # Null
      /\ \A m \in Elements(h) : Named(k, y, m) \in Elements(g)
      /\ \A n \in DOMAIN g : \E m \in DOMAIN h : n = Named(k, y, m)
      /\ \A n \in Elements(g) : \E m \in Elements(h) : n = Named(k, y, m)
      /\ \A m \in Elements(h) \union {Null} : Named(y, k, Named(k, y, m)) = m
      /\ \A m, n \in DOMAIN h \union {Null} : Named(k, y, m) = Named(k, y, n) => m = n
      /\ \A m \in DOMAIN h, d \in Sides : g[Named(k, y, m)].link[d] = Named(k, y, h[m].link[d])
  BY RenamedAt
<1>2. Elements(h) \subseteq Nat \ {Null} /\ Elements(h) \subseteq DOMAIN h /\ Root \in DOMAIN h /\ 0 \in Sides /\ 1 \in Sides
      /\ \A m \in DOMAIN h, d \in Sides : h[m].link[d] \in Elements(h) \union {Null}
  BY HeapHolds DEF Elements, Sides
<1>3. Null \notin Elements(g)
  BY <1>1, HeapHolds
<1>4. PICK new : new = SubNamed(sub, Elements(g), k, y)
  OBVIOUS
<1>5. \A m \in Elements(h) : sub[m] \subseteq Elements(h)
  BY DEF Sorted, SubIs
<1>6. \A m \in Elements(h) : new[Named(k, y, m)] = {Named(k, y, j) : j \in sub[m]}
  BY <1>1, <1>4 DEF SubNamed
<1>7. ASSUME NEW z \in Elements(h) \union {Null}
      PROVE  /\ Under(new, Named(k, y, z)) = {Named(k, y, j) : j \in Under(sub, z)}
             /\ Under(sub, z) \subseteq Elements(h)
  <2>1. CASE z = Null
    BY <2>1, <1>1 DEF Under
  <2>2. CASE z \in Elements(h)
    BY <2>2, <1>1, <1>2, <1>3, <1>5, <1>6 DEF Under
  <2> QED BY <2>1, <2>2
<1>8. SubIs(g, new)
  <2>1. ASSUME NEW n \in Elements(g)
        PROVE  new[n] = {n} \union Under(new, g[n].link[0]) \union Under(new, g[n].link[1])
    <3>1. PICK m \in Elements(h) : n = Named(k, y, m)
      BY <1>1
    <3>2. sub[m] = {m} \union Under(sub, h[m].link[0]) \union Under(sub, h[m].link[1])
      BY DEF Sorted, SubIs
    <3>3. PICK l, r : /\ l \in Elements(h) \union {Null} /\ r \in Elements(h) \union {Null}
                      /\ l = h[m].link[0] /\ r = h[m].link[1]
      BY <1>2
    <3>4. g[n].link[0] = Named(k, y, l) /\ g[n].link[1] = Named(k, y, r)
      BY <3>1, <3>3, <1>1, <1>2
    <3>5. /\ Under(new, Named(k, y, l)) = {Named(k, y, j) : j \in Under(sub, l)}
          /\ Under(new, Named(k, y, r)) = {Named(k, y, j) : j \in Under(sub, r)}
      BY <3>3, <1>7
    <3>6. new[n] = {Named(k, y, j) : j \in {m} \union Under(sub, l) \union Under(sub, r)}
      BY <3>1, <3>2, <3>3, <1>6
    <3> QED BY <3>1, <3>4, <3>5, <3>6
  <2>2. new \in [Elements(g) -> SUBSET Elements(g)]
    <3>1. ASSUME NEW n \in Elements(g) PROVE new[n] \subseteq Elements(g)
      <4>1. PICK m \in Elements(h) : n = Named(k, y, m)
        BY <1>1
      <4> QED BY <4>1, <1>1, <1>5, <1>6
    <3>2. new = [n \in Elements(g) |-> new[n]]
      BY <1>4 DEF SubNamed
    <3> QED BY <3>1, <3>2
  <2> QED BY <2>1, <2>2 DEF SubIs
<1>9. InOrder(g, new)
  <2>1. ASSUME NEW n \in Elements(g), NEW d \in Sides, NEW i \in Under(new, g[n].link[d])
        PROVE  Beside(n, d, i)
    <3>1. PICK m \in Elements(h) : n = Named(k, y, m)
      BY <1>1
    <3>2. PICK z \in Elements(h) \union {Null} : z = h[m].link[d]
      BY <1>2
    <3>3. g[n].link[d] = Named(k, y, z)
      BY <3>1, <3>2, <1>1, <1>2
    <3>4. PICK j \in Under(sub, z) : i = Named(k, y, j)
      BY <2>1, <3>3, <1>7
    <3>5. Beside(m, d, j) /\ j \in Elements(h)
      BY <3>2, <3>4, <1>7, SortedAt
    <3> QED BY <3>1, <3>4, <3>5 DEF Beside
  <2> QED BY <2>1 DEF InOrder
<1>10. FromTop(g, new)
  <2>1. PICK z \in Elements(h) \union {Null} : z = h[Root].link[0]
    BY <1>2
  <2>2. Under(sub, z) = Elements(h) /\ h[Root].link[1] = Null
    BY <2>1 DEF Sorted, FromTop
  <2>3. g[Root].link[0] = Named(k, y, z) /\ g[Root].link[1] = Null
    BY <2>1, <2>2, <1>1, <1>2
  <2>4. {Named(k, y, j) : j \in Elements(h)} = Elements(g)
    BY <1>1
  <2> QED BY <2>2, <2>3, <2>4, <1>7 DEF FromTop
<1>11. OnePlace(g)
  <2>1. ASSUME NEW a \in DOMAIN g, NEW b \in DOMAIN g, NEW d \in Sides, NEW e \in Sides,
               g[a].link[d] = g[b].link[e], g[a].link[d] # Null
        PROVE  a = b /\ d = e
    <3>1. PICK i \in DOMAIN h, j \in DOMAIN h : a = Named(k, y, i) /\ b = Named(k, y, j)
      BY <1>1
    <3>2. g[a].link[d] = Named(k, y, h[i].link[d]) /\ g[b].link[e] = Named(k, y, h[j].link[e])
      BY <3>1, <1>1
    <3>3. PICK u \in DOMAIN h \union {Null}, v \in DOMAIN h \union {Null} :
            u = h[i].link[d] /\ v = h[j].link[e]
      BY <1>2
    <3>7. Named(k, y, u) = Named(k, y, v) /\ Named(k, y, u) # Null
      BY <2>1, <3>2, <3>3
    <3>8. u = v /\ u # Null
      BY <3>7, <1>1
    <3>4. h[i].link[d] = h[j].link[e] /\ h[i].link[d] # Null
      BY <3>3, <3>8
    <3>5. OnePlace(h)
      BY DEF Sorted
    <3>6. i = j /\ d = e
      BY <3>4, <3>5 DEF OnePlace
    <3> QED BY <3>1, <3>6
  <2> QED BY <2>1 DEF OnePlace
<1> QED BY <1>4, <1>8, <1>9, <1>10, <1>11 DEF Sorted

\* a path in the tree, renamed
LEMMA RenameChain ==
  ASSUME NEW h, IsHeap(h), NEW k \in Elements(h), NEW y \in Nat \ {Root}, y \notin DOMAIN h,
         NEW g, Renamed(h, g, k, y), NEW path, Chain(h, path), NEW q, q = PathNamed(path, k, y)
  PROVE  /\ Chain(g, q) /\ Len(q) = Len(path)
         /\ Last(q).at = Named(k, y, Last(path).at) /\ Last(q).side = Last(path).side
         /\ Below(g, q) = Named(k, y, Below(h, path))
<1>1. /\ IsHeap(g) /\ Named(k, y, Root) = Root
      /\ \A m \in DOMAIN h : Named(k, y, m) \in DOMAIN g
      /\ \A m \in Elements(h) : Named(k, y, m) \in Elements(g)
      /\ \A m \in DOMAIN h, d \in Sides : g[Named(k, y, m)].link[d] = Named(k, y, h[m].link[d])
  BY RenamedAt
<1>2. PICK n \in Nat \ {0} : n = Len(path) /\ Last(path) = path[n] /\ n \in 1..n
  BY ChainHas
<1>3. PICK T : T = [at : DOMAIN h, side : Sides]
  OBVIOUS
<1>4. path \in Seq(T) /\ \A i \in 1..n : path[i] \in T /\ path[i].at \in DOMAIN h /\ path[i].side \in Sides
  BY <1>2, <1>3, ChainHas
<1>5. DOMAIN path = 1..n
  BY <1>2, <1>4, LenProperties
<1>6. ASSUME NEW i \in 1..n
      PROVE  q[i] = [at |-> Named(k, y, path[i].at), side |-> path[i].side]
  <2>1. path[i] = [at |-> path[i].at, side |-> path[i].side]
    BY <1>3, <1>4
  <2>2. q[i] = IF path[i].at = k THEN [path[i] EXCEPT !.at = y] ELSE path[i]
    BY <1>5 DEF PathNamed
  <2> QED BY <2>1, <2>2 DEF Named
<1>7. ASSUME NEW i \in 1..n
      PROVE  /\ q[i].at = Named(k, y, path[i].at) /\ q[i].side = path[i].side
             /\ Hung(g, q[i]) = Named(k, y, Hung(h, path[i]))
  <2>2. PICK v, c : v = Named(k, y, path[i].at) /\ c = path[i].side
    OBVIOUS
  <2>3. q[i] = [at |-> v, side |-> c]
    BY <1>6, <2>2
  <2>1. q[i].at = Named(k, y, path[i].at) /\ q[i].side = path[i].side
    BY <2>2, <2>3
  <2> QED BY <2>1, <1>1, <1>4 DEF Hung
<1>8. PICK U : U = [at : DOMAIN g, side : Sides]
  OBVIOUS
<1>9. q \in Seq(U) /\ Len(q) = n
  <2>1. ASSUME NEW i \in 1..n PROVE q[i] \in U
    <3>1. PICK v, c : v = Named(k, y, path[i].at) /\ c = path[i].side
      OBVIOUS
    <3>2. q[i] = [at |-> v, side |-> c]
      BY <1>6, <3>1
    <3>3. v \in DOMAIN g /\ c \in Sides
      BY <3>1, <1>1, <1>4
    <3> QED BY <3>2, <3>3, <1>8
  <2>2. q = [i \in 1..n |-> q[i]]
    BY <1>5 DEF PathNamed
  <2>3. q \in [1..n -> U] /\ n \in Nat
    BY <2>1, <2>2
  <2> QED BY <2>3, SeqDef, LenProperties
<1>10. q # <<>>
  BY <1>2, <1>9
<1>11. q \in Paths(DOMAIN g)
  BY <1>8, <1>9, <1>10 DEF Paths
<1>12. q[1] = [at |-> Root, side |-> 0]
  <2>1. path[1] = [at |-> Root, side |-> 0] /\ 1 \in 1..n
    BY <1>2 DEF Chain
  <2> QED BY <2>1, <1>1, <1>6
<1>13. ASSUME NEW i \in 1..n - 1 PROVE q[i + 1].at \in Elements(g) /\ Hung(g, q[i]) = q[i + 1].at
  <2>1. path[i + 1].at \in Elements(h) /\ Hung(h, path[i]) = path[i + 1].at
    BY <1>2 DEF Chain
  <2>2. i \in 1..n /\ i + 1 \in 1..n
    BY <1>2
  <2> QED BY <2>1, <2>2, <1>1, <1>7
<1>14. Chain(g, q)
  BY <1>9, <1>11, <1>12, <1>13 DEF Chain
<1>15. Last(q) = q[n]
  BY <1>9 DEF Last
<1>16. Below(g, q) = Named(k, y, Below(h, path))
  BY <1>2, <1>7, <1>15 DEF Below, Hung
<1> QED BY <1>2, <1>7, <1>9, <1>14, <1>15, <1>16

\* the loop of deletion goes on in the renamed tree
LEMMA RenameSinks ==
  ASSUME NEW h, IsHeap(h), NEW k \in Elements(h), NEW y \in Nat \ {Root}, y \notin DOMAIN h,
         NEW g, Renamed(h, g, k, y),
         \A a, b \in Elements(h) : a < b => Named(k, y, a) < Named(k, y, b),
         NEW path, NEW x, x # k, NEW sub, NEW bh
  PROVE  /\ Good(h, sub, bh) => RedBlackTree(g)
         /\ Sinking(h, path, x, sub, bh) => \E sub2, bh2 : Sinking(g, PathNamed(path, k, y), x, sub2, bh2)
<1>1. /\ IsHeap(g) /\ Named(k, y, Root) = Root /\ Named(k, y, Null) = Null /\ y # Null
      /\ \A m \in DOMAIN h : Named(k, y, m) \in DOMAIN g
      /\ \A m \in Elements(h) : Named(k, y, m) \in Elements(g)
      /\ \A n \in Elements(g) : \E m \in Elements(h) : n = Named(k, y, m)
      /\ \A m \in Elements(h) \union {Null} : Named(y, k, Named(k, y, m)) = m
      /\ \A m, n \in DOMAIN h \union {Null} : Named(k, y, m) = Named(k, y, n) => m = n
      /\ \A m \in DOMAIN h, d \in Sides : g[Named(k, y, m)].link[d] = Named(k, y, h[m].link[d])
      /\ \A m \in Elements(h) \union {Null} : Red(g, Named(k, y, m)) <=> Red(h, m)
      /\ \A m \in Elements(h) : Shade(g, Named(k, y, m)) = Shade(h, m)
  BY RenamedAt
<1>2. Elements(h) \subseteq Nat \ {Null} /\ Elements(h) \subseteq DOMAIN h /\ Root \in DOMAIN h /\ Root \notin Elements(h)
      /\ 0 \in Sides
      /\ \A m \in DOMAIN h, d \in Sides : h[m].link[d] \in Elements(h) \union {Null}
  BY HeapHolds DEF Elements, Sides
<1>3. PICK new : new = BlacksNamed(bh, Elements(g), k, y)
  OBVIOUS
<1>4. \A m \in Elements(h) : new[Named(k, y, m)] = bh[m]
  BY <1>1, <1>3 DEF BlacksNamed
<1>5. \A z \in Elements(h) \union {Null} : Blacks(new, Named(k, y, z)) = Blacks(bh, z)
  <2>1. Null \notin Elements(g)
    BY <1>1, HeapHolds
  <2> QED BY <2>1, <1>1, <1>2, <1>4 DEF Blacks
<1>6. ASSUME NEW e, NEW e2, e.at \in DOMAIN h, e2.at = Named(k, y, e.at), e2.side = e.side, Even(h, bh, e)
      PROVE  Even(g, new, e2)
  <2>1. \A m \in Elements(h) : bh[m] \in Nat
    BY <1>6 DEF Even
  <2>2. new \in [Elements(g) -> Nat]
    <3>1. \A n \in Elements(g) : new[n] \in Nat
      BY <2>1, <1>1, <1>4
    <3>2. new = [n \in Elements(g) |-> new[n]]
      BY <1>3 DEF BlacksNamed
    <3> QED BY <3>1, <3>2
  <2>3. ASSUME NEW n \in Elements(g), NEW s \in Sides
        PROVE  new[n] = Blacks(new, g[n].link[s]) + Shade(g, n) + (IF n = e2.at /\ s = e2.side THEN 1 ELSE 0)
    <3>1. PICK m \in Elements(h) : n = Named(k, y, m)
      BY <1>1
    <3>2. bh[m] = Blacks(bh, h[m].link[s]) + Shade(h, m) + (IF m = e.at /\ s = e.side THEN 1 ELSE 0)
      BY <1>6 DEF Even
    <3>3. n = e2.at <=> m = e.at
      BY <3>1, <1>1, <1>2, <1>6
    <3>4. Blacks(new, g[n].link[s]) = Blacks(bh, h[m].link[s])
      BY <3>1, <1>1, <1>2, <1>5
    <3>5. new[n] = bh[m] /\ Shade(g, n) = Shade(h, m)
      BY <3>1, <1>1, <1>4
    <3> QED BY <3>2, <3>3, <3>4, <3>5, <1>6
  <2> QED BY <2>2, <2>3 DEF Even
<1>7. ASSUME NEW n \in Elements(g), NEW s \in Sides, Red(g, n), Red(g, g[n].link[s])
      PROVE  \E m \in Elements(h) : n = Named(k, y, m) /\ Red(h, m) /\ Red(h, h[m].link[s])
  <2>1. PICK m \in Elements(h) : n = Named(k, y, m)
    BY <1>1
  <2>2. Red(h, m)
    BY <2>1, <1>1, <1>7
  <2>3. g[n].link[s] = Named(k, y, h[m].link[s]) /\ h[m].link[s] \in Elements(h) \union {Null}
    BY <2>1, <1>1, <1>2
  <2>4. Red(h, h[m].link[s])
    BY <2>3, <1>1, <1>7
  <2> QED BY <2>1, <2>2, <2>4
<1>8. Red(g, g[Root].link[0]) <=> Red(h, h[Root].link[0])
  <2>1. g[Root].link[0] = Named(k, y, h[Root].link[0]) /\ h[Root].link[0] \in Elements(h) \union {Null}
    BY <1>1, <1>2
  <2> QED BY <2>1, <1>1
<1>9. ASSUME Good(h, sub, bh) PROVE RedBlackTree(g)
  <2>1. Sorted(h, sub) /\ Even(h, bh, TopLink) /\ RedsApart(h, TopLink) /\ ~Red(h, h[Root].link[0])
    BY <1>9 DEF Good
  <2>2. Sorted(g, SubNamed(sub, Elements(g), k, y))
    BY <2>1, RenameSorted
  <2>3. Even(g, new, TopLink)
    BY <2>1, <1>1, <1>2, <1>6, TopLinkIs
  <2>4. \A n \in Elements(g), s \in Sides : ~(Red(g, n) /\ Red(g, g[n].link[s]))
    BY <2>1, <1>7, ApartAt
  <2>5. Sound(g, SubNamed(sub, Elements(g), k, y), new, TopLink)
    BY <2>1, <2>2, <2>3, <2>4, <1>1, <1>8 DEF Sound
  <2> QED BY <2>5, SoundIs
<1>10. ASSUME Sinking(h, path, x, sub, bh)
       PROVE  \E sub2, bh2 : Sinking(g, PathNamed(path, k, y), x, sub2, bh2)
  <2>1. PICK q : q = PathNamed(path, k, y)
    OBVIOUS
  <2>2. /\ Chain(h, path) /\ Below(h, path) = x /\ Sorted(h, sub)
        /\ Even(h, bh, Last(path))
        /\ \A n \in Elements(h), s \in Sides :
             Red(h, n) /\ Red(h, h[n].link[s]) => n = x \/ (n = Last(path).at /\ s = Last(path).side)
        /\ Red(h, h[Root].link[0]) => Len(path) = 1
    BY <1>10 DEF Sinking
  <2>3. /\ Chain(g, q) /\ Len(q) = Len(path)
        /\ Last(q).at = Named(k, y, Last(path).at) /\ Last(q).side = Last(path).side
        /\ Below(g, q) = Named(k, y, Below(h, path))
    BY <2>1, <2>2, RenameChain
  <2>4. Named(k, y, x) = x
    BY DEF Named
  <2>5. Sorted(g, SubNamed(sub, Elements(g), k, y))
    BY <2>2, RenameSorted
  <2>6. Last(path).at \in DOMAIN h
    BY <2>2, ChainHas
  <2>7. Even(g, new, Last(q))
    BY <2>2, <2>3, <2>6, <1>6
  <2>8. ASSUME NEW n \in Elements(g), NEW s \in Sides, Red(g, n), Red(g, g[n].link[s])
        PROVE  n = x \/ (n = Last(q).at /\ s = Last(q).side)
    <3>1. PICK m \in Elements(h) : n = Named(k, y, m) /\ Red(h, m) /\ Red(h, h[m].link[s])
      BY <2>8, <1>7
    <3>2. m = x \/ (m = Last(path).at /\ s = Last(path).side)
      BY <3>1, <2>2
    <3> QED BY <3>1, <3>2, <2>3, <2>4
  <2>9. Sinking(g, q, x, SubNamed(sub, Elements(g), k, y), new)
    BY <2>2, <2>3, <2>4, <2>5, <2>7, <2>8, <1>1, <1>8 DEF Sinking
  <2> QED BY <2>1, <2>9
<1> QED BY <1>9, <1>10


\* the node whose item moves up holds the next key
LEMMA SuccessorIs ==
  ASSUME NEW h, IsHeap(h), NEW sub, Sorted(h, sub), NEW k \in Elements(h), TwoChildren(h, k),
         NEW path, path = LeftmostPath(h, Search(h, k) \o Step(k, 1)), NEW y, y = Below(h, path)
  PROVE  /\ Chain(h, path) /\ y \in Elements(h) /\ h[y].link[0] = Null /\ k < y
         /\ \A m \in Elements(h) : k < m => y <= m
<1>1. Elements(h) \subseteq Nat \ {Null} /\ 0 \in Sides /\ 1 \in Sides /\ 1 - 1 = 0
  BY HeapHolds DEF Sides
<1>2. PICK r \in Elements(h) : r = h[k].link[1]
  <2>1. h[k].link[1] # Null
    BY <1>1 DEF TwoChildren
  <2> QED BY <2>1, <1>1, SortedAt
<1>3. PICK p : p = Search(h, k)
  OBVIOUS
<1>4. Chain(h, p) /\ Below(h, p) = k
  BY <1>1, <1>3, SearchEnds
<1>5. PICK q : q = p \o Step(k, 1)
  OBVIOUS
<1>6. Chain(h, q) /\ Below(h, q) = r
  BY <1>1, <1>2, <1>4, <1>5, ChainGoesOn
<1>7. path = LeftmostPath(h, q)
  BY <1>3, <1>5
<1>8. PICK U : U = Under(sub, r)
  OBVIOUS
<1>9. Below(h, q) # Null
  BY <1>1, <1>6
<1>10. /\ Chain(h, path) /\ y \in Elements(h) /\ h[y].link[0] = Null /\ y \in U
       /\ \A m \in U : y <= m
  BY <1>6, <1>7, <1>8, <1>9, LeftmostEnds
<1>11. /\ sub[k] = {k} \union U \union Under(sub, h[k].link[0])
       /\ \A m \in U : k < m
       /\ \A m \in Under(sub, h[k].link[0]) : m < k
  <2>1. sub[k] = {k} \union U \union Under(sub, h[k].link[0]) /\ \A m \in U : Beside(k, 1, m)
    BY <1>1, <1>2, <1>8, SortedAt
  <2>2. \A m \in Under(sub, h[k].link[0]) : Beside(k, 0, m)
    BY <1>1, SortedAt
  <2> QED BY <2>1, <2>2 DEF Beside
<1>12. ASSUME NEW m \in Elements(h), k < m PROVE y <= m
  <2>1. CASE m \in sub[k]
    <3>1. m # k /\ ~(m < k)
      BY <1>1, <1>12
    <3> QED BY <2>1, <3>1, <1>10, <1>11
  <2>2. CASE m \notin sub[k]
    <3>1. Under(sub, Below(h, p)) = sub[k]
      BY <1>1, <1>4 DEF Under
    <3>2. (\A j \in sub[k] : j < m) \/ (\A j \in sub[k] : m < j)
      BY <2>2, <3>1, <1>4, ChainParts
    <3>3. k \in sub[k] /\ y \in sub[k]
      BY <1>10, <1>11
    <3>4. y < m
      BY <3>2, <3>3, <1>1, <1>12
    <3> QED BY <3>4, <1>1, <1>10
  <2> QED BY <2>1, <2>2
<1> QED BY <1>10, <1>11, <1>12

\* Deletion of a node that has a child at most
LEMMA DeleteOneIs ==
  ASSUME NEW h, RedBlackTree(h), NEW k \in Elements(h), ~TwoChildren(h, k)
  PROVE  RedBlackTree(Delete(h, k)) /\ DOMAIN Delete(h, k) = DOMAIN h \ {k}
<1>1. IsHeap(h)
  BY DEF RedBlackTree
<1>2. PICK sub, bh : Good(h, sub, bh)
  BY DEF RedBlackTree
<1>3. Sorted(h, sub)
  BY <1>2 DEF Good
<1>4. k \in Nat
  BY <1>1, HeapHolds
<1>5. PICK path : path = Search(h, k)
  OBVIOUS
<1>6. Chain(h, path) /\ Below(h, path) = k
  BY <1>1, <1>3, <1>4, <1>5, SearchEnds
<1>7. PICK c \in Sides : c = IF h[k].link[0] # Null THEN 0 ELSE 1
  BY DEF Sides
<1>8. h[k].link[1 - c] = Null
  BY <1>7 DEF TwoChildren, Sides
<1>9. PICK x : x = h[k].link[c]
  OBVIOUS
<1>10. PICK h1 : h1 = Hang(h, Last(path).at, Last(path).side, x)
  OBVIOUS
<1>11. PICK g : g = [n \in DOMAIN h \ {k} |-> h1[n]]
  OBVIOUS
<1>12. g = [n \in DOMAIN h \ {k} |-> Hang(h, Last(path).at, Last(path).side, x)[n]]
  BY <1>10, <1>11
<1>13. Removed(h, g, path, k, x)
  BY <1>1, <1>3, <1>6, <1>8, <1>9, <1>12, RemoveIs
<1>14. PICK sub2, bh2 : IF Red(h, k) THEN Good(g, sub2, bh2) ELSE Sinking(g, path, x, sub2, bh2)
  BY <1>1, <1>2, <1>6, <1>8, <1>9, <1>13, RemoveSinks
<1>15. IsHeap(g) /\ DOMAIN g = DOMAIN h \ {k}
  BY <1>13 DEF Removed
<1>16. PICK f : f = IF Red(h, k) THEN g ELSE DeleteFix(g, path, x)
  OBVIOUS
<1>17. Delete(h, k) = f
  BY <1>5, <1>7, <1>9, <1>10, <1>11, <1>16 DEF Delete
<1>18. RedBlackTree(f) /\ DOMAIN f = DOMAIN g
  <2>1. CASE Red(h, k)
    BY <2>1, <1>14, <1>15, <1>16 DEF RedBlackTree
  <2>2. CASE ~Red(h, k)
    <3>1. Sinking(g, path, x, sub2, bh2)
      BY <2>2, <1>14
    <3>2. DOMAIN DeleteFix(g, path, x) = DOMAIN g /\ RedBlackTree(DeleteFix(g, path, x))
      BY <3>1, DeleteFixIs
    <3> QED BY <2>2, <3>2, <1>16
  <2> QED BY <2>1, <2>2
<1> QED BY <1>15, <1>17, <1>18

\* Deletion of a node that has two: the item of the next key moves into it
LEMMA DeleteTwoIs ==
  ASSUME NEW h, RedBlackTree(h), NEW k \in Elements(h), TwoChildren(h, k)
  PROVE  RedBlackTree(Delete(h, k)) /\ DOMAIN Delete(h, k) = DOMAIN h \ {k}
<1>1. IsHeap(h)
  BY DEF RedBlackTree
<1>2. PICK sub, bh : Good(h, sub, bh)
  BY DEF RedBlackTree
<1>3. Sorted(h, sub)
  BY <1>2 DEF Good
<1>4. Elements(h) \subseteq Nat \ {Null} /\ 0 \in Sides /\ 1 \in Sides /\ 1 - 1 = 0
      /\ Root \notin Elements(h) /\ DOMAIN h = Elements(h) \union {Root}
      /\ \A m \in Elements(h), d \in Sides : h[m].link[d] \in Elements(h) \union {Null}
  <2>1. Root \in DOMAIN h /\ Elements(h) = DOMAIN h \ {Root} /\ Elements(h) \subseteq Nat \ {Null}
        /\ \A m \in DOMAIN h, d \in Sides : h[m].link[d] \in Elements(h) \union {Null}
    BY <1>1, HeapHolds
  <2>2. Elements(h) \subseteq DOMAIN h /\ 0 \in Sides /\ 1 \in Sides /\ 1 - 1 = 0
    BY <2>1 DEF Sides
  <2>3. Root \notin Elements(h) /\ DOMAIN h = Elements(h) \union {Root}
    BY <2>1
  <2> QED BY <2>1, <2>2, <2>3
<1>5. PICK path : path = LeftmostPath(h, Search(h, k) \o Step(k, 1))
  OBVIOUS
<1>6. PICK y : y = Below(h, path)
  OBVIOUS
<1>7. /\ Chain(h, path) /\ y \in Elements(h) /\ h[y].link[0] = Null /\ k < y
      /\ \A m \in Elements(h) : k < m => y <= m
  BY <1>1, <1>3, <1>5, <1>6, SuccessorIs
<1>8. PICK x : x = h[y].link[1]
  OBVIOUS
<1>9. x \in Elements(h) \union {Null} /\ x # y /\ x # k
  <2>1. x \in Elements(h) \union {Null}
    BY <1>4, <1>7, <1>8
  <2>2. x # Null => Beside(y, 1, x)
    BY <1>1, <1>3, <1>4, <1>7, <1>8, SortedAt
  <2> QED BY <2>1, <2>2, <1>4, <1>7 DEF Beside
<1>10. PICK h1 : h1 = Hang(h, Last(path).at, Last(path).side, x)
  OBVIOUS
<1>11. PICK g : g = [n \in DOMAIN h \ {y} |-> h1[n]]
  OBVIOUS
<1>12. g = [n \in DOMAIN h \ {y} |-> Hang(h, Last(path).at, Last(path).side, x)[n]]
  BY <1>10, <1>11
<1>13. h[y].link[1 - 1] = Null
  BY <1>7
<1>14. Removed(h, g, path, y, x)
  BY <1>1, <1>3, <1>4, <1>6, <1>7, <1>8, <1>12, <1>13, RemoveIs
<1>15. PICK sub2, bh2 : IF Red(h, y) THEN Good(g, sub2, bh2) ELSE Sinking(g, path, x, sub2, bh2)
  BY <1>1, <1>2, <1>4, <1>6, <1>7, <1>8, <1>13, <1>14, RemoveSinks
<1>16. IsHeap(g) /\ DOMAIN g = DOMAIN h \ {y} /\ Elements(g) = Elements(h) \ {y}
  BY <1>14 DEF Removed
<1>17. PICK f : f = TakeItem(h1, k, y)
  OBVIOUS
<1>18. Renamed(g, f, k, y)
  <2>1. f = TakeItem(Hang(h, Last(path).at, Last(path).side, x), k, y) /\ k # y
    BY <1>4, <1>7, <1>10, <1>17
  <2> QED BY <2>1, <1>1, <1>6, <1>7, <1>9, <1>14, TakeItemIs
<1>19. IsHeap(f) /\ DOMAIN f = DOMAIN h \ {k}
  <2>1. IsHeap(f) /\ DOMAIN f = (DOMAIN g \ {k}) \union {y}
    BY <1>18 DEF Renamed
  <2> QED BY <2>1, <1>4, <1>7, <1>16
<1>20. \A a, b \in Elements(g) : a < b => Named(k, y, a) < Named(k, y, b)
  <2>1. ASSUME NEW a \in Elements(h), NEW b \in Elements(h), a # y, b # y, a < b
        PROVE  Named(k, y, a) < Named(k, y, b)
    <3>1. a \in Nat /\ b \in Nat /\ k \in Nat /\ y \in Nat /\ k < y
      BY <1>4, <1>7
    <3>2. a = k => y <= b
      BY <2>1, <1>7
    <3> QED BY <2>1, <3>1, <3>2 DEF Named
  <2> QED BY <2>1, <1>16
<1>21. PICK q : q = PathNamed(path, k, y)
  OBVIOUS
<1>22. /\ Good(g, sub2, bh2) => RedBlackTree(f)
       /\ Sinking(g, path, x, sub2, bh2) => \E sub3, bh3 : Sinking(f, q, x, sub3, bh3)
  <2>1. k \in Elements(g) /\ y \in Nat \ {Root} /\ y \notin DOMAIN g
    BY <1>4, <1>7, <1>16
  <2> QED BY <2>1, <1>9, <1>16, <1>18, <1>20, <1>21, RenameSinks
<1>23. PICK e : e = IF Red(h, y) THEN f ELSE DeleteFix(f, q, x)
  OBVIOUS
<1>24. Delete(h, k) = e
  BY <1>5, <1>6, <1>8, <1>10, <1>17, <1>21, <1>23 DEF Delete, PathNamed
<1>25. RedBlackTree(e) /\ DOMAIN e = DOMAIN f
  <2>1. CASE Red(h, y)
    BY <2>1, <1>15, <1>22, <1>23
  <2>2. CASE ~Red(h, y)
    <3>1. PICK sub3, bh3 : Sinking(f, q, x, sub3, bh3)
      BY <2>2, <1>15, <1>22
    <3>2. DOMAIN DeleteFix(f, q, x) = DOMAIN f /\ RedBlackTree(DeleteFix(f, q, x))
      BY <3>1, DeleteFixIs
    <3> QED BY <2>2, <3>2, <1>23
  <2> QED BY <2>1, <2>2
<1> QED BY <1>19, <1>24, <1>25

(* rb_delete takes exactly the node of k out and leaves a red-black tree.  *)
LEMMA DeleteIs ==
  ASSUME NEW h, RedBlackTree(h), NEW k \in Elements(h)
  PROVE  RedBlackTree(Delete(h, k)) /\ Elements(Delete(h, k)) = Elements(h) \ {k}
<1>1. RedBlackTree(Delete(h, k)) /\ DOMAIN Delete(h, k) = DOMAIN h \ {k}
  BY DeleteOneIs, DeleteTwoIs
<1> QED BY <1>1 DEF Elements

-----------------------------------------------------------------------------
(* Traversal *)

(* The stack of a traverser holds the nodes whose left sides are done, the *)
(* least on top: what is right of one comes before the one under it.       *)
Spans(h, sub, x, lo, stack) ==
  \A m \in Elements(h) :
    m \in Under(sub, x) <=> lo < m /\ (stack # <<>> => m < Last(stack))

Stacked(h, sub, stack) ==
  /\ stack \in Seq(Elements(h))
  /\ \A i \in 1..Len(stack) :
       /\ i > 1 => stack[i] < stack[i - 1]
       /\ \A m \in Elements(h) :
            m \in Under(sub, h[stack[i]].link[1]) <=> stack[i] < m /\ (i > 1 => m < stack[i - 1])

Pushed(stack, x, q) == q = Append(stack, x)

\* what a stack is after a push
LEMMA AppendIs ==
  ASSUME NEW T, NEW q \in Seq(T), NEW e \in T
  PROVE  /\ Append(q, e) \in Seq(T) \ {<<>>} /\ Append(q, e) # q
         /\ Len(Append(q, e)) = Len(q) + 1 /\ Len(q) \in Nat
         /\ \A i \in 1..Len(q) : Append(q, e)[i] = q[i]
         /\ Append(q, e)[Len(q) + 1] = e /\ Last(Append(q, e)) = e
         /\ q = <<>> <=> Len(q) = 0
<1>1. Append(q, e) \in Seq(T) /\ Len(Append(q, e)) = Len(q) + 1 /\ Len(q) \in Nat
  OBVIOUS
<1>2. Append(q, e)[Len(q) + 1] = e /\ \A i \in 1..Len(q) : Append(q, e)[i] = q[i]
  OBVIOUS
<1>3. q = <<>> <=> Len(q) = 0
  OBVIOUS
<1>4. Append(q, e) # q /\ Append(q, e) # <<>>
  BY <1>1
<1> QED BY <1>1, <1>2, <1>3, <1>4 DEF Last

\* a node whose keys are the next ones can go on the stack, which leaves the keys on its left
LEMMA PushIs ==
  ASSUME NEW h, IsHeap(h), NEW sub, Sorted(h, sub), NEW stack, Stacked(h, sub, stack),
         NEW x \in Elements(h), NEW lo \in Nat, Spans(h, sub, x, lo, stack),
         NEW q, Pushed(stack, x, q)
  PROVE  /\ q \in Seq(Elements(h)) \ {<<>>} /\ Last(q) = x
         /\ Stacked(h, sub, q) /\ lo < x /\ Spans(h, sub, h[x].link[0], lo, q)
<1>1. Elements(h) \subseteq Nat \ {Null} /\ 0 \in Sides /\ 1 \in Sides /\ 1 - 1 = 0 /\ 1 - 0 = 1
  BY HeapHolds DEF Sides
<1>2. PICK E : E = Elements(h)
  OBVIOUS
<1>3. stack \in Seq(E) /\ x \in E
  BY <1>2 DEF Stacked
<1>4. /\ q \in Seq(E) \ {<<>>} /\ Last(q) = x
      /\ Len(q) = Len(stack) + 1 /\ Len(stack) \in Nat
      /\ \A i \in 1..Len(stack) : q[i] = stack[i]
      /\ q[Len(stack) + 1] = x
      /\ stack = <<>> <=> Len(stack) = 0
  BY <1>3, AppendIs DEF Pushed
<1>5. PICK n \in Nat : n = Len(stack)
  BY <1>4
<1>6. \A m \in E : m \in sub[x] <=> lo < m /\ (n > 0 => m < stack[n])
  BY <1>1, <1>2, <1>4, <1>5 DEF Spans, Under, Last
<1>7. PICK L, R : L = Under(sub, h[x].link[0]) /\ R = Under(sub, h[x].link[1])
  OBVIOUS
<1>8. /\ x \in sub[x] /\ sub[x] = {x} \union L \union R /\ sub[x] \subseteq E
      /\ \A m \in L : m < x
      /\ \A m \in R : x < m
  <2>1. x \in sub[x] /\ sub[x] \subseteq E /\ sub[x] = {x} \union L \union R /\ \A m \in L : Beside(x, 0, m)
    BY <1>1, <1>2, <1>7, SortedAt
  <2>2. \A m \in R : Beside(x, 1, m)
    BY <1>1, <1>7, SortedAt
  <2> QED BY <2>1, <2>2 DEF Beside
<1>9. lo < x /\ (n > 0 => x < stack[n])
  BY <1>3, <1>6, <1>8
<1>10. \A m \in E : m \in R <=> x < m /\ (n > 0 => m < stack[n])
  <2>1. ASSUME NEW m \in E, m \in R PROVE x < m /\ (n > 0 => m < stack[n])
    BY <2>1, <1>6, <1>8
  <2>2. ASSUME NEW m \in E, x < m, n > 0 => m < stack[n] PROVE m \in R
    <3>1. m \in Nat /\ x \in Nat
      BY <1>1, <1>2
    <3>2. m \in sub[x]
      BY <3>1, <2>2, <1>6, <1>9
    <3> QED BY <3>1, <3>2, <2>2, <1>8
  <2> QED BY <2>1, <2>2
<1>11. \A m \in E : m \in L <=> lo < m /\ m < x
  <2>1. ASSUME NEW m \in E, m \in L PROVE lo < m /\ m < x
    BY <2>1, <1>6, <1>8
  <2>2. ASSUME NEW m \in E, lo < m, m < x PROVE m \in L
    <3>1. m \in Nat /\ x \in Nat /\ (n > 0 => stack[n] \in Nat)
      BY <1>1, <1>2, <1>3, <1>5
    <3>2. m \in sub[x]
      BY <3>1, <2>2, <1>6, <1>9
    <3> QED BY <3>1, <3>2, <2>2, <1>8
  <2> QED BY <2>1, <2>2
<1>12. Spans(h, sub, h[x].link[0], lo, q)
  BY <1>2, <1>4, <1>7, <1>11 DEF Spans
<1>13. ASSUME NEW i \in 1..Len(q)
       PROVE  /\ i > 1 => q[i] < q[i - 1]
              /\ \A m \in E : m \in Under(sub, h[q[i]].link[1]) <=> q[i] < m /\ (i > 1 => m < q[i - 1])
  <2>1. CASE i = n + 1
    <3>1. q[i] = x /\ (i > 1 <=> n > 0) /\ (i > 1 => q[i - 1] = stack[n])
      BY <2>1, <1>4, <1>5
    <3> QED BY <3>1, <1>7, <1>9, <1>10
  <2>2. CASE i # n + 1
    <3>1. i \in 1..Len(stack) /\ q[i] = stack[i] /\ (i > 1 => q[i - 1] = stack[i - 1])
      BY <2>2, <1>4, <1>5
    <3> QED BY <3>1, <1>2 DEF Stacked
  <2> QED BY <2>1, <2>2
<1> QED BY <1>2, <1>4, <1>9, <1>12, <1>13 DEF Stacked

\* down the left side from x: the next key is on top
LEMMA DownLeftIs ==
  ASSUME NEW h, IsHeap(h), NEW sub, Sorted(h, sub), NEW stack, Stacked(h, sub, stack),
         NEW x \in Elements(h), NEW lo \in Nat, Spans(h, sub, x, lo, stack)
  PROVE  LET q == DownLeft(h, stack, x) IN
         /\ q \in Seq(Elements(h)) \ {<<>>} /\ Stacked(h, sub, q) /\ lo < Last(q)
         /\ Last(q) \in Elements(h) /\ \A m \in Elements(h) : lo < m => Last(q) <= m
<1> DEFINE F == Elements(h) \union {Freed}
           S == Seq(F) \ {<<>>}
           Left(st) == h[Last(st)].link[0]
           Inv(st) == /\ st \in Seq(Elements(h)) \ {<<>>} /\ Last(st) \in Elements(h)
                      /\ Stacked(h, sub, st) /\ lo < Last(st)
                      /\ Spans(h, sub, Left(st), lo, st)
           I == {st \in S : Inv(st)}
<1>1. PICK step : step = [st \in S |-> LET y == h[Last(st)].link[0] IN IF y = Null THEN st ELSE Append(st, y)]
  OBVIOUS
<1>2. PICK size : size = [st \in I |-> Cardinality(Under(sub, Left(st)))]
  OBVIOUS
<1>3. Elements(h) \subseteq Nat \ {Null} /\ x # Null /\ 0 \in Sides
  BY HeapHolds DEF Sides
<1>4. ASSUME NEW st \in Seq(Elements(h)) \ {<<>>} PROVE st \in S
  BY <1>4, SeqOfMore
<1>5. ASSUME NEW st \in I
      PROVE  size[st] \in Nat /\ (step[st] = st \/ (step[st] \in I /\ size[step[st]] < size[st]))
  <2>1. Inv(st) /\ size[st] = Cardinality(Under(sub, Left(st)))
    BY <1>2, <1>5
  <2>2. PICK l \in Elements(h) : l = Last(st)
    BY <2>1
  <2>3. size[st] \in Nat
    BY <2>1, <2>2, <1>3, FewerBelow
  <2>4. CASE Left(st) = Null
    BY <2>3, <2>4, <1>1, <1>5
  <2>5. CASE Left(st) # Null
    <3>1. PICK y \in Elements(h) : y = h[l].link[0] /\ Left(st) = y
      <4>1. l \in DOMAIN h
        BY DEF Elements
      <4> QED BY <4>1, <2>2, <2>5, <1>3, HeapHolds
    <3>2. PICK q : q = Append(st, y)
      OBVIOUS
    <3>3. step[st] = q
      BY <2>5, <3>1, <3>2, <1>1, <1>5
    <3>4. Spans(h, sub, y, lo, st) /\ Stacked(h, sub, st)
      BY <2>1, <3>1
    <3>5. /\ q \in Seq(Elements(h)) \ {<<>>} /\ Last(q) = y
          /\ Stacked(h, sub, q) /\ lo < y /\ Spans(h, sub, h[y].link[0], lo, q)
      <4>1. Pushed(st, y, q)
        BY <3>2 DEF Pushed
      <4> QED BY <3>4, <4>1, PushIs
    <3>6. Inv(q) /\ q \in I
      BY <3>5, <1>4
    <3>7. size[q] = Cardinality(Under(sub, h[y].link[0])) /\ size[st] = Cardinality(sub[y])
      BY <2>1, <3>1, <3>5, <3>6, <1>2, <1>3 DEF Under
    <3> QED BY <2>3, <3>3, <3>6, <3>7, <1>3, FewerBelow
  <2> QED BY <2>4, <2>5
<1>6. PICK q0 : q0 = Append(stack, x)
  OBVIOUS
<1>7. q0 \in I
  <2>1. /\ q0 \in Seq(Elements(h)) \ {<<>>} /\ Last(q0) = x
        /\ Stacked(h, sub, q0) /\ lo < x /\ Spans(h, sub, h[x].link[0], lo, q0)
    <3>1. Pushed(stack, x, q0)
      BY <1>6 DEF Pushed
    <3> QED BY <3>1, PushIs
  <2> QED BY <2>1, <1>4
<1>8. PICK q : q = DownLeft(h, stack, x)
  OBVIOUS
<1>9. q = Until(step)[q0]
  BY <1>1, <1>3, <1>6, <1>8 DEF DownLeft
<1>10. I \subseteq DOMAIN step /\ size \in [I -> Nat]
  BY <1>1, <1>2, <1>5
<1>11. q \in I /\ step[q] = q
  <2> HIDE DEF I
  <2>1. \A st \in I : step[st] = st \/ (step[st] \in I /\ size[step[st]] < size[st])
    BY <1>5
  <2> QED BY <1>7, <1>9, <1>10, <2>1, LoopEnds
<1>12. Left(q) = Null
  <2>1. ASSUME Left(q) # Null PROVE FALSE
    <3>1. PICK y \in F : y = Left(q)
      <4>1. Last(q) \in DOMAIN h
        BY <1>11 DEF Elements
      <4> QED BY <4>1, <2>1, <1>3, HeapHolds
    <3>2. step[q] = Append(q, y) /\ q \in Seq(F)
      BY <2>1, <3>1, <1>1, <1>11
    <3>3. Append(q, y) # q
      BY <3>1, <3>2, AppendIs
    <3> QED BY <3>2, <3>3, <1>11
  <2> QED BY <2>1
<1>13. ASSUME NEW m \in Elements(h), lo < m PROVE Last(q) <= m
  <2>1. Inv(q) /\ Last(q) \in Nat /\ m \in Nat
    BY <1>3, <1>11
  <2>2. ~(m < Last(q))
    BY <2>1, <1>12, <1>13 DEF Spans, Under
  <2> QED BY <2>1, <2>2
<1> QED BY <1>8, <1>11, <1>13

\* whatever is on the stack, a node goes on top
LEMMA DownLeftTop ==
  ASSUME NEW h, IsHeap(h), NEW sub, Sorted(h, sub), NEW stack \in Seq(Elements(h) \union {Freed}),
         NEW x \in Elements(h)
  PROVE  DownLeft(h, stack, x) \in Seq(Elements(h) \union {Freed}) \ {<<>>}
<1> DEFINE F == Elements(h) \union {Freed}
           S == Seq(F) \ {<<>>}
           I == {st \in S : Last(st) \in Elements(h)}
<1>1. PICK step : step = [st \in S |-> LET y == h[Last(st)].link[0] IN IF y = Null THEN st ELSE Append(st, y)]
  OBVIOUS
<1>2. PICK size : size = [st \in I |-> Cardinality(sub[Last(st)])]
  OBVIOUS
<1>3. Elements(h) \subseteq Nat \ {Null} /\ x # Null /\ 0 \in Sides
  BY HeapHolds DEF Sides
<1>4. ASSUME NEW st \in I
      PROVE  size[st] \in Nat /\ (step[st] = st \/ (step[st] \in I /\ size[step[st]] < size[st]))
  <2>1. PICK l \in Elements(h) : l = Last(st) /\ size[st] = Cardinality(sub[l])
    BY <1>2
  <2>2. size[st] \in Nat
    BY <2>1, <1>3, FewerBelow
  <2>3. CASE h[l].link[0] = Null
    BY <2>1, <2>2, <2>3, <1>1
  <2>4. CASE h[l].link[0] # Null
    <3>1. PICK y \in Elements(h) : y = h[l].link[0]
      BY <2>4, <1>3, SortedAt
    <3>2. PICK q : q = Append(st, y)
      OBVIOUS
    <3>3. step[st] = q
      BY <2>1, <2>4, <3>1, <3>2, <1>1
    <3>4. st \in Seq(F) /\ y \in F
      OBVIOUS
    <3>5. q \in Seq(F) \ {<<>>} /\ Last(q) = y
      BY <3>2, <3>4, AppendIs
    <3>6. q \in I
      BY <3>5
    <3>7. size[q] = Cardinality(sub[y]) /\ size[st] = Cardinality(sub[l]) /\ Under(sub, h[l].link[0]) = sub[y]
      BY <2>1, <3>1, <3>5, <3>6, <1>2, <1>3 DEF Under
    <3> QED BY <2>2, <3>3, <3>6, <3>7, <1>3, FewerBelow
  <2> QED BY <2>3, <2>4
<1>5. PICK q0 : q0 = Append(stack, x)
  OBVIOUS
<1>6. q0 \in I
  <2>1. stack \in Seq(F) /\ x \in F
    OBVIOUS
  <2>2. q0 \in Seq(F) \ {<<>>} /\ Last(q0) = x
    BY <1>5, <2>1, AppendIs
  <2> QED BY <2>2
<1>7. DownLeft(h, stack, x) = Until(step)[q0]
  BY <1>1, <1>3, <1>5 DEF DownLeft
<1>8. I \subseteq DOMAIN step /\ size \in [I -> Nat]
  BY <1>1, <1>2, <1>4
<1>9. DownLeft(h, stack, x) \in I
  <2> HIDE DEF I
  <2>1. \A st \in I : step[st] = st \/ (step[st] \in I /\ size[step[st]] < size[st])
    BY <1>4
  <2> QED BY <1>6, <1>7, <1>8, <2>1, LoopEnds
<1> QED BY <1>9

\* the stack is empty or has the key after lo on top
Ahead(h, sub, lo, stack) ==
  /\ Stacked(h, sub, stack)
  /\ stack = <<>> => \A m \in Elements(h) : ~(lo < m)
  /\ stack # <<>> => /\ Last(stack) \in Elements(h) /\ lo < Last(stack)
                     /\ \A m \in Elements(h) : lo < m => Last(stack) <= m

\* the first call goes to the first key
LEMMA BeginIs ==
  ASSUME NEW h, IsHeap(h), NEW sub, Sorted(h, sub), NEW x, x = h[Root].link[0]
  PROVE  Ahead(h, sub, 0, DownLeft(h, <<>>, x))
<1>1. x \in Elements(h) \union {Null} /\ Elements(h) \subseteq Nat \ {Null} /\ Root \notin Elements(h)
  BY HeapHolds DEF Sides
<1>2. Under(sub, x) = Elements(h)
  BY DEF Sorted, FromTop
<1>3. PICK none : none = <<>>
  OBVIOUS
<1>4. none \in Seq(Elements(h)) /\ Len(none) = 0
  BY <1>3
<1>5. Stacked(h, sub, none)
  BY <1>4 DEF Stacked
<1>6. CASE x = Null
  <2>1. DownLeft(h, none, x) = none
    BY <1>6 DEF DownLeft
  <2>2. Elements(h) = {}
    BY <1>2, <1>6 DEF Under
  <2> QED BY <2>1, <2>2, <1>3, <1>5 DEF Ahead
<1>7. CASE x # Null
  <2>1. \A m \in Elements(h) : 0 < m
    BY <1>1 DEF Root
  <2>2. Spans(h, sub, x, 0, none)
    BY <2>1, <1>2, <1>3 DEF Spans
  <2>3. PICK q : q = DownLeft(h, none, x)
    OBVIOUS
  <2>4. /\ q \in Seq(Elements(h)) \ {<<>>} /\ Stacked(h, sub, q) /\ 0 < Last(q)
        /\ Last(q) \in Elements(h) /\ \A m \in Elements(h) : 0 < m => Last(q) <= m
    BY <2>2, <2>3, <1>1, <1>5, <1>7, DownLeftIs
  <2> QED BY <2>3, <2>4, <1>3 DEF Ahead
<1> QED BY <1>6, <1>7

\* each other call goes to the next
LEMMA AdvanceIs ==
  ASSUME NEW h, IsHeap(h), NEW sub, Sorted(h, sub), NEW p \in Elements(h),
         NEW stack \in Seq(Elements(h)), Stacked(h, sub, Append(stack, p))
  PROVE  Ahead(h, sub, p, DownLeft(h, stack, h[p].link[1]))
<1>1. PICK x : x = h[p].link[1]
  OBVIOUS
<1>2. Elements(h) \subseteq Nat \ {Null} /\ 1 \in Sides /\ p \in DOMAIN h
  BY HeapHolds DEF Sides, Elements
<1>3. x \in Elements(h) \union {Null}
  BY <1>1, <1>2, HeapHolds
<1>4. PICK f : f = Append(stack, p)
  OBVIOUS
<1>5. PICK n \in Nat : n = Len(stack)
  BY AppendIs
<1>6. /\ Len(f) = n + 1 /\ f[n + 1] = p /\ (\A i \in 1..n : f[i] = stack[i])
      /\ (stack = <<>> <=> n = 0)
  BY <1>4, <1>5, AppendIs
<1>7. Stacked(h, sub, f)
  BY <1>4
<1>8. ASSUME NEW i \in 1..n + 1
      PROVE  /\ i > 1 => f[i] < f[i - 1]
             /\ \A m \in Elements(h) :
                  m \in Under(sub, h[f[i]].link[1]) <=> f[i] < m /\ (i > 1 => m < f[i - 1])
  BY <1>6, <1>7 DEF Stacked
<1>9. Stacked(h, sub, stack)
  <2>1. ASSUME NEW i \in 1..n
        PROVE  /\ i > 1 => stack[i] < stack[i - 1]
               /\ \A m \in Elements(h) :
                    m \in Under(sub, h[stack[i]].link[1]) <=> stack[i] < m /\ (i > 1 => m < stack[i - 1])
    <3>1. i \in 1..n + 1 /\ f[i] = stack[i] /\ (i > 1 => f[i - 1] = stack[i - 1])
      BY <1>6
    <3> QED BY <3>1, <1>8
  <2> QED BY <2>1, <1>5 DEF Stacked
<1>10. /\ n > 0 => p < stack[n] /\ stack[n] \in Elements(h) /\ Last(stack) = stack[n]
       /\ \A m \in Elements(h) : m \in Under(sub, x) <=> p < m /\ (n > 0 => m < stack[n])
  <2>1. n + 1 \in 1..n + 1 /\ (n + 1 > 1 <=> n > 0) /\ (n + 1) - 1 = n
    BY <1>5
  <2>2. n > 0 => n \in 1..n /\ f[n] = stack[n]
    BY <1>5, <1>6
  <2>3. n > 0 => stack[n] \in Elements(h) /\ Last(stack) = stack[n]
    BY <2>2, <1>5 DEF Last
  <2>4. /\ n > 0 => f[n + 1] < f[n]
        /\ \A m \in Elements(h) :
             m \in Under(sub, h[f[n + 1]].link[1]) <=> f[n + 1] < m /\ (n > 0 => m < f[n])
    BY <2>1, <1>8
  <2> QED BY <2>2, <2>3, <2>4, <1>1, <1>6
<1>11. CASE x = Null
  <2>1. DownLeft(h, stack, x) = stack
    BY <1>11 DEF DownLeft
  <2>2. \A m \in Elements(h) : ~(p < m /\ (n > 0 => m < stack[n]))
    BY <1>10, <1>11 DEF Under
  <2>3. n = 0 => \A m \in Elements(h) : ~(p < m)
    BY <2>2
  <2>4. ASSUME n > 0, NEW m \in Elements(h), p < m PROVE stack[n] <= m
    BY <2>2, <2>4, <1>2, <1>10
  <2> QED BY <2>1, <2>3, <2>4, <1>1, <1>5, <1>6, <1>9, <1>10 DEF Ahead
<1>12. CASE x # Null
  <2>1. Spans(h, sub, x, p, stack)
    BY <1>5, <1>6, <1>10 DEF Spans
  <2>2. PICK q : q = DownLeft(h, stack, x)
    OBVIOUS
  <2>3. p \in Nat /\ x \in Elements(h)
    BY <1>2, <1>3, <1>12
  <2>4. /\ q \in Seq(Elements(h)) \ {<<>>} /\ Stacked(h, sub, q) /\ p < Last(q)
        /\ Last(q) \in Elements(h) /\ \A m \in Elements(h) : p < m => Last(q) <= m
    BY <2>1, <2>2, <2>3, <1>9, DownLeftIs
  <2> QED BY <2>2, <2>4, <1>1 DEF Ahead
<1> QED BY <1>3, <1>11, <1>12, <1>1

\* all but the top of a stack, and the top, are the stack
LEMMA TopIs ==
  ASSUME NEW T, NEW q \in Seq(T), q # <<>>
  PROVE  /\ Last(q) \in T /\ SubSeq(q, 1, Len(q) - 1) \in Seq(T)
         /\ Append(SubSeq(q, 1, Len(q) - 1), Last(q)) = q
<1>1. PICK n \in Nat : n = Len(q) - 1 /\ Len(q) = n + 1
  BY EmptySeq, LenProperties
<1>2. PICK f : f = SubSeq(q, 1, n)
  OBVIOUS
<1>3. f \in Seq(T) /\ Len(f) = n /\ \A i \in 1..n : f[i] = q[i]
  BY <1>1, <1>2
<1>4. Last(q) = q[n + 1] /\ q[n + 1] \in T
  BY <1>1 DEF Last
<1>5. PICK g : g = Append(f, q[n + 1])
  OBVIOUS
<1>6. /\ g \in Seq(T) /\ Len(g) = n + 1 /\ (\A i \in 1..n : g[i] = f[i]) /\ g[n + 1] = q[n + 1]
  BY <1>3, <1>4, <1>5, AppendIs
<1>7. \A i \in 1..n + 1 : g[i] = q[i]
  BY <1>3, <1>6
<1>8. g = q
  BY <1>1, <1>6, <1>7, SeqEqual
<1> QED BY <1>1, <1>2, <1>3, <1>4, <1>5, <1>8

Travs(E) == [init : BOOLEAN, p : E \union {Freed, Null}, stack : Seq(E \union {Freed})]

\* what a traverser is after rb_traverse
LEMMA TraverseTyped ==
  ASSUME NEW h, RedBlackTree(h), NEW trav \in Travs(Elements(h)), trav.init => trav.p \in Elements(h),
         NEW b, b = Traverse(h, trav)
  PROVE  b \in Travs(Elements(h)) /\ (b.init => b.p # Null)
<1>1. IsHeap(h)
  BY DEF RedBlackTree
<1>2. PICK sub : Sorted(h, sub)
  BY DEF RedBlackTree, Good
<1>3. PICK F : F = Elements(h) \union {Freed}
  OBVIOUS
<1>4. PICK first, x : /\ first = (IF trav.init THEN trav.stack ELSE <<>>)
                      /\ x = (IF trav.init THEN h[trav.p].link[1] ELSE h[Root].link[0])
  OBVIOUS
<1>5. trav.init \in BOOLEAN /\ trav.stack \in Seq(F)
  BY <1>3 DEF Travs
<1>6. first \in Seq(F)
  BY <1>4, <1>5
<1>7. x \in Elements(h) \union {Null} /\ Null \notin F
  BY <1>1, <1>3, <1>4, HeapHolds, RbTreeAssumption DEF Sides, Elements
<1>8. PICK q : q = DownLeft(h, first, x)
  OBVIOUS
<1>9. q \in Seq(F)
  <2>1. CASE x = Null
    BY <2>1, <1>6, <1>8 DEF DownLeft
  <2>2. CASE x # Null
    BY <2>2, <1>1, <1>2, <1>3, <1>6, <1>7, <1>8, DownLeftTop
  <2> QED BY <2>1, <2>2
<1>10. b = IF q = <<>> THEN NoTraversal
           ELSE [init |-> TRUE, p |-> Last(q), stack |-> SubSeq(q, 1, Len(q) - 1)]
  <2>1. q = IF trav.init THEN DownLeft(h, trav.stack, h[trav.p].link[1]) ELSE DownLeft(h, <<>>, h[Root].link[0])
    BY <1>4, <1>5, <1>8
  <2> QED BY <2>1 DEF Traverse
<1>11. CASE q = <<>>
  <2>1. b = [init |-> FALSE, p |-> Null, stack |-> <<>>]
    BY <1>10, <1>11 DEF NoTraversal
  <2>2. <<>> \in Seq(F)
    OBVIOUS
  <2> QED BY <2>1, <2>2, <1>3 DEF Travs
<1>12. CASE q # <<>>
  <2>1. PICK l, f : l = Last(q) /\ f = SubSeq(q, 1, Len(q) - 1)
    OBVIOUS
  <2>2. l \in F /\ f \in Seq(F)
    BY <2>1, <1>9, <1>12, TopIs
  <2>3. b = [init |-> TRUE, p |-> l, stack |-> f]
    BY <2>1, <1>10, <1>12
  <2> QED BY <2>2, <2>3, <1>3, <1>7 DEF Travs
<1> QED BY <1>11, <1>12

\* while the traversal has removed nothing, its stack is in order
Follows(h, trav) ==
  /\ trav.p \in Elements(h) /\ trav.stack \in Seq(Elements(h))
  /\ \E sub : Sorted(h, sub) /\ Stacked(h, sub, Append(trav.stack, trav.p))

(* rb_traverse returns the least key after the last one returned, or       *)
(* nothing when there is none.                                             *)
LEMMA TraverseIs ==
  ASSUME NEW h, RedBlackTree(h), NEW trav, trav.init \in BOOLEAN, trav.init => Follows(h, trav),
         NEW b, b = Traverse(h, trav), NEW lo, lo = IF trav.init THEN trav.p ELSE 0
  PROVE  \/ ~b.init /\ \A m \in Elements(h) : ~(lo < m)
         \/ /\ b.init /\ Follows(h, b) /\ lo < b.p
            /\ \A m \in Elements(h) : lo < m => b.p <= m
<1>1. IsHeap(h)
  BY DEF RedBlackTree
<1>2. PICK q : q = IF trav.init THEN DownLeft(h, trav.stack, h[trav.p].link[1]) ELSE DownLeft(h, <<>>, h[Root].link[0])
  OBVIOUS
<1>3. PICK sub : Sorted(h, sub) /\ Ahead(h, sub, lo, q)
  <2>1. CASE trav.init
    <3>1. PICK p, stack : p = trav.p /\ stack = trav.stack
      OBVIOUS
    <3>2. PICK sub : /\ p \in Elements(h) /\ stack \in Seq(Elements(h))
                     /\ Sorted(h, sub) /\ Stacked(h, sub, Append(stack, p))
      BY <2>1, <3>1 DEF Follows
    <3>3. Ahead(h, sub, p, DownLeft(h, stack, h[p].link[1]))
      BY <3>2, <1>1, AdvanceIs
    <3>4. q = DownLeft(h, stack, h[p].link[1]) /\ lo = p
      BY <2>1, <3>1, <1>2
    <3> QED BY <3>2, <3>3, <3>4
  <2>2. CASE ~trav.init
    <3>1. PICK sub : Sorted(h, sub)
      BY DEF RedBlackTree, Good
    <3>2. Ahead(h, sub, 0, DownLeft(h, <<>>, h[Root].link[0]))
      BY <3>1, <1>1, BeginIs
    <3>3. q = DownLeft(h, <<>>, h[Root].link[0]) /\ lo = 0
      BY <2>2, <1>2
    <3> QED BY <3>1, <3>2, <3>3
  <2> QED BY <2>1, <2>2
<1>4. b = IF q = <<>> THEN NoTraversal
          ELSE [init |-> TRUE, p |-> Last(q), stack |-> SubSeq(q, 1, Len(q) - 1)]
  BY <1>2 DEF Traverse
<1>5. CASE q = <<>>
  <2>1. ~b.init
    BY <1>4, <1>5 DEF NoTraversal
  <2> QED BY <2>1, <1>3, <1>5 DEF Ahead
<1>6. CASE q # <<>>
  <2>1. PICK l, f : l = Last(q) /\ f = SubSeq(q, 1, Len(q) - 1)
    OBVIOUS
  <2>2. b = [init |-> TRUE, p |-> l, stack |-> f]
    BY <2>1, <1>4, <1>6
  <2>3. b.init /\ b.p = l /\ b.stack = f
    BY <2>2
  <2>4. q \in Seq(Elements(h)) /\ Stacked(h, sub, q)
    BY <1>3 DEF Ahead, Stacked
  <2>5. l \in Elements(h) /\ f \in Seq(Elements(h)) /\ Append(f, l) = q
    BY <2>1, <2>4, <1>6, TopIs
  <2>6. Follows(h, b)
    BY <2>3, <2>4, <2>5, <1>3 DEF Follows
  <2>7. lo < l /\ \A m \in Elements(h) : lo < m => l <= m
    BY <2>1, <1>3, <1>6 DEF Ahead
  <2> QED BY <2>3, <2>6, <2>7
<1> QED BY <1>5, <1>6

\* a deletion leaves a pointer to a node or to freed memory
LEMMA PointerIs ==
  ASSUME NEW h, RedBlackTree(h), NEW k \in Elements(h)
  PROVE  /\ \A n \in Elements(h) \union {Freed} :
              PointerAfterDelete(h, k, n) \in (Elements(h) \ {k}) \union {Freed}
         /\ PointerAfterDelete(h, k, Null) = Null
<1>1. IsHeap(h) /\ k \in DOMAIN h
  BY DEF RedBlackTree, Elements
<1>2. PICK sub : Sorted(h, sub)
  BY DEF RedBlackTree, Good
<1>3. Elements(h) \subseteq Nat \ {Null} /\ Freed \notin Elements(h) /\ Null # Freed
  BY <1>1, HeapHolds, RbTreeAssumption
<1>4. PICK y : y = IF TwoChildren(h, k)
                   THEN Below(h, LeftmostPath(h, Search(h, k) \o Step(k, 1)))
                   ELSE k
  OBVIOUS
<1>5. y \in Elements(h) /\ (TwoChildren(h, k) => y # k) /\ (~TwoChildren(h, k) => y = k)
  <2>1. CASE TwoChildren(h, k)
    <3>1. y = Below(h, LeftmostPath(h, Search(h, k) \o Step(k, 1)))
      BY <2>1, <1>4
    <3>2. y \in Elements(h) /\ k < y
      BY <2>1, <3>1, <1>1, <1>2, SuccessorIs
    <3> QED BY <2>1, <3>2, <1>3
  <2>2. CASE ~TwoChildren(h, k)
    BY <2>2, <1>4
  <2> QED BY <2>1, <2>2
<1>6. ASSUME NEW n
      PROVE  PointerAfterDelete(h, k, n) = IF n = y THEN Freed ELSE IF n = k THEN y ELSE n
  BY <1>1, <1>4 DEF PointerAfterDelete
<1>7. \A n \in Elements(h) \union {Freed} :
        (IF n = y THEN Freed ELSE IF n = k THEN y ELSE n) \in (Elements(h) \ {k}) \union {Freed}
  BY <1>3, <1>5
<1>8. (IF Null = y THEN Freed ELSE IF Null = k THEN y ELSE Null) = Null
  BY <1>3, <1>5
<1> QED BY <1>6, <1>7, <1>8
=============================================================================
