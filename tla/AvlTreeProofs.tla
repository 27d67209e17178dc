--------------------------- MODULE AvlTreeProofs ---------------------------
(***************************************************************************)
(* The tree of AvlTree.tla keeps its order and its balance, answers as the *)
(* set it implements and is freed whole, for every set of elements and     *)
(* every sequence of calls.                                                *)
(*                                                                         *)
(* The links are a tree when every node n of a set u has an interval       *)
(* lo[n] .. hi[n] that ends at nodes above it, these are nested or apart,  *)
(* and a place points to the node that fills its interval (Shape): no      *)
(* induction over the tree is needed to say so.  Flags are right when      *)
(* heights V exist that they tell, but for one place, where the subtree is *)
(* delta higher than was told (Even).  The calls that have not returned    *)
(* are a chain of places, each below the one before (Chain), so that a     *)
(* change below the last one (Relinked) leaves the chain a chain.          *)
(***************************************************************************)
EXTENDS AvlTree, SequenceTheorems, FiniteSetTheorems, TLAPS

Sides == {L, R}

\* The place of the tree's root is the right link of a node before all others.
Tree == -1

Live(u) == {Root} \cup (u \X Sides)

\* The elements a place can have under it are those between two nodes above it.
Low(lo, pp)  == IF pp[2] = L THEN lo[pp[1]] ELSE pp[1]
High(hi, pp) == IF pp[2] = L THEN pp[1] ELSE hi[pp[1]]

\* Every interval holds its node and ends at nodes of the tree.
Bounded(u, lo, hi) ==
  /\ lo \in [Keys \cup {Tree} -> Int] /\ hi \in [Keys \cup {Tree} -> Int]
  /\ \A n \in u \cup {Tree} : lo[n] < n /\ n < hi[n] /\ n < hi[Tree]
  /\ \A n \in u : lo[n] \in u \cup {Tree} /\ hi[n] \in u \cup {hi[Tree]}

\* Of two nodes one lies in the other's interval, or these are apart.
Nested(u, lo, hi) ==
  \A m, n \in u \cup {Tree} : m < n =>
    \/ hi[m] <= n /\ lo[n] <= lo[m]
    \/ m <= lo[n] /\ hi[n] <= hi[m]
    \/ hi[m] <= lo[n]

\* The place pp points to the node of its interval, or no node lies in it.
Hanging(lk, u, lo, hi, pp) ==
  IF lk[pp] = NULL THEN \A z \in u : ~(Low(lo, pp) < z /\ z < High(hi, pp))
  ELSE lk[pp] \in u /\ lo[lk[pp]] = Low(lo, pp) /\ hi[lk[pp]] = High(hi, pp)

\* The links lk make a search tree of the nodes u.
Shape(lk, u, lo, hi) ==
  /\ lk \in [Places -> Keys \cup {NULL}] /\ u \subseteq Keys
  /\ Bounded(u, lo, hi)
  /\ Nested(u, lo, hi)
  /\ \A pp \in Live(u) : Hanging(lk, u, lo, hi, pp)

\* A node hangs at one place only.
LEMMA HangsOnce ==
  ASSUME NEW lk, NEW u, NEW lo, NEW hi, Shape(lk, u, lo, hi),
         NEW s \in Live(u), NEW t \in Live(u), lk[s] = lk[t], lk[s] # NULL
  PROVE  s = t
<1>1. PICK m \in u \cup {Tree}, d \in Sides : s = <<m, d>>
  BY DEF Live, Root, Tree, Sides
<1>2. PICK n \in u \cup {Tree}, e \in Sides : t = <<n, e>>
  BY DEF Live, Root, Tree, Sides
<1>3. u \subseteq Int
  BY KeysAssumption DEF Shape
<1>4. lo \in [Keys \cup {Tree} -> Int] /\ hi \in [Keys \cup {Tree} -> Int] /\ u \subseteq Keys
  BY DEF Shape, Bounded
<1>5. m = n /\ d = e
  BY <1>1, <1>2, <1>3, <1>4, KeysAssumption DEF Shape, Bounded, Nested, Hanging, Low, High, Sides, L, R, Tree, NULL
<1> QED  BY <1>1, <1>2, <1>5

\* The ends after a single rotation.
SingleLow(lo, a, b, dir)  == IF dir = R THEN [lo EXCEPT ![b] = lo[a]] ELSE [lo EXCEPT ![a] = b]
SingleHigh(hi, a, b, dir) == IF dir = R THEN [hi EXCEPT ![a] = b] ELSE [hi EXCEPT ![b] = hi[a]]

\* The two nodes of a rotation, and the ends of what hangs below them.
LEMMA SingleTypes ==
  ASSUME NEW lk, NEW u, NEW lo, NEW hi, Shape(lk, u, lo, hi),
         NEW pp \in Live(u), NEW dir \in Sides,
         NEW a, a = lk[pp], a # NULL, NEW b, b = lk[<<a, dir>>], b # NULL
  PROVE  /\ a \in u /\ b \in u /\ a # b /\ u \subseteq Keys /\ u \subseteq Nat /\ NULL \notin u
         /\ dir = R => lo[b] = a /\ hi[b] = hi[a] /\ a < b
         /\ dir = L => hi[b] = a /\ lo[b] = lo[a] /\ b < a
  BY KeysAssumption DEF Shape, Bounded, Hanging, Low, High, Sides, L, R, Tree, NULL, Live

\* The ends of a tree stay nested when one of two nodes goes up past the other.
LEMMA SingleNested ==
  ASSUME NEW lk, NEW u, NEW lo, NEW hi, Shape(lk, u, lo, hi),
         NEW pp \in Live(u), NEW dir \in Sides,
         NEW a, a = lk[pp], a # NULL, NEW b, b = lk[<<a, dir>>], b # NULL
  PROVE  /\ Bounded(u, SingleLow(lo, a, b, dir), SingleHigh(hi, a, b, dir))
         /\ Nested(u, SingleLow(lo, a, b, dir), SingleHigh(hi, a, b, dir))
<1>1. /\ a \in u /\ b \in u /\ a # b /\ u \subseteq Keys /\ u \subseteq Nat /\ NULL \notin u
      /\ dir = R => lo[b] = a /\ hi[b] = hi[a] /\ a < b
      /\ dir = L => hi[b] = a /\ lo[b] = lo[a] /\ b < a
  BY SingleTypes
<1>2. Bounded(u, lo, hi) /\ Nested(u, lo, hi)
  BY DEF Shape
<1> DEFINE lo2 == SingleLow(lo, a, b, dir)
           hi2 == SingleHigh(hi, a, b, dir)
<1>3. Bounded(u, lo2, hi2)
  BY <1>1, <1>2 DEF Bounded, SingleLow, SingleHigh, Tree, Sides, L, R
<1>4. Nested(u, lo2, hi2)
  BY <1>1, <1>2 DEF Bounded, Nested, SingleLow, SingleHigh, Tree, Sides, L, R
<1> QED  BY <1>3, <1>4

\* What the places point to after a rotation.
LEMMA SingleLinks ==
  ASSUME NEW lk \in [Places -> Keys \cup {NULL}], NEW u, u \subseteq Keys, NEW pp \in Live(u), NEW dir \in Sides,
         NEW a \in Keys, NEW b \in Keys, a # b, pp \notin {<<a, L>>, <<a, R>>, <<b, L>>, <<b, R>>}
  PROVE  /\ Single(lk, pp, a, b, dir) \in [Places -> Keys \cup {NULL}]
         /\ Single(lk, pp, a, b, dir)[pp] = b
         /\ Single(lk, pp, a, b, dir)[<<b, 1 - dir>>] = a
         /\ Single(lk, pp, a, b, dir)[<<a, dir>>] = lk[<<b, 1 - dir>>]
         /\ \A s \in Places \ {pp, <<a, dir>>, <<b, 1 - dir>>} : Single(lk, pp, a, b, dir)[s] = lk[s]
<1>1. pp \in Places /\ <<a, dir>> \in Places /\ <<b, 1 - dir>> \in Places
  BY DEF Live, Places, Sides, L, R
<1> QED  BY <1>1 DEF Single, Sides, L, R

\* A single rotation leaves a tree, of the same nodes in the same order.
LEMMA SingleShape ==
  ASSUME NEW lk, NEW u, NEW lo, NEW hi, Shape(lk, u, lo, hi),
         NEW pp \in Live(u), NEW dir \in Sides,
         NEW a, a = lk[pp], a # NULL, NEW b, b = lk[<<a, dir>>], b # NULL
  PROVE  Shape(Single(lk, pp, a, b, dir), u, SingleLow(lo, a, b, dir), SingleHigh(hi, a, b, dir))
<1>1. /\ a \in u /\ b \in u /\ a # b /\ u \subseteq Keys /\ u \subseteq Nat /\ NULL \notin u
      /\ dir = R => lo[b] = a /\ hi[b] = hi[a] /\ a < b
      /\ dir = L => hi[b] = a /\ lo[b] = lo[a] /\ b < a
  BY SingleTypes
<1>2. Bounded(u, lo, hi) /\ lk \in [Places -> Keys \cup {NULL}] /\ (\A s \in Live(u) : Hanging(lk, u, lo, hi, s))
  BY DEF Shape
<1> DEFINE lo2 == SingleLow(lo, a, b, dir)
           hi2 == SingleHigh(hi, a, b, dir)
           lk2 == Single(lk, pp, a, b, dir)
<1>3. Bounded(u, lo2, hi2) /\ Nested(u, lo2, hi2)
  BY SingleNested
<1>4. pp[1] \in u \cup {Tree} /\ pp[2] \in Sides /\ pp = <<pp[1], pp[2]>>
  BY DEF Live, Root, Tree, Sides
<1>5. pp[1] # a /\ pp[1] # b
  BY <1>1, <1>2, <1>4, KeysAssumption DEF Hanging, Low, High, Bounded, Sides, L, R, Tree
<1>6. pp \notin {<<a, L>>, <<a, R>>, <<b, L>>, <<b, R>>}
  BY <1>4, <1>5
<1>7. /\ lk2 \in [Places -> Keys \cup {NULL}] /\ lk2[pp] = b /\ lk2[<<b, 1 - dir>>] = a
      /\ lk2[<<a, dir>>] = lk[<<b, 1 - dir>>]
      /\ \A s \in Places \ {pp, <<a, dir>>, <<b, 1 - dir>>} : lk2[s] = lk[s]
  <2>1. a \in Keys /\ b \in Keys /\ a # b /\ u \subseteq Keys
    BY <1>1
  <2>2. lk \in [Places -> Keys \cup {NULL}]
    BY <1>2
  <2> QED  BY ONLY <1>6, <2>1, <2>2, pp \in Live(u), dir \in Sides, SingleLinks
<1>8. Live(u) \subseteq Places
  BY <1>1 DEF Live, Places, Sides
<1>9. ASSUME NEW s \in Live(u)
      PROVE  Hanging(lk2, u, lo2, hi2, s)
  <2>1. CASE s = pp
    BY <2>1, <1>1, <1>2, <1>4, <1>5, <1>7 DEF Hanging, Low, High, SingleLow, SingleHigh, Bounded, Sides, L, R, Tree
  <2>2. CASE s = <<b, 1 - dir>>
    BY <2>2, <1>1, <1>2, <1>4, <1>5, <1>7 DEF Hanging, Low, High, SingleLow, SingleHigh, Bounded, Sides, L, R, Tree
  <2>3. CASE s = <<a, dir>>
    <3>1. <<b, 1 - dir>> \in Live(u)
      BY <1>1 DEF Live, Sides, L, R
    <3>2. Hanging(lk, u, lo, hi, <<b, 1 - dir>>)
      BY <1>2, <3>1
    <3>3. lk2[s] = lk[<<b, 1 - dir>>] /\ lk2[s] # a /\ lk2[s] # b
      BY <2>3, <1>1, <1>2, <1>7, <3>2 DEF Hanging, Low, High, Bounded, Sides, L, R, Tree
    <3>4. Low(lo2, s) = Low(lo, <<b, 1 - dir>>) /\ High(hi2, s) = High(hi, <<b, 1 - dir>>)
      BY <2>3, <1>1, <1>2 DEF Low, High, SingleLow, SingleHigh, Bounded, Sides, L, R, Tree
    <3> QED  BY <3>2, <3>3, <3>4, <1>1, <1>2 DEF Hanging, SingleLow, SingleHigh, Bounded
  <2>4. CASE s \notin {pp, <<b, 1 - dir>>, <<a, dir>>}
    <3>1. lk2[s] = lk[s]
      BY <2>4, <1>7, <1>8
    <3>2. lk[s] # a /\ (lk[s] # b)
      <4>1. <<a, dir>> \in Live(u)
        BY <1>1 DEF Live, Sides
      <4> QED  BY <2>4, <4>1, HangsOnce
    <3>3. Hanging(lk, u, lo, hi, s)
      BY <1>2
    <3>4. Low(lo2, s) = Low(lo, s) /\ High(hi2, s) = High(hi, s)
      <4>1. PICK x \in u \cup {Tree}, d \in Sides : s = <<x, d>>
        BY DEF Live, Root, Tree, Sides
      <4>2. <<x, d>> # <<b, 1 - dir>> /\ <<x, d>> # <<a, dir>>
        BY <4>1, <2>4
      <4>3. ~(x = b /\ d = 1 - dir) /\ ~(x = a /\ d = dir)
        BY <4>2
      <4> QED  BY <4>1, <4>3, <1>1, <1>2 DEF Low, High, SingleLow, SingleHigh, Bounded, Sides, L, R
    <3> QED  BY <3>1, <3>2, <3>3, <3>4, <1>1, <1>2 DEF Hanging, SingleLow, SingleHigh, Bounded
  <2> QED  BY <2>1, <2>2, <2>3, <2>4
<1> QED  BY <1>1, <1>3, <1>7, <1>9 DEF Shape

-----------------------------------------------------------------------------
\* The flag f tells the heights l on side dir and r on the other, h is the node's.
Level(f, dir, l, r, h) ==
  \/ f = 0 /\ l = r /\ h = l + 1
  \/ f = Pt(dir) /\ l = r + 1 /\ h = l + 1
  \/ f = Pt(1 - dir) /\ r = l + 1 /\ h = r + 1

\* The height the flag above place s was set for: the subtree at hole is higher by delta.
Told(lk, V, hole, delta, s) == IF s = hole THEN V[lk[s]] - delta ELSE V[lk[s]]

\* The flag of n tells the heights of its two subtrees.
EvenAt(lk, flg, V, hole, delta, n) ==
  Level(flg[n], L, Told(lk, V, hole, delta, <<n, L>>), Told(lk, V, hole, delta, <<n, R>>), V[n])

Even(lk, flg, u, V, hole, delta) ==
  /\ V \in [Keys \cup {NULL} -> Nat] /\ V[NULL] = 0 /\ flg \in [Keys -> 0 .. 2]
  /\ \A n \in u : V[n] >= 1 /\ EvenAt(lk, flg, V, hole, delta, n)

\* The two sides of a node and their flags.
LEMMA SideFacts ==
  ASSUME NEW dir \in Sides
  PROVE  /\ 1 - dir \in Sides /\ 1 - (1 - dir) = dir /\ dir # 1 - dir /\ dir \in Int
         /\ Sides = {dir, 1 - dir}
         /\ Pt(dir) \in 1 .. 2 /\ Pt(1 - dir) \in 1 .. 2 /\ Pt(dir) # Pt(1 - dir)
         /\ \A f \in 0 .. 2 : f = 0 \/ f = Pt(dir) \/ f = Pt(1 - dir)
BY DEF Sides, L, R, Pt

\* The same, whichever side comes first.
LEMMA EvenSides ==
  ASSUME NEW lk, NEW flg, NEW V, NEW hole, NEW delta, NEW n, NEW dir \in Sides
  PROVE  EvenAt(lk, flg, V, hole, delta, n) <=>
           Level(flg[n], dir, Told(lk, V, hole, delta, <<n, dir>>),
                 Told(lk, V, hole, delta, <<n, 1 - dir>>), V[n])
<1>1. dir = 0 \/ dir = 1
  BY DEF Sides, L, R
<1>2. CASE dir = 0
  BY <1>2 DEF EvenAt, Level, Pt, L, R
<1>3. CASE dir = 1
  BY <1>3 DEF EvenAt, Level, Pt, L, R
<1> QED  BY <1>1, <1>2, <1>3

\* What is known of a node of an even tree.
LEMMA HeightsAt ==
  ASSUME NEW lk, NEW flg, NEW u, NEW V, NEW hole, NEW delta, Even(lk, flg, u, V, hole, delta),
         NEW n \in u, NEW dir \in Sides, NEW f, NEW g,
         f = Told(lk, V, hole, delta, <<n, dir>>), g = Told(lk, V, hole, delta, <<n, 1 - dir>>)
  PROVE  Level(flg[n], dir, f, g, V[n])
<1>1. EvenAt(lk, flg, V, hole, delta, n)
  BY DEF Even
<1> QED  BY <1>1, EvenSides

\* A node above which and in which nothing has changed.
LEMMA EvenElsewhere ==
  ASSUME NEW lk, NEW flg, NEW V, NEW hole, NEW delta,
         NEW lk2, NEW flg2, NEW V2, NEW hole2, NEW delta2, NEW n,
         EvenAt(lk, flg, V, hole, delta, n),
         flg2[n] = flg[n], V2[n] = V[n],
         \A d \in Sides : Told(lk2, V2, hole2, delta2, <<n, d>>) = Told(lk, V, hole, delta, <<n, d>>)
  PROVE  EvenAt(lk2, flg2, V2, hole2, delta2, n)
BY DEF EvenAt, Sides

\* A change of the nodes C below pp, which keeps what the others have been told.
Changed(lk, flg, u, V, hole, lk2, flg2, V2, pp, delta2, C) ==
  /\ hole[1] \in C /\ \A s \in Live(u) : lk[s] \in u \cup {NULL}
  /\ V2 \in [Keys \cup {NULL} -> Nat] /\ V2[NULL] = 0 /\ flg2 \in [Keys -> 0 .. 2]
  /\ \A n \in u \ C : flg2[n] = flg[n] /\ V2[n] = V[n]
  /\ \A n \in u \ C, d \in Sides : <<n, d>> # pp => lk2[<<n, d>>] = lk[<<n, d>>] /\ lk[<<n, d>>] \notin C
  /\ V2[lk2[pp]] - delta2 = V[lk[pp]]
  /\ \A n \in C : V2[n] >= 1 /\ EvenAt(lk2, flg2, V2, pp, delta2, n)

\* A change below pp leaves an even tree, if the changed nodes are even themselves.
LEMMA EvenChanged ==
  ASSUME NEW lk, NEW flg, NEW u, NEW V, NEW hole, NEW delta, Even(lk, flg, u, V, hole, delta),
         NEW lk2, NEW flg2, NEW V2, NEW pp, NEW delta2, NEW C,
         Changed(lk, flg, u, V, hole, lk2, flg2, V2, pp, delta2, C)
  PROVE  Even(lk2, flg2, u, V2, pp, delta2)
<1> USE DEF Changed
<1>1. ASSUME NEW n \in u, n \notin C
      PROVE  V2[n] >= 1 /\ EvenAt(lk2, flg2, V2, pp, delta2, n)
  <2>1. V[n] >= 1 /\ EvenAt(lk, flg, V, hole, delta, n) /\ V[NULL] = 0
    BY DEF Even
  <2>2. ASSUME NEW d \in Sides
        PROVE  Told(lk2, V2, pp, delta2, <<n, d>>) = Told(lk, V, hole, delta, <<n, d>>)
    <3>1. <<n, d>> # hole
      BY <1>1
    <3>2. CASE <<n, d>> = pp
      BY <3>1, <3>2 DEF Told
    <3>3. CASE <<n, d>> # pp
      <4>1. lk2[<<n, d>>] = lk[<<n, d>>] /\ lk[<<n, d>>] \notin C
        BY <1>1, <3>3
      <4>2. lk[<<n, d>>] \in u \cup {NULL}
        BY <2>2 DEF Live
      <4>3. V2[lk[<<n, d>>]] = V[lk[<<n, d>>]]
        BY <2>1, <4>1, <4>2
      <4> QED  BY <3>1, <3>3, <4>1, <4>3 DEF Told
    <3> QED  BY <3>2, <3>3
  <2>3. flg2[n] = flg[n] /\ V2[n] = V[n]
    BY <1>1
  <2> QED  BY <2>1, <2>2, <2>3, EvenElsewhere
<1> QED  BY <1>1 DEF Even

\* The nodes that turn hang at their places only.
LEMMA TurnApart ==
  ASSUME NEW lk, NEW u, NEW lo, NEW hi, Shape(lk, u, lo, hi),
         NEW pp \in Live(u), NEW dir \in Sides,
         NEW a, a = lk[pp], a # NULL, NEW b, b = lk[<<a, dir>>], b # NULL
  PROVE  /\ a \in u /\ b \in u /\ a # b /\ pp[1] # a /\ pp[1] # b
         /\ pp[1] \in u \cup {Tree} /\ pp[2] \in Sides /\ pp = <<pp[1], pp[2]>>
         /\ \A s \in Live(u) : (s # pp => lk[s] # a) /\ (s # <<a, dir>> => lk[s] # b)
<1>1. /\ a \in u /\ b \in u /\ a # b /\ u \subseteq Keys /\ u \subseteq Nat /\ NULL \notin u
      /\ dir = R => lo[b] = a /\ hi[b] = hi[a] /\ a < b
      /\ dir = L => hi[b] = a /\ lo[b] = lo[a] /\ b < a
  BY SingleTypes
<1>2. Bounded(u, lo, hi) /\ lk \in [Places -> Keys \cup {NULL}] /\ (\A s \in Live(u) : Hanging(lk, u, lo, hi, s))
  BY DEF Shape
<1>3. pp[1] \in u \cup {Tree} /\ pp[2] \in Sides /\ pp = <<pp[1], pp[2]>>
  BY DEF Live, Root, Tree, Sides
<1>4. pp[1] # a /\ pp[1] # b
  BY <1>1, <1>2, <1>3, KeysAssumption DEF Hanging, Low, High, Bounded, Sides, L, R, Tree
<1>5. <<a, dir>> \in Live(u)
  BY <1>1 DEF Live
<1> QED  BY <1>1, <1>3, <1>4, <1>5, HangsOnce

\* Where everything is after b went up past a.
LEMMA SinglePlaces ==
  ASSUME NEW lk, NEW u, NEW lo, NEW hi, Shape(lk, u, lo, hi),
         NEW pp \in Live(u), NEW dir \in Sides,
         NEW a, a = lk[pp], a # NULL, NEW b, b = lk[<<a, dir>>], b # NULL,
         NEW lk2, lk2 = Single(lk, pp, a, b, dir)
  PROVE  /\ lk2 \in [Places -> Keys \cup {NULL}]
         /\ lk2[pp] = b /\ lk2[<<b, 1 - dir>>] = a /\ lk2[<<a, dir>>] = lk[<<b, 1 - dir>>]
         /\ lk2[<<a, 1 - dir>>] = lk[<<a, 1 - dir>>] /\ lk2[<<b, dir>>] = lk[<<b, dir>>]
         /\ \A s \in Live(u) : s \notin {pp, <<a, dir>>, <<b, 1 - dir>>} => lk2[s] = lk[s]
<1>1. /\ a \in u /\ b \in u /\ a # b /\ pp[1] # a /\ pp[1] # b /\ pp = <<pp[1], pp[2]>>
  BY TurnApart
<1>2. lk \in [Places -> Keys \cup {NULL}] /\ u \subseteq Keys
  BY DEF Shape
<1>3. a \in Keys /\ b \in Keys /\ a # b /\ u \subseteq Keys /\ pp \notin {<<a, L>>, <<a, R>>, <<b, L>>, <<b, R>>}
  BY <1>1, <1>2
<1>4. /\ Single(lk, pp, a, b, dir) \in [Places -> Keys \cup {NULL}]
      /\ Single(lk, pp, a, b, dir)[pp] = b
      /\ Single(lk, pp, a, b, dir)[<<b, 1 - dir>>] = a
      /\ Single(lk, pp, a, b, dir)[<<a, dir>>] = lk[<<b, 1 - dir>>]
      /\ \A s \in Places \ {pp, <<a, dir>>, <<b, 1 - dir>>} : Single(lk, pp, a, b, dir)[s] = lk[s]
  BY ONLY <1>2, <1>3, pp \in Live(u), dir \in Sides, SingleLinks
<1>5. /\ \A s \in Live(u) : s \in Places
      /\ <<a, 1 - dir>> \in Places \ {pp, <<a, dir>>, <<b, 1 - dir>>}
      /\ <<b, dir>> \in Places \ {pp, <<a, dir>>, <<b, 1 - dir>>}
  BY <1>1, <1>2, SideFacts DEF Live, Places, Sides
<1> QED  BY <1>4, <1>5

\* A rotation keeps a tree even if the new flags tell the heights of a and b.
LEMMA SingleEven ==
  ASSUME NEW lk, NEW flg, NEW u, NEW lo, NEW hi, NEW V, Shape(lk, u, lo, hi),
         NEW pp \in Live(u), NEW dir \in Sides,
         NEW a, a = lk[pp], a # NULL, NEW b, b = lk[<<a, dir>>], b # NULL,
         NEW hole, NEW delta, hole[1] = a, Even(lk, flg, u, V, hole, delta),
         NEW fa \in 0 .. 2, NEW fb \in 0 .. 2, NEW va \in Nat \ {0}, NEW vb \in Nat \ {0}, NEW delta2 \in Int,
         Level(fa, dir, V[lk[<<b, 1 - dir>>]], V[lk[<<a, 1 - dir>>]], va),
         Level(fb, dir, V[lk[<<b, dir>>]], va, vb),
         vb - delta2 = V[a]
  PROVE  Even(Single(lk, pp, a, b, dir), [flg EXCEPT ![a] = fa, ![b] = fb], u,
              [V EXCEPT ![a] = va, ![b] = vb], pp, delta2)
<1> DEFINE x   == lk[<<b, 1 - dir>>]
           y   == lk[<<b, dir>>]
           z   == lk[<<a, 1 - dir>>]
           lk2  == Single(lk, pp, a, b, dir)
           flg2 == [flg EXCEPT ![a] = fa, ![b] = fb]
           V2   == [V EXCEPT ![a] = va, ![b] = vb]
<1>1. /\ a \in u /\ b \in u /\ a # b /\ pp[1] # a /\ pp[1] # b
      /\ pp = <<pp[1], pp[2]>>
      /\ \A s \in Live(u) : (s # pp => lk[s] # a) /\ (s # <<a, dir>> => lk[s] # b)
  BY TurnApart
<1>2. \A s \in Live(u) : lk[s] \in u \cup {NULL}
  BY DEF Shape, Hanging
<1>3. u \subseteq Keys /\ NULL \notin Keys
  BY KeysAssumption DEF Shape, NULL
<1>4. /\ 1 - dir \in Sides /\ dir # 1 - dir /\ Sides = {dir, 1 - dir}
  BY SideFacts
<1>5. V \in [Keys \cup {NULL} -> Nat] /\ V[NULL] = 0 /\ flg \in [Keys -> 0 .. 2]
  BY DEF Even
<1>6. /\ x \in (u \cup {NULL}) \ {a, b} /\ y \in (u \cup {NULL}) \ {a, b} /\ z \in (u \cup {NULL}) \ {a, b}
  BY <1>1, <1>2, <1>4 DEF Live
<1>7. /\ V2 \in [Keys \cup {NULL} -> Nat] /\ V2[NULL] = 0 /\ flg2 \in [Keys -> 0 .. 2]
      /\ V2[a] = va /\ V2[b] = vb /\ V2[x] = V[x] /\ V2[y] = V[y] /\ V2[z] = V[z]
      /\ flg2[a] = fa /\ flg2[b] = fb
      /\ \A n \in u \ {a, b} : flg2[n] = flg[n] /\ V2[n] = V[n]
  BY <1>1, <1>3, <1>5, <1>6
<1>8. /\ lk2[pp] = b /\ lk2[<<b, 1 - dir>>] = a /\ lk2[<<a, dir>>] = x
      /\ lk2[<<a, 1 - dir>>] = z /\ lk2[<<b, dir>>] = y
      /\ \A s \in Live(u) : s \notin {pp, <<a, dir>>, <<b, 1 - dir>>} => lk2[s] = lk[s]
  BY SinglePlaces
<1> HIDE DEF V2, flg2, lk2, x, y, z
<1>9. EvenAt(lk2, flg2, V2, pp, delta2, a)
  <2>1. /\ Told(lk2, V2, pp, delta2, <<a, dir>>) = V[x] /\ Told(lk2, V2, pp, delta2, <<a, 1 - dir>>) = V[z]
    BY <1>1, <1>7, <1>8 DEF Told
  <2>2. Level(flg2[a], dir, V[x], V[z], V2[a])
    BY <1>7 DEF x, z
  <2> QED  BY <2>1, <2>2, EvenSides
<1>10. EvenAt(lk2, flg2, V2, pp, delta2, b)
  <2>1. /\ Told(lk2, V2, pp, delta2, <<b, dir>>) = V[y] /\ Told(lk2, V2, pp, delta2, <<b, 1 - dir>>) = va
    BY <1>1, <1>7, <1>8 DEF Told
  <2>2. Level(flg2[b], dir, V[y], va, V2[b])
    BY <1>7 DEF y
  <2> QED  BY <2>1, <2>2, EvenSides
<1>11. \A n \in u \ {a, b}, d \in Sides : <<n, d>> # pp => lk2[<<n, d>>] = lk[<<n, d>>] /\ lk[<<n, d>>] \notin {a, b}
  <2>1. ASSUME NEW n \in u \ {a, b}, NEW d \in Sides, <<n, d>> # pp
        PROVE  lk2[<<n, d>>] = lk[<<n, d>>] /\ lk[<<n, d>>] \notin {a, b}
    <3>1. <<n, d>> \in Live(u) /\ <<n, d>> # <<a, dir>> /\ <<n, d>> # <<b, 1 - dir>>
      BY <2>1 DEF Live
    <3> QED  BY <1>1, <1>8, <2>1, <3>1
  <2> QED  BY <2>1
<1>12. \A n \in {a, b} : V2[n] >= 1 /\ EvenAt(lk2, flg2, V2, pp, delta2, n)
  BY <1>7, <1>9, <1>10
<1>13. V2[lk2[pp]] - delta2 = V[lk[pp]] /\ hole[1] \in {a, b}
  BY <1>7, <1>8
<1>14. Even(lk2, flg2, u, V2, pp, delta2)
  <2> DEFINE C == {a, b}
  <2>1. \A n \in u \ C : flg2[n] = flg[n] /\ V2[n] = V[n]
    BY <1>7
  <2>2. \A n \in u \ C, d \in Sides : <<n, d>> # pp => lk2[<<n, d>>] = lk[<<n, d>>] /\ lk[<<n, d>>] \notin C
    BY <1>11
  <2>3. (\A n \in C : V2[n] >= 1 /\ EvenAt(lk2, flg2, V2, pp, delta2, n)) /\ hole[1] \in C
    BY <1>12, <1>13
  <2>4. V2 \in [Keys \cup {NULL} -> Nat] /\ V2[NULL] = 0 /\ flg2 \in [Keys -> 0 .. 2]
    BY <1>7
  <2> HIDE DEF C
  <2>5. Changed(lk, flg, u, V, hole, lk2, flg2, V2, pp, delta2, C)
    BY ONLY <1>2, <1>13, <2>1, <2>2, <2>3, <2>4 DEF Changed
  <2> QED  BY ONLY <2>5, Even(lk, flg, u, V, hole, delta), EvenChanged
<1> QED  BY <1>14 DEF V2, flg2, lk2

\* Only the flag of a changes.
LEMMA FlagEven ==
  ASSUME NEW lk, NEW flg, NEW u, NEW lo, NEW hi, NEW V, Shape(lk, u, lo, hi),
         NEW pp \in Live(u), NEW dir \in Sides, NEW a, a = lk[pp], a # NULL,
         NEW hole, NEW delta, hole = <<a, dir>>, Even(lk, flg, u, V, hole, delta),
         NEW fa \in 0 .. 2, NEW va \in Nat \ {0}, NEW delta2 \in Int,
         Level(fa, dir, V[lk[<<a, dir>>]], V[lk[<<a, 1 - dir>>]], va),
         va - delta2 = V[a]
  PROVE  Even(lk, [flg EXCEPT ![a] = fa], u, [V EXCEPT ![a] = va], pp, delta2)
<1> DEFINE y   == lk[<<a, dir>>]
           z   == lk[<<a, 1 - dir>>]
           flg2 == [flg EXCEPT ![a] = fa]
           V2   == [V EXCEPT ![a] = va]
<1>1. /\ 1 - dir \in Sides /\ dir # 1 - dir /\ Sides = {dir, 1 - dir}
  BY SideFacts
<1>2. \A s \in Live(u) : lk[s] \in u \cup {NULL}
  BY DEF Shape, Hanging
<1>3. u \subseteq Nat \ {0} /\ NULL \notin Keys /\ u \subseteq Keys /\ a \in u
  BY <1>2, KeysAssumption DEF Shape, NULL
<1>4. pp[1] \in u \cup {Tree} /\ pp[2] \in Sides /\ pp = <<pp[1], pp[2]>>
  BY DEF Live, Root, Tree, Sides
<1>5. V \in [Keys \cup {NULL} -> Nat] /\ V[NULL] = 0 /\ flg \in [Keys -> 0 .. 2]
  BY DEF Even
<1>6. lo \in [Keys \cup {Tree} -> Int] /\ hi \in [Keys \cup {Tree} -> Int] /\ \A n \in u : lo[n] < n /\ n < hi[n]
  BY DEF Shape, Bounded
<1>7. ASSUME NEW n \in u, NEW d \in Sides
      PROVE  lk[<<n, d>>] # n
  <2>1. Hanging(lk, u, lo, hi, <<n, d>>)
    BY <1>7 DEF Shape, Live
  <2> QED  BY <2>1, <1>3, <1>6, <1>7 DEF Hanging, Low, High, Sides, L, R, NULL
<1>8. pp[1] # a
  <2>1. Tree # a
    BY <1>3 DEF Tree
  <2> QED  BY <2>1, <1>4, <1>7
<1>9. /\ y \in (u \cup {NULL}) \ {a} /\ z \in (u \cup {NULL}) \ {a}
  BY <1>1, <1>2, <1>3, <1>7 DEF Live
<1>10. /\ V2 \in [Keys \cup {NULL} -> Nat] /\ V2[NULL] = 0 /\ flg2 \in [Keys -> 0 .. 2]
      /\ V2[a] = va /\ V2[y] = V[y] /\ V2[z] = V[z] /\ flg2[a] = fa
      /\ \A n \in u \ {a} : flg2[n] = flg[n] /\ V2[n] = V[n]
  BY <1>3, <1>5, <1>9
<1> HIDE DEF V2, flg2, y, z
<1>11. EvenAt(lk, flg2, V2, pp, delta2, a)
  <2>1. /\ Told(lk, V2, pp, delta2, <<a, dir>>) = V[y] /\ Told(lk, V2, pp, delta2, <<a, 1 - dir>>) = V[z]
    BY <1>8, <1>10 DEF Told, y, z
  <2>2. Level(flg2[a], dir, V[y], V[z], V2[a])
    BY <1>10 DEF y, z
  <2> QED  BY <2>1, <2>2, EvenSides
<1>12. ASSUME NEW s \in Live(u), s # pp
       PROVE  lk[s] # a
  BY <1>12, HangsOnce
<1> DEFINE C == {a}
<1>13. \A n \in u \ C : flg2[n] = flg[n] /\ V2[n] = V[n]
  BY <1>10
<1>14. \A n \in u \ C, d \in Sides : <<n, d>> # pp => lk[<<n, d>>] = lk[<<n, d>>] /\ lk[<<n, d>>] \notin C
  BY <1>12 DEF Live
<1>15. (\A n \in C : V2[n] >= 1 /\ EvenAt(lk, flg2, V2, pp, delta2, n)) /\ hole[1] \in C
  BY <1>10, <1>11
<1>16. V2[lk[pp]] - delta2 = V[lk[pp]]
  BY <1>10
<1>17. V2 \in [Keys \cup {NULL} -> Nat] /\ V2[NULL] = 0 /\ flg2 \in [Keys -> 0 .. 2]
  BY <1>10
<1> HIDE DEF C
<1>18. Changed(lk, flg, u, V, hole, lk, flg2, V2, pp, delta2, C)
  BY ONLY <1>2, <1>13, <1>14, <1>15, <1>16, <1>17 DEF Changed
<1>19. Even(lk, flg2, u, V2, pp, delta2)
  BY ONLY <1>18, Even(lk, flg, u, V, hole, delta), EvenChanged
<1> QED  BY <1>19 DEF V2, flg2

-----------------------------------------------------------------------------
\* Double rotations.
LEMMA DoubleApart ==
  ASSUME NEW lk, NEW u, NEW lo, NEW hi, Shape(lk, u, lo, hi),
         NEW pp \in Live(u), NEW dir \in Sides,
         NEW a, a = lk[pp], a # NULL, NEW b, b = lk[<<a, dir>>], b # NULL,
         NEW c, c = lk[<<b, 1 - dir>>], c # NULL
  PROVE  /\ a \in u /\ b \in u /\ c \in u /\ a # b /\ a # c /\ b # c
         /\ pp[1] # a /\ pp[1] # b /\ pp[1] # c /\ pp = <<pp[1], pp[2]>> /\ pp[2] \in Sides
         /\ \A s \in Live(u) : /\ s # pp => lk[s] # a
                               /\ s # <<a, dir>> => lk[s] # b
                               /\ s # <<b, 1 - dir>> => lk[s] # c
<1>1. /\ a \in u /\ b \in u /\ a # b /\ pp[1] # a /\ pp[1] # b
      /\ pp[1] \in u \cup {Tree} /\ pp[2] \in Sides /\ pp = <<pp[1], pp[2]>>
      /\ \A s \in Live(u) : (s # pp => lk[s] # a) /\ (s # <<a, dir>> => lk[s] # b)
  BY TurnApart
<1>2. 1 - dir \in Sides /\ dir # 1 - dir
  BY SideFacts
<1>3. <<a, dir>> \in Live(u) /\ <<b, 1 - dir>> \in Live(u)
  BY <1>1, <1>2 DEF Live
<1>4. /\ c \in u /\ b # c
      /\ \A s \in Live(u) : s # <<b, 1 - dir>> => lk[s] # c
  BY <1>2, <1>3, TurnApart
<1>5. a # c
  <2>1. <<b, 1 - dir>> # pp
    BY <1>1
  <2> QED  BY <1>1, <1>3, <2>1
<1>6. pp[1] # c
  <2>1. /\ Hanging(lk, u, lo, hi, pp) /\ Hanging(lk, u, lo, hi, <<a, dir>>) /\ Hanging(lk, u, lo, hi, <<b, 1 - dir>>)
        /\ Bounded(u, lo, hi) /\ u \subseteq Nat
    BY <1>3, KeysAssumption DEF Shape
  <2> QED  BY <2>1, <1>1, <1>4 DEF Hanging, Low, High, Bounded, Sides, L, R, Tree
<1> QED  BY <1>1, <1>4, <1>5, <1>6

\* Where everything is after c went up past a and b.
LEMMA DoublePlaces ==
  ASSUME NEW lk \in [Places -> Keys \cup {NULL}], NEW u, u \subseteq Keys, NEW pp \in Live(u), NEW dir \in Sides,
         NEW a \in Keys, NEW b \in Keys, NEW c \in Keys, a # b, a # c, b # c,
         pp[1] \notin {a, b, c}, NEW lk2, lk2 = Double(lk, pp, a, b, c, dir)
  PROVE  /\ lk2 \in [Places -> Keys \cup {NULL}]
         /\ lk2[pp] = c /\ lk2[<<c, 1 - dir>>] = a /\ lk2[<<c, dir>>] = b
         /\ lk2[<<a, dir>>] = lk[<<c, 1 - dir>>] /\ lk2[<<b, 1 - dir>>] = lk[<<c, dir>>]
         /\ lk2[<<a, 1 - dir>>] = lk[<<a, 1 - dir>>] /\ lk2[<<b, dir>>] = lk[<<b, dir>>]
         /\ \A s \in Places : s \notin {pp, <<a, dir>>, <<b, 1 - dir>>, <<c, L>>, <<c, R>>} => lk2[s] = lk[s]
<1>1. /\ pp \in Places /\ <<a, dir>> \in Places /\ <<b, 1 - dir>> \in Places
      /\ <<c, dir>> \in Places /\ <<c, 1 - dir>> \in Places
      /\ <<a, 1 - dir>> \in Places /\ <<b, dir>> \in Places
  BY SideFacts DEF Live, Places, Sides
<1>2. Sides = {dir, 1 - dir} /\ dir # 1 - dir
  BY SideFacts
<1>3. /\ pp # <<a, dir>> /\ pp # <<b, 1 - dir>> /\ pp # <<c, dir>> /\ pp # <<c, 1 - dir>>
      /\ pp # <<a, 1 - dir>> /\ pp # <<b, dir>>
  OBVIOUS
<1>4. /\ <<a, dir>> # <<b, 1 - dir>> /\ <<a, dir>> # <<c, dir>> /\ <<a, dir>> # <<c, 1 - dir>>
      /\ <<b, 1 - dir>> # <<c, dir>> /\ <<b, 1 - dir>> # <<c, 1 - dir>> /\ <<c, dir>> # <<c, 1 - dir>>
      /\ <<a, 1 - dir>> # <<a, dir>> /\ <<b, dir>> # <<b, 1 - dir>>
      /\ <<a, 1 - dir>> # <<b, 1 - dir>> /\ <<b, dir>> # <<a, dir>>
      /\ <<a, 1 - dir>> # <<c, 1 - dir>> /\ <<b, dir>> # <<c, dir>>
      /\ <<a, 1 - dir>> # <<c, dir>> /\ <<b, dir>> # <<c, 1 - dir>>
  BY <1>2
<1>5. {<<c, L>>, <<c, R>>} = {<<c, dir>>, <<c, 1 - dir>>}
  BY <1>2 DEF Sides
<1> QED  BY <1>1, <1>3, <1>4, <1>5 DEF Double

\* The heights after a double rotation, for whatever flags and heights fit a, b and c.
LEMMA DoubleEven ==
  ASSUME NEW lk, NEW flg, NEW u, NEW lo, NEW hi, NEW V, Shape(lk, u, lo, hi),
         NEW pp \in Live(u), NEW dir \in Sides,
         NEW a, a = lk[pp], a # NULL, NEW b, b = lk[<<a, dir>>], b # NULL,
         NEW c, c = lk[<<b, 1 - dir>>], c # NULL,
         NEW hole, NEW delta, hole[1] = a, Even(lk, flg, u, V, hole, delta),
         NEW flg2 \in [Keys -> 0 .. 2], \A n \in u \ {a, b, c} : flg2[n] = flg[n],
         NEW va \in Nat \ {0}, NEW vb \in Nat \ {0}, NEW vc \in Nat \ {0}, NEW delta2 \in Int,
         Level(flg2[a], dir, V[lk[<<c, 1 - dir>>]], V[lk[<<a, 1 - dir>>]], va),
         Level(flg2[b], dir, V[lk[<<b, dir>>]], V[lk[<<c, dir>>]], vb),
         Level(flg2[c], dir, vb, va, vc),
         vc - delta2 = V[a]
  PROVE  Even(Double(lk, pp, a, b, c, dir), flg2, u, [V EXCEPT ![a] = va, ![b] = vb, ![c] = vc], pp, delta2)
<1> DEFINE w   == lk[<<c, dir>>]
           x   == lk[<<c, 1 - dir>>]
           y   == lk[<<b, dir>>]
           z   == lk[<<a, 1 - dir>>]
           lk2  == Double(lk, pp, a, b, c, dir)
           V2   == [V EXCEPT ![a] = va, ![b] = vb, ![c] = vc]
<1>1. /\ a \in u /\ b \in u /\ c \in u /\ a # b /\ a # c /\ b # c
      /\ pp[1] # a /\ pp[1] # b /\ pp[1] # c /\ pp = <<pp[1], pp[2]>> /\ pp[2] \in Sides
      /\ \A s \in Live(u) : /\ s # pp => lk[s] # a
                            /\ s # <<a, dir>> => lk[s] # b
                            /\ s # <<b, 1 - dir>> => lk[s] # c
  BY DoubleApart
<1>2. \A s \in Live(u) : lk[s] \in u \cup {NULL}
  BY DEF Shape, Hanging
<1>3. u \subseteq Keys /\ NULL \notin Keys
  BY KeysAssumption DEF Shape, NULL
<1>4. /\ 1 - dir \in Sides /\ dir # 1 - dir /\ Sides = {dir, 1 - dir}
  BY SideFacts
<1>5. V \in [Keys \cup {NULL} -> Nat] /\ V[NULL] = 0 /\ flg \in [Keys -> 0 .. 2]
  BY DEF Even
<1>6. /\ x \in (u \cup {NULL}) \ {a, b, c} /\ y \in (u \cup {NULL}) \ {a, b, c}
      /\ z \in (u \cup {NULL}) \ {a, b, c} /\ w \in (u \cup {NULL}) \ {a, b, c}
  BY <1>1, <1>2, <1>4 DEF Live
<1>7. /\ V2 \in [Keys \cup {NULL} -> Nat] /\ V2[NULL] = 0
      /\ V2[a] = va /\ V2[b] = vb /\ V2[c] = vc
      /\ V2[x] = V[x] /\ V2[y] = V[y] /\ V2[z] = V[z] /\ V2[w] = V[w]
      /\ \A n \in u \ {a, b, c} : V2[n] = V[n]
  BY <1>1, <1>3, <1>5, <1>6
<1>8. /\ lk2[pp] = c /\ lk2[<<c, 1 - dir>>] = a /\ lk2[<<c, dir>>] = b
      /\ lk2[<<a, dir>>] = x /\ lk2[<<b, 1 - dir>>] = w
      /\ lk2[<<a, 1 - dir>>] = z /\ lk2[<<b, dir>>] = y
      /\ \A s \in Places : s \notin {pp, <<a, dir>>, <<b, 1 - dir>>, <<c, L>>, <<c, R>>} => lk2[s] = lk[s]
  <2>1. lk \in [Places -> Keys \cup {NULL}]
    BY DEF Shape
  <2>2. a \in Keys /\ b \in Keys /\ c \in Keys /\ pp[1] \notin {a, b, c}
    BY <1>1, <1>3
  <2> HIDE DEF V2
  <2> QED  BY ONLY <1>1, <1>3, <2>1, <2>2, pp \in Live(u), dir \in Sides, DoublePlaces
<1> HIDE DEF V2, lk2, w, x, y, z
<1>9. EvenAt(lk2, flg2, V2, pp, delta2, a)
  <2>1. /\ Told(lk2, V2, pp, delta2, <<a, dir>>) = V[x] /\ Told(lk2, V2, pp, delta2, <<a, 1 - dir>>) = V[z]
    BY <1>1, <1>7, <1>8 DEF Told
  <2>2. Level(flg2[a], dir, V[x], V[z], V2[a])
    BY <1>7 DEF x, z
  <2> QED  BY <2>1, <2>2, EvenSides
<1>10. EvenAt(lk2, flg2, V2, pp, delta2, b)
  <2>1. /\ Told(lk2, V2, pp, delta2, <<b, dir>>) = V[y] /\ Told(lk2, V2, pp, delta2, <<b, 1 - dir>>) = V[w]
    BY <1>1, <1>7, <1>8 DEF Told
  <2>2. Level(flg2[b], dir, V[y], V[w], V2[b])
    BY <1>7 DEF y, w
  <2> QED  BY <2>1, <2>2, EvenSides
<1>11. EvenAt(lk2, flg2, V2, pp, delta2, c)
  <2>1. /\ Told(lk2, V2, pp, delta2, <<c, dir>>) = vb /\ Told(lk2, V2, pp, delta2, <<c, 1 - dir>>) = va
    BY <1>1, <1>7, <1>8 DEF Told
  <2>2. Level(flg2[c], dir, vb, va, V2[c])
    BY <1>7
  <2> QED  BY <2>1, <2>2, EvenSides
<1> DEFINE C == {a, b, c}
<1>12. \A n \in u \ C, d \in Sides : <<n, d>> # pp => lk2[<<n, d>>] = lk[<<n, d>>] /\ lk[<<n, d>>] \notin C
  <2>1. ASSUME NEW n \in u \ C, NEW d \in Sides, <<n, d>> # pp
        PROVE  lk2[<<n, d>>] = lk[<<n, d>>] /\ lk[<<n, d>>] \notin C
    <3>1. <<n, d>> \in Live(u) /\ <<n, d>> \notin {<<a, dir>>, <<b, 1 - dir>>, <<c, L>>, <<c, R>>} /\ <<n, d>> \in Places
      BY <2>1, <1>3 DEF Live, Places, Sides
    <3> QED  BY <1>1, <1>8, <2>1, <3>1
  <2> QED  BY <2>1
<1>13. (\A n \in C : V2[n] >= 1 /\ EvenAt(lk2, flg2, V2, pp, delta2, n)) /\ hole[1] \in C
  BY <1>7, <1>9, <1>10, <1>11
<1>14. V2[lk2[pp]] - delta2 = V[lk[pp]]
  BY <1>7, <1>8
<1>15. \A n \in u \ C : flg2[n] = flg[n] /\ V2[n] = V[n]
  BY <1>7
<1>16. V2 \in [Keys \cup {NULL} -> Nat] /\ V2[NULL] = 0 /\ flg2 \in [Keys -> 0 .. 2]
  BY <1>7
<1> HIDE DEF C
<1>17. hole[1] \in C /\ \A n \in C : V2[n] >= 1 /\ EvenAt(lk2, flg2, V2, pp, delta2, n)
  BY <1>13
<1>18. Changed(lk, flg, u, V, hole, lk2, flg2, V2, pp, delta2, C)
  BY ONLY <1>2, <1>12, <1>14, <1>15, <1>16, <1>17 DEF Changed
<1>19. Even(lk2, flg2, u, V2, pp, delta2)
  BY ONLY <1>18, Even(lk, flg, u, V, hole, delta), EvenChanged
<1> QED  BY <1>19 DEF V2, lk2

\* It is two rotations, one below the other.
LEMMA DoubleIsTwo ==
  ASSUME NEW lk \in [Places -> Keys \cup {NULL}], NEW u, u \subseteq Keys, NEW pp \in Live(u), NEW dir \in Sides,
         NEW a \in u, NEW b \in u, NEW c \in u, a # b, a # c, b # c,
         pp[1] \notin {a, b, c}
  PROVE  Double(lk, pp, a, b, c, dir) = Single(Single(lk, <<a, dir>>, b, c, 1 - dir), pp, a, c, dir)
<1> DEFINE lk1 == Single(lk, <<a, dir>>, b, c, 1 - dir)
           lk2 == Single(lk1, pp, a, c, dir)
           lk3 == Double(lk, pp, a, b, c, dir)
<1>1. 1 - dir \in Sides /\ 1 - (1 - dir) = dir /\ dir # 1 - dir /\ Sides = {dir, 1 - dir}
  BY SideFacts
<1>2. a \in Keys /\ b \in Keys /\ c \in Keys /\ <<a, dir>> \in Live(u)
  BY DEF Live
<1>3. pp = <<pp[1], pp[2]>> /\ pp \notin {<<a, L>>, <<a, R>>, <<c, L>>, <<c, R>>}
  BY DEF Live, Root
<1>4. <<a, dir>> \notin {<<b, L>>, <<b, R>>, <<c, L>>, <<c, R>>}
  OBVIOUS
<1>5. /\ lk1 \in [Places -> Keys \cup {NULL}] /\ lk1[<<a, dir>>] = c
      /\ lk1[<<c, dir>>] = b /\ lk1[<<b, 1 - dir>>] = lk[<<c, dir>>]
      /\ \A s \in Places \ {<<a, dir>>, <<b, 1 - dir>>, <<c, dir>>} : lk1[s] = lk[s]
  <2> DEFINE d == 1 - dir
  <2>1. /\ Single(lk, <<a, dir>>, b, c, d) \in [Places -> Keys \cup {NULL}]
        /\ Single(lk, <<a, dir>>, b, c, d)[<<a, dir>>] = c
        /\ Single(lk, <<a, dir>>, b, c, d)[<<c, 1 - d>>] = b
        /\ Single(lk, <<a, dir>>, b, c, d)[<<b, d>>] = lk[<<c, 1 - d>>]
        /\ \A s \in Places \ {<<a, dir>>, <<b, d>>, <<c, 1 - d>>} : Single(lk, <<a, dir>>, b, c, d)[s] = lk[s]
    <3>1. d \in Sides
      BY <1>1
    <3> HIDE DEF d
    <3> QED  BY ONLY <1>2, <1>4, <3>1, b # c, u \subseteq Keys, lk \in [Places -> Keys \cup {NULL}], SingleLinks
  <2> QED  BY <1>1, <2>1
<1> HIDE DEF lk1
<1>6. /\ lk2 \in [Places -> Keys \cup {NULL}] /\ lk2[pp] = c
      /\ lk2[<<c, 1 - dir>>] = a /\ lk2[<<a, dir>>] = lk1[<<c, 1 - dir>>]
      /\ \A s \in Places \ {pp, <<a, dir>>, <<c, 1 - dir>>} : lk2[s] = lk1[s]
  BY ONLY <1>2, <1>3, <1>5, a # c, u \subseteq Keys, pp \in Live(u), dir \in Sides, SingleLinks
<1>7. /\ lk3 \in [Places -> Keys \cup {NULL}]
      /\ lk3[pp] = c /\ lk3[<<c, 1 - dir>>] = a /\ lk3[<<c, dir>>] = b
      /\ lk3[<<a, dir>>] = lk[<<c, 1 - dir>>] /\ lk3[<<b, 1 - dir>>] = lk[<<c, dir>>]
      /\ lk3[<<a, 1 - dir>>] = lk[<<a, 1 - dir>>] /\ lk3[<<b, dir>>] = lk[<<b, dir>>]
      /\ \A s \in Places : s \notin {pp, <<a, dir>>, <<b, 1 - dir>>, <<c, L>>, <<c, R>>} => lk3[s] = lk[s]
  <2>1. lk3 = Double(lk, pp, a, b, c, dir)
    OBVIOUS
  <2>2. a \in Keys /\ b \in Keys /\ c \in Keys
    BY <1>2
  <2> HIDE DEF lk3
  <2> QED  BY ONLY <2>1, <2>2, a # b, a # c, b # c, pp[1] \notin {a, b, c}, u \subseteq Keys, pp \in Live(u),
                   dir \in Sides, lk \in [Places -> Keys \cup {NULL}], DoublePlaces
<1> HIDE DEF lk2, lk3
<1>8. {<<c, L>>, <<c, R>>} = {<<c, dir>>, <<c, 1 - dir>>}
  BY <1>1 DEF Sides
<1>9. <<c, dir>> \in Places /\ <<c, 1 - dir>> \in Places /\ <<b, 1 - dir>> \in Places
  BY <1>1, <1>2 DEF Places, Sides
<1>10. /\ <<c, 1 - dir>> \notin {<<a, dir>>, <<b, 1 - dir>>, <<c, dir>>}
       /\ <<c, dir>> \notin {pp, <<a, dir>>, <<c, 1 - dir>>}
       /\ <<b, 1 - dir>> \notin {pp, <<a, dir>>, <<c, 1 - dir>>}
  BY <1>1
<1>11. ASSUME NEW s \in Places
       PROVE  lk2[s] = lk3[s]
  <2>1. CASE s \in {pp, <<a, dir>>, <<b, 1 - dir>>, <<c, dir>>, <<c, 1 - dir>>}
    BY <2>1, <1>5, <1>6, <1>7, <1>9, <1>10
  <2>2. CASE s \notin {pp, <<a, dir>>, <<b, 1 - dir>>, <<c, dir>>, <<c, 1 - dir>>}
    BY <2>2, <1>5, <1>6, <1>7, <1>8
  <2> QED  BY <2>1, <2>2
<1>12. lk2 = lk3
  BY <1>6, <1>7, <1>11
<1> QED  BY <1>12 DEF lk1, lk2, lk3

-----------------------------------------------------------------------------
\* z lies between the ends of the place pp.
Inside(lo, hi, pp, z) == Low(lo, pp) < z /\ z < High(hi, pp)

\* What is not under pp is as it was.
Outside(lk, u, lo, hi, lk2, u2, lo2, hi2, pp) ==
  \A s \in Live(u) : ~Inside(lo, hi, pp, s[1]) =>
    /\ s \in Live(u2)
    /\ Low(lo2, s) = Low(lo, s) /\ High(hi2, s) = High(hi, s)
    /\ s # pp => lk2[s] = lk[s]

\* Only the subtree at pp was changed, and the tree is one still.
Relinked(lk, u, lo, hi, lk2, u2, lo2, hi2, pp) ==
  /\ Shape(lk2, u2, lo2, hi2)
  /\ Outside(lk, u, lo, hi, lk2, u2, lo2, hi2, pp)
  /\ \A n \in Keys \ (u \cup u2), d \in Sides : lk2[<<n, d>>] = lk[<<n, d>>]

\* What is known of a place of a tree.
LEMMA PlaceFacts ==
  ASSUME NEW lk, NEW u, NEW lo, NEW hi, Shape(lk, u, lo, hi), NEW pp \in Live(u)
  PROVE  /\ Low(lo, pp) \in u \cup {Tree} /\ High(hi, pp) \in u \cup {hi[Tree]}
         /\ Low(lo, pp) \in Int /\ High(hi, pp) \in Int /\ Low(lo, pp) < High(hi, pp)
         /\ High(hi, pp) <= hi[Tree] /\ hi[Tree] \in Int
         /\ ~Inside(lo, hi, pp, pp[1]) /\ pp[1] \in u \cup {Tree} /\ pp[1] \in Int
         /\ u \subseteq Int /\ u \subseteq Keys /\ NULL \notin u /\ Tree \notin u /\ pp \in Places
         /\ lk[pp] # NULL => /\ lk[pp] \in u /\ Inside(lo, hi, pp, lk[pp])
                             /\ lo[lk[pp]] = Low(lo, pp) /\ hi[lk[pp]] = High(hi, pp)
<1>1. PICK n \in u \cup {Tree}, d \in Sides : pp = <<n, d>>
  BY DEF Live, Root, Tree, Sides
<1>2. u \subseteq Int /\ u \subseteq Keys /\ NULL \notin u /\ Tree \notin u
  BY KeysAssumption DEF Shape, NULL, Tree
<1>3. pp \in Places
  BY <1>2 DEF Live, Places, Sides
<1>4. Bounded(u, lo, hi) /\ Hanging(lk, u, lo, hi, pp)
  BY DEF Shape
<1>5. /\ Low(lo, pp) \in u \cup {Tree} /\ High(hi, pp) \in u \cup {hi[Tree]}
      /\ Low(lo, pp) \in Int /\ High(hi, pp) \in Int /\ Low(lo, pp) < High(hi, pp)
      /\ High(hi, pp) <= hi[Tree] /\ hi[Tree] \in Int
      /\ ~Inside(lo, hi, pp, pp[1])
  <2>1. /\ lo[n] \in Int /\ hi[n] \in Int /\ hi[Tree] \in Int /\ lo[n] < n /\ n < hi[n] /\ n < hi[Tree]
        /\ n \in Int /\ Tree \in Int
    BY <1>1, <1>2, <1>4 DEF Bounded, Tree
  <2>2. /\ n # Tree => lo[n] \in u \cup {Tree} /\ hi[n] \in u \cup {hi[Tree]}
        /\ \A m \in u : m < hi[Tree]
    BY <1>1, <1>4 DEF Bounded
  <2>3. d = R \/ n # Tree
    BY <1>1, <1>2 DEF Live, Root, R, L, Sides
  <2> QED  BY <1>1, <1>2, <2>1, <2>2, <2>3 DEF Low, High, Inside, Sides, L, R
<1>6. pp[1] \in u \cup {Tree} /\ pp[1] \in Int
  BY <1>1, <1>2 DEF Tree
<1>7. ASSUME lk[pp] # NULL
      PROVE  /\ lk[pp] \in u /\ Inside(lo, hi, pp, lk[pp])
             /\ lo[lk[pp]] = Low(lo, pp) /\ hi[lk[pp]] = High(hi, pp)
  BY <1>4, <1>7 DEF Hanging, Inside, Bounded
<1> QED  BY ONLY <1>2, <1>3, <1>5, <1>6, <1>7

\* What is known of a node of a tree, and of the end of the tree itself.
LEMMA NodeFacts ==
  ASSUME NEW lk, NEW u, NEW lo, NEW hi, Shape(lk, u, lo, hi), NEW n \in u \cup {Tree}
  PROVE  /\ n \in Int /\ lo[n] \in Int /\ hi[n] \in Int /\ lo[n] < n /\ n < hi[n]
         /\ hi[Tree] \in Int /\ n < hi[Tree] /\ hi[n] <= hi[Tree] /\ Tree <= n
         /\ n \in u => Tree < n /\ lo[n] \in u \cup {Tree} /\ hi[n] \in u \cup {hi[Tree]} /\ Tree <= lo[n]
<1>1. u \subseteq Keys /\ Bounded(u, lo, hi) /\ \A z \in u : z \in Int /\ Tree < z
  BY KeysAssumption DEF Shape, Tree
<1>2. Tree \in Int /\ n \in Int
  BY <1>1 DEF Tree
<1>3. lo[n] \in Int /\ hi[n] \in Int /\ hi[Tree] \in Int
  BY <1>1 DEF Bounded
<1>4. /\ lo[n] < n /\ n < hi[n] /\ n < hi[Tree] /\ \A z \in u : z < hi[Tree]
      /\ n \in u => lo[n] \in u \cup {Tree} /\ hi[n] \in u \cup {hi[Tree]}
  BY <1>1 DEF Bounded
<1> QED  BY <1>1, <1>2, <1>3, <1>4

\* The intervals of two nodes are apart, or one lies on one side of the other.
LEMMA NodesNested ==
  ASSUME NEW lk, NEW u, NEW lo, NEW hi, Shape(lk, u, lo, hi),
         NEW m \in u \cup {Tree}, NEW n \in u \cup {Tree}, m < n
  PROVE  \/ hi[m] <= n /\ lo[n] <= lo[m]
         \/ m <= lo[n] /\ hi[n] <= hi[m]
         \/ hi[m] <= lo[n]
BY DEF Shape, Nested

\* A single rotation changes the subtree at its place only.
LEMMA SingleRelinked ==
  ASSUME NEW lk, NEW u, NEW lo, NEW hi, Shape(lk, u, lo, hi),
         NEW pp \in Live(u), NEW dir \in Sides,
         NEW a, a = lk[pp], a # NULL, NEW b, b = lk[<<a, dir>>], b # NULL
  PROVE  Relinked(lk, u, lo, hi, Single(lk, pp, a, b, dir), u,
                  SingleLow(lo, a, b, dir), SingleHigh(hi, a, b, dir), pp)
<1> DEFINE lo2 == SingleLow(lo, a, b, dir)
           hi2 == SingleHigh(hi, a, b, dir)
           lk2 == Single(lk, pp, a, b, dir)
<1>1. Shape(lk2, u, lo2, hi2)
  BY SingleShape
<1>2. /\ a \in u /\ b \in u /\ a # b /\ pp[1] # a /\ pp[1] # b
  BY TurnApart
<1>3. /\ Inside(lo, hi, pp, a) /\ lo[a] = Low(lo, pp) /\ hi[a] = High(hi, pp)
      /\ u \subseteq Int /\ u \subseteq Keys
  BY PlaceFacts
<1>4. <<a, dir>> \in Live(u)
  BY <1>2 DEF Live
<1>5. Inside(lo, hi, <<a, dir>>, b)
  BY <1>4, PlaceFacts
<1>6. Inside(lo, hi, pp, b)
  BY <1>2, <1>3, <1>5, PlaceFacts DEF Inside, Low, High, Sides, L, R
<1>7. /\ lk2 \in [Places -> Keys \cup {NULL}] /\ lk2[pp] = b /\ lk2[<<b, 1 - dir>>] = a
      /\ lk2[<<a, dir>>] = lk[<<b, 1 - dir>>]
      /\ \A s \in Places \ {pp, <<a, dir>>, <<b, 1 - dir>>} : lk2[s] = lk[s]
  <2>1. lk \in [Places -> Keys \cup {NULL}] /\ a \in Keys /\ b \in Keys
    BY <1>2, <1>3 DEF Shape
  <2>2. pp \notin {<<a, L>>, <<a, R>>, <<b, L>>, <<b, R>>}
    BY <1>2
  <2>3. a # b /\ u \subseteq Keys
    BY <1>2, <1>3
  <2> QED  BY ONLY <2>1, <2>2, <2>3, pp \in Live(u), dir \in Sides, SingleLinks
<1>8. Outside(lk, u, lo, hi, lk2, u, lo2, hi2, pp)
  <2> SUFFICES ASSUME NEW s \in Live(u), ~Inside(lo, hi, pp, s[1])
               PROVE  /\ Low(lo2, s) = Low(lo, s) /\ High(hi2, s) = High(hi, s)
                      /\ s # pp => lk2[s] = lk[s]
    BY DEF Outside
  <2>1. s[1] # a /\ s[1] # b
    BY <1>3, <1>6
  <2>2. s \in Places /\ s[1] \in u \cup {Tree}
    BY PlaceFacts
  <2>3. lo2[s[1]] = lo[s[1]] /\ hi2[s[1]] = hi[s[1]]
    BY <1>2, <1>3, <2>1, <2>2 DEF SingleLow, SingleHigh, Shape, Bounded
  <2> HIDE DEF lk2, lo2, hi2
  <2> QED  BY <1>7, <2>1, <2>2, <2>3 DEF Low, High
<1>9. \A n \in Keys \ u, d \in Sides : lk2[<<n, d>>] = lk[<<n, d>>]
  <2> SUFFICES ASSUME NEW n \in Keys \ u, NEW d \in Sides
               PROVE  lk2[<<n, d>>] = lk[<<n, d>>]
    OBVIOUS
  <2>1. <<n, d>> \in Places /\ n # Tree
    BY KeysAssumption DEF Places, Sides, Tree
  <2>2. pp[1] \in u \cup {Tree}
    BY PlaceFacts
  <2> HIDE DEF lk2
  <2> QED  BY <1>2, <1>7, <2>1, <2>2
<1> QED  BY <1>1, <1>8, <1>9 DEF Relinked

\* Two changes, the first at pp or below it.
LEMMA RelinkedTwice ==
  ASSUME NEW lk, NEW u, NEW lo, NEW hi, Shape(lk, u, lo, hi), NEW pp \in Live(u),
         NEW lk1, NEW u1, NEW lo1, NEW hi1, NEW p1 \in Live(u),
         Relinked(lk, u, lo, hi, lk1, u1, lo1, hi1, p1),
         \A z \in Int : Inside(lo, hi, p1, z) => Inside(lo, hi, pp, z),
         p1 = pp \/ Inside(lo, hi, pp, p1[1]),
         NEW lk2, NEW u2, NEW lo2, NEW hi2,
         Relinked(lk1, u1, lo1, hi1, lk2, u2, lo2, hi2, pp),
         u1 \subseteq u \cup u2
  PROVE  Relinked(lk, u, lo, hi, lk2, u2, lo2, hi2, pp)
<1>1. ASSUME NEW s \in Live(u), ~Inside(lo, hi, pp, s[1])
      PROVE  /\ s \in Live(u2)
             /\ Low(lo2, s) = Low(lo, s) /\ High(hi2, s) = High(hi, s)
             /\ s # pp => lk2[s] = lk[s]
  <2>1. s[1] \in Int /\ pp[1] \in Int /\ ~Inside(lo, hi, pp, pp[1])
    BY PlaceFacts
  <2>2. ~Inside(lo, hi, p1, s[1]) /\ ~Inside(lo, hi, p1, pp[1])
    BY <1>1, <2>1
  <2>3. /\ s \in Live(u1) /\ Low(lo1, s) = Low(lo, s) /\ High(hi1, s) = High(hi, s)
        /\ s # p1 => lk1[s] = lk[s]
        /\ pp \in Live(u1) /\ Low(lo1, pp) = Low(lo, pp) /\ High(hi1, pp) = High(hi, pp)
    BY <1>1, <2>2 DEF Relinked, Outside
  <2>4. ~Inside(lo1, hi1, pp, s[1])
    BY <1>1, <2>3 DEF Inside
  <2>5. /\ s \in Live(u2) /\ Low(lo2, s) = Low(lo1, s) /\ High(hi2, s) = High(hi1, s)
        /\ s # pp => lk2[s] = lk1[s]
    BY <2>3, <2>4 DEF Relinked, Outside
  <2> QED  BY <1>1, <2>3, <2>5
<1>2. \A n \in Keys \ (u \cup u2), d \in Sides : lk2[<<n, d>>] = lk[<<n, d>>]
  BY DEF Relinked
<1> QED  BY <1>1, <1>2 DEF Relinked, Outside

\* So does a double rotation, which is two single ones.
LEMMA DoubleRelinked ==
  ASSUME NEW lk, NEW u, NEW lo, NEW hi, Shape(lk, u, lo, hi),
         NEW pp \in Live(u), NEW dir \in Sides,
         NEW a, a = lk[pp], a # NULL, NEW b, b = lk[<<a, dir>>], b # NULL,
         NEW c, c = lk[<<b, 1 - dir>>], c # NULL
  PROVE  \E lo2, hi2 : Relinked(lk, u, lo, hi, Double(lk, pp, a, b, c, dir), u, lo2, hi2, pp)
<1>1. /\ a \in u /\ b \in u /\ c \in u /\ a # b /\ a # c /\ b # c /\ pp[1] \notin {a, b, c}
  BY DoubleApart
<1>2. 1 - dir \in Sides /\ dir # 1 - dir /\ 1 - (1 - dir) = dir
  BY SideFacts
<1>3. lk \in [Places -> Keys \cup {NULL}] /\ u \subseteq Keys /\ <<a, dir>> \in Live(u)
  BY <1>1 DEF Shape, Live
<1> DEFINE d   == 1 - dir
           p1  == <<a, dir>>
           lk1 == Single(lk, p1, b, c, d)
           lo1 == SingleLow(lo, b, c, d)
           hi1 == SingleHigh(hi, b, c, d)
<1>4. Relinked(lk, u, lo, hi, lk1, u, lo1, hi1, p1)
  <2>1. d \in Sides /\ p1 \in Live(u) /\ b = lk[p1] /\ c = lk[<<b, d>>]
    BY <1>2, <1>3
  <2> HIDE DEF d, p1
  <2> QED  BY ONLY <2>1, b # NULL, c # NULL, Shape(lk, u, lo, hi), SingleRelinked
<1>5. lk1[pp] = a /\ lk1[<<a, dir>>] = c
  <2>1. b \in Keys /\ c \in Keys /\ d \in Sides /\ p1 \notin {<<b, L>>, <<b, R>>, <<c, L>>, <<c, R>>}
    BY <1>1, <1>2, <1>3
  <2>2. /\ lk1[p1] = c /\ \A s \in Places \ {p1, <<b, d>>, <<c, 1 - d>>} : lk1[s] = lk[s]
    <3>1. p1 \in Live(u)
      BY <1>3
    <3> HIDE DEF d, p1
    <3>2. b # c /\ lk \in [Places -> Keys \cup {NULL}] /\ u \subseteq Keys
      BY <1>1, <1>3
    <3>3. /\ Single(lk, p1, b, c, d) \in [Places -> Keys \cup {NULL}]
          /\ Single(lk, p1, b, c, d)[p1] = c
          /\ Single(lk, p1, b, c, d)[<<c, 1 - d>>] = b
          /\ Single(lk, p1, b, c, d)[<<b, d>>] = lk[<<c, 1 - d>>]
          /\ \A s \in Places \ {p1, <<b, d>>, <<c, 1 - d>>} : Single(lk, p1, b, c, d)[s] = lk[s]
      BY ONLY <2>1, <3>1, <3>2, SingleLinks
    <3> QED  BY <3>3
  <2>3. pp \in Places \ {p1, <<b, d>>, <<c, 1 - d>>}
    BY <1>1, PlaceFacts
  <2> QED  BY <2>2, <2>3
<1>6. Shape(lk1, u, lo1, hi1)
  BY <1>4 DEF Relinked
<1> DEFINE lk2 == Single(lk1, pp, a, c, dir)
           lo2 == SingleLow(lo1, a, c, dir)
           hi2 == SingleHigh(hi1, a, c, dir)
<1>7. Relinked(lk1, u, lo1, hi1, lk2, u, lo2, hi2, pp)
  <2> HIDE DEF lk1, lo1, hi1
  <2> QED  BY ONLY <1>5, <1>6, a # NULL, c # NULL, pp \in Live(u), dir \in Sides, SingleRelinked
<1>8. lk2 = Double(lk, pp, a, b, c, dir)
  BY ONLY <1>1, <1>3, pp \in Live(u), dir \in Sides, DoubleIsTwo
<1>9. \A z \in Int : Inside(lo, hi, p1, z) => Inside(lo, hi, pp, z)
  <2>1. lo[a] = Low(lo, pp) /\ hi[a] = High(hi, pp) /\ Inside(lo, hi, pp, a) /\ u \subseteq Int
        /\ Low(lo, pp) \in Int /\ High(hi, pp) \in Int
    BY PlaceFacts
  <2> QED  BY <1>1, <2>1 DEF Inside, Low, High, Sides, L, R
<1>10. Inside(lo, hi, pp, p1[1])
  BY PlaceFacts
<1>11. Relinked(lk, u, lo, hi, lk2, u, lo2, hi2, pp)
  <2>1. p1 \in Live(u)
    BY <1>3
  <2>2. u \subseteq u \cup u
    OBVIOUS
  <2> HIDE DEF lk1, lo1, hi1, lk2, lo2, hi2, p1
  <2> QED  BY ONLY <1>4, <1>7, <1>9, <1>10, <2>1, <2>2, Shape(lk, u, lo, hi), pp \in Live(u), RelinkedTwice
<1> QED  BY <1>8, <1>11

-----------------------------------------------------------------------------
\* No node lies across the interval of an empty place.
LEMMA EmptyApart ==
  ASSUME NEW lk, NEW u, NEW lo, NEW hi, Shape(lk, u, lo, hi), NEW pp \in Live(u),
         NEW x \in Int, NEW y \in Int, x = Low(lo, pp), y = High(hi, pp),
         \A z \in u : ~(x < z /\ z < y),
         NEW n \in u \cup {Tree}
  PROVE  /\ n <= x \/ n >= y
         /\ n <= x => hi[n] <= x \/ hi[n] >= y
         /\ n >= y => lo[n] <= x \/ lo[n] >= y
<1>1. PICK m \in u \cup {Tree}, d \in Sides : pp = <<m, d>>
  BY DEF Live, Root, Tree, Sides
<1>2. u \subseteq Int /\ Tree \notin u /\ \A z \in u : Tree < z
  BY KeysAssumption DEF Shape, Tree
<1>3. Bounded(u, lo, hi)
  BY DEF Shape
<1>4. /\ x \in u \cup {Tree} /\ y \in u \cup {hi[Tree]} /\ hi[Tree] \in Int
      /\ \A z \in u : z < hi[Tree]
  BY <1>3, PlaceFacts DEF Bounded
<1>5. n # Tree => lo[n] \in u \cup {Tree} /\ hi[n] \in u \cup {hi[Tree]}
  BY <1>3 DEF Bounded
<1>6. n <= x \/ n >= y
  BY <1>2, <1>4 DEF Tree
<1>7. lo[Tree] < Tree
  BY <1>3 DEF Bounded
<1>8. x \in Int /\ y \in Int /\ x < y /\ n \in Int /\ lo[n] \in Int /\ hi[n] \in Int /\ lo[Tree] \in Int
  BY <1>2, <1>3, PlaceFacts DEF Bounded, Tree
<1>9. y <= hi[Tree]
  BY PlaceFacts
<1>10. \A z \in u \cup {Tree} : z <= x \/ z >= y
  BY <1>2, <1>4 DEF Tree
<1> QED  BY <1>2, <1>4, <1>5, <1>6, <1>7, <1>8, <1>9, <1>10 DEF Tree

\* A leaf is hung at the empty place its element belongs to.
LEMMA AttachRelinked ==
  ASSUME NEW lk, NEW u, NEW lo, NEW hi, Shape(lk, u, lo, hi),
         NEW pp \in Live(u), lk[pp] = NULL, NEW e \in Keys, Inside(lo, hi, pp, e),
         \A d \in Sides : lk[<<e, d>>] = NULL, e < hi[Tree]
  PROVE  e \notin u /\ \E lo2, hi2 : Relinked(lk, u, lo, hi, [lk EXCEPT ![pp] = e], u \cup {e}, lo2, hi2, pp)
<1> DEFINE u2  == u \cup {e}
           x   == Low(lo, pp)
           y   == High(hi, pp)
           lo2 == [lo EXCEPT ![e] = x]
           hi2 == [hi EXCEPT ![e] = y]
           lk2 == [lk EXCEPT ![pp] = e]
<1>1. /\ x \in u \cup {Tree} /\ y \in u \cup {hi[Tree]} /\ x \in Int /\ y \in Int
      /\ y <= hi[Tree] /\ hi[Tree] \in Int /\ pp \in Places /\ pp[1] \in u \cup {Tree}
      /\ u \subseteq Int /\ u \subseteq Keys /\ Tree \notin u /\ NULL \notin u
  BY PlaceFacts
<1>2. Hanging(lk, u, lo, hi, pp) /\ Bounded(u, lo, hi) /\ Nested(u, lo, hi) /\ lk \in [Places -> Keys \cup {NULL}]
  BY DEF Shape
<1>3. e \in Int /\ e # Tree /\ Tree < e /\ x < e /\ e < y /\ e # NULL
  BY KeysAssumption DEF Tree, Inside, NULL
<1>4. \A z \in u : ~(x < z /\ z < y)
  BY <1>2 DEF Hanging
<1>5. e \notin u
  BY <1>3, <1>4
<1>6. /\ lo2 \in [Keys \cup {Tree} -> Int] /\ hi2 \in [Keys \cup {Tree} -> Int]
      /\ lo2[e] = x /\ hi2[e] = y
      /\ \A n \in u \cup {Tree} : lo2[n] = lo[n] /\ hi2[n] = hi[n] /\ n \in Int /\ lo[n] \in Int /\ hi[n] \in Int
  BY <1>1, <1>2, <1>3, <1>5 DEF Bounded, Tree
<1>7. /\ lk2 \in [Places -> Keys \cup {NULL}] /\ lk2[pp] = e
      /\ \A s \in Places \ {pp} : lk2[s] = lk[s]
  BY <1>1, <1>2
<1>8. \A n \in u \cup {Tree} : /\ n <= x \/ n >= y
                               /\ n <= x => hi[n] <= x \/ hi[n] >= y
                               /\ n >= y => lo[n] <= x \/ lo[n] >= y
  <2> HIDE DEF x, y
  <2>1. x = Low(lo, pp) /\ y = High(hi, pp)
    BY DEF x, y
  <2>2. x \in Int /\ y \in Int
    BY <1>1
  <2> QED  BY ONLY <1>4, <2>1, <2>2, Shape(lk, u, lo, hi), pp \in Live(u), EmptyApart
<1> HIDE DEF lo2, hi2, lk2, x, y
<1>9. Bounded(u2, lo2, hi2)
  BY <1>1, <1>2, <1>3, <1>6 DEF Bounded
<1>10. Nested(u2, lo2, hi2)
  <2> SUFFICES ASSUME NEW m \in u2 \cup {Tree}, NEW n \in u2 \cup {Tree}, m < n
               PROVE  \/ hi2[m] <= n /\ lo2[n] <= lo2[m]
                      \/ m <= lo2[n] /\ hi2[n] <= hi2[m]
                      \/ hi2[m] <= lo2[n]
    BY DEF Nested
  <2>1. CASE m # e /\ n # e
    BY <1>2, <1>6, <2>1 DEF Nested
  <2>2. CASE m = e /\ n # e
    BY <1>1, <1>3, <1>6, <1>8, <2>2
  <2>3. CASE m # e /\ n = e
    BY <1>1, <1>3, <1>6, <1>8, <2>3
  <2> QED  BY <1>3, <2>1, <2>2, <2>3
<1>11. ASSUME NEW s \in Live(u)
       PROVE  Low(lo2, s) = Low(lo, s) /\ High(hi2, s) = High(hi, s) /\ s \in Places /\ s[1] \in u \cup {Tree}
  BY <1>6, PlaceFacts DEF Low, High
<1>12. ASSUME NEW s \in Live(u2)
       PROVE  Hanging(lk2, u2, lo2, hi2, s)
  <2>1. CASE s = pp
    BY <2>1, <1>3, <1>6, <1>7, <1>11 DEF Hanging, x, y
  <2>2. CASE s \in Live(u) /\ s # pp
    <3>1. Hanging(lk, u, lo, hi, s) /\ lk2[s] = lk[s]
      BY <2>2, <1>7, <1>11 DEF Shape
    <3>2. CASE lk[s] # NULL
      BY <2>2, <3>1, <3>2, <1>6, <1>11 DEF Hanging
    <3>3. CASE lk[s] = NULL
      <4>1. ~(Low(lo, s) < e /\ e < High(hi, s))
        <5>1. PICK m \in u \cup {Tree}, d \in Sides : s = <<m, d>>
          BY <2>2 DEF Live, Root, Tree, Sides
        <5>2. PICK n \in u \cup {Tree}, f \in Sides : pp = <<n, f>>
          BY DEF Live, Root, Tree, Sides
        <5>3. m # n \/ d # f
          BY <2>2, <5>1, <5>2
        <5>4. \A z \in u : ~(Low(lo, s) < z /\ z < High(hi, s))
          BY <3>1, <3>3 DEF Hanging
        <5>5. m \in Int /\ n \in Int /\ lo[m] \in Int /\ hi[m] \in Int /\ lo[n] \in Int /\ hi[n] \in Int
              /\ lo[m] < m /\ m < hi[m] /\ lo[n] < n /\ n < hi[n]
          BY <1>2, <1>6 DEF Bounded
        <5>6. (d = L => m # Tree) /\ (f = L => n # Tree)
          BY <2>2, <5>1, <5>2, <1>1 DEF Live, Root, L, R
        <5>7. x = Low(lo, pp) /\ y = High(hi, pp)
          BY DEF x, y
        <5>8. m <= x \/ m >= y
          BY <1>8
        <5>9. /\ m < n => \/ hi[m] <= n /\ lo[n] <= lo[m]
                          \/ m <= lo[n] /\ hi[n] <= hi[m]
                          \/ hi[m] <= lo[n]
              /\ n < m => \/ hi[n] <= m /\ lo[m] <= lo[n]
                          \/ n <= lo[m] /\ hi[m] <= hi[n]
                          \/ hi[n] <= lo[m]
          BY <1>2 DEF Nested
        <5>10. n <= Low(lo, s) \/ n >= High(hi, s)
          <6>1. s \in Live(u) /\ Low(lo, s) \in Int /\ High(hi, s) \in Int
            BY <2>2, PlaceFacts
          <6> QED  BY ONLY <5>4, <6>1, n \in u \cup {Tree}, Shape(lk, u, lo, hi), EmptyApart
        <5>11. CASE m = n
          BY <5>1, <5>2, <5>3, <5>5, <5>7, <5>11, <1>3 DEF Low, High, Sides, L, R
        <5>12. CASE m < n
          BY <5>1, <5>2, <5>5, <5>7, <5>8, <5>9, <5>10, <5>12, <1>3 DEF Low, High, Sides, L, R
        <5>13. CASE n < m
          BY <5>1, <5>2, <5>5, <5>7, <5>8, <5>9, <5>10, <5>13, <1>3 DEF Low, High, Sides, L, R
        <5> QED  BY <5>5, <5>11, <5>12, <5>13
      <4> QED  BY <2>2, <3>1, <3>3, <4>1, <1>11 DEF Hanging
    <3> QED  BY <3>2, <3>3
  <2>3. CASE s \notin Live(u)
    <3>1. PICK d \in Sides : s = <<e, d>>
      BY <2>3 DEF Live
    <3>2. lk2[s] = NULL
      BY <3>1, <1>1, <1>3, <1>5, <1>7 DEF Places, Sides
    <3>3. \A z \in u2 : ~(Low(lo2, s) < z /\ z < High(hi2, s))
      BY <3>1, <1>1, <1>3, <1>4, <1>6 DEF Low, High, Sides, L, R
    <3> QED  BY <3>2, <3>3 DEF Hanging
  <2> QED  BY <2>1, <2>2, <2>3
<1>13. Shape(lk2, u2, lo2, hi2)
  BY <1>1, <1>7, <1>9, <1>10, <1>12 DEF Shape
<1>14. Outside(lk, u, lo, hi, lk2, u2, lo2, hi2, pp)
  BY <1>7, <1>11 DEF Outside, Live
<1>15. \A n \in Keys \ (u \cup u2), d \in Sides : lk2[<<n, d>>] = lk[<<n, d>>]
  BY <1>1, <1>7, KeysAssumption DEF Places, Sides, Tree
<1>16. Relinked(lk, u, lo, hi, lk2, u2, lo2, hi2, pp)
  BY <1>13, <1>14, <1>15 DEF Relinked
<1> QED  BY <1>5, <1>16 DEF lk2

-----------------------------------------------------------------------------
\* A node with at most one child is taken out; its child takes its place.
Spliced(lk, u, lk2, pp, p, side) ==
  /\ p = lk[pp] /\ p # NULL /\ lk[<<p, side>>] = NULL
  /\ lk2 \in [Places -> Keys \cup {NULL}] /\ lk2[pp] = lk[<<p, 1 - side>>]
  /\ \A s \in Places : s # pp /\ s[1] # p => lk2[s] = lk[s]

\* The ends after p was taken out: those that were at p are p's now.
SpliceLow(lo, p)  == [n \in Keys \cup {Tree} |-> IF lo[n] = p THEN lo[p] ELSE lo[n]]
SpliceHigh(hi, p) == [n \in Keys \cup {Tree} |-> IF hi[n] = p THEN hi[p] ELSE hi[n]]

\* What lies across p, one of whose subtrees is empty.
LEMMA SpliceApart ==
  ASSUME NEW lk, NEW u, NEW lo, NEW hi, Shape(lk, u, lo, hi),
         NEW pp \in Live(u), NEW p, p = lk[pp], p # NULL,
         NEW side \in Sides, lk[<<p, side>>] = NULL
  PROVE  /\ p \in u /\ p \in Int /\ lo[p] \in Int /\ hi[p] \in Int /\ lo[p] < p /\ p < hi[p]
         /\ lo[p] \in u \cup {Tree} /\ hi[p] \in u \cup {hi[Tree]} /\ p < hi[Tree] /\ hi[Tree] \in Int
         /\ Tree < p /\ lo[Tree] < Tree /\ hi[p] <= hi[Tree]
         /\ side = L => \A n \in u \cup {Tree} : (n <= lo[p] \/ n >= p) /\ hi[n] # p
         /\ side = R => \A n \in u \cup {Tree} : (n <= p \/ n >= hi[p]) /\ lo[n] # p
<1>1. /\ p \in u /\ u \subseteq Int /\ Tree \notin u /\ lo[p] = Low(lo, pp) /\ hi[p] = High(hi, pp)
      /\ hi[Tree] \in Int
  BY PlaceFacts
<1>2. Bounded(u, lo, hi) /\ Nested(u, lo, hi)
  BY DEF Shape
<1>3. <<p, side>> \in Live(u)
  BY <1>1 DEF Live
<1>4. \A z \in u : ~(Low(lo, <<p, side>>) < z /\ z < High(hi, <<p, side>>))
  BY <1>3 DEF Shape, Hanging
<1>5. \A z \in u : Tree < z
  BY KeysAssumption DEF Shape, Tree
<1>6. /\ p \in Int /\ lo[p] \in Int /\ hi[p] \in Int /\ lo[p] < p /\ p < hi[p]
      /\ lo[p] \in u \cup {Tree} /\ hi[p] \in u \cup {hi[Tree]} /\ p < hi[Tree]
      /\ Tree < p /\ lo[Tree] < Tree /\ hi[p] <= hi[Tree]
  <2>1. p \in u \cup {Tree} /\ Tree \in u \cup {Tree} /\ p \in u
    BY <1>1
  <2> QED  BY ONLY <2>1, Shape(lk, u, lo, hi), NodeFacts
<1>7. ASSUME NEW n \in u \cup {Tree}
      PROVE  /\ n \in Int /\ lo[n] \in Int /\ hi[n] \in Int /\ lo[n] < n /\ n < hi[n]
             /\ n < p => \/ hi[n] <= p /\ lo[p] <= lo[n]
                         \/ n <= lo[p] /\ hi[p] <= hi[n]
                         \/ hi[n] <= lo[p]
             /\ p < n => \/ hi[p] <= n /\ lo[n] <= lo[p]
                         \/ p <= lo[n] /\ hi[n] <= hi[p]
                         \/ hi[p] <= lo[n]
  <2>1. n \in Int /\ lo[n] \in Int /\ hi[n] \in Int /\ lo[n] < n /\ n < hi[n]
    BY NodeFacts
  <2>2. p \in u \cup {Tree}
    BY <1>1
  <2> QED  BY ONLY <2>1, <2>2, n \in u \cup {Tree}, Shape(lk, u, lo, hi), NodesNested
<1>8. ASSUME side = L, NEW n \in u \cup {Tree}
      PROVE  (n <= lo[p] \/ n >= p) /\ hi[n] # p
  <2>1. n <= lo[p] \/ n >= p
    BY <1>4, <1>5, <1>6, <1>7, <1>8 DEF Low, High, Tree
  <2> QED  BY <2>1, <1>6, <1>7
<1>9. ASSUME side = R, NEW n \in u \cup {Tree}
      PROVE  (n <= p \/ n >= hi[p]) /\ lo[n] # p
  <2>1. n <= p \/ n >= hi[p]
    BY <1>4, <1>5, <1>6, <1>7, <1>9 DEF Low, High, Tree, L, R
  <2> QED  BY <2>1, <1>6, <1>7
<1> QED  BY <1>1, <1>6, <1>8, <1>9

\* Taking out a node with an empty subtree changes the subtree at its place only.
LEMMA SpliceRelinked ==
  ASSUME NEW lk, NEW u, NEW lo, NEW hi, Shape(lk, u, lo, hi),
         NEW pp \in Live(u), NEW p, NEW side \in Sides, NEW lk2, Spliced(lk, u, lk2, pp, p, side)
  PROVE  Relinked(lk, u, lo, hi, lk2, u \ {p}, SpliceLow(lo, p), SpliceHigh(hi, p), pp)
<1> DEFINE u2  == u \ {p}
           lo2 == SpliceLow(lo, p)
           hi2 == SpliceHigh(hi, p)
<1>1. /\ p = lk[pp] /\ p # NULL /\ lk[<<p, side>>] = NULL
      /\ lk2 \in [Places -> Keys \cup {NULL}] /\ lk2[pp] = lk[<<p, 1 - side>>]
      /\ \A s \in Places : s # pp /\ s[1] # p => lk2[s] = lk[s]
  BY DEF Spliced
<1>2. /\ p \in u /\ p \in Int /\ lo[p] \in Int /\ hi[p] \in Int /\ lo[p] < p /\ p < hi[p]
      /\ lo[p] \in u \cup {Tree} /\ hi[p] \in u \cup {hi[Tree]} /\ p < hi[Tree] /\ hi[Tree] \in Int
      /\ Tree < p /\ lo[Tree] < Tree /\ hi[p] <= hi[Tree]
      /\ side = L => \A n \in u \cup {Tree} : (n <= lo[p] \/ n >= p) /\ hi[n] # p
      /\ side = R => \A n \in u \cup {Tree} : (n <= p \/ n >= hi[p]) /\ lo[n] # p
  BY <1>1, SpliceApart
<1>3. /\ u \subseteq Int /\ u \subseteq Keys /\ Tree \notin u /\ NULL \notin u
      /\ lo[p] = Low(lo, pp) /\ hi[p] = High(hi, pp) /\ pp \in Places /\ pp[1] \in u \cup {Tree}
  BY <1>1, PlaceFacts
<1>4. Bounded(u, lo, hi) /\ Nested(u, lo, hi)
  BY DEF Shape
<1>5. side = L \/ side = R
  BY DEF Sides
<1>6. /\ lo2 \in [Keys \cup {Tree} -> Int] /\ hi2 \in [Keys \cup {Tree} -> Int]
      /\ \A n \in u \cup {Tree} : /\ lo2[n] = (IF lo[n] = p THEN lo[p] ELSE lo[n])
                                  /\ hi2[n] = (IF hi[n] = p THEN hi[p] ELSE hi[n])
                                  /\ n \in Int /\ lo[n] \in Int /\ hi[n] \in Int /\ lo[n] < n /\ n < hi[n] /\ n < hi[Tree]
                                  /\ n # Tree => lo[n] \in u \cup {Tree} /\ hi[n] \in u \cup {hi[Tree]}
      /\ hi2[Tree] = hi[Tree] /\ lo2[Tree] = lo[Tree]
  BY <1>2, <1>3, <1>4 DEF Bounded, SpliceLow, SpliceHigh, Tree
<1> HIDE DEF lo2, hi2
<1>7. Bounded(u2, lo2, hi2)
  BY <1>2, <1>3, <1>6 DEF Bounded
<1>8. ASSUME NEW m \in u2 \cup {Tree}, NEW n \in u2 \cup {Tree}, m < n
      PROVE  \/ hi2[m] <= n /\ lo2[n] <= lo2[m]
             \/ m <= lo2[n] /\ hi2[n] <= hi2[m]
             \/ hi2[m] <= lo2[n]
  <2>1. \/ hi[m] <= n /\ lo[n] <= lo[m]
        \/ m <= lo[n] /\ hi[n] <= hi[m]
        \/ hi[m] <= lo[n]
    BY <1>4, <1>8 DEF Nested
  <2>2. /\ n \in u /\ n # p /\ m # p /\ m \in u \cup {Tree} /\ n \in u \cup {Tree} /\ n # Tree
        /\ lo[n] \in u \cup {Tree} /\ hi[n] \in u \cup {hi[Tree]}
    <3>1. m \in u \cup {Tree} /\ n \in u \cup {Tree} /\ n # p /\ m # p
      BY <1>2, <1>8
    <3>2. Tree <= m
      BY <3>1, NodeFacts
    <3>3. n # Tree
      BY <1>8, <3>1, <3>2, NodeFacts
    <3> QED  BY <1>6, <3>1, <3>3
  <2>3. lo[m] \in u \cup {Tree} \/ (m = Tree /\ lo[m] < Tree)
    BY <1>2, <1>6
  <2>4. hi[m] \in u \cup {hi[Tree]}
    BY <1>6
  <2>5. Tree \in Int
    BY DEF Tree
  <2>6. CASE side = L
    <3>1. \A z \in u \cup {Tree} : z <= lo[p] \/ z >= p
      BY <1>2, <2>6
    <3>2. hi2[m] = hi[m] /\ hi2[n] = hi[n] /\ hi[m] # p /\ hi[n] # p
      BY <1>2, <1>6, <2>2, <2>6
    <3>3. /\ lo2[m] = (IF lo[m] = p THEN lo[p] ELSE lo[m])
          /\ lo2[n] = (IF lo[n] = p THEN lo[p] ELSE lo[n])
          /\ m \in Int /\ n \in Int /\ lo[m] \in Int /\ lo[n] \in Int /\ hi[m] \in Int /\ hi[n] \in Int
          /\ lo[m] < m /\ lo[n] < n /\ m < hi[m] /\ n < hi[n]
      BY <1>6, <2>2
    <3>4. m <= lo[p] \/ m >= p
      BY <2>2, <3>1
    <3>5. lo[n] <= lo[p] \/ lo[n] >= p
      BY <2>2, <3>1
    <3>6. hi[m] <= lo[p] \/ hi[m] >= p
      <4>1. CASE hi[m] = hi[Tree]
        BY <1>2, <4>1
      <4>2. CASE hi[m] \in u
        BY <3>1, <4>2
      <4> QED  BY <2>4, <4>1, <4>2
    <3> QED  BY <1>2, <1>8, <2>1, <2>2, <3>2, <3>3, <3>4, <3>5, <3>6
  <2>7. CASE side = R
    <3>1. \A z \in u \cup {Tree} : z <= p \/ z >= hi[p]
      BY <1>2, <2>7
    <3>2. lo2[m] = lo[m] /\ lo2[n] = lo[n] /\ lo[m] # p /\ lo[n] # p
      BY <1>2, <1>6, <2>2, <2>7
    <3>3. /\ hi2[m] = (IF hi[m] = p THEN hi[p] ELSE hi[m])
          /\ hi2[n] = (IF hi[n] = p THEN hi[p] ELSE hi[n])
          /\ m \in Int /\ n \in Int /\ lo[m] \in Int /\ lo[n] \in Int /\ hi[m] \in Int /\ hi[n] \in Int
          /\ lo[m] < m /\ lo[n] < n /\ m < hi[m] /\ n < hi[n]
      BY <1>6, <2>2
    <3>4. /\ n <= p \/ n >= hi[p]
          /\ lo[n] <= p \/ lo[n] >= hi[p]
          /\ hi[m] <= p \/ hi[m] >= hi[p]
      BY <1>2, <2>2, <2>4, <3>1
    <3> QED  BY <1>2, <1>8, <2>1, <2>2, <3>2, <3>3, <3>4
  <2> QED  BY <1>5, <2>6, <2>7
<1>9. Nested(u2, lo2, hi2)
  BY <1>8 DEF Nested
<1>10. ASSUME NEW s \in Live(u)
       PROVE  /\ s \in Places /\ s[1] \in u \cup {Tree} /\ (s # pp => lk[s] # p)
              /\ Low(lo, s) \in Int /\ High(hi, s) \in Int
              /\ lk[s] # NULL => lk[s] \in u /\ lo[lk[s]] = Low(lo, s) /\ hi[lk[s]] = High(hi, s)
              /\ lk[s] = NULL => \A z \in u : ~(Low(lo, s) < z /\ z < High(hi, s))
  BY <1>1, HangsOnce, PlaceFacts DEF Shape, Hanging
<1>11. ASSUME NEW s \in Live(u), s[1] # p
       PROVE  /\ Low(lo2, s) = (IF Low(lo, s) = p /\ s[2] = L THEN lo[p] ELSE Low(lo, s))
              /\ High(hi2, s) = (IF High(hi, s) = p /\ s[2] = R THEN hi[p] ELSE High(hi, s))
  <2>1. s[2] = L \/ s[2] = R
    BY DEF Live, Root, Sides
  <2> QED  BY <2>1, <1>6, <1>10, <1>11 DEF Low, High, L, R
<1>12. pp[1] # p
  BY <1>1, <1>2, PlaceFacts
<1>13. Low(lo2, pp) = Low(lo, pp) /\ High(hi2, pp) = High(hi, pp)
  BY <1>2, <1>3, <1>11, <1>12
<1>14. ASSUME NEW s \in Live(u2)
       PROVE  Hanging(lk2, u2, lo2, hi2, s)
  <2>1. s \in Live(u) /\ s[1] # p
    BY <1>2, <1>14 DEF Live, Root, Tree
  <2>2. CASE s = pp
    <3> DEFINE y == lk[<<p, 1 - side>>]
    <3>1. 1 - side \in Sides /\ <<p, 1 - side>> \in Live(u)
      BY <1>2, SideFacts DEF Live
    <3>2. <<p, 1 - side>>[1] = p /\ <<p, 1 - side>>[2] = 1 - side
      OBVIOUS
    <3>3. CASE y = NULL
      <4>1. \A z \in u : ~(Low(lo, <<p, 1 - side>>) < z /\ z < High(hi, <<p, 1 - side>>))
        BY <1>10, <3>1, <3>3
      <4>2. \A z \in u : ~(Low(lo, <<p, side>>) < z /\ z < High(hi, <<p, side>>))
        <5>1. <<p, side>> \in Live(u)
          BY <1>2 DEF Live
        <5> QED  BY <1>1, <1>10, <5>1
      <4>3. \A z \in u2 : ~(lo[p] < z /\ z < hi[p])
        BY <1>2, <1>3, <1>5, <4>1, <4>2 DEF Low, High, L, R
      <4> QED  BY <2>2, <3>3, <4>3, <1>1, <1>3, <1>13 DEF Hanging
    <3>4. CASE y # NULL
      <4>1. y \in u /\ lo[y] = Low(lo, <<p, 1 - side>>) /\ hi[y] = High(hi, <<p, 1 - side>>)
        BY <1>10, <3>1, <3>4
      <4>2. y \in Int /\ lo[y] < y /\ y < hi[y]
        BY <1>6, <4>1
      <4>3. y # p
        BY <1>2, <1>5, <4>1, <4>2 DEF Low, High, L, R
      <4>4. lo2[y] = lo[p] /\ hi2[y] = hi[p]
        BY <1>2, <1>5, <1>6, <4>1 DEF Low, High, L, R
      <4> QED  BY <2>2, <3>4, <4>1, <4>3, <4>4, <1>1, <1>3, <1>13 DEF Hanging
    <3> QED  BY <3>3, <3>4
  <2>3. CASE s # pp
    <3>1. lk2[s] = lk[s] /\ lk[s] # p
      BY <1>1, <1>10, <2>1, <2>3
    <3>2. CASE lk[s] # NULL
      <4>1. lk[s] \in u2 /\ lo[lk[s]] = Low(lo, s) /\ hi[lk[s]] = High(hi, s)
        BY <1>10, <2>1, <3>1, <3>2
      <4>2. s[2] = R => Low(lo, s) # p
        BY <2>1 DEF Low, L, R
      <4>3. s[2] = L => High(hi, s) # p
        BY <2>1 DEF High
      <4>4. s[2] = L \/ s[2] = R
        BY <2>1 DEF Live, Root, Sides
      <4>5. lo2[lk[s]] = Low(lo2, s) /\ hi2[lk[s]] = High(hi2, s)
        BY <1>6, <1>11, <2>1, <4>1, <4>2, <4>3, <4>4
      <4> QED  BY <3>1, <3>2, <4>1, <4>5 DEF Hanging
    <3>3. CASE lk[s] = NULL
      <4>1. \A z \in u : ~(Low(lo, s) < z /\ z < High(hi, s))
        BY <1>10, <2>1, <3>3
      <4>2. ASSUME NEW z \in u2, Low(lo2, s) < z, z < High(hi2, s)
            PROVE  FALSE
        <5>1. z \in u /\ z # p /\ z \in Int /\ Low(lo, s) \in Int /\ High(hi, s) \in Int
          BY <1>3, <1>10, <2>1, <4>2
        <5>2. side = L => (z <= lo[p] \/ z >= p)
          BY <1>2, <5>1
        <5>3. side = R => (z <= p \/ z >= hi[p])
          BY <1>2, <5>1
        <5>4. side = L /\ s[2] = R => High(hi, s) # p
          BY <1>2, <1>10, <2>1 DEF High, L, R
        <5>5. side = R /\ s[2] = L => Low(lo, s) # p
          BY <1>2, <1>10, <2>1 DEF Low
        <5>6. ~(Low(lo, s) < z /\ z < High(hi, s))
          BY <4>1, <5>1
        <5>7. (s[2] = R => Low(lo2, s) = Low(lo, s)) /\ (s[2] = L => High(hi2, s) = High(hi, s))
              /\ (s[2] = L \/ s[2] = R)
          BY <1>11, <2>1 DEF Live, Root, Sides, L, R
        <5> QED  BY <1>2, <1>5, <1>11, <2>1, <4>2, <5>1, <5>2, <5>3, <5>4, <5>5, <5>6, <5>7
      <4> QED  BY <3>1, <3>3, <4>2 DEF Hanging
    <3> QED  BY <3>2, <3>3
  <2> QED  BY <2>2, <2>3
<1>15. Shape(lk2, u2, lo2, hi2)
  BY <1>1, <1>3, <1>7, <1>9, <1>14 DEF Shape
<1>16. ASSUME NEW s \in Live(u), ~Inside(lo, hi, pp, s[1])
       PROVE  /\ s \in Live(u2) /\ Low(lo2, s) = Low(lo, s) /\ High(hi2, s) = High(hi, s)
              /\ s # pp => lk2[s] = lk[s]
  <2>1. s[1] # p
    BY <1>1, <1>16, PlaceFacts
  <2>2. s \in Live(u2)
    BY <2>1 DEF Live
  <2>3. s[1] \in Int /\ ~(lo[p] < s[1] /\ s[1] < hi[p]) /\ s[1] \in u \cup {Tree}
    BY <1>3, <1>10, <1>16 DEF Inside, Tree
  <2>4. lo[s[1]] = p => p < s[1]
    BY <1>6, <2>3
  <2>5. hi[s[1]] = p => s[1] < p
    BY <1>6, <2>3
  <2>6. /\ s[1] < p => \/ hi[s[1]] <= p /\ lo[p] <= lo[s[1]]
                       \/ s[1] <= lo[p] /\ hi[p] <= hi[s[1]]
                       \/ hi[s[1]] <= lo[p]
        /\ p < s[1] => \/ hi[p] <= s[1] /\ lo[s[1]] <= lo[p]
                       \/ p <= lo[s[1]] /\ hi[s[1]] <= hi[p]
                       \/ hi[p] <= lo[s[1]]
    BY <1>2, <1>4, <2>3 DEF Nested
  <2>7. lo[s[1]] # p /\ hi[s[1]] # p
    BY <1>2, <1>6, <2>3, <2>4, <2>5, <2>6
  <2>8. Low(lo2, s) = Low(lo, s) /\ High(hi2, s) = High(hi, s)
    BY <1>6, <2>3, <2>7 DEF Low, High
  <2> QED  BY <1>1, <1>10, <2>1, <2>2, <2>8
<1>17. ASSUME NEW n \in Keys \ (u \cup u2), NEW d \in Sides
       PROVE  lk2[<<n, d>>] = lk[<<n, d>>]
  <2>1. n \notin u /\ n # p /\ n # Tree /\ <<n, d>> \in Places
    BY <1>2, <1>17, KeysAssumption DEF Places, Sides, Tree
  <2>2. <<n, d>> # pp /\ <<n, d>>[1] # p
    BY <1>3, <2>1
  <2> QED  BY <1>1, <2>1, <2>2
<1>18. Outside(lk, u, lo, hi, lk2, u2, lo2, hi2, pp)
  BY <1>16 DEF Outside
<1>19. \A n \in Keys \ (u \cup u2), d \in Sides : lk2[<<n, d>>] = lk[<<n, d>>]
  BY <1>17
<1> HIDE DEF u2
<1>20. Relinked(lk, u, lo, hi, lk2, u2, lo2, hi2, pp)
  BY ONLY <1>15, <1>18, <1>19 DEF Relinked
<1> QED  BY <1>20 DEF u2, lo2, hi2

-----------------------------------------------------------------------------
\* A node outside the tree takes the place of p, next to which its element lies.
Swapped(lk, u, lk2, pp, p, t) ==
  /\ p = lk[pp] /\ p # NULL /\ t \in Keys \ u /\ t < p
  /\ \A n \in u \ {p} : n < t <=> n < p
  /\ lk2 \in [Places -> Keys \cup {NULL}] /\ lk2[pp] = t
  /\ \A d \in Sides : lk2[<<t, d>>] = lk[<<p, d>>]
  /\ \A s \in Places : s # pp /\ s[1] # p /\ s[1] # t => lk2[s] = lk[s]

\* The ends after t took the place of p.
Swap(p, t, v) == IF v = p THEN t ELSE v

SwapEnds(ends, p, t) ==
  [n \in Keys \cup {Tree} |-> IF n = t THEN ends[p] ELSE Swap(p, t, ends[n])]

\* The swap keeps the order of all that is compared.
LEMMA SwapOrder ==
  ASSUME NEW lk, NEW u, NEW lo, NEW hi, Shape(lk, u, lo, hi),
         NEW pp \in Live(u), NEW p, NEW t, NEW lk2, Swapped(lk, u, lk2, pp, p, t),
         NEW W, W = u \cup {Tree, lo[Tree], hi[Tree]}
  PROVE  /\ \A v \in W : v \in Int /\ Swap(p, t, v) \in Int
         /\ \A v \in W, w \in W : (v < w <=> Swap(p, t, v) < Swap(p, t, w))
                               /\ (v <= w <=> Swap(p, t, v) <= Swap(p, t, w))
<1>1. p \in u /\ u \subseteq Int /\ u \subseteq Keys /\ Tree \notin u
  BY PlaceFacts DEF Swapped
<1>2. /\ t \in Int /\ Tree < t /\ t < p /\ p \in Int /\ t \notin u
      /\ \A n \in u \ {p} : n < t <=> n < p
  BY <1>1, KeysAssumption DEF Swapped, Tree
<1>3. /\ Tree \in Int /\ lo[Tree] \in Int /\ hi[Tree] \in Int /\ lo[Tree] < Tree /\ p < hi[Tree] /\ Tree < p
  BY <1>1, <1>2, NodeFacts DEF Tree
<1>4. ASSUME NEW v \in W
      PROVE  v \in Int /\ Swap(p, t, v) \in Int /\ (v # p => (v < t <=> v < p) /\ v # t)
  BY <1>1, <1>2, <1>3, <1>4 DEF Swap
<1>5. ASSUME NEW v \in W, NEW w \in W
      PROVE  (v < w <=> Swap(p, t, v) < Swap(p, t, w)) /\ (v <= w <=> Swap(p, t, v) <= Swap(p, t, w))
  <2>1. v \in Int /\ w \in Int /\ (v # p => (v < t <=> v < p) /\ v # t) /\ (w # p => (w < t <=> w < p) /\ w # t)
    BY <1>4
  <2> QED  BY <1>2, <2>1 DEF Swap
<1> QED  BY <1>4, <1>5

\* Replacing a node changes the subtree at its place only.
LEMMA SwapRelinked ==
  ASSUME NEW lk, NEW u, NEW lo, NEW hi, Shape(lk, u, lo, hi),
         NEW pp \in Live(u), NEW p, NEW t, NEW lk2, Swapped(lk, u, lk2, pp, p, t)
  PROVE  Relinked(lk, u, lo, hi, lk2, (u \ {p}) \cup {t}, SwapEnds(lo, p, t), SwapEnds(hi, p, t), pp)
<1> DEFINE u2   == (u \ {p}) \cup {t}
           lo2  == SwapEnds(lo, p, t)
           hi2  == SwapEnds(hi, p, t)
           W    == u \cup {Tree, lo[Tree], hi[Tree]}
           f(v) == Swap(p, t, v)
<1>1. /\ p = lk[pp] /\ p # NULL /\ t \in Keys /\ t \notin u
      /\ lk2 \in [Places -> Keys \cup {NULL}] /\ lk2[pp] = t
      /\ \A d \in Sides : lk2[<<t, d>>] = lk[<<p, d>>]
      /\ \A s \in Places : s # pp /\ s[1] # p /\ s[1] # t => lk2[s] = lk[s]
  BY DEF Swapped
<1>2. /\ p \in u /\ u \subseteq Int /\ u \subseteq Keys /\ Tree \notin u /\ NULL \notin u
      /\ pp \in Places /\ pp[1] \in u \cup {Tree} /\ lo[p] = Low(lo, pp) /\ hi[p] = High(hi, pp)
  BY <1>1, PlaceFacts
<1>3. t # Tree /\ Tree \notin Keys /\ t # p /\ p # Tree
  BY <1>1, <1>2, KeysAssumption DEF Tree
<1>4. /\ \A v \in W : v \in Int /\ f(v) \in Int
      /\ \A v \in W, w \in W : (v < w <=> f(v) < f(w)) /\ (v <= w <=> f(v) <= f(w))
  <2>1. W = u \cup {Tree, lo[Tree], hi[Tree]}
    OBVIOUS
  <2> HIDE DEF W
  <2>2. /\ \A v \in W : v \in Int /\ Swap(p, t, v) \in Int
        /\ \A v \in W, w \in W : (v < w <=> Swap(p, t, v) < Swap(p, t, w))
                               /\ (v <= w <=> Swap(p, t, v) <= Swap(p, t, w))
    BY ONLY <2>1, Shape(lk, u, lo, hi), pp \in Live(u), Swapped(lk, u, lk2, pp, p, t), SwapOrder
  <2> QED  BY <2>2
<1>5. ASSUME NEW n \in u \cup {Tree}
      PROVE  /\ n \in W /\ lo[n] \in W /\ hi[n] \in W /\ hi[Tree] \in W
             /\ lo[n] < n /\ n < hi[n] /\ n < hi[Tree]
             /\ n \in u => lo[n] \in u \cup {Tree} /\ hi[n] \in u \cup {hi[Tree]}
             /\ f(n) \in u2 \cup {Tree} /\ f(n) \in Keys \cup {Tree} /\ (f(n) = Tree <=> n = Tree)
             /\ lo2[f(n)] = f(lo[n]) /\ hi2[f(n)] = f(hi[n])
  <2>1. /\ n \in Int /\ lo[n] \in Int /\ hi[n] \in Int /\ lo[n] < n /\ n < hi[n]
        /\ hi[Tree] \in Int /\ n < hi[Tree] /\ hi[n] <= hi[Tree]
        /\ n \in u => lo[n] \in u \cup {Tree} /\ hi[n] \in u \cup {hi[Tree]}
    BY NodeFacts
  <2>2. n \in W /\ lo[n] \in W /\ hi[n] \in W /\ hi[Tree] \in W
    BY <2>1
  <2>3. f(n) \in u2 \cup {Tree} /\ f(n) \in Keys \cup {Tree} /\ (f(n) = Tree <=> n = Tree)
    BY <1>1, <1>2, <1>3 DEF Swap
  <2>4. lo2[f(n)] = f(lo[n]) /\ hi2[f(n)] = f(hi[n])
    <3>1. CASE n = p
      <4>1. lo[p] # p /\ hi[p] # p
        BY <2>1, <3>1
      <4> QED  BY <1>1, <3>1, <4>1 DEF Swap, SwapEnds
    <3>2. CASE n # p
      <4>1. n # t /\ n \in Keys \cup {Tree}
        BY <1>1, <1>2, <1>3
      <4> QED  BY <3>2, <4>1 DEF Swap, SwapEnds
    <3> QED  BY <3>1, <3>2
  <2> QED  BY <2>1, <2>2, <2>3, <2>4
<1>6. ASSUME NEW m \in u2 \cup {Tree}
      PROVE  \E n \in u \cup {Tree} : m = f(n)
  BY <1>1, <1>2, <1>3 DEF Swap
<1>7. lo2 \in [Keys \cup {Tree} -> Int] /\ hi2 \in [Keys \cup {Tree} -> Int]
  <2>1. lo \in [Keys \cup {Tree} -> Int] /\ hi \in [Keys \cup {Tree} -> Int]
    BY DEF Shape, Bounded
  <2>2. t \in Int /\ p \in Keys
    BY <1>1, <1>2, KeysAssumption
  <2> QED  BY <2>1, <2>2 DEF SwapEnds, Swap
<1>8. hi2[Tree] = hi[Tree] /\ f(hi[Tree]) = hi[Tree] /\ f(Tree) = Tree /\ lo2[Tree] = lo[Tree]
  <2>1. p < hi[Tree] /\ p \in Int /\ hi[Tree] \in Int /\ lo[Tree] < Tree /\ Tree < p /\ lo[Tree] \in Int
        /\ Tree \in Int
    BY <1>2, NodeFacts DEF Tree
  <2>2. hi[Tree] # p /\ lo[Tree] # p
    BY <2>1
  <2> QED  BY <1>3, <2>2 DEF SwapEnds, Swap
<1> HIDE DEF lo2, hi2, f, W
<1>9. Bounded(u2, lo2, hi2)
  <2>1. ASSUME NEW m \in u2 \cup {Tree}
        PROVE  lo2[m] < m /\ m < hi2[m] /\ m < hi2[Tree]
    <3>1. PICK n \in u \cup {Tree} : m = f(n)
      BY <1>6
    <3> QED  BY <1>4, <1>5, <1>8, <3>1
  <2>2. ASSUME NEW m \in u2
        PROVE  lo2[m] \in u2 \cup {Tree} /\ hi2[m] \in u2 \cup {hi2[Tree]}
    <3>1. PICK n \in u \cup {Tree} : m = f(n)
      BY <1>6
    <3>2. m # Tree
      BY <1>1, <1>2, <1>3, <2>2
    <3>3. n \in u
      BY <1>5, <3>1, <3>2
    <3>4. \A v \in u \cup {Tree} : f(v) \in u2 \cup {Tree}
      BY <1>5
    <3>5. lo2[m] \in u2 \cup {Tree}
      BY <1>5, <3>1, <3>3, <3>4
    <3>6. hi[n] \in u => f(hi[n]) \in u2
      BY <1>2, <1>5
    <3> QED  BY <1>5, <1>8, <3>1, <3>3, <3>5, <3>6
  <2> QED  BY <1>7, <2>1, <2>2 DEF Bounded
<1>10. Nested(u2, lo2, hi2)
  <2> SUFFICES ASSUME NEW m2 \in u2 \cup {Tree}, NEW n2 \in u2 \cup {Tree}, m2 < n2
               PROVE  \/ hi2[m2] <= n2 /\ lo2[n2] <= lo2[m2]
                      \/ m2 <= lo2[n2] /\ hi2[n2] <= hi2[m2]
                      \/ hi2[m2] <= lo2[n2]
    BY DEF Nested
  <2>1. PICK m \in u \cup {Tree} : m2 = f(m)
    BY <1>6
  <2>2. PICK n \in u \cup {Tree} : n2 = f(n)
    BY <1>6
  <2>3. /\ m \in W /\ lo[m] \in W /\ hi[m] \in W /\ n \in W /\ lo[n] \in W /\ hi[n] \in W
        /\ lo2[m2] = f(lo[m]) /\ hi2[m2] = f(hi[m]) /\ lo2[n2] = f(lo[n]) /\ hi2[n2] = f(hi[n])
    BY <1>5, <2>1, <2>2
  <2>4. m < n
    BY <1>4, <2>1, <2>2, <2>3
  <2>5. \/ hi[m] <= n /\ lo[n] <= lo[m]
        \/ m <= lo[n] /\ hi[n] <= hi[m]
        \/ hi[m] <= lo[n]
    BY <2>4, NodesNested
  <2> QED  BY <1>4, <2>1, <2>2, <2>3, <2>5
<1>11. ASSUME NEW s \in Live(u), NEW s2, s2 = <<f(s[1]), s[2]>>
       PROVE  /\ s \in Places /\ s = <<s[1], s[2]>> /\ s[2] \in Sides
              /\ s[1] \in u \cup {Tree} /\ (s # pp => lk[s] # p)
              /\ Low(lo2, s2) = f(Low(lo, s)) /\ High(hi2, s2) = f(High(hi, s))
              /\ Low(lo, s) \in W /\ High(hi, s) \in W
              /\ lk[s] # NULL => lk[s] \in u /\ lo[lk[s]] = Low(lo, s) /\ hi[lk[s]] = High(hi, s)
              /\ lk[s] = NULL => \A z \in u : ~(Low(lo, s) < z /\ z < High(hi, s))
  <2>1. s \in Places /\ s[1] \in u \cup {Tree} /\ s = <<s[1], s[2]>> /\ s[2] \in Sides
    BY PlaceFacts DEF Live, Root, Sides
  <2>2. s # pp => lk[s] # p
    BY <1>1, HangsOnce
  <2>3. /\ lk[s] # NULL => lk[s] \in u /\ lo[lk[s]] = Low(lo, s) /\ hi[lk[s]] = High(hi, s)
        /\ lk[s] = NULL => \A z \in u : ~(Low(lo, s) < z /\ z < High(hi, s))
    BY DEF Shape, Hanging
  <2>4. /\ Low(lo2, s2) = f(Low(lo, s)) /\ High(hi2, s2) = f(High(hi, s))
        /\ Low(lo, s) \in W /\ High(hi, s) \in W
    <3>1. /\ s[1] \in W /\ lo[s[1]] \in W /\ hi[s[1]] \in W
          /\ lo2[f(s[1])] = f(lo[s[1]]) /\ hi2[f(s[1])] = f(hi[s[1]])
      BY <1>5, <2>1
    <3>2. s2[1] = f(s[1]) /\ s2[2] = s[2]
      BY <1>11
    <3> QED  BY <3>1, <3>2 DEF Low, High
  <2> QED  BY <2>1, <2>2, <2>3, <2>4
<1>12. ASSUME NEW s \in Live(u2)
       PROVE  Hanging(lk2, u2, lo2, hi2, s)
  <2>1. PICK x \in u2 \cup {Tree}, d \in Sides : s = <<x, d>>
    BY DEF Live, Root, Tree, Sides
  <2>2. PICK y \in u \cup {Tree} : x = f(y)
    BY <1>6
  <2> DEFINE r == <<y, d>>
  <2>3. r \in Live(u)
    <3>1. CASE y = Tree
      <4>1. x = Tree
        BY <1>8, <2>2, <3>1
      <4>2. s = Root
        BY <1>1, <1>2, <1>3, <2>1, <4>1 DEF Live, Root, Tree
      <4> QED  BY <2>1, <3>1, <4>1, <4>2 DEF Live
    <3>2. CASE y \in u
      BY <3>2 DEF Live
    <3> QED  BY <3>1, <3>2
  <2>4. s = <<f(r[1]), r[2]>>
    BY <2>1, <2>2
  <2>5. /\ r \in Places /\ (r # pp => lk[r] # p)
        /\ Low(lo2, s) = f(Low(lo, r)) /\ High(hi2, s) = f(High(hi, r))
        /\ Low(lo, r) \in W /\ High(hi, r) \in W
        /\ lk[r] # NULL => lk[r] \in u /\ lo[lk[r]] = Low(lo, r) /\ hi[lk[r]] = High(hi, r)
        /\ lk[r] = NULL => \A z \in u : ~(Low(lo, r) < z /\ z < High(hi, r))
    BY <1>11, <2>3, <2>4
  <2>6. pp[1] # p
    BY <1>1, <1>2, PlaceFacts
  <2>7. lk2[s] = IF lk[r] = NULL THEN NULL ELSE f(lk[r])
    <3>1. CASE r = pp
      <4>1. s = pp
        <5>1. y # p
          BY <2>6, <3>1
        <5> QED  BY <2>1, <2>2, <3>1, <5>1 DEF f, Swap
      <4> QED  BY <1>1, <3>1, <4>1 DEF f, Swap
    <3>2. CASE r # pp /\ y = p
      <4>1. s = <<t, d>>
        BY <2>1, <2>2, <3>2 DEF f, Swap
      <4>2. lk2[s] = lk[r]
        BY <1>1, <3>2, <4>1
      <4> QED  BY <2>5, <3>2, <4>2 DEF f, Swap
    <3>3. CASE r # pp /\ y # p
      <4>1. s = r /\ s[1] = y
        BY <2>1, <2>2, <3>3 DEF f, Swap
      <4>2. y # t
        BY <1>1, <1>3
      <4>3. lk2[s] = lk[r]
        BY <1>1, <2>5, <3>3, <4>1, <4>2
      <4> QED  BY <2>5, <3>3, <4>3 DEF f, Swap
    <3> QED  BY <3>1, <3>2, <3>3
  <2> HIDE DEF r
  <2>8. CASE lk[r] = NULL
    <3>1. ASSUME NEW z2 \in u2, Low(lo2, s) < z2, z2 < High(hi2, s)
          PROVE  FALSE
      <4>1. PICK z \in u \cup {Tree} : z2 = f(z)
        BY <1>6
      <4>2. z \in u
        BY <1>1, <1>2, <1>3, <1>8, <4>1
      <4>3. z \in W
        BY <1>5
      <4> QED  BY <1>4, <2>5, <2>8, <3>1, <4>1, <4>2, <4>3
    <3> QED  BY <2>7, <2>8, <3>1 DEF Hanging
  <2>9. CASE lk[r] # NULL
    <3>1. f(lk[r]) \in u2
      BY <1>2, <1>5, <2>5, <2>9
    <3>2. f(lk[r]) # NULL
      BY <1>1, <1>2, <3>1, KeysAssumption DEF NULL
    <3>3. lo2[f(lk[r])] = f(lo[lk[r]]) /\ hi2[f(lk[r])] = f(hi[lk[r]])
      BY <1>5, <2>5, <2>9
    <3> QED  BY <2>5, <2>7, <2>9, <3>1, <3>2, <3>3 DEF Hanging
  <2> QED  BY <2>8, <2>9
<1>13. Shape(lk2, u2, lo2, hi2)
  BY <1>1, <1>2, <1>9, <1>10, <1>12 DEF Shape
<1>14. ASSUME NEW s \in Live(u), ~Inside(lo, hi, pp, s[1])
       PROVE  /\ s \in Live(u2) /\ Low(lo2, s) = Low(lo, s) /\ High(hi2, s) = High(hi, s)
              /\ s # pp => lk2[s] = lk[s]
  <2>1. s[1] # p
    BY <1>1, <1>14, PlaceFacts
  <2>2. s \in Live(u2)
    BY <2>1 DEF Live
  <2>3. s[1] \in u \cup {Tree} /\ s \in Places /\ s[1] # t /\ s = <<s[1], s[2]>>
    BY <1>1, <1>3, <1>11
  <2>4. s = <<f(s[1]), s[2]>>
    BY <2>1, <2>3 DEF f, Swap
  <2>5. Low(lo2, s) = f(Low(lo, s)) /\ High(hi2, s) = f(High(hi, s))
    BY <1>11, <2>4
  <2>6. s[1] \in Int /\ ~(lo[p] < s[1] /\ s[1] < hi[p]) /\ p \in Int
    <3>1. s[1] \in Int
      BY <2>3, NodeFacts
    <3> QED  BY <1>2, <1>14, <3>1 DEF Inside
  <2>7. /\ lo[s[1]] \in Int /\ hi[s[1]] \in Int /\ lo[s[1]] < s[1] /\ s[1] < hi[s[1]]
        /\ lo[p] \in Int /\ hi[p] \in Int /\ lo[p] < p /\ p < hi[p]
    BY <1>2, <2>3, NodeFacts
  <2>8. /\ s[1] < p => \/ hi[s[1]] <= p /\ lo[p] <= lo[s[1]]
                       \/ s[1] <= lo[p] /\ hi[p] <= hi[s[1]]
                       \/ hi[s[1]] <= lo[p]
        /\ p < s[1] => \/ hi[p] <= s[1] /\ lo[s[1]] <= lo[p]
                       \/ p <= lo[s[1]] /\ hi[s[1]] <= hi[p]
                       \/ hi[p] <= lo[s[1]]
    BY <1>2, <2>3, NodesNested
  <2>9. lo[s[1]] # p /\ hi[s[1]] # p
    BY <2>1, <2>6, <2>7, <2>8
  <2>10. Low(lo, s) # p /\ High(hi, s) # p
    BY <2>1, <2>9 DEF Low, High
  <2> QED  BY <1>1, <2>1, <2>2, <2>3, <2>5, <2>10 DEF f, Swap
<1>15. Outside(lk, u, lo, hi, lk2, u2, lo2, hi2, pp)
  BY <1>14 DEF Outside
<1>16. \A n \in Keys \ (u \cup u2), d \in Sides : lk2[<<n, d>>] = lk[<<n, d>>]
  <2> SUFFICES ASSUME NEW n \in Keys \ (u \cup u2), NEW d \in Sides
               PROVE  lk2[<<n, d>>] = lk[<<n, d>>]
    OBVIOUS
  <2>1. n \notin u /\ n # p /\ n # t /\ n # Tree /\ <<n, d>> \in Places
    BY <1>2, <1>3 DEF Places, Sides
  <2>2. <<n, d>> # pp /\ <<n, d>>[1] # p /\ <<n, d>>[1] # t
    BY <1>2, <2>1
  <2> QED  BY <1>1, <2>1, <2>2
<1> HIDE DEF u2
<1>17. Relinked(lk, u, lo, hi, lk2, u2, lo2, hi2, pp)
  BY ONLY <1>13, <1>15, <1>16 DEF Relinked
<1> QED  BY <1>17 DEF u2, lo2, hi2

-----------------------------------------------------------------------------
\* The heights, while nothing was changed or nothing hangs above the change.
LEMMA EvenAnywhere ==
  ASSUME NEW lk, NEW flg, NEW u, NEW lo, NEW hi, NEW V, Shape(lk, u, lo, hi),
         NEW hole, NEW delta, Even(lk, flg, u, V, hole, delta), delta = 0 \/ hole = Root,
         NEW hole2
  PROVE  Even(lk, flg, u, V, hole2, 0)
<1>1. V \in [Keys \cup {NULL} -> Nat] /\ u \subseteq Keys /\ Root[1] \notin u
  BY KeysAssumption DEF Even, Shape, Root
<1>2. ASSUME NEW n \in u, NEW d \in Sides
      PROVE  Told(lk, V, hole2, 0, <<n, d>>) = Told(lk, V, hole, delta, <<n, d>>)
  <2>1. <<n, d>> # Root
    BY <1>1
  <2>2. lk[<<n, d>>] \in u \cup {NULL}
    BY DEF Shape, Hanging, Live
  <2>3. V[lk[<<n, d>>]] \in Nat
    BY <1>1, <2>2
  <2> QED  BY <2>1, <2>3 DEF Told
<1>3. ASSUME NEW n \in u
      PROVE  EvenAt(lk, flg, V, hole2, 0, n)
  <2>1. EvenAt(lk, flg, V, hole, delta, n)
    BY DEF Even
  <2>2. \A d \in Sides : Told(lk, V, hole2, 0, <<n, d>>) = Told(lk, V, hole, delta, <<n, d>>)
    BY <1>2
  <2> QED  BY <2>1, <2>2, EvenElsewhere
<1> QED  BY <1>3 DEF Even

\* The heights after a leaf was hung in: its place is one higher than was told.
LEMMA AttachEven ==
  ASSUME NEW lk, NEW flg, NEW u, NEW lo, NEW hi, NEW V, Shape(lk, u, lo, hi),
         NEW pp \in Live(u), lk[pp] = NULL, NEW e \in Keys \ u, flg[e] = 0,
         \A d \in Sides : lk[<<e, d>>] = NULL,
         Even(lk, flg, u, V, Root, 0)
  PROVE  Even([lk EXCEPT ![pp] = e], flg, u \cup {e}, [V EXCEPT ![e] = 1], pp, 1)
<1> DEFINE lk2 == [lk EXCEPT ![pp] = e]
           V2  == [V EXCEPT ![e] = 1]
<1>1. /\ lk \in [Places -> Keys \cup {NULL}] /\ u \subseteq Keys /\ pp \in Places /\ e # NULL
      /\ e # Tree /\ NULL \notin Keys
  <2>1. pp \in Places /\ u \subseteq Keys
    BY PlaceFacts
  <2>2. lk \in [Places -> Keys \cup {NULL}]
    BY DEF Shape
  <2> QED  BY <2>1, <2>2, KeysAssumption DEF NULL, Tree
<1>2. V \in [Keys \cup {NULL} -> Nat] /\ V[NULL] = 0 /\ flg \in [Keys -> 0 .. 2]
  BY DEF Even
<1>3. /\ lk2[pp] = e /\ \A s \in Places \ {pp} : lk2[s] = lk[s]
      /\ V2 \in [Keys \cup {NULL} -> Nat] /\ V2[e] = 1 /\ V2[NULL] = 0
      /\ \A n \in u \cup {NULL} : V2[n] = V[n]
  BY <1>1, <1>2
<1> HIDE DEF lk2, V2
<1>4. ASSUME NEW n \in u, NEW d \in Sides
      PROVE  Told(lk2, V2, pp, 1, <<n, d>>) = Told(lk, V, Root, 0, <<n, d>>)
  <2>1. <<n, d>> \in Places /\ <<n, d>> # Root /\ lk[<<n, d>>] \in u \cup {NULL}
    BY <1>1, KeysAssumption DEF Places, Sides, Root, Shape, Hanging, Live
  <2>2. CASE <<n, d>> = pp
    BY <1>2, <1>3, <2>1, <2>2 DEF Told
  <2>3. CASE <<n, d>> # pp
    BY <1>3, <2>1, <2>3 DEF Told
  <2> QED  BY <2>2, <2>3
<1>5. ASSUME NEW n \in u
      PROVE  V2[n] >= 1 /\ EvenAt(lk2, flg, V2, pp, 1, n)
  <2>1. V[n] >= 1 /\ EvenAt(lk, flg, V, Root, 0, n)
    BY DEF Even
  <2>2. V2[n] = V[n] /\ \A d \in Sides : Told(lk2, V2, pp, 1, <<n, d>>) = Told(lk, V, Root, 0, <<n, d>>)
    BY <1>3, <1>4
  <2> QED  BY <2>1, <2>2, EvenElsewhere
<1>6. V2[e] >= 1 /\ EvenAt(lk2, flg, V2, pp, 1, e)
  <2>1. ASSUME NEW d \in Sides
        PROVE  Told(lk2, V2, pp, 1, <<e, d>>) = 0
    <3>1. <<e, d>> # pp /\ <<e, d>> \in Places
      BY <1>1, PlaceFacts DEF Places, Sides
    <3> QED  BY <1>3, <3>1 DEF Told
  <2>2. Told(lk2, V2, pp, 1, <<e, L>>) = 0 /\ Told(lk2, V2, pp, 1, <<e, R>>) = 0
    BY <2>1 DEF Sides
  <2> QED  BY <1>3, <2>2 DEF EvenAt, Level
<1>7. Even(lk2, flg, u \cup {e}, V2, pp, 1)
  BY <1>2, <1>3, <1>5, <1>6 DEF Even
<1> QED  BY <1>7 DEF lk2, V2

\* The heights after a node was taken out: its place is one lower than was told.
LEMMA SpliceEven ==
  ASSUME NEW lk, NEW flg, NEW u, NEW lo, NEW hi, NEW V, Shape(lk, u, lo, hi),
         NEW pp \in Live(u), NEW p, NEW side \in Sides, NEW lk2, Spliced(lk, u, lk2, pp, p, side),
         Even(lk, flg, u, V, Root, 0),
         NEW flg2 \in [Keys -> 0 .. 2], \A n \in u \ {p} : flg2[n] = flg[n]
  PROVE  Even(lk2, flg2, u \ {p}, V, pp, -1)
<1>1. /\ p = lk[pp] /\ p # NULL /\ lk[<<p, side>>] = NULL /\ lk2[pp] = lk[<<p, 1 - side>>]
      /\ \A s \in Places : s # pp /\ s[1] # p => lk2[s] = lk[s]
  BY DEF Spliced
<1>2. p \in u /\ u \subseteq Keys /\ Root[1] \notin u
  BY <1>1, PlaceFacts DEF Root, Tree
<1>3. V \in [Keys \cup {NULL} -> Nat] /\ V[NULL] = 0
  BY DEF Even
<1>4. ASSUME NEW n \in u, NEW d \in Sides
      PROVE  <<n, d>> \in Places /\ Told(lk, V, Root, 0, <<n, d>>) = V[lk[<<n, d>>]] /\ V[lk[<<n, d>>]] \in Nat
  <2>1. <<n, d>> \in Places /\ <<n, d>> # Root /\ lk[<<n, d>>] \in u \cup {NULL}
    BY <1>2 DEF Places, Sides, Shape, Hanging, Live
  <2> QED  BY <1>2, <1>3, <2>1 DEF Told
<1>5. V[lk2[pp]] + 1 = V[p]
  <2>1. 1 - side \in Sides
    BY SideFacts
  <2> DEFINE l == V[lk[<<p, side>>]]
             r == V[lk[<<p, 1 - side>>]]
  <2>2. l = 0 /\ r \in Nat /\ l = Told(lk, V, Root, 0, <<p, side>>) /\ r = Told(lk, V, Root, 0, <<p, 1 - side>>)
    BY <1>1, <1>2, <1>3, <1>4, <2>1
  <2> HIDE DEF l, r
  <2>3. Level(flg[p], side, l, r, V[p])
    BY ONLY <1>2, <2>2, Even(lk, flg, u, V, Root, 0), side \in Sides, HeightsAt
  <2>4. V[p] = r + 1
    BY <2>2, <2>3 DEF Level
  <2> QED  BY <1>1, <2>4 DEF r
<1>6. ASSUME NEW n \in u \ {p}
      PROVE  V[n] >= 1 /\ EvenAt(lk2, flg2, V, pp, -1, n)
  <2>1. V[n] >= 1 /\ EvenAt(lk, flg, V, Root, 0, n) /\ flg2[n] = flg[n] /\ V[p] \in Nat
    BY <1>2, <1>3 DEF Even
  <2>2. ASSUME NEW d \in Sides
        PROVE  Told(lk2, V, pp, -1, <<n, d>>) = Told(lk, V, Root, 0, <<n, d>>)
    <3>1. CASE <<n, d>> = pp
      <4>1. Told(lk2, V, pp, -1, <<n, d>>) = V[lk2[pp]] - (-1)
        BY <3>1 DEF Told
      <4>2. V[lk2[pp]] \in Nat
        BY <1>1, <1>2, <1>4, SideFacts
      <4> QED  BY <1>1, <1>4, <1>5, <3>1, <4>1, <4>2
    <3>2. CASE <<n, d>> # pp
      <4>1. lk2[<<n, d>>] = lk[<<n, d>>]
        BY <1>1, <1>4, <3>2
      <4> QED  BY <1>4, <3>2, <4>1 DEF Told
    <3> QED  BY <3>1, <3>2
  <2> QED  BY <2>1, <2>2, EvenElsewhere
<1> QED  BY <1>3, <1>6 DEF Even

\* The heights after a node took the place of another, with its flag.
LEMMA SwapEven ==
  ASSUME NEW lk, NEW flg, NEW u, NEW lo, NEW hi, NEW V, Shape(lk, u, lo, hi),
         NEW pp \in Live(u), NEW p, NEW t, NEW lk2, Swapped(lk, u, lk2, pp, p, t),
         NEW delta \in Int, Even(lk, flg, u, V, <<p, L>>, delta),
         NEW flg2 \in [Keys -> 0 .. 2], flg2[t] = flg[p], \A n \in u \ {p} : flg2[n] = flg[n]
  PROVE  Even(lk2, flg2, (u \ {p}) \cup {t}, [V EXCEPT ![t] = V[p]], <<t, L>>, delta)
<1> DEFINE V2 == [V EXCEPT ![t] = V[p]]
<1>1. /\ p = lk[pp] /\ p # NULL /\ t \in Keys /\ t \notin u /\ lk2[pp] = t
      /\ \A d \in Sides : lk2[<<t, d>>] = lk[<<p, d>>]
      /\ \A s \in Places : s # pp /\ s[1] # p /\ s[1] # t => lk2[s] = lk[s]
  BY DEF Swapped
<1>2. p \in u /\ u \subseteq Keys /\ NULL \notin Keys /\ pp[1] # p /\ pp[1] # t
  <2>1. t # Tree
    BY <1>1, KeysAssumption DEF Tree
  <2> QED  BY <1>1, <2>1, PlaceFacts, KeysAssumption DEF NULL
<1>3. V \in [Keys \cup {NULL} -> Nat] /\ V[NULL] = 0
  BY DEF Even
<1>4. V2 \in [Keys \cup {NULL} -> Nat] /\ V2[NULL] = 0 /\ V2[t] = V[p] /\ \A n \in u \cup {NULL} : V2[n] = V[n]
  BY <1>1, <1>2, <1>3
<1> HIDE DEF V2
<1>5. ASSUME NEW n \in u, NEW d \in Sides
      PROVE  <<n, d>> \in Places /\ lk[<<n, d>>] \in u \cup {NULL} /\ (<<n, d>> # pp => lk[<<n, d>>] # p)
  <2>1. <<n, d>> \in Live(u)
    BY DEF Live
  <2>2. <<n, d>> \in Places /\ lk[<<n, d>>] \in u \cup {NULL}
    BY <2>1, PlaceFacts
  <2> QED  BY <1>1, <2>1, <2>2, HangsOnce
<1>6. ASSUME NEW n \in u \ {p}
      PROVE  V2[n] >= 1 /\ EvenAt(lk2, flg2, V2, <<t, L>>, delta, n)
  <2>1. V[n] >= 1 /\ EvenAt(lk, flg, V, <<p, L>>, delta, n) /\ flg2[n] = flg[n] /\ V2[n] = V[n]
    BY <1>4 DEF Even
  <2>2. ASSUME NEW d \in Sides
        PROVE  Told(lk2, V2, <<t, L>>, delta, <<n, d>>) = Told(lk, V, <<p, L>>, delta, <<n, d>>)
    <3>1. <<n, d>> # <<t, L>> /\ <<n, d>> # <<p, L>> /\ n # t
      BY <1>1, <1>6
    <3>2. CASE <<n, d>> = pp
      BY <1>1, <1>4, <3>1, <3>2 DEF Told
    <3>3. CASE <<n, d>> # pp
      <4>1. lk2[<<n, d>>] = lk[<<n, d>>] /\ lk[<<n, d>>] \in u \cup {NULL}
        BY <1>1, <1>5, <1>6, <3>1, <3>3
      <4> QED  BY <1>4, <3>1, <4>1 DEF Told
    <3> QED  BY <3>2, <3>3
  <2> QED  BY <2>1, <2>2, EvenElsewhere
<1>7. V2[t] >= 1 /\ EvenAt(lk2, flg2, V2, <<t, L>>, delta, t)
  <2>1. V[p] >= 1 /\ EvenAt(lk, flg, V, <<p, L>>, delta, p)
    BY <1>2 DEF Even
  <2>2. ASSUME NEW d \in Sides
        PROVE  Told(lk2, V2, <<t, L>>, delta, <<t, d>>) = Told(lk, V, <<p, L>>, delta, <<p, d>>)
    <3>1. lk2[<<t, d>>] = lk[<<p, d>>] /\ lk[<<p, d>>] \in u \cup {NULL}
      BY <1>1, <1>2, <1>5
    <3>2. V2[lk2[<<t, d>>]] = V[lk[<<p, d>>]]
      BY <1>4, <3>1
    <3> QED  BY <3>2 DEF Told
  <2>3. Told(lk2, V2, <<t, L>>, delta, <<t, L>>) = Told(lk, V, <<p, L>>, delta, <<p, L>>)
        /\ Told(lk2, V2, <<t, L>>, delta, <<t, R>>) = Told(lk, V, <<p, L>>, delta, <<p, R>>)
    BY <2>2 DEF Sides
  <2> QED  BY <1>4, <2>1, <2>3 DEF EvenAt
<1>8. Even(lk2, flg2, (u \ {p}) \cup {t}, V2, <<t, L>>, delta)
  BY <1>4, <1>6, <1>7 DEF Even
<1> QED  BY <1>8 DEF V2

-----------------------------------------------------------------------------
\* What a rebalancing at pp returns: its result r, of which the level above is
\* told that the subtree at pp is higher by delta.
Rebalanced(lk, flg, u, lo, hi, r, pp, delta) ==
  /\ r.flg \in [Keys -> 0 .. 2] /\ \A n \in Keys \ u : r.flg[n] = flg[n]
  /\ \E lo2, hi2, V2 : /\ Relinked(lk, u, lo, hi, r.link, u, lo2, hi2, pp)
                       /\ Even(r.link, r.flg, u, V2, pp, delta)

\* Nothing is relinked.
LEMMA RelinkedNot ==
  ASSUME NEW lk, NEW u, NEW lo, NEW hi, Shape(lk, u, lo, hi), NEW pp
  PROVE  Relinked(lk, u, lo, hi, lk, u, lo, hi, pp)
BY DEF Relinked, Outside

\* A rebalancing that changes one flag.
FlagTurn(lk, flg, a, fa, k) == [link |-> lk, flg |-> [flg EXCEPT ![a] = fa], ret |-> k]

\* A rebalancing that changes the flag of the node at pp only.
LEMMA FlagRebalanced ==
  ASSUME NEW lk, NEW flg, NEW u, NEW lo, NEW hi, NEW V, Shape(lk, u, lo, hi),
         NEW pp \in Live(u), NEW dir \in Sides, NEW a, a = lk[pp], a # NULL,
         NEW hole, NEW delta, hole = <<a, dir>>, Even(lk, flg, u, V, hole, delta),
         NEW fa \in 0 .. 2, NEW va \in Nat \ {0}, NEW delta2 \in Int,
         Level(fa, dir, V[lk[<<a, dir>>]], V[lk[<<a, 1 - dir>>]], va),
         va - delta2 = V[a], NEW k
  PROVE  Rebalanced(lk, flg, u, lo, hi, FlagTurn(lk, flg, a, fa, k), pp, delta2)
<1>1. Even(lk, [flg EXCEPT ![a] = fa], u, [V EXCEPT ![a] = va], pp, delta2)
  BY FlagEven
<1>2. Relinked(lk, u, lo, hi, lk, u, lo, hi, pp)
  BY RelinkedNot
<1>3. a \in u /\ flg \in [Keys -> 0 .. 2]
  BY PlaceFacts DEF Even
<1> QED  BY <1>1, <1>2, <1>3 DEF Rebalanced, FlagTurn

\* A rebalancing by a single rotation, and the flags and heights that fit it.
SingleTurn(lk, flg, pp, a, b, dir, fa, fb, k) ==
  [link |-> Single(lk, pp, a, b, dir), flg |-> [flg EXCEPT ![a] = fa, ![b] = fb], ret |-> k]

\* What a single rotation needs: flags and heights that fit its two nodes.
TurnFits(lk, flg, u, lo, hi, V, pp, dir, a, b, hole, delta, fa, fb, va, vb, delta2) ==
  /\ Shape(lk, u, lo, hi) /\ pp \in Live(u) /\ dir \in Sides
  /\ a = lk[pp] /\ a # NULL /\ b = lk[<<a, dir>>] /\ b # NULL
  /\ hole[1] = a /\ Even(lk, flg, u, V, hole, delta)
  /\ fa \in 0 .. 2 /\ fb \in 0 .. 2 /\ va \in Nat \ {0} /\ vb \in Nat \ {0} /\ delta2 \in Int
  /\ Level(fa, dir, V[lk[<<b, 1 - dir>>]], V[lk[<<a, 1 - dir>>]], va)
  /\ Level(fb, dir, V[lk[<<b, dir>>]], va, vb)
  /\ vb - delta2 = V[a]

\* A rebalancing that is a single rotation.
LEMMA SingleRebalanced ==
  ASSUME NEW lk, NEW flg, NEW u, NEW lo, NEW hi, NEW V, NEW pp, NEW dir, NEW a, NEW b, NEW hole, NEW delta,
         NEW fa, NEW fb, NEW va, NEW vb, NEW delta2,
         TurnFits(lk, flg, u, lo, hi, V, pp, dir, a, b, hole, delta, fa, fb, va, vb, delta2), NEW k
  PROVE  Rebalanced(lk, flg, u, lo, hi, SingleTurn(lk, flg, pp, a, b, dir, fa, fb, k), pp, delta2)
<1>0. /\ Shape(lk, u, lo, hi) /\ pp \in Live(u) /\ dir \in Sides
      /\ a = lk[pp] /\ a # NULL /\ b = lk[<<a, dir>>] /\ b # NULL
      /\ hole[1] = a /\ Even(lk, flg, u, V, hole, delta)
      /\ fa \in 0 .. 2 /\ fb \in 0 .. 2 /\ va \in Nat \ {0} /\ vb \in Nat \ {0} /\ delta2 \in Int
      /\ Level(fa, dir, V[lk[<<b, 1 - dir>>]], V[lk[<<a, 1 - dir>>]], va)
      /\ Level(fb, dir, V[lk[<<b, dir>>]], va, vb)
      /\ vb - delta2 = V[a]
  BY DEF TurnFits
<1>1. Even(Single(lk, pp, a, b, dir), [flg EXCEPT ![a] = fa, ![b] = fb], u,
           [V EXCEPT ![a] = va, ![b] = vb], pp, delta2)
  BY ONLY <1>0, SingleEven
<1>2. Relinked(lk, u, lo, hi, Single(lk, pp, a, b, dir), u,
               SingleLow(lo, a, b, dir), SingleHigh(hi, a, b, dir), pp)
  BY <1>0, SingleRelinked
<1>3. a \in u /\ b \in u /\ flg \in [Keys -> 0 .. 2]
  BY <1>0, TurnApart DEF Even
<1> QED  BY <1>0, <1>1, <1>2, <1>3 DEF Rebalanced, SingleTurn

\* The double rotation, whatever flag c had: a and its other subtree z are
\* two levels apart, b leans to the inside.
LEMMA DoubleRebalanced ==
  ASSUME NEW lk, NEW flg, NEW u, NEW lo, NEW hi, NEW V, Shape(lk, u, lo, hi),
         NEW pp \in Live(u), NEW dir \in Sides,
         NEW a, a = lk[pp], a # NULL, NEW b, b = lk[<<a, dir>>], b # NULL,
         NEW c, c = lk[<<b, 1 - dir>>],
         NEW hole, NEW delta, hole[1] = a, Even(lk, flg, u, V, hole, delta),
         flg[b] = Pt(1 - dir), V[lk[<<a, 1 - dir>>]] = V[b] - 2,
         NEW delta2 \in Int, V[b] - delta2 = V[a], NEW k
  PROVE  Rebalanced(lk, flg, u, lo, hi, [link |-> Double(lk, pp, a, b, c, dir),
                                    flg |-> DoubleFlags(flg, a, b, c, dir), ret |-> k], pp, delta2)
<1> DEFINE w  == V[lk[<<c, dir>>]]
           x  == V[lk[<<c, 1 - dir>>]]
           y  == V[lk[<<b, dir>>]]
           z  == V[lk[<<a, 1 - dir>>]]
           f2 == DoubleFlags(flg, a, b, c, dir)
<1>1. /\ 1 - dir \in Sides /\ dir # 1 - dir /\ Pt(dir) \in 1 .. 2 /\ Pt(1 - dir) \in 1 .. 2 /\ Pt(dir) # Pt(1 - dir)
      /\ \A f \in 0 .. 2 : f = 0 \/ f = Pt(dir) \/ f = Pt(1 - dir)
  BY SideFacts
<1>2. /\ V \in [Keys \cup {NULL} -> Nat] /\ V[NULL] = 0 /\ flg \in [Keys -> 0 .. 2] /\ u \subseteq Keys
      /\ \A n \in u : V[n] >= 1
  BY DEF Even, Shape
<1>3. /\ a \in u /\ b \in u /\ a # b
  BY TurnApart
<1>4. ASSUME NEW n \in u, NEW d \in Sides
      PROVE  V[lk[<<n, d>>]] \in Nat /\ (n # a => Told(lk, V, hole, delta, <<n, d>>) = V[lk[<<n, d>>]])
  <2>1. lk[<<n, d>>] \in u \cup {NULL}
    BY DEF Shape, Hanging, Live
  <2>2. <<n, d>>[1] = n
    OBVIOUS
  <2> QED  BY <1>2, <2>1, <2>2 DEF Told
<1>5. y = V[c] - 1 /\ V[b] = V[c] + 1 /\ V[c] \in Nat /\ y \in Nat
  <2>1. y = Told(lk, V, hole, delta, <<b, dir>>) /\ V[c] = Told(lk, V, hole, delta, <<b, 1 - dir>>)
        /\ y \in Nat /\ V[c] \in Nat
    BY <1>1, <1>3, <1>4
  <2> HIDE DEF y
  <2>2. Level(flg[b], dir, y, V[c], V[b])
    BY ONLY <1>3, <2>1, Even(lk, flg, u, V, hole, delta), dir \in Sides, HeightsAt
  <2> QED  BY <1>1, <2>1, <2>2 DEF Level
<1>6. c # NULL
  BY <1>2, <1>5
<1>7. /\ c \in u /\ a # c /\ b # c
  BY <1>6, DoubleApart
<1>8. w \in Nat /\ x \in Nat /\ Level(flg[c], dir, w, x, V[c])
  <2>1. w = Told(lk, V, hole, delta, <<c, dir>>) /\ x = Told(lk, V, hole, delta, <<c, 1 - dir>>)
        /\ w \in Nat /\ x \in Nat
    BY <1>1, <1>4, <1>7
  <2> HIDE DEF w, x
  <2> QED  BY ONLY <1>7, <2>1, Even(lk, flg, u, V, hole, delta), dir \in Sides, HeightsAt
<1>9. z = V[c] - 1 /\ z \in Nat
  BY <1>1, <1>3, <1>4, <1>5
<1>10. /\ f2 \in [Keys -> 0 .. 2] /\ \A n \in Keys \ {a, b, c} : f2[n] = flg[n]
       /\ f2[b] = (IF flg[c] # Pt(1 - dir) THEN 0 ELSE Pt(dir))
       /\ f2[a] = (IF flg[c] # Pt(dir) THEN 0 ELSE Pt(1 - dir))
       /\ f2[c] = 0
  BY <1>1, <1>2, <1>3, <1>7 DEF DoubleFlags
<1>11. flg[c] = 0 \/ flg[c] = Pt(dir) \/ flg[c] = Pt(1 - dir)
  BY <1>1, <1>2, <1>7
<1> HIDE DEF w, x, y, z, f2
<1>12. Level(f2[a], dir, x, z, V[c])
  BY <1>1, <1>5, <1>8, <1>9, <1>10, <1>11 DEF Level
<1>13. Level(f2[b], dir, y, w, V[c])
  BY <1>1, <1>5, <1>8, <1>9, <1>10, <1>11 DEF Level
<1>14. Level(f2[c], dir, V[c], V[c], V[b])
  BY <1>5, <1>10 DEF Level
<1>15. V[c] \in Nat \ {0} /\ V[b] \in Nat \ {0}
  BY <1>2, <1>3, <1>5, <1>7
<1>16. Even(Double(lk, pp, a, b, c, dir), f2, u, [V EXCEPT ![a] = V[c], ![b] = V[c], ![c] = V[b]], pp, delta2)
  <2>1. \A n \in u \ {a, b, c} : f2[n] = flg[n]
    BY <1>2, <1>10
  <2>2. /\ Level(f2[a], dir, V[lk[<<c, 1 - dir>>]], V[lk[<<a, 1 - dir>>]], V[c])
        /\ Level(f2[b], dir, V[lk[<<b, dir>>]], V[lk[<<c, dir>>]], V[c])
    BY <1>12, <1>13 DEF w, x, y, z
  <2>3. f2 \in [Keys -> 0 .. 2]
    BY <1>10
  <2>4. PICK vc \in Nat \ {0} : vc = V[b]
    BY <1>15
  <2>5. PICK va \in Nat \ {0} : va = V[c]
    BY <1>15
  <2>6. Level(f2[c], dir, va, va, vc) /\ vc - delta2 = V[a]
    BY <1>14, <2>4, <2>5
  <2>7. /\ Level(f2[a], dir, V[lk[<<c, 1 - dir>>]], V[lk[<<a, 1 - dir>>]], va)
        /\ Level(f2[b], dir, V[lk[<<b, dir>>]], V[lk[<<c, dir>>]], va)
    BY <2>2, <2>5
  <2>8. Even(Double(lk, pp, a, b, c, dir), f2, u, [V EXCEPT ![a] = va, ![b] = va, ![c] = vc], pp, delta2)
    BY ONLY <1>6, <2>1, <2>3, <2>6, <2>7, va \in Nat \ {0}, vc \in Nat \ {0}, delta2 \in Int,
            Shape(lk, u, lo, hi), pp \in Live(u), dir \in Sides, a = lk[pp], a # NULL, b = lk[<<a, dir>>], b # NULL,
            c = lk[<<b, 1 - dir>>], hole[1] = a, Even(lk, flg, u, V, hole, delta), DoubleEven
  <2> QED  BY <2>4, <2>5, <2>8
<1>17. PICK lo2, hi2 : Relinked(lk, u, lo, hi, Double(lk, pp, a, b, c, dir), u, lo2, hi2, pp)
  BY <1>6, DoubleRelinked
<1> QED  BY <1>3, <1>7, <1>10, <1>16, <1>17 DEF Rebalanced, f2

\* What insRebalance needs: the subtree on side dir has grown.
InsFits(lk, flg, u, lo, hi, V, pp, dir, a, b, r) ==
  /\ Shape(lk, u, lo, hi) /\ pp \in Live(u) /\ dir \in Sides
  /\ a = lk[pp] /\ a # NULL /\ b = lk[<<a, dir>>] /\ b # NULL
  /\ Even(lk, flg, u, V, <<a, dir>>, 1) /\ (flg[b] # 0 \/ V[b] = 1)
  /\ r = insRebalance(lk, flg, pp, dir)

\* insRebalance: the subtree at pp is higher by what it returns, and if it has
\* grown its root leans to one side.
LEMMA InsRebalanced ==
  ASSUME NEW lk, NEW flg, NEW u, NEW lo, NEW hi, NEW V, NEW pp, NEW dir, NEW a, NEW b, NEW r,
         InsFits(lk, flg, u, lo, hi, V, pp, dir, a, b, r)
  PROVE  /\ r.ret \in {0, 1} /\ Rebalanced(lk, flg, u, lo, hi, r, pp, r.ret)
         /\ r.ret = 1 => r.link = lk /\ r.flg[a] # 0
<1> SUFFICES ASSUME Shape(lk, u, lo, hi), pp \in Live(u), dir \in Sides,
                    a = lk[pp], a # NULL, b = lk[<<a, dir>>], b # NULL,
                    NEW hole, hole = <<a, dir>>, Even(lk, flg, u, V, hole, 1),
                    flg[b] # 0 \/ V[b] = 1, r = insRebalance(lk, flg, pp, dir)
             PROVE  /\ r.ret \in {0, 1} /\ Rebalanced(lk, flg, u, lo, hi, r, pp, r.ret)
                    /\ r.ret = 1 => r.link = lk /\ r.flg[a] # 0
  BY DEF InsFits
<1> DEFINE ndr == 1 - dir
           x == V[lk[<<b, ndr>>]]
           y == V[lk[<<b, dir>>]]
           z == V[lk[<<a, ndr>>]]
<1>1. /\ ndr \in Sides /\ dir # ndr /\ 1 - ndr = dir
      /\ Pt(dir) \in 1 .. 2 /\ Pt(ndr) \in 1 .. 2 /\ Pt(dir) # Pt(ndr)
      /\ \A f \in 0 .. 2 : f = 0 \/ f = Pt(dir) \/ f = Pt(ndr)
  BY SideFacts
<1>2. /\ V \in [Keys \cup {NULL} -> Nat] /\ V[NULL] = 0 /\ flg \in [Keys -> 0 .. 2] /\ u \subseteq Keys
      /\ \A n \in u : V[n] >= 1
  BY DEF Even, Shape
<1>3. /\ a \in u /\ b \in u /\ a # b
  BY TurnApart
<1>4. ASSUME NEW n \in u, NEW d \in Sides
      PROVE  V[lk[<<n, d>>]] \in Nat
  <2>1. lk[<<n, d>>] \in u \cup {NULL}
    BY DEF Shape, Hanging, Live
  <2> QED  BY <1>2, <2>1
<1>5. x \in Nat /\ y \in Nat /\ z \in Nat /\ V[a] \in Nat /\ V[b] \in Nat /\ V[b] >= 1
  BY <1>1, <1>2, <1>3, <1>4
<1>6. Level(flg[a], dir, V[b] - 1, z, V[a])
  <2>1. V[b] - 1 = Told(lk, V, hole, 1, <<a, dir>>) /\ z = Told(lk, V, hole, 1, <<a, 1 - dir>>)
    BY <1>1 DEF Told
  <2> HIDE DEF z
  <2> QED  BY ONLY <1>3, <2>1, Even(lk, flg, u, V, hole, 1), dir \in Sides, HeightsAt
<1>7. Level(flg[b], dir, y, x, V[b])
  <2>1. y = Told(lk, V, hole, 1, <<b, dir>>) /\ x = Told(lk, V, hole, 1, <<b, 1 - dir>>)
    BY <1>3 DEF Told
  <2> HIDE DEF x, y
  <2> QED  BY ONLY <1>3, <2>1, Even(lk, flg, u, V, hole, 1), dir \in Sides, HeightsAt
<1>8. hole[1] = a /\ flg[a] \in 0 .. 2 /\ flg[b] \in 0 .. 2
  BY <1>2, <1>3
<1> HIDE DEF ndr, x, y, z
<1>9. CASE flg[a] = Pt(ndr)
  <2>1. r = FlagTurn(lk, flg, a, 0, 0)
    BY <1>1, <1>9 DEF insRebalance, ndr, FlagTurn
  <2>2. V[b] = z /\ V[a] = z + 1
    BY <1>1, <1>5, <1>6, <1>9 DEF Level, ndr
  <2>3. PICK va \in Nat \ {0} : va = V[a]
    BY <1>5, <2>2
  <2>4. Level(0, dir, V[lk[<<a, dir>>]], V[lk[<<a, 1 - dir>>]], va) /\ va - 0 = V[a]
    BY <1>5, <2>2, <2>3 DEF Level, z, ndr
  <2>5. Rebalanced(lk, flg, u, lo, hi, FlagTurn(lk, flg, a, 0, 0), pp, 0)
    BY ONLY 0 \in 0 .. 2, 0 \in Int, 1 \in Int, Shape(lk, u, lo, hi), pp \in Live(u), dir \in Sides, a = lk[pp], a # NULL,
            hole = <<a, dir>>, Even(lk, flg, u, V, hole, 1), <2>4, va \in Nat \ {0}, FlagRebalanced
  <2> QED  BY <2>1, <2>5 DEF FlagTurn
<1>10. CASE flg[a] = 0
  <2>1. r = FlagTurn(lk, flg, a, Pt(dir), 1)
    BY <1>1, <1>10 DEF insRebalance, ndr, FlagTurn
  <2>2. V[b] = z + 1 /\ V[a] = z + 1
    BY <1>1, <1>5, <1>6, <1>10 DEF Level, ndr
  <2>3. PICK va \in Nat \ {0} : va = V[b] + 1
    BY <1>5
  <2>4. Level(Pt(dir), dir, V[lk[<<a, dir>>]], V[lk[<<a, 1 - dir>>]], va) /\ va - 1 = V[a]
    BY <1>5, <2>2, <2>3 DEF Level, z, ndr
  <2>5. Pt(dir) \in 0 .. 2
    BY <1>1
  <2>6. Rebalanced(lk, flg, u, lo, hi, FlagTurn(lk, flg, a, Pt(dir), 1), pp, 1)
    BY ONLY 0 \in 0 .. 2, 0 \in Int, 1 \in Int, Shape(lk, u, lo, hi), pp \in Live(u), dir \in Sides, a = lk[pp], a # NULL,
            hole = <<a, dir>>, Even(lk, flg, u, V, hole, 1), <2>4, <2>5, va \in Nat \ {0}, FlagRebalanced
  <2>7. r.ret = 1 /\ r.link = lk /\ r.flg[a] # 0
    BY <1>1, <1>2, <1>3, <2>1 DEF FlagTurn
  <2> QED  BY <2>1, <2>6, <2>7 DEF FlagTurn
<1>11. CASE flg[a] = Pt(dir)
  <2>1. V[b] = z + 2 /\ V[a] = V[b]
    BY <1>1, <1>5, <1>6, <1>11 DEF Level, ndr
  <2>2. CASE flg[b] = Pt(dir)
    <3>1. r = SingleTurn(lk, flg, pp, a, b, dir, 0, 0, 0)
      BY <1>1, <1>11, <2>2 DEF insRebalance, ndr, SingleTurn
    <3>2. y = x + 1 /\ V[b] = y + 1
      BY <1>1, <1>5, <1>7, <2>2 DEF Level, ndr
    <3>3. PICK va \in Nat \ {0} : va = x + 1
      BY <1>5
    <3>4. PICK vb \in Nat \ {0} : vb = V[b]
      BY <1>5
    <3>5. /\ Level(0, dir, V[lk[<<b, 1 - dir>>]], V[lk[<<a, 1 - dir>>]], va)
          /\ Level(0, dir, V[lk[<<b, dir>>]], va, vb) /\ vb - 0 = V[a]
      BY <1>5, <2>1, <3>2, <3>3, <3>4 DEF Level, x, y, z, ndr
    <3>6. TurnFits(lk, flg, u, lo, hi, V, pp, dir, a, b, hole, 1, 0, 0, va, vb, 0)
      BY <1>8, <3>3, <3>4, <3>5 DEF TurnFits
    <3>7. Rebalanced(lk, flg, u, lo, hi, SingleTurn(lk, flg, pp, a, b, dir, 0, 0, 0), pp, 0)
      BY ONLY <3>6, SingleRebalanced
    <3> QED  BY <3>1, <3>7 DEF SingleTurn
  <2>3. CASE flg[b] = Pt(ndr)
    <3>1. PICK c : c = lk[<<b, 1 - dir>>]
      OBVIOUS
    <3>2. r = [link |-> Double(lk, pp, a, b, c, dir), flg |-> DoubleFlags(flg, a, b, c, dir), ret |-> 0]
      BY <1>1, <1>11, <2>3, <3>1 DEF insRebalance, ndr
    <3>3. V[lk[<<a, 1 - dir>>]] = V[b] - 2 /\ V[b] - 0 = V[a] /\ flg[b] = Pt(1 - dir)
      BY <1>5, <2>1, <2>3 DEF z, ndr
    <3>4. Rebalanced(lk, flg, u, lo, hi, [link |-> Double(lk, pp, a, b, c, dir),
                                     flg |-> DoubleFlags(flg, a, b, c, dir), ret |-> 0], pp, 0)
      BY ONLY <1>8, <3>1, <3>3, Shape(lk, u, lo, hi), pp \in Live(u), dir \in Sides,
              a = lk[pp], a # NULL, b = lk[<<a, dir>>], b # NULL, Even(lk, flg, u, V, hole, 1), DoubleRebalanced
    <3> QED  BY <3>2, <3>4
  <2>4. flg[b] # 0
    BY <1>5, <2>1
  <2> QED  BY <1>1, <1>8, <2>2, <2>3, <2>4
<1> QED  BY <1>1, <1>8, <1>9, <1>10, <1>11

\* delRebalance: the subtree at pp is lower by what it returns.
LEMMA DelRebalanced ==
  ASSUME NEW lk, NEW flg, NEW u, NEW lo, NEW hi, NEW V, Shape(lk, u, lo, hi),
         NEW pp \in Live(u), NEW dir \in Sides,
         NEW a, a = lk[pp], a # NULL,
         NEW hole, hole = <<a, dir>>, Even(lk, flg, u, V, hole, -1),
         NEW r, r = delRebalance(lk, flg, pp, dir)
  PROVE  \/ r.ret = 0 /\ Rebalanced(lk, flg, u, lo, hi, r, pp, 0)
         \/ r.ret = 1 /\ Rebalanced(lk, flg, u, lo, hi, r, pp, -1)
<1> DEFINE ndr == 1 - dir
           b == lk[<<a, ndr>>]
           x == V[lk[<<b, dir>>]]
           y == V[lk[<<b, ndr>>]]
           z == V[lk[<<a, dir>>]]
<1>1. /\ ndr \in Sides /\ dir # ndr /\ 1 - ndr = dir
      /\ Pt(dir) \in 1 .. 2 /\ Pt(ndr) \in 1 .. 2 /\ Pt(dir) # Pt(ndr)
      /\ \A f \in 0 .. 2 : f = 0 \/ f = Pt(dir) \/ f = Pt(ndr)
  BY SideFacts
<1>2. /\ V \in [Keys \cup {NULL} -> Nat] /\ V[NULL] = 0 /\ flg \in [Keys -> 0 .. 2] /\ u \subseteq Keys
      /\ \A n \in u : V[n] >= 1
  BY DEF Even, Shape
<1>3. a \in u
  BY PlaceFacts
<1>4. ASSUME NEW n \in u, NEW d \in Sides
      PROVE  V[lk[<<n, d>>]] \in Nat /\ lk[<<n, d>>] \in u \cup {NULL}
  <2>1. lk[<<n, d>>] \in u \cup {NULL}
    BY DEF Shape, Hanging, Live
  <2> QED  BY <1>2, <2>1
<1>5. z \in Nat /\ V[a] \in Nat /\ V[b] \in Nat
  BY <1>1, <1>2, <1>3, <1>4
<1>6. Level(flg[a], dir, z + 1, V[b], V[a])
  <2>1. z + 1 = Told(lk, V, hole, -1, <<a, dir>>) /\ V[b] = Told(lk, V, hole, -1, <<a, 1 - dir>>)
    BY <1>1, <1>5 DEF Told
  <2> HIDE DEF z, b
  <2> QED  BY ONLY <1>3, <2>1, Even(lk, flg, u, V, hole, -1), dir \in Sides, HeightsAt
<1>7. hole[1] = a /\ flg[a] \in 0 .. 2 /\ b = lk[<<a, ndr>>]
  BY <1>2, <1>3
<1> HIDE DEF ndr, b, x, y, z
<1>8. CASE flg[a] = 0
  <2>1. r = FlagTurn(lk, flg, a, Pt(ndr), 0)
    BY <1>1, <1>8 DEF delRebalance, ndr, FlagTurn
  <2>2. V[b] = z + 1 /\ V[a] = V[b] + 1
    BY <1>1, <1>5, <1>6, <1>8 DEF Level, ndr
  <2>3. PICK va \in Nat \ {0} : va = V[a]
    BY <1>5, <2>2
  <2>4. Level(Pt(ndr), dir, V[lk[<<a, dir>>]], V[lk[<<a, 1 - dir>>]], va) /\ va - 0 = V[a]
    BY <1>5, <2>2, <2>3 DEF Level, z, ndr, b
  <2>5. Pt(ndr) \in 0 .. 2
    BY <1>1
  <2>6. Rebalanced(lk, flg, u, lo, hi, FlagTurn(lk, flg, a, Pt(ndr), 0), pp, 0)
    BY ONLY 0 \in 0 .. 2, 0 \in Int, 1 \in Int, Shape(lk, u, lo, hi), pp \in Live(u), dir \in Sides, a = lk[pp], a # NULL,
            hole = <<a, dir>>, Even(lk, flg, u, V, hole, -1), <2>4, <2>5, va \in Nat \ {0}, FlagRebalanced
  <2> QED  BY <2>1, <2>6 DEF FlagTurn
<1>9. CASE flg[a] = Pt(dir)
  <2>1. r = FlagTurn(lk, flg, a, 0, 1)
    BY <1>1, <1>9 DEF delRebalance, ndr, FlagTurn
  <2>2. z = V[b] /\ V[a] = z + 2
    BY <1>1, <1>5, <1>6, <1>9 DEF Level, ndr
  <2>3. PICK va \in Nat \ {0} : va = z + 1
    BY <1>5
  <2>4. Level(0, dir, V[lk[<<a, dir>>]], V[lk[<<a, 1 - dir>>]], va) /\ va - (-1) = V[a]
    BY <1>5, <2>2, <2>3 DEF Level, z, ndr, b
  <2>5. -1 \in Int
    OBVIOUS
  <2>6. Rebalanced(lk, flg, u, lo, hi, FlagTurn(lk, flg, a, 0, 1), pp, -1)
    BY ONLY 0 \in 0 .. 2, 0 \in Int, 1 \in Int, Shape(lk, u, lo, hi), pp \in Live(u), dir \in Sides, a = lk[pp], a # NULL,
            hole = <<a, dir>>, Even(lk, flg, u, V, hole, -1), <2>4, <2>5, va \in Nat \ {0}, FlagRebalanced
  <2> QED  BY <2>1, <2>6 DEF FlagTurn
<1>10. CASE flg[a] = Pt(ndr)
  <2>1. V[b] = z + 2 /\ V[a] = V[b] + 1
    BY <1>1, <1>5, <1>6, <1>10 DEF Level, ndr
  <2>2. b # NULL
    BY <1>2, <1>5, <2>1
  <2>3. b \in u /\ a # b /\ flg[b] \in 0 .. 2
    BY <1>1, <1>2, <1>7, <2>2, TurnApart
  <2>4. x \in Nat /\ y \in Nat
    BY <1>1, <1>4, <2>3 DEF x, y
  <2>5. Level(flg[b], ndr, y, x, V[b])
    <3>1. y = Told(lk, V, hole, -1, <<b, ndr>>) /\ x = Told(lk, V, hole, -1, <<b, 1 - ndr>>)
      BY <1>1, <2>3 DEF Told, x, y
    <3> QED  BY ONLY <1>1, <2>3, <3>1, Even(lk, flg, u, V, hole, -1), HeightsAt
  <2>6. /\ V[lk[<<a, 1 - ndr>>]] = z /\ V[lk[<<b, 1 - ndr>>]] = x /\ V[lk[<<b, ndr>>]] = y
    BY <1>1 DEF x, y, z
  <2>7. ndr \in Sides /\ Pt(ndr) \in 0 .. 2 /\ Pt(dir) \in 0 .. 2 /\ -1 \in Int
    BY <1>1
  <2>8. CASE flg[b] = 0
    <3>1. r = SingleTurn(lk, flg, pp, a, b, ndr, Pt(ndr), Pt(dir), 0)
      BY <1>1, <1>10, <2>8 DEF delRebalance, ndr, b, SingleTurn
    <3>2. x = y /\ V[b] = x + 1
      BY <1>1, <2>4, <2>5, <2>8 DEF Level
    <3>3. PICK va \in Nat \ {0} : va = x + 1
      BY <2>4
    <3>4. PICK vb \in Nat \ {0} : vb = V[a]
      BY <1>5, <2>1
    <3>5. /\ Level(Pt(ndr), ndr, V[lk[<<b, 1 - ndr>>]], V[lk[<<a, 1 - ndr>>]], va)
          /\ Level(Pt(dir), ndr, V[lk[<<b, ndr>>]], va, vb) /\ vb - 0 = V[a]
      BY <1>1, <1>5, <2>1, <2>4, <2>6, <3>2, <3>3, <3>4 DEF Level
    <3>6. TurnFits(lk, flg, u, lo, hi, V, pp, ndr, a, b, hole, -1, Pt(ndr), Pt(dir), va, vb, 0)
      BY <1>7, <2>2, <2>7, <3>3, <3>4, <3>5 DEF TurnFits
    <3>7. Rebalanced(lk, flg, u, lo, hi, SingleTurn(lk, flg, pp, a, b, ndr, Pt(ndr), Pt(dir), 0), pp, 0)
      BY ONLY <3>6, SingleRebalanced
    <3> QED  BY <3>1, <3>7 DEF SingleTurn
  <2>9. CASE flg[b] = Pt(ndr)
    <3>1. r = SingleTurn(lk, flg, pp, a, b, ndr, 0, 0, 1)
      BY <1>1, <1>10, <2>9 DEF delRebalance, ndr, b, SingleTurn
    <3>2. y = x + 1 /\ V[b] = y + 1
      BY <1>1, <2>4, <2>5, <2>9 DEF Level
    <3>3. PICK va \in Nat \ {0} : va = x + 1
      BY <2>4
    <3>4. PICK vb \in Nat \ {0} : vb = V[b]
      BY <1>5, <2>1
    <3>5. /\ Level(0, ndr, V[lk[<<b, 1 - ndr>>]], V[lk[<<a, 1 - ndr>>]], va)
          /\ Level(0, ndr, V[lk[<<b, ndr>>]], va, vb) /\ vb - (-1) = V[a]
      BY <1>1, <1>5, <2>1, <2>4, <2>6, <3>2, <3>3, <3>4 DEF Level
    <3>6. TurnFits(lk, flg, u, lo, hi, V, pp, ndr, a, b, hole, -1, 0, 0, va, vb, -1)
      BY <1>7, <2>2, <2>7, <3>3, <3>4, <3>5 DEF TurnFits
    <3>7. Rebalanced(lk, flg, u, lo, hi, SingleTurn(lk, flg, pp, a, b, ndr, 0, 0, 1), pp, -1)
      BY ONLY <3>6, SingleRebalanced
    <3> QED  BY <3>1, <3>7 DEF SingleTurn
  <2>10. CASE flg[b] = Pt(dir)
    <3>1. PICK c : c = lk[<<b, 1 - ndr>>]
      OBVIOUS
    <3>2. r = [link |-> Double(lk, pp, a, b, c, ndr), flg |-> DoubleFlags(flg, a, b, c, ndr), ret |-> 1]
      BY <1>1, <1>10, <2>10, <3>1 DEF delRebalance, ndr, b
    <3>3. V[lk[<<a, 1 - ndr>>]] = V[b] - 2 /\ V[b] - (-1) = V[a] /\ flg[b] = Pt(1 - ndr)
      BY <1>1, <1>5, <2>1, <2>6, <2>10
    <3>4. Rebalanced(lk, flg, u, lo, hi, [link |-> Double(lk, pp, a, b, c, ndr),
                                     flg |-> DoubleFlags(flg, a, b, c, ndr), ret |-> 1], pp, -1)
      BY ONLY <1>7, <2>2, <2>7, <3>1, <3>3, Shape(lk, u, lo, hi), pp \in Live(u),
              a = lk[pp], a # NULL, Even(lk, flg, u, V, hole, -1), DoubleRebalanced
    <3> QED  BY <3>2, <3>4
  <2> QED  BY <1>1, <2>3, <2>8, <2>9, <2>10
<1> QED  BY <1>1, <1>7, <1>8, <1>9, <1>10

----------------------------------------------------------------------------
(* The calls that have not returned: each place is below the one before.   *)
Chain(lk, u, lo, hi, st) ==
  /\ st \in Seq(Places) /\ Len(st) >= 1
  /\ \A i \in 1 .. Len(st) : st[i] \in Live(u)
  /\ \A i \in 1 .. Len(st) - 1 : lk[st[i]] = st[i + 1][1]
  /\ \A i \in 1 .. Len(st), j \in 1 .. Len(st) : i < j =>
        /\ Inside(lo, hi, st[i], st[j][1])
        /\ Low(lo, st[i]) <= Low(lo, st[j]) /\ High(hi, st[j]) <= High(hi, st[i])

\* A chain of one place.
LEMMA ChainStart ==
  ASSUME NEW lk, NEW u, NEW lo, NEW hi, Shape(lk, u, lo, hi), NEW pp \in Live(u)
  PROVE  Chain(lk, u, lo, hi, <<pp>>)
<1>1. pp \in Places
  BY PlaceFacts
<1>2. <<pp>> \in Seq(Places) /\ Len(<<pp>>) = 1 /\ <<pp>>[1] = pp
  BY <1>1
<1> QED  BY ONLY <1>2, pp \in Live(u) DEF Chain

\* The last call of a chain goes one node down.
LEMMA ChainPush ==
  ASSUME NEW lk, NEW u, NEW lo, NEW hi, Shape(lk, u, lo, hi),
         NEW st, Chain(lk, u, lo, hi, st), NEW n, n = lk[st[Len(st)]], n # NULL, NEW d \in Sides
  PROVE  Chain(lk, u, lo, hi, Append(st, <<n, d>>)) /\ <<n, d>> \in Live(u)
<1> DEFINE s2 == Append(st, <<n, d>>)
           top == st[Len(st)]
<1>1. st \in Seq(Places) /\ Len(st) \in Nat /\ Len(st) >= 1 /\ top \in Live(u)
  BY DEF Chain
<1>2. n \in u /\ Inside(lo, hi, top, n) /\ lo[n] = Low(lo, top) /\ hi[n] = High(hi, top)
  BY <1>1, PlaceFacts
<1>3. <<n, d>> \in Live(u) /\ <<n, d>> \in Places /\ <<n, d>>[1] = n
  BY <1>2 DEF Live, Places, Shape, Sides
<1>4. s2 \in Seq(Places) /\ Len(s2) = Len(st) + 1 /\ s2[Len(st) + 1] = <<n, d>>
      /\ \A i \in 1 .. Len(st) : s2[i] = st[i]
  BY <1>1, <1>3, AppendProperties
<1>5. /\ Low(lo, top) <= Low(lo, <<n, d>>) /\ High(hi, <<n, d>>) <= High(hi, top)
      /\ Low(lo, top) \in Int /\ High(hi, top) \in Int
      /\ Low(lo, <<n, d>>) \in Int /\ High(hi, <<n, d>>) \in Int /\ n \in Int
  <2>1. n \in Int /\ lo[n] \in Int /\ hi[n] \in Int /\ lo[n] < n /\ n < hi[n]
    BY <1>2, NodeFacts
  <2>2. d = L \/ d = R
    BY DEF Sides
  <2> QED  BY <1>2, <2>1, <2>2 DEF Low, High, L, R
<1>6. \A i \in 1 .. Len(st) : /\ Low(lo, st[i]) <= Low(lo, top) /\ High(hi, top) <= High(hi, st[i])
                              /\ Low(lo, st[i]) \in Int /\ High(hi, st[i]) \in Int
  <2>1. \A i \in 1 .. Len(st) : Low(lo, st[i]) \in Int /\ High(hi, st[i]) \in Int
    BY PlaceFacts DEF Chain
  <2> QED  BY <1>1, <2>1 DEF Chain
<1> HIDE DEF s2, top
<1>7. ASSUME NEW i \in 1 .. Len(st)
      PROVE  /\ Inside(lo, hi, st[i], n)
             /\ Low(lo, st[i]) <= Low(lo, <<n, d>>) /\ High(hi, <<n, d>>) <= High(hi, st[i])
  BY <1>2, <1>5, <1>6 DEF Inside
<1>8. ASSUME NEW i \in 1 .. Len(s2), NEW j \in 1 .. Len(s2), i < j
      PROVE  /\ Inside(lo, hi, s2[i], s2[j][1])
             /\ Low(lo, s2[i]) <= Low(lo, s2[j]) /\ High(hi, s2[j]) <= High(hi, s2[i])
  <2>1. i \in 1 .. Len(st) /\ s2[i] = st[i]
    BY <1>1, <1>4, <1>8
  <2>2. CASE j \in 1 .. Len(st)
    BY <1>4, <1>8, <2>1, <2>2 DEF Chain
  <2>3. CASE j = Len(st) + 1
    BY <1>3, <1>4, <1>7, <2>1, <2>3
  <2> QED  BY <1>1, <1>4, <2>2, <2>3
<1>9. \A i \in 1 .. Len(s2) : s2[i] \in Live(u)
  <2>1. \A i \in 1 .. Len(st) : s2[i] \in Live(u)
    BY <1>4 DEF Chain
  <2>2. \A i \in 1 .. Len(s2) : i \in 1 .. Len(st) \/ i = Len(st) + 1
    BY <1>1, <1>4
  <2> QED  BY <1>3, <1>4, <2>1, <2>2
<1>10. \A i \in 1 .. Len(s2) - 1 : lk[s2[i]] = s2[i + 1][1]
  <2>1. ASSUME NEW i \in 1 .. Len(s2) - 1
        PROVE  lk[s2[i]] = s2[i + 1][1]
    <3>1. i \in 1 .. Len(st) /\ s2[i] = st[i]
      BY <1>1, <1>4
    <3>2. CASE i = Len(st)
      BY <1>3, <1>4, <3>1, <3>2 DEF top
    <3>3. CASE i < Len(st)
      <4>1. i \in 1 .. Len(st) - 1 /\ i + 1 \in 1 .. Len(st) /\ s2[i + 1] = st[i + 1]
        BY <1>1, <1>4, <3>1, <3>3
      <4> QED  BY <3>1, <4>1 DEF Chain
    <3> QED  BY <1>1, <3>1, <3>2, <3>3
  <2> QED  BY <2>1
<1>11. Len(s2) >= 1
  BY <1>1, <1>4
<1>12. Chain(lk, u, lo, hi, s2)
  BY ONLY <1>4, <1>8, <1>9, <1>10, <1>11 DEF Chain
<1> QED  BY <1>3, <1>12 DEF s2

\* The last call of a chain returns.
LEMMA ChainPop ==
  ASSUME NEW lk, NEW u, NEW lo, NEW hi, Shape(lk, u, lo, hi),
         NEW st, Chain(lk, u, lo, hi, st), Len(st) > 1
  PROVE  /\ Chain(lk, u, lo, hi, PopTo(st)) /\ Len(PopTo(st)) = Len(st) - 1 /\ Len(st) \in Nat
         /\ \A i \in 1 .. Len(st) - 1 : PopTo(st)[i] = st[i]
         /\ st[Len(st) - 1] \in Live(u) /\ lk[st[Len(st) - 1]] = st[Len(st)][1]
         /\ st[Len(st)] \in Live(u) /\ st[Len(st)][1] \in u
<1> DEFINE s2 == PopTo(st)
<1>1. st \in Seq(Places) /\ Len(st) \in Nat /\ Len(st) - 1 \in 1 .. Len(st)
  BY DEF Chain
<1>2. s2 \in Seq(Places) /\ Len(s2) = Len(st) - 1 /\ \A i \in 1 .. Len(st) - 1 : s2[i] = st[i]
  BY <1>1, SubSeqProperties DEF PopTo
<1>3. Chain(lk, u, lo, hi, s2)
  BY <1>1, <1>2 DEF Chain
<1>4. st[Len(st) - 1] \in Live(u) /\ st[Len(st)] \in Live(u) /\ lk[st[Len(st) - 1]] = st[Len(st)][1]
  BY <1>1 DEF Chain
<1>5. Inside(lo, hi, st[Len(st) - 1], st[Len(st)][1])
  BY <1>1 DEF Chain
<1>6. st[Len(st)][1] # NULL
  BY <1>4, PlaceFacts DEF Tree, NULL
<1> QED  BY <1>1, <1>2, <1>3, <1>4, <1>6, PlaceFacts

\* The last call of a chain goes on with the right subtree of its node.
LEMMA ChainTurned ==
  ASSUME NEW lk, NEW u, NEW lo, NEW hi, Shape(lk, u, lo, hi),
         NEW st, Chain(lk, u, lo, hi, st), Len(st) > 1
  PROVE  /\ Chain(lk, u, lo, hi, Turned(st)) /\ Len(Turned(st)) = Len(st)
         /\ \A i \in 1 .. Len(st) - 1 : Turned(st)[i] = st[i]
         /\ Turned(st)[Len(st)] = <<st[Len(st)][1], R>>
<1> DEFINE s1 == PopTo(st)
           n == st[Len(st)][1]
           s2 == Append(s1, <<n, R>>)
<1>1. /\ Chain(lk, u, lo, hi, s1) /\ Len(s1) = Len(st) - 1 /\ Len(st) \in Nat
      /\ \A i \in 1 .. Len(st) - 1 : s1[i] = st[i]
      /\ lk[st[Len(st) - 1]] = n /\ n \in u
  BY ChainPop
<1>2. s1[Len(s1)] = st[Len(st) - 1]
  BY <1>1
<1>3. n # NULL
  <2>1. st[Len(st)] \in Live(u)
    BY ChainPop
  <2> QED  BY <1>1, <2>1, PlaceFacts
<1>4. n = lk[s1[Len(s1)]] /\ R \in Sides
  BY <1>1, <1>2 DEF Sides
<1> HIDE DEF n, s1
<1>5. Chain(lk, u, lo, hi, s2)
  BY ONLY <1>1, <1>3, <1>4, Shape(lk, u, lo, hi), ChainPush
<1>6. st \in Seq(Places) /\ s1 \in Seq(Places) /\ <<n, R>> \in Places
  BY <1>1, <1>5 DEF Chain, Live, Places, L, R, Shape
<1>7. /\ s2 \in Seq(Places) /\ Len(s2) = Len(st) /\ s2[Len(st)] = <<n, R>>
      /\ \A i \in 1 .. Len(st) - 1 : s2[i] = st[i]
  <2>1. Len(s2) = Len(s1) + 1 /\ s2[Len(s1) + 1] = <<n, R>> /\ \A i \in 1 .. Len(s1) : s2[i] = s1[i]
    BY <1>6, AppendProperties
  <2> QED  BY <1>1, <1>5, <2>1 DEF Chain
<1>8. Turned(st) = s2
  <2>1. Turned(st) = [i \in 1 .. Len(st) |-> IF i = Len(st) THEN <<n, R>> ELSE st[i]]
    <3>1. DOMAIN st = 1 .. Len(st)
      BY <1>6
    <3> QED  BY <3>1 DEF Turned, n
  <2>2. s2 = [i \in 1 .. Len(st) |-> s2[i]]
    BY <1>7
  <2>3. \A i \in 1 .. Len(st) : s2[i] = IF i = Len(st) THEN <<n, R>> ELSE st[i]
    BY <1>1, <1>7
  <2> QED  BY ONLY <2>1, <2>2, <2>3
<1> QED  BY <1>5, <1>7, <1>8 DEF n

\* A change below the last place of a chain leaves the chain as it is.
LEMMA ChainKept ==
  ASSUME NEW lk, NEW u, NEW lo, NEW hi, Shape(lk, u, lo, hi),
         NEW st, Chain(lk, u, lo, hi, st), NEW lk2, NEW u2, NEW lo2, NEW hi2,
         Relinked(lk, u, lo, hi, lk2, u2, lo2, hi2, st[Len(st)])
  PROVE  Chain(lk2, u2, lo2, hi2, st)
<1> DEFINE top == st[Len(st)]
<1>1. st \in Seq(Places) /\ Len(st) \in Nat /\ Len(st) >= 1 /\ top \in Live(u)
  BY DEF Chain
<1>2. \A i \in 1 .. Len(st) : /\ st[i] \in Live(u) /\ Low(lo, st[i]) \in Int /\ High(hi, st[i]) \in Int
                              /\ st[i][1] \in Int /\ ~Inside(lo, hi, st[i], st[i][1])
  BY PlaceFacts DEF Chain
<1>3. ASSUME NEW i \in 1 .. Len(st)
      PROVE  ~Inside(lo, hi, top, st[i][1]) /\ (i < Len(st) => st[i] # top)
  <2>1. CASE i = Len(st)
    BY <1>2, <2>1
  <2>2. CASE i < Len(st)
    <3>1. Len(st) \in 1 .. Len(st)
      BY <1>1
    <3>2. /\ Inside(lo, hi, st[i], top[1])
          /\ Low(lo, st[i]) <= Low(lo, top) /\ High(hi, top) <= High(hi, st[i])
      BY <2>2, <3>1 DEF Chain
    <3>3. Low(lo, top) \in Int /\ High(hi, top) \in Int
      BY <1>2, <3>1
    <3>4. ~Inside(lo, hi, top, st[i][1])
      BY <1>2, <3>2, <3>3 DEF Inside
    <3> QED  BY <1>2, <3>2, <3>4
  <2> QED  BY <1>1, <2>1, <2>2
<1>4. ASSUME NEW i \in 1 .. Len(st)
      PROVE  /\ st[i] \in Live(u2) /\ Low(lo2, st[i]) = Low(lo, st[i]) /\ High(hi2, st[i]) = High(hi, st[i])
             /\ i < Len(st) => lk2[st[i]] = lk[st[i]]
  BY <1>2, <1>3 DEF Relinked, Outside
<1> HIDE DEF top
<1>5. \A i \in 1 .. Len(st) - 1 : lk2[st[i]] = st[i + 1][1]
  <2>1. ASSUME NEW i \in 1 .. Len(st) - 1
        PROVE  lk2[st[i]] = st[i + 1][1]
    <3>1. i \in 1 .. Len(st) /\ i < Len(st)
      BY <1>1
    <3> QED  BY <1>4, <3>1 DEF Chain
  <2> QED  BY <2>1
<1>6. ASSUME NEW i \in 1 .. Len(st), NEW j \in 1 .. Len(st), i < j
      PROVE  /\ Inside(lo2, hi2, st[i], st[j][1])
             /\ Low(lo2, st[i]) <= Low(lo2, st[j]) /\ High(hi2, st[j]) <= High(hi2, st[i])
  BY <1>4, <1>6 DEF Chain, Inside
<1> QED  BY ONLY <1>1, <1>4, <1>5, <1>6 DEF Chain

----------------------------------------------------------------------------
(* The invariant.  Between two steps of a call the nodes are a tree with   *)
(* the heights V the flags tell, but for the place the call is at: there   *)
(* the subtree is Delta higher than its parent was told.                   *)
Hung  == used \ {q}
Hole  == IF stack = <<>> THEN Root ELSE Top
Delta == IF phase = "inserted" THEN ret
         ELSE IF phase \in {"deleted", "extracted"} /\ ret = 1 THEN -1 ELSE 0

\* TREE_DoAll has handed over z.
HandedOver(z) == \E i \in 1 .. Len(seen) : seen[i] = z

InTree(lo, hi, V) ==
  /\ Shape(link, Hung, lo, hi) /\ \A k \in Keys : k < hi[Tree]
  /\ Even(link, avltFlg, Hung, V, Hole, Delta)
  /\ phase # "none" => Chain(link, Hung, lo, hi, stack)
  /\ phase \in {"insNode", "TREE_Search", "DeleteNode"} => elem \in Keys /\ Inside(lo, hi, Top, elem)
  /\ phase = "inserted" /\ ret = 1 => link[Top] # NULL /\ (avltFlg[link[Top]] # 0 \/ V[link[Top]] = 1)
  /\ phase = "delExtractMax" => link[Top] # NULL /\ High(hi, Top) = elem
  /\ phase = "DoElement" => \A z \in used : HandedOver(z) <=> z <= Low(lo, Top)
  /\ phase = "done" => \A z \in used : HandedOver(z) <=> z < High(hi, Top)

(* TREE_Clear frees the nodes u0 of the tree it was called for, whose links *)
(* were lk0: what is still to be freed is on the stack or to the right.     *)
Remaining(u0, hi, st) ==
  {z \in u0 : \E i \in 2 .. Len(st) :
                z = st[i][1] \/ (st[i][2] = L /\ st[i][1] < z /\ z < hi[st[i][1]])}

Cleared(lk0, u0, lo, hi) ==
  /\ Shape(lk0, u0, lo, hi) /\ \A k \in Keys : k < hi[Tree]
  /\ Chain(lk0, u0, lo, hi, stack)
  /\ link \in [Places -> Keys \cup {NULL}] /\ \A s \in Live(used) : link[s] = lk0[s]
  /\ used = Remaining(u0, hi, stack) \cup
              (IF phase = "DelAllNode" THEN {z \in u0 : Inside(lo, hi, Top, z)} ELSE {})

\* The call of delExtractMax: from the left link of elem right links only.
Rightmost ==
  \E k \in 2 .. Len(stack) : /\ stack[k] = <<elem, L>>
                             /\ \A i \in k + 1 .. Len(stack) : stack[i][2] = R

\* What else is so in each phase of a call.
Kept ==
  /\ \A n \in Keys \ used : avltFlg[n] = 0 /\ \A d \in Sides : link[<<n, d>>] = NULL
  /\ phase = "none" <=> stack = <<>>
  /\ phase \notin {"none", "TREE_Search"} => stack[1] = Root
  /\ phase = "deleted" => elem \in Keys \ used
  /\ phase # "deleted" => ret # -1
  /\ phase \in {"delExtractMax", "extracted"} => elem \in Hung /\ Rightmost
  /\ phase = "extracted" => /\ q \in used /\ q < elem /\ \A n \in Hung \ {elem} : n < q <=> n < elem
                            /\ \A d \in Sides : link[<<q, d>>] \in Hung \cup {NULL}
  /\ phase # "extracted" => q = NULL
  /\ phase \notin {"DoElement", "done"} => seen = <<>>
  /\ \A i \in 1 .. Len(seen) : seen[i] \in used
  /\ \A i \in 1 .. Len(seen), j \in 1 .. Len(seen) : i < j => seen[i] < seen[j]

Clearing == phase \in {"DelAllNode", "freed"}

IInv ==
  /\ TypeOK /\ Kept
  /\ ~Clearing => \E lo, hi, V : InTree(lo, hi, V)
  /\ Clearing => \E lk0, u0, lo, hi : Cleared(lk0, u0, lo, hi)

\* A call starts at the root.
LEMMA CallInv ==
  ASSUME IInv, NEW f \in {"insNode", "TREE_Search", "DeleteNode", "DoElement"}, NEW e,
         IF f = "DoElement" THEN e = NULL ELSE e \in Keys, Call(f, e), answer' = answer,
         load' \in Seq(Keys), UNCHANGED more
  PROVE  IInv'
<1>1. /\ phase = "none" /\ phase' = f /\ stack' = <<Root>> /\ elem' = e /\ ret' = 0
      /\ UNCHANGED <<link, avltFlg, used, q, seen>>
  BY DEF Call, nodes
<1>2. PICK lo, hi, V : InTree(lo, hi, V)
  BY <1>1 DEF IInv, Clearing
<1>3. TypeOK /\ Kept /\ q = NULL /\ seen = <<>> /\ stack = <<>>
  BY <1>1 DEF IInv, Kept
<1>4. /\ Hung' = Hung /\ Hung' = used /\ Hole = Root /\ Delta = 0
      /\ Hole' = Root /\ Delta' = 0 /\ Top' = Root /\ stack'[1] = Root
  <2>1. NULL \notin used
    BY <1>3, KeysAssumption DEF TypeOK, NULL
  <2> QED  BY <1>1, <1>3, <2>1 DEF Hung, Hole, Delta, Top
<1>5. /\ Shape(link, Hung, lo, hi) /\ (\A k \in Keys : k < hi[Tree])
      /\ Even(link, avltFlg, Hung, V, Root, 0)
  BY <1>2, <1>4 DEF InTree
<1>6. Chain(link, Hung, lo, hi, <<Root>>)
  BY <1>5, ChainStart DEF Live
<1>7. Low(lo, Root) = -1 /\ High(hi, Root) = hi[Tree]
  BY DEF Low, High, Root, L, R, Tree
<1>8. e \in Keys => Inside(lo, hi, Root, e)
  BY <1>5, <1>7, KeysAssumption DEF Inside
<1>9. f = "DoElement" => \A z \in used' : HandedOver(z)' <=> z <= Low(lo, Top')
  <2>1. \A z \in used' : ~HandedOver(z)' /\ ~(z <= -1)
    BY <1>1, <1>3, KeysAssumption DEF HandedOver, TypeOK
  <2> QED  BY <1>4, <1>7, <2>1
<1>10. InTree(lo, hi, V)'
  BY <1>1, <1>4, <1>5, <1>6, <1>8, <1>9 DEF InTree
<1>11. Kept'
  BY <1>1, <1>3, <1>4 DEF Kept, Rightmost
<1>12. TypeOK'
  <2>1. Root \in Places
    BY DEF Places
  <2>2. <<Root>> \in Seq(Places)
    BY <2>1
  <2> QED  BY <1>1, <1>3, <2>2 DEF TypeOK
<1> QED  BY <1>1, <1>10, <1>11, <1>12 DEF IInv, Clearing

\* A call below the node at the place of this one.
LEMMA Pushed ==
  ASSUME NEW lo, NEW hi, NEW V, TypeOK, Kept, InTree(lo, hi, V),
         phase \notin {"none", "inserted", "deleted", "extracted"},
         phase' \notin {"none", "inserted", "deleted", "extracted"},
         UNCHANGED <<link, avltFlg, used, q>>,
         NEW n, n = link[Top], n # NULL, NEW d \in Sides, stack' = Append(stack, <<n, d>>)
  PROVE  /\ Hung' = Hung /\ n \in Hung /\ n \in used /\ n \in Keys /\ Top' = <<n, d>> /\ Hole' = <<n, d>> /\ Delta' = 0
         /\ Shape(link, Hung, lo, hi)' /\ Chain(link, Hung, lo, hi, stack)'
         /\ Even(link, avltFlg, Hung, V, Hole, Delta)'
         /\ lo[n] = Low(lo, Top) /\ hi[n] = High(hi, Top) /\ Top \in Live(Hung)
         /\ n \in Int /\ lo[n] \in Int /\ hi[n] \in Int /\ lo[n] < n /\ n < hi[n]
         /\ Len(stack) \in Nat /\ Len(stack) >= 1 /\ Len(stack') = Len(stack) + 1 /\ stack' # <<>>
         /\ \A i \in 1 .. Len(stack) : stack'[i] = stack[i]
         /\ stack'[Len(stack) + 1] = <<n, d>> /\ stack' \in Seq(Places) /\ stack'[1] = stack[1]
<1>1. /\ Shape(link, Hung, lo, hi) /\ Even(link, avltFlg, Hung, V, Hole, Delta)
      /\ Chain(link, Hung, lo, hi, stack) /\ Delta = 0 /\ Hung' = Hung
  BY DEF InTree, Delta, Hung
<1>2. Len(stack) \in Nat /\ Len(stack) >= 1 /\ stack \in Seq(Places) /\ Top \in Live(Hung)
  BY <1>1 DEF Chain, Top
<1>3. n \in Hung /\ lo[n] = Low(lo, Top) /\ hi[n] = High(hi, Top)
  BY <1>1, <1>2, PlaceFacts
<1>4. n \in Int /\ lo[n] \in Int /\ hi[n] \in Int /\ lo[n] < n /\ n < hi[n]
  BY <1>1, <1>3, NodeFacts
<1>5. Chain(link, Hung, lo, hi, stack')
  BY <1>1, ChainPush DEF Top
<1>6. <<n, d>> \in Places
  BY <1>3 DEF Places, Sides, Hung, TypeOK
<1>7. /\ Len(stack') = Len(stack) + 1 /\ stack' # <<>>
      /\ \A i \in 1 .. Len(stack) : stack'[i] = stack[i]
      /\ stack'[Len(stack) + 1] = <<n, d>> /\ stack' \in Seq(Places)
  BY <1>2, <1>6, AppendProperties
<1>8. Top' = <<n, d>> /\ Hole' = <<n, d>> /\ Delta' = 0 /\ stack'[1] = stack[1]
  BY <1>2, <1>7 DEF Top, Hole, Delta
<1>9. Even(link, avltFlg, Hung, V, Hole, Delta)'
  <2>1. Even(link, avltFlg, Hung, V, <<n, d>>, 0)
    BY <1>1, EvenAnywhere
  <2> QED  BY <1>1, <1>8, <2>1
<1> QED  BY <1>1, <1>2, <1>3, <1>4, <1>5, <1>7, <1>8, <1>9 DEF Hung, TypeOK

\* insNode and DeleteNode go down: the element stays between the ends of the place.
LEMMA DescendInv == IInv /\ Descend => IInv'
<1> SUFFICES ASSUME IInv, Descend
             PROVE  IInv'
  OBVIOUS
<1>1. /\ phase \in {"insNode", "DeleteNode"} /\ link[Top] # NULL /\ link[Top] # elem /\ phase' = phase
      /\ UNCHANGED <<link, avltFlg, used, elem, ret, q, seen, answer, load, more>>
  BY DEF Descend, nodes, Bounds
<1>2. PICK lo, hi, V : InTree(lo, hi, V)
  BY <1>1 DEF IInv, Clearing
<1>3. TypeOK /\ Kept /\ elem \in Keys /\ Inside(lo, hi, Top, elem) /\ (\A k \in Keys : k < hi[Tree])
  BY <1>1, <1>2 DEF IInv, InTree
<1>4. PICK d \in Sides : Side(elem, link[Top]) = <<link[Top], d>> /\ (d = IF elem < link[Top] THEN L ELSE R)
  BY DEF Side, Sides
<1>5. PICK n : n = link[Top]
  OBVIOUS
<1>6. stack' = Append(stack, <<n, d>>)
  BY <1>4, <1>5 DEF Descend
<1>7. /\ Hung' = Hung /\ n \in Hung /\ n \in Keys /\ Top' = <<n, d>>
      /\ Shape(link, Hung, lo, hi)' /\ Chain(link, Hung, lo, hi, stack)'
      /\ Even(link, avltFlg, Hung, V, Hole, Delta)'
      /\ lo[n] = Low(lo, Top) /\ hi[n] = High(hi, Top)
      /\ n \in Int /\ lo[n] \in Int /\ hi[n] \in Int
      /\ stack' # <<>> /\ stack' \in Seq(Places) /\ stack'[1] = stack[1]
  BY <1>1, <1>2, <1>3, <1>5, <1>6, Pushed
<1>8. Inside(lo, hi, Top', elem)
  BY <1>1, <1>3, <1>4, <1>5, <1>7, KeysAssumption DEF Inside, Low, High, L, R
<1>9. InTree(lo, hi, V)'
  BY <1>1, <1>3, <1>7, <1>8 DEF InTree
<1>10. Kept'
  BY <1>1, <1>3, <1>7 DEF Kept
<1>11. TypeOK'
  BY <1>1, <1>3, <1>7 DEF TypeOK
<1> QED  BY <1>1, <1>9, <1>10, <1>11 DEF IInv, Clearing

\* So does the loop of TREE_Search, which keeps no call.
LEMMA SearchStepInv == IInv /\ TREE_SearchStep => IInv'
<1> SUFFICES ASSUME IInv, TREE_SearchStep
             PROVE  IInv'
  OBVIOUS
<1>1. /\ phase = "TREE_Search" /\ link[Top] # NULL /\ link[Top] # elem /\ phase' = phase
      /\ UNCHANGED <<link, avltFlg, used, elem, ret, q, seen, answer, load, more>>
  BY DEF TREE_SearchStep, nodes, Bounds
<1>2. PICK lo, hi, V : InTree(lo, hi, V)
  BY <1>1 DEF IInv, Clearing
<1>3. TypeOK /\ Kept /\ elem \in Keys /\ Inside(lo, hi, Top, elem) /\ (\A k \in Keys : k < hi[Tree])
  BY <1>1, <1>2 DEF IInv, InTree
<1>4. PICK d \in Sides : Side(elem, link[Top]) = <<link[Top], d>> /\ (d = IF elem < link[Top] THEN L ELSE R)
  BY DEF Side, Sides
<1>5. PICK n : n = link[Top]
  OBVIOUS
<1>6. stack' = <<<<n, d>>>>
  BY <1>4, <1>5 DEF TREE_SearchStep
<1>7. /\ Shape(link, Hung, lo, hi) /\ Even(link, avltFlg, Hung, V, Hole, Delta)
      /\ Chain(link, Hung, lo, hi, stack) /\ Delta = 0 /\ Delta' = 0 /\ Hung' = Hung
  BY <1>1, <1>2 DEF InTree, Delta, Hung
<1>8. Top \in Live(Hung)
  BY <1>7 DEF Chain, Top
<1>9. n \in Hung /\ lo[n] = Low(lo, Top) /\ hi[n] = High(hi, Top)
  BY <1>1, <1>5, <1>7, <1>8, PlaceFacts
<1>10. n \in Int /\ lo[n] \in Int /\ hi[n] \in Int
  BY <1>7, <1>9, NodeFacts
<1>11. <<n, d>> \in Live(Hung) /\ <<n, d>> \in Places
  BY <1>3, <1>9 DEF Live, Places, Sides, Hung, TypeOK
<1>12. /\ Top' = <<n, d>> /\ Hole' = <<n, d>> /\ stack' \in Seq(Places) /\ stack' # <<>>
       /\ Chain(link, Hung, lo, hi, stack')
  BY <1>6, <1>7, <1>11, ChainStart DEF Top, Hole
<1>13. Even(link, avltFlg, Hung, V, <<n, d>>, 0)
  BY <1>7, EvenAnywhere
<1>14. Inside(lo, hi, Top', elem)
  BY <1>1, <1>3, <1>4, <1>5, <1>9, <1>10, <1>12, KeysAssumption DEF Inside, Low, High, L, R
<1>15. InTree(lo, hi, V)'
  BY <1>1, <1>3, <1>7, <1>12, <1>13, <1>14 DEF InTree
<1>16. Kept'
  BY <1>1, <1>3, <1>12 DEF Kept
<1>17. TypeOK'
  BY <1>1, <1>3, <1>12 DEF TypeOK
<1> QED  BY <1>1, <1>15, <1>16, <1>17 DEF IInv, Clearing

\* delExtractMax is called for the left subtree of the node to delete.
LEMMA InnerInv == IInv /\ DeleteNodeInner => IInv'
<1> SUFFICES ASSUME IInv, DeleteNodeInner
             PROVE  IInv'
  OBVIOUS
<1>1. /\ phase = "DeleteNode" /\ link[Top] = elem /\ link[<<elem, L>>] # NULL /\ phase' = "delExtractMax"
      /\ stack' = Append(stack, <<elem, L>>)
      /\ UNCHANGED <<link, avltFlg, used, elem, ret, q, seen, answer, load, more>>
  BY DEF DeleteNodeInner, nodes, Bounds
<1>2. PICK lo, hi, V : InTree(lo, hi, V)
  BY <1>1 DEF IInv, Clearing
<1>3. TypeOK /\ Kept /\ elem \in Keys /\ elem # NULL /\ (\A k \in Keys : k < hi[Tree])
  BY <1>1, <1>2, KeysAssumption DEF IInv, InTree, NULL
<1>4. /\ Hung' = Hung /\ elem \in Hung /\ Top' = <<elem, L>> /\ L \in Sides
      /\ Shape(link, Hung, lo, hi)' /\ Chain(link, Hung, lo, hi, stack)'
      /\ Even(link, avltFlg, Hung, V, Hole, Delta)'
      /\ Len(stack) \in Nat /\ Len(stack) >= 1 /\ Len(stack') = Len(stack) + 1 /\ stack' # <<>>
      /\ stack'[Len(stack) + 1] = <<elem, L>> /\ stack' \in Seq(Places) /\ stack'[1] = stack[1]
  <2>1. L \in Sides
    BY DEF Sides
  <2> QED  BY <1>1, <1>2, <1>3, <2>1, Pushed
<1>5. Rightmost'
  <2>1. /\ Len(stack) + 1 \in 2 .. Len(stack') /\ stack'[Len(stack) + 1] = <<elem', L>>
        /\ \A i \in Len(stack) + 2 .. Len(stack') : stack'[i][2] = R
    BY <1>1, <1>4
  <2> QED  BY <2>1 DEF Rightmost
<1>6. link'[Top'] # NULL /\ High(hi, Top') = elem
  BY <1>1, <1>4 DEF High
<1>7. InTree(lo, hi, V)'
  BY <1>1, <1>3, <1>4, <1>6 DEF InTree
<1>8. Kept'
  BY <1>1, <1>3, <1>4, <1>5 DEF Kept
<1>9. TypeOK'
  BY <1>1, <1>3, <1>4 DEF TypeOK
<1> QED  BY <1>1, <1>7, <1>8, <1>9 DEF IInv, Clearing

\* It goes down right links only: the end of what it looks at stays that node.
LEMMA ExtractDescendInv == IInv /\ delExtractMaxDescend => IInv'
<1> SUFFICES ASSUME IInv, delExtractMaxDescend
             PROVE  IInv'
  OBVIOUS
<1>1. PICK n : n = link[Top]
  OBVIOUS
<1>2. /\ phase = "delExtractMax" /\ link[<<n, R>>] # NULL /\ phase' = phase
      /\ stack' = Append(stack, <<n, R>>)
      /\ UNCHANGED <<link, avltFlg, used, elem, ret, q, seen, answer, load, more>>
  BY <1>1 DEF delExtractMaxDescend, nodes, Bounds
<1>3. PICK lo, hi, V : InTree(lo, hi, V)
  BY <1>2 DEF IInv, Clearing
<1>4. /\ TypeOK /\ Kept /\ (\A k \in Keys : k < hi[Tree]) /\ n # NULL /\ High(hi, Top) = elem
      /\ elem \in Hung /\ Rightmost
  BY <1>1, <1>2, <1>3 DEF IInv, InTree, Kept
<1>5. /\ Hung' = Hung /\ Top' = <<n, R>> /\ hi[n] = High(hi, Top)
      /\ Shape(link, Hung, lo, hi)' /\ Chain(link, Hung, lo, hi, stack)'
      /\ Even(link, avltFlg, Hung, V, Hole, Delta)'
      /\ Len(stack) \in Nat /\ Len(stack) >= 1 /\ Len(stack') = Len(stack) + 1 /\ stack' # <<>>
      /\ \A i \in 1 .. Len(stack) : stack'[i] = stack[i]
      /\ stack'[Len(stack) + 1] = <<n, R>> /\ stack' \in Seq(Places) /\ stack'[1] = stack[1]
  <2>1. R \in Sides
    BY DEF Sides
  <2> QED  BY <1>1, <1>2, <1>3, <1>4, <2>1, Pushed
<1>6. Rightmost'
  <2>1. PICK k \in 2 .. Len(stack) : stack[k] = <<elem, L>> /\ \A i \in k + 1 .. Len(stack) : stack[i][2] = R
    BY <1>4 DEF Rightmost
  <2>2. k \in 2 .. Len(stack') /\ stack'[k] = <<elem', L>>
    BY <1>2, <1>5, <2>1
  <2>3. \A i \in k + 1 .. Len(stack') : (i \in k + 1 .. Len(stack) /\ stack'[i] = stack[i]) \/ stack'[i] = <<n, R>>
    BY <1>5, <2>1
  <2>4. \A i \in k + 1 .. Len(stack') : stack'[i][2] = R
    BY <2>1, <2>3
  <2> QED  BY <2>2, <2>4 DEF Rightmost
<1>7. link'[Top'] # NULL /\ High(hi, Top') = elem
  BY <1>2, <1>4, <1>5 DEF High, L, R
<1>8. InTree(lo, hi, V)'
  BY <1>2, <1>4, <1>5, <1>7 DEF InTree
<1>9. Kept'
  BY <1>2, <1>4, <1>5, <1>6 DEF Kept
<1>10. TypeOK'
  BY <1>2, <1>4, <1>5 DEF TypeOK
<1> QED  BY <1>2, <1>8, <1>9, <1>10 DEF IInv, Clearing

\* The walk goes down to the left: no element between was handed over.
LEMMA WalkDownInv == IInv /\ SubtreeDown /\ phase = "DoElement" => IInv'
<1> SUFFICES ASSUME IInv, SubtreeDown, phase = "DoElement"
             PROVE  IInv'
  OBVIOUS
<1>1. PICK n : n = link[Top]
  OBVIOUS
<1>2. /\ n # NULL /\ phase' = phase /\ stack' = Append(stack, <<n, L>>)
      /\ UNCHANGED <<link, avltFlg, used, elem, ret, q, seen, answer, load, more>>
  BY <1>1 DEF SubtreeDown, nodes, Bounds
<1>3. PICK lo, hi, V : InTree(lo, hi, V)
  BY DEF IInv, Clearing
<1>4. /\ TypeOK /\ Kept /\ \A k \in Keys : k < hi[Tree]
      /\ \A z \in used : HandedOver(z) <=> z <= Low(lo, Top)
  BY <1>3 DEF IInv, InTree
<1>5. /\ Hung' = Hung /\ Top' = <<n, L>> /\ lo[n] = Low(lo, Top)
      /\ Shape(link, Hung, lo, hi)' /\ Chain(link, Hung, lo, hi, stack)'
      /\ Even(link, avltFlg, Hung, V, Hole, Delta)'
      /\ stack' # <<>> /\ stack' \in Seq(Places) /\ stack'[1] = stack[1]
  <2>1. L \in Sides
    BY DEF Sides
  <2> QED  BY <1>1, <1>2, <1>3, <1>4, <2>1, Pushed
<1>6. \A z \in used' : HandedOver(z)' <=> z <= Low(lo, Top')
  BY <1>2, <1>4, <1>5 DEF Low, HandedOver
<1>7. InTree(lo, hi, V)'
  BY <1>2, <1>4, <1>5, <1>6 DEF InTree
<1>8. Kept'
  BY <1>2, <1>4, <1>5 DEF Kept
<1>9. TypeOK'
  BY <1>2, <1>4, <1>5 DEF TypeOK
<1> QED  BY <1>2, <1>7, <1>8, <1>9 DEF IInv, Clearing

\* The search of an insertion or deletion has come to its end, and the walk to
\* a link that is NULL.
LEMMA ArrivedInv ==
  IInv /\ (insNodeOld \/ DeleteNodeMissing \/ (SubtreeEmpty /\ phase = "DoElement")) => IInv'
<1> SUFFICES ASSUME IInv, insNodeOld \/ DeleteNodeMissing \/ (SubtreeEmpty /\ phase = "DoElement")
             PROVE  IInv'
  OBVIOUS
<1>1. /\ phase \in {"insNode", "DeleteNode", "DoElement"}
      /\ UNCHANGED <<link, avltFlg, used, stack, elem, q, seen, load, more>>
      /\ phase = "insNode" => link[Top] = elem /\ phase' = "inserted" /\ ret' = 0 /\ answer' = "old"
      /\ phase = "DeleteNode" => link[Top] = NULL /\ phase' = "deleted" /\ ret' = -1 /\ answer' = answer
      /\ phase = "DoElement" => link[Top] = NULL /\ phase' = "done" /\ ret' = ret /\ answer' = answer
  BY DEF insNodeOld, DeleteNodeMissing, SubtreeEmpty, nodes, Bounds
<1>2. PICK lo, hi, V : InTree(lo, hi, V)
  BY <1>1 DEF IInv, Clearing
<1>3. TypeOK /\ Kept /\ (\A k \in Keys : k < hi[Tree])
  BY <1>2 DEF IInv, InTree
<1>4. /\ Shape(link, Hung, lo, hi) /\ Even(link, avltFlg, Hung, V, Hole, Delta)
      /\ Chain(link, Hung, lo, hi, stack) /\ Delta = 0 /\ Delta' = 0 /\ Hung' = Hung
      /\ Hole' = Hole /\ Top' = Top
  BY <1>1, <1>2 DEF InTree, Delta, Hung, Hole, Top
<1>5. Top \in Live(Hung) /\ stack # <<>>
  BY <1>1, <1>3, <1>4 DEF Chain, Top, Kept
<1>6. Hung = used
  <2>1. q = NULL /\ NULL \notin used
    BY <1>1, <1>3, KeysAssumption DEF Kept, TypeOK, NULL
  <2> QED  BY <2>1 DEF Hung
<1>7. phase = "DeleteNode" => elem \in Keys \ used
  <2>1. ASSUME phase = "DeleteNode"
        PROVE  elem \in Keys \ used
    <3>1. elem \in Keys /\ Inside(lo, hi, Top, elem)
      BY <1>2, <2>1 DEF InTree
    <3>2. \A z \in Hung : ~Inside(lo, hi, Top, z)
      BY <1>1, <1>4, <1>5, <2>1 DEF Shape, Hanging, Inside
    <3> QED  BY <1>6, <3>1, <3>2
  <2> QED  BY <2>1
<1>8. phase = "DoElement" => \A z \in used : HandedOver(z) <=> z < High(hi, Top)
  <2>1. ASSUME phase = "DoElement", NEW z \in used
        PROVE  HandedOver(z) <=> z < High(hi, Top)
    <3>1. HandedOver(z) <=> z <= Low(lo, Top)
      BY <1>2, <2>1 DEF InTree
    <3>2. ~(Low(lo, Top) < z /\ z < High(hi, Top))
      BY <1>1, <1>4, <1>5, <1>6, <2>1 DEF Shape, Hanging
    <3>3. Low(lo, Top) \in Int /\ High(hi, Top) \in Int /\ Low(lo, Top) < High(hi, Top) /\ z \in Int
      BY <1>4, <1>5, <1>6, PlaceFacts
    <3> QED  BY <3>1, <3>2, <3>3
  <2> QED  BY <2>1
<1>9. InTree(lo, hi, V)'
  BY <1>1, <1>3, <1>4, <1>5, <1>8 DEF InTree, HandedOver
<1>10. Kept'
  BY <1>1, <1>3, <1>5, <1>7 DEF Kept
<1>11. TypeOK'
  BY <1>1, <1>3 DEF TypeOK
<1> QED  BY <1>1, <1>9, <1>10, <1>11 DEF IInv, Clearing

\* The walk hands over a node after its left subtree, and before its right one.
LEMMA WalkNodeInv == IInv /\ DoElementNode => IInv'
<1> SUFFICES ASSUME IInv, DoElementNode
             PROVE  IInv'
  OBVIOUS
<1>1. PICK n : n = Top[1]
  OBVIOUS
<1>2. /\ phase = "done" /\ Len(stack) > 1 /\ Top[2] = L /\ phase' = "DoElement"
      /\ seen' = Append(seen, n) /\ stack' = Turned(stack)
      /\ UNCHANGED <<link, avltFlg, used, elem, ret, q, answer, load, more>>
  BY <1>1 DEF DoElementNode, nodes, Bounds
<1>3. PICK lo, hi, V : InTree(lo, hi, V)
  BY <1>2 DEF IInv, Clearing
<1>4. /\ TypeOK /\ Kept /\ \A k \in Keys : k < hi[Tree]
      /\ \A z \in used : HandedOver(z) <=> z < High(hi, Top)
      /\ Shape(link, Hung, lo, hi) /\ Even(link, avltFlg, Hung, V, Hole, Delta)
      /\ Chain(link, Hung, lo, hi, stack) /\ Delta = 0 /\ Delta' = 0 /\ Hung' = Hung
  BY <1>2, <1>3 DEF IInv, InTree, Delta, Hung
<1>5. /\ Chain(link, Hung, lo, hi, Turned(stack)) /\ Len(Turned(stack)) = Len(stack)
      /\ \A i \in 1 .. Len(stack) - 1 : Turned(stack)[i] = stack[i]
      /\ Turned(stack)[Len(stack)] = <<stack[Len(stack)][1], R>>
  BY <1>2, <1>4, ChainTurned
<1>6. /\ Top' = <<n, R>> /\ Hole' = <<n, R>> /\ stack' # <<>> /\ stack'[1] = stack[1] /\ stack' \in Seq(Places)
      /\ Top \in Live(Hung) /\ Top = <<n, L>> /\ n \in Hung
  <2>1. Len(stack) \in Nat /\ stack \in Seq(Places) /\ Top \in Live(Hung) /\ Turned(stack) \in Seq(Places)
    BY <1>4, <1>5 DEF Chain, Top
  <2>2. Top' = <<n, R>>
    BY <1>1, <1>2, <1>5 DEF Top
  <2>3. stack' # <<>> /\ stack'[1] = stack[1]
    BY <1>2, <1>5, <2>1
  <2>4. Top = <<n, L>> /\ n \in Hung
    BY <1>1, <1>2, <2>1 DEF Live, Root, Sides, L, R
  <2> QED  BY <1>2, <2>1, <2>2, <2>3, <2>4 DEF Hole
<1>7. n \in used /\ n \in Keys /\ used \subseteq Int
  BY <1>4, <1>6, KeysAssumption DEF Hung, TypeOK
<1>8. /\ seen \in Seq(Keys) /\ seen' \in Seq(Keys) /\ Len(seen') = Len(seen) + 1 /\ seen'[Len(seen) + 1] = n
      /\ Len(seen) \in Nat /\ \A i \in 1 .. Len(seen) : seen'[i] = seen[i]
  <2>1. seen \in Seq(Keys)
    BY <1>4 DEF TypeOK
  <2> QED  BY <1>2, <1>7, <2>1, AppendProperties
<1>9. \A z \in used : HandedOver(z)' <=> HandedOver(z) \/ z = n
  <2>1. ASSUME NEW z \in used
        PROVE  HandedOver(z)' <=> HandedOver(z) \/ z = n
    <3>1. 1 .. Len(seen') = 1 .. Len(seen) \cup {Len(seen) + 1}
      BY <1>8
    <3> QED  BY <1>8, <3>1 DEF HandedOver
  <2> QED  BY <2>1
<1>10. \A z \in used' : HandedOver(z)' <=> z <= Low(lo, Top')
  BY <1>2, <1>4, <1>6, <1>7, <1>9 DEF Low, High, L, R
<1>11. Even(link, avltFlg, Hung, V, <<n, R>>, 0)
  BY <1>4, EvenAnywhere
<1>12. InTree(lo, hi, V)'
  BY <1>2, <1>4, <1>5, <1>6, <1>10, <1>11 DEF InTree
<1>13. /\ \A i \in 1 .. Len(seen') : seen'[i] \in used'
       /\ \A i \in 1 .. Len(seen'), j \in 1 .. Len(seen') : i < j => seen'[i] < seen'[j]
  <2>1. /\ \A i \in 1 .. Len(seen) : seen[i] \in used /\ seen[i] < n
        /\ \A i \in 1 .. Len(seen), j \in 1 .. Len(seen) : i < j => seen[i] < seen[j]
    BY <1>4, <1>6 DEF Kept, HandedOver, High
  <2>2. \A i \in 1 .. Len(seen') : i \in 1 .. Len(seen) \/ i = Len(seen) + 1
    BY <1>8
  <2> QED  BY <1>2, <1>7, <1>8, <2>1, <2>2
<1>14. Kept'
  BY <1>2, <1>4, <1>6, <1>13 DEF Kept
<1>15. TypeOK'
  BY <1>2, <1>4, <1>6, <1>8 DEF TypeOK
<1> QED  BY <1>2, <1>12, <1>14, <1>15 DEF IInv, Clearing

\* The walk of a right subtree returns: all up to the caller's end is handed over.
LEMMA WalkReturnInv == IInv /\ DoElementReturn => IInv'
<1> SUFFICES ASSUME IInv, DoElementReturn
             PROVE  IInv'
  OBVIOUS
<1>1. PICK n : n = Top[1]
  OBVIOUS
<1>2. /\ phase = "done" /\ Len(stack) > 1 /\ Top[2] = R /\ phase' = phase /\ stack' = PopTo(stack)
      /\ UNCHANGED <<link, avltFlg, used, elem, ret, q, seen, answer, load, more>>
  BY <1>1 DEF DoElementReturn, nodes, Bounds
<1>3. PICK lo, hi, V : InTree(lo, hi, V)
  BY <1>2 DEF IInv, Clearing
<1>4. /\ TypeOK /\ Kept /\ \A k \in Keys : k < hi[Tree]
      /\ \A z \in used : HandedOver(z) <=> z < High(hi, Top)
      /\ Shape(link, Hung, lo, hi) /\ Even(link, avltFlg, Hung, V, Hole, Delta)
      /\ Chain(link, Hung, lo, hi, stack) /\ Delta = 0 /\ Delta' = 0 /\ Hung' = Hung
  BY <1>2, <1>3 DEF IInv, InTree, Delta, Hung
<1>5. /\ Chain(link, Hung, lo, hi, stack') /\ Len(stack') = Len(stack) - 1 /\ Len(stack) \in Nat
      /\ \A i \in 1 .. Len(stack) - 1 : stack'[i] = stack[i]
      /\ Caller \in Live(Hung) /\ link[Caller] = n /\ Top \in Live(Hung) /\ n \in Hung
  BY <1>1, <1>2, <1>4, ChainPop DEF Caller, Top
<1>6. /\ Top' = Caller /\ Hole' = Caller /\ stack' # <<>> /\ stack'[1] = stack[1] /\ stack' \in Seq(Places)
      /\ Top = <<n, R>>
  <2>1. stack' \in Seq(Places) /\ stack' # <<>> /\ stack'[1] = stack[1]
    BY <1>2, <1>5 DEF Chain
  <2>2. Top' = Caller
    BY <1>2, <1>5 DEF Top, Caller
  <2>3. Top = <<n, R>>
    BY <1>1, <1>2, <1>5 DEF Live, Root, Sides, L, R
  <2> QED  BY <2>1, <2>2, <2>3 DEF Hole
<1>7. n # NULL /\ hi[n] = High(hi, Caller)
  BY <1>4, <1>5, PlaceFacts
<1>8. \A z \in used' : HandedOver(z)' <=> z < High(hi, Top')
  BY <1>2, <1>4, <1>6, <1>7 DEF High, HandedOver, L, R
<1>9. Even(link, avltFlg, Hung, V, Caller, 0)
  BY <1>4, EvenAnywhere
<1>10. InTree(lo, hi, V)'
  BY <1>2, <1>4, <1>5, <1>6, <1>8, <1>9 DEF InTree
<1>11. Kept'
  BY <1>2, <1>4, <1>6 DEF Kept
<1>12. TypeOK'
  BY <1>2, <1>4, <1>6 DEF TypeOK
<1> QED  BY <1>2, <1>10, <1>11, <1>12 DEF IInv, Clearing

\* No change below a place moves the end of the tree.
LEMMA RelinkedRoot ==
  ASSUME NEW lk, NEW u, NEW lo, NEW hi, Shape(lk, u, lo, hi), NEW pp \in Live(u),
         NEW lk2, NEW u2, NEW lo2, NEW hi2, Relinked(lk, u, lo, hi, lk2, u2, lo2, hi2, pp)
  PROVE  hi2[Tree] = hi[Tree]
<1>1. Low(lo, pp) \in u \cup {Tree}
  BY PlaceFacts
<1>2. Tree \in u \cup {Tree} /\ Tree \in Int
  BY DEF Tree
<1>3. Low(lo, pp) \in Int /\ Tree <= Low(lo, pp)
  BY <1>1, NodeFacts
<1>4. ~Inside(lo, hi, pp, Tree)
  BY <1>2, <1>3 DEF Inside
<1>5. Root \in Live(u) /\ Root[1] = Tree
  BY DEF Live, Root, Tree
<1>6. High(hi2, Root) = High(hi, Root)
  BY <1>4, <1>5 DEF Relinked, Outside
<1> QED  BY <1>6 DEF High, Root, Tree, L, R

\* The outermost call returns: whatever it told of the height, no node above
\* the root has to know.
LEMMA AnsweredInv ==
  IInv /\ (TREE_InsertReturn \/ TREE_SearchReturn \/ TREE_DeleteReturn \/ TREE_DoAllReturn) => IInv'
<1> SUFFICES ASSUME IInv, TREE_InsertReturn \/ TREE_SearchReturn \/ TREE_DeleteReturn \/ TREE_DoAllReturn
             PROVE  IInv'
  OBVIOUS
<1>1. /\ phase \in {"inserted", "TREE_Search", "deleted", "done"}
      /\ phase # "TREE_Search" => Len(stack) = 1
      /\ phase' = "none" /\ stack' = <<>> /\ elem' = NULL /\ ret' = 0 /\ seen' = <<>>
      /\ UNCHANGED <<link, avltFlg, used, q, load, more>>
      /\ answer' \in {answer, "found", "absent", "deleted"}
  BY DEF TREE_InsertReturn, TREE_SearchReturn, TREE_DeleteReturn, TREE_DoAllReturn, Answer, nodes, Bounds
<1>2. PICK lo, hi, V : InTree(lo, hi, V)
  BY <1>1 DEF IInv, Clearing
<1>3. TypeOK /\ Kept /\ (\A k \in Keys : k < hi[Tree])
  BY <1>2 DEF IInv, InTree
<1>4. /\ Shape(link, Hung, lo, hi) /\ Even(link, avltFlg, Hung, V, Hole, Delta) /\ Hung' = Hung
  BY <1>1, <1>2 DEF InTree, Hung
<1>5. Delta = 0 \/ Hole = Root
  BY <1>1, <1>3 DEF Delta, Hole, Top, Kept
<1>6. Hole' = Root /\ Delta' = 0
  BY <1>1 DEF Hole, Delta
<1>7. Even(link, avltFlg, Hung, V, Hole, Delta)'
  <2>1. Even(link, avltFlg, Hung, V, Root, 0)
    BY <1>4, <1>5, EvenAnywhere
  <2> QED  BY <1>1, <1>4, <1>6, <2>1
<1>8. InTree(lo, hi, V)'
  BY <1>1, <1>3, <1>4, <1>7 DEF InTree
<1>9. Kept'
  BY <1>1, <1>3 DEF Kept
<1>10. TypeOK'
  BY <1>1, <1>3 DEF TypeOK
<1> QED  BY <1>1, <1>8, <1>9, <1>10 DEF IInv, Clearing

\* The new leaf hangs where the search for it ended.
LEMMA InsertNewInv == IInv /\ insNodeNew => IInv'
<1> SUFFICES ASSUME IInv, insNodeNew
             PROVE  IInv'
  OBVIOUS
<1>1. /\ phase = "insNode" /\ link[Top] = NULL /\ link' = [link EXCEPT ![Top] = elem] /\ used' = used \cup {elem}
      /\ phase' = "inserted" /\ ret' = 1 /\ answer' = "new"
      /\ UNCHANGED <<avltFlg, stack, elem, q, seen, load, more>>
  BY DEF insNodeNew, Bounds
<1>2. PICK lo, hi, V : InTree(lo, hi, V)
  BY <1>1 DEF IInv, Clearing
<1>3. /\ TypeOK /\ Kept /\ (\A k \in Keys : k < hi[Tree]) /\ elem \in Keys /\ Inside(lo, hi, Top, elem)
      /\ Shape(link, Hung, lo, hi) /\ Even(link, avltFlg, Hung, V, Hole, Delta) /\ Delta = 0
      /\ Chain(link, Hung, lo, hi, stack) /\ q = NULL
  BY <1>1, <1>2 DEF IInv, InTree, Kept, Delta
<1>4. /\ Hung = used /\ Hung' = used' /\ Hole' = Top /\ Top' = Top /\ Delta' = 1 /\ stack # <<>>
      /\ Top \in Live(Hung) /\ Top \in Places
  <2>1. NULL \notin used /\ NULL \notin used'
    BY <1>1, <1>3, KeysAssumption DEF TypeOK, NULL
  <2>2. Top \in Live(Hung) /\ stack # <<>>
    BY <1>1, <1>3 DEF Chain, Top, Kept
  <2>3. Top \in Places
    BY <1>3, <2>2, PlaceFacts
  <2> QED  BY <1>1, <1>3, <2>1, <2>2, <2>3 DEF Hung, Hole, Top, Delta
<1>5. elem \notin Hung
  <2>1. \A z \in Hung : ~Inside(lo, hi, Top, z)
    BY <1>1, <1>3, <1>4 DEF Shape, Hanging, Inside
  <2> QED  BY <1>3, <2>1
<1>6. avltFlg[elem] = 0 /\ \A d \in Sides : link[<<elem, d>>] = NULL
  BY <1>3, <1>4, <1>5 DEF Kept
<1>7. PICK lo2, hi2 : Relinked(link, Hung, lo, hi, link', Hung', lo2, hi2, Top)
  BY <1>1, <1>3, <1>4, <1>6, AttachRelinked
<1>8. Shape(link', Hung', lo2, hi2) /\ Chain(link', Hung', lo2, hi2, stack)
  BY <1>3, <1>7, ChainKept DEF Relinked, Top
<1>9. hi2[Tree] = hi[Tree]
  BY <1>3, <1>4, <1>7, RelinkedRoot
<1>10. PICK V2 : V2 = [V EXCEPT ![elem] = 1]
  OBVIOUS
<1>11. Even(link', avltFlg, Hung', V2, Top, 1)
  <2>1. Even(link, avltFlg, Hung, V, Root, 0)
    BY <1>3, EvenAnywhere
  <2>2. elem \in Keys \ Hung
    BY <1>3, <1>5
  <2> QED  BY <1>1, <1>3, <1>4, <1>6, <1>10, <2>1, <2>2, AttachEven
<1>12. link'[Top'] # NULL /\ V2[link'[Top']] = 1
  <2>1. elem # NULL /\ V2[elem] = 1 /\ link'[Top] = elem
    BY <1>1, <1>3, <1>4, <1>10, KeysAssumption DEF NULL, Even, TypeOK
  <2> QED  BY <1>4, <2>1
<1>13. InTree(lo2, hi2, V2)'
  BY <1>1, <1>3, <1>4, <1>8, <1>9, <1>11, <1>12 DEF InTree
<1>14. Kept'
  <2>1. \A n \in Keys \ used' : avltFlg'[n] = 0 /\ \A d \in Sides : link'[<<n, d>>] = NULL
    <3>1. \A n \in Keys \ used', d \in Sides : <<n, d>> # Top /\ <<n, d>> \in Places
      BY <1>1, <1>4, KeysAssumption DEF Live, Root, Sides, Places
    <3> QED  BY <1>1, <1>3, <3>1 DEF Kept, TypeOK
  <2> QED  BY <1>1, <1>3, <2>1 DEF Kept
<1>15. TypeOK'
  <2>1. link' \in [Places -> Keys \cup {NULL}] /\ used' \subseteq Keys
    BY <1>1, <1>3, <1>8 DEF Shape, TypeOK
  <2> QED  BY <1>1, <1>3, <2>1 DEF TypeOK
<1> QED  BY <1>1, <1>13, <1>14, <1>15 DEF IInv, Clearing

\* The last call returns to its caller.
LEMMA Popped ==
  ASSUME NEW lo, NEW hi, Shape(link, Hung, lo, hi), Chain(link, Hung, lo, hi, stack),
         Len(stack) > 1, stack' = PopTo(stack)
  PROVE  /\ Chain(link, Hung, lo, hi, stack') /\ Len(stack) \in Nat /\ Len(stack') = Len(stack) - 1
         /\ \A i \in 1 .. Len(stack) - 1 : stack'[i] = stack[i]
         /\ Caller \in Live(Hung) /\ link[Caller] = Top[1] /\ stack'[Len(stack')] = Caller
         /\ Top[1] \in Hung /\ Top[1] # NULL /\ Top = <<Top[1], Top[2]>> /\ Top[2] \in Sides
         /\ Top' = Caller /\ Hole' = Caller /\ stack' # <<>> /\ stack'[1] = stack[1] /\ stack' \in Seq(Places)
<1>1. /\ Chain(link, Hung, lo, hi, stack') /\ Len(stack) \in Nat /\ Len(stack') = Len(stack) - 1
      /\ \A i \in 1 .. Len(stack) - 1 : stack'[i] = stack[i]
      /\ Caller \in Live(Hung) /\ link[Caller] = Top[1] /\ Top \in Live(Hung) /\ Top[1] \in Hung
  BY ChainPop DEF Caller, Top
<1>2. stack' \in Seq(Places) /\ stack' # <<>> /\ stack'[1] = stack[1]
  BY <1>1 DEF Chain
<1>3. Top' = Caller /\ stack'[Len(stack')] = Caller
  BY <1>1 DEF Top, Caller
<1>4. Top = <<Top[1], Top[2]>> /\ Top[2] \in Sides
  BY <1>1 DEF Live, Root, Sides
<1>5. Top[1] # NULL
  BY <1>1, PlaceFacts
<1> QED  BY <1>1, <1>2, <1>3, <1>4, <1>5 DEF Hole

\* A chain of calls that ends at the place pp.
EndsAt(lk, u, lo, hi, st, pp) ==
  /\ Shape(lk, u, lo, hi) /\ (\A k \in Keys : k < hi[Tree]) /\ Chain(lk, u, lo, hi, st) /\ pp = st[Len(st)]

\* What a rebalancing at the last place of a chain leaves.
LEMMA RebalancedChain ==
  ASSUME NEW lk, NEW flg, NEW u, NEW lo, NEW hi, NEW st, NEW pp, EndsAt(lk, u, lo, hi, st, pp),
         NEW r, NEW delta, Rebalanced(lk, flg, u, lo, hi, r, pp, delta)
  PROVE  /\ \E lo2, hi2, V2 :
              /\ Shape(r.link, u, lo2, hi2) /\ (\A k \in Keys : k < hi2[Tree])
              /\ Chain(r.link, u, lo2, hi2, st) /\ Even(r.link, r.flg, u, V2, pp, delta)
         /\ \A n \in Keys \ u : r.flg[n] = flg[n] /\ \A d \in Sides : r.link[<<n, d>>] = lk[<<n, d>>]
         /\ r.link \in [Places -> Keys \cup {NULL}] /\ r.flg \in [Keys -> 0 .. 2]
<1>1. PICK lo2, hi2, V2 : Relinked(lk, u, lo, hi, r.link, u, lo2, hi2, pp) /\ Even(r.link, r.flg, u, V2, pp, delta)
  BY DEF Rebalanced
<1>0. /\ Shape(lk, u, lo, hi) /\ (\A k \in Keys : k < hi[Tree]) /\ Chain(lk, u, lo, hi, st) /\ pp = st[Len(st)]
  BY DEF EndsAt
<1>2. pp \in Live(u)
  BY <1>0 DEF Chain
<1>3. Chain(r.link, u, lo2, hi2, st)
  BY <1>0, <1>1, ChainKept
<1>4. hi2[Tree] = hi[Tree]
  BY <1>0, <1>1, <1>2, RelinkedRoot
<1>5. Shape(r.link, u, lo2, hi2) /\ \A n \in Keys \ u, d \in Sides : r.link[<<n, d>>] = lk[<<n, d>>]
  BY <1>1 DEF Relinked
<1> QED  BY <1>0, <1>1, <1>3, <1>4, <1>5 DEF Rebalanced, Shape

\* An insertion returns one level up, which tells whether that subtree has grown.
LEMMA InsertReturnInv == IInv /\ insNodeReturn => IInv'
<1> SUFFICES ASSUME IInv, insNodeReturn
             PROVE  IInv'
  OBVIOUS
<1>1. /\ phase = "inserted" /\ Len(stack) > 1 /\ stack' = PopTo(stack)
      /\ UNCHANGED <<used, phase, elem, q, seen, answer, load, more>>
  BY DEF insNodeReturn, Bounds
<1>2. PICK lo, hi, V : InTree(lo, hi, V)
  BY <1>1 DEF IInv, Clearing
<1>3. /\ TypeOK /\ Kept /\ (\A k \in Keys : k < hi[Tree])
      /\ Shape(link, Hung, lo, hi) /\ Even(link, avltFlg, Hung, V, Top, ret)
      /\ Chain(link, Hung, lo, hi, stack) /\ q = NULL /\ Hung' = Hung
      /\ (ret = 1 => link[Top] # NULL /\ (avltFlg[link[Top]] # 0 \/ V[link[Top]] = 1))
  <2>1. stack # <<>>
    BY <1>1 DEF IInv, Kept
  <2> QED  BY <1>1, <1>2, <2>1 DEF IInv, InTree, Kept, Delta, Hole, Hung
<1>4. /\ Chain(link, Hung, lo, hi, stack') /\ Len(stack) \in Nat /\ Len(stack') = Len(stack) - 1
      /\ Caller \in Live(Hung) /\ link[Caller] = Top[1] /\ stack'[Len(stack')] = Caller
      /\ Top[1] \in Hung /\ Top[1] # NULL /\ Top = <<Top[1], Top[2]>> /\ Top[2] \in Sides
      /\ Top' = Caller /\ Hole' = Caller /\ stack' # <<>> /\ stack'[1] = stack[1] /\ stack' \in Seq(Places)
  BY <1>1, <1>3, Popped
<1>5. Hung = used
  BY <1>3, KeysAssumption DEF Hung, TypeOK, NULL
<1>6. Delta' = ret'
  BY <1>1 DEF Delta
<1>7. CASE ret = 1
  <2>1. PICK r : r = insRebalance(link, avltFlg, Caller, Top[2])
    OBVIOUS
  <2>2. link' = r.link /\ avltFlg' = r.flg /\ ret' = r.ret
    BY <1>1, <1>7, <2>1 DEF insNodeReturn, Settle
  <2>3. PICK a : a = link[Caller] /\ a # NULL
    BY <1>4
  <2>4. PICK dir \in Sides : dir = Top[2] /\ Top = <<a, dir>>
    BY <1>4, <2>3
  <2>5. PICK b : b = link[<<a, dir>>] /\ b # NULL /\ (avltFlg[b] # 0 \/ V[b] = 1)
    BY <1>3, <1>7, <2>4
  <2>6. Even(link, avltFlg, Hung, V, <<a, dir>>, 1) /\ r = insRebalance(link, avltFlg, Caller, dir)
    BY <1>3, <1>7, <2>1, <2>4
  <2>7. /\ r.ret \in {0, 1} /\ Rebalanced(link, avltFlg, Hung, lo, hi, r, Caller, r.ret)
        /\ r.ret = 1 => r.link = link /\ r.flg[a] # 0
    <3>1. InsFits(link, avltFlg, Hung, lo, hi, V, Caller, dir, a, b, r)
      BY <1>3, <1>4, <2>3, <2>5, <2>6 DEF InsFits
    <3> QED  BY ONLY <3>1, InsRebalanced
  <2>8. /\ \E lo2, hi2, V2 :
              /\ Shape(r.link, Hung, lo2, hi2) /\ (\A k \in Keys : k < hi2[Tree])
              /\ Chain(r.link, Hung, lo2, hi2, stack') /\ Even(r.link, r.flg, Hung, V2, Caller, r.ret)
        /\ \A n \in Keys \ Hung : r.flg[n] = avltFlg[n] /\ \A d \in Sides : r.link[<<n, d>>] = link[<<n, d>>]
        /\ r.link \in [Places -> Keys \cup {NULL}] /\ r.flg \in [Keys -> 0 .. 2]
    <3>1. EndsAt(link, Hung, lo, hi, stack', Caller)
      BY <1>3, <1>4 DEF EndsAt
    <3> QED  BY ONLY <2>7, <3>1, RebalancedChain
  <2>9. PICK lo2, hi2, V2 :
              /\ Shape(link', Hung', lo2, hi2) /\ (\A k \in Keys : k < hi2[Tree])
              /\ Chain(link', Hung', lo2, hi2, stack') /\ Even(link', avltFlg', Hung', V2, Caller, ret')
    BY <1>3, <2>2, <2>8
  <2>10. ret' = 1 => link'[Top'] # NULL /\ avltFlg'[link'[Top']] # 0
    BY <1>4, <2>2, <2>3, <2>7
  <2>11. InTree(lo2, hi2, V2)'
    BY <1>1, <1>4, <1>6, <2>9, <2>10 DEF InTree
  <2>12. Kept'
    BY <1>1, <1>3, <1>4, <1>5, <2>2, <2>7, <2>8 DEF Kept
  <2>13. TypeOK'
    BY <1>1, <1>3, <1>4, <2>2, <2>7, <2>8 DEF TypeOK
  <2> QED  BY <1>1, <2>11, <2>12, <2>13 DEF IInv, Clearing
<1>8. CASE ret # 1
  <2>1. ret = 0
    BY <1>1, <1>3, <1>8 DEF TypeOK, Kept
  <2>2. link' = link /\ avltFlg' = avltFlg /\ ret' = 0
    BY <1>1, <1>8 DEF insNodeReturn, Settled
  <2>3. Even(link, avltFlg, Hung, V, Caller, 0)
    BY <1>3, <2>1, EvenAnywhere
  <2>4. InTree(lo, hi, V)'
    BY <1>1, <1>3, <1>4, <1>6, <2>2, <2>3 DEF InTree
  <2>5. Kept'
    BY <1>1, <1>3, <1>4, <2>2 DEF Kept
  <2>6. TypeOK'
    BY <1>1, <1>3, <1>4, <2>2 DEF TypeOK
  <2> QED  BY <1>1, <2>4, <2>5, <2>6 DEF IInv, Clearing
<1> QED  BY <1>7, <1>8

\* What delRebalance needs: the subtree on side dir has shrunk.
DelFits(lk, flg, u, lo, hi, V, st, pp, dir, a, r) ==
  /\ Shape(lk, u, lo, hi) /\ (\A k \in Keys : k < hi[Tree]) /\ Chain(lk, u, lo, hi, st) /\ pp = st[Len(st)]
  /\ dir \in Sides /\ a = lk[pp] /\ a # NULL /\ Even(lk, flg, u, V, <<a, dir>>, -1)
  /\ r = delRebalance(lk, flg, pp, dir)

\* What delRebalance leaves at the last place of a chain.
LEMMA DelChain ==
  ASSUME NEW lk, NEW flg, NEW u, NEW lo, NEW hi, NEW V, NEW st, NEW pp, NEW dir, NEW a, NEW r,
         DelFits(lk, flg, u, lo, hi, V, st, pp, dir, a, r)
  PROVE  /\ r.ret \in {0, 1}
         /\ \E lo2, hi2, V2 :
              /\ Shape(r.link, u, lo2, hi2) /\ (\A k \in Keys : k < hi2[Tree])
              /\ Chain(r.link, u, lo2, hi2, st) /\ Even(r.link, r.flg, u, V2, pp, IF r.ret = 1 THEN -1 ELSE 0)
         /\ \A n \in Keys \ u : r.flg[n] = flg[n] /\ \A d \in Sides : r.link[<<n, d>>] = lk[<<n, d>>]
         /\ r.link \in [Places -> Keys \cup {NULL}] /\ r.flg \in [Keys -> 0 .. 2]
<1>1. /\ Shape(lk, u, lo, hi) /\ (\A k \in Keys : k < hi[Tree]) /\ Chain(lk, u, lo, hi, st) /\ pp = st[Len(st)]
      /\ dir \in Sides /\ a = lk[pp] /\ a # NULL /\ Even(lk, flg, u, V, <<a, dir>>, -1)
      /\ r = delRebalance(lk, flg, pp, dir)
  BY DEF DelFits
<1>2. pp \in Live(u)
  BY <1>1 DEF Chain
<1>3. \/ r.ret = 0 /\ Rebalanced(lk, flg, u, lo, hi, r, pp, 0)
      \/ r.ret = 1 /\ Rebalanced(lk, flg, u, lo, hi, r, pp, -1)
  BY ONLY <1>1, <1>2, DelRebalanced
<1>4. PICK delta : delta = (IF r.ret = 1 THEN -1 ELSE 0) /\ Rebalanced(lk, flg, u, lo, hi, r, pp, delta)
  BY <1>3
<1>5. /\ \E lo2, hi2, V2 :
           /\ Shape(r.link, u, lo2, hi2) /\ (\A k \in Keys : k < hi2[Tree])
           /\ Chain(r.link, u, lo2, hi2, st) /\ Even(r.link, r.flg, u, V2, pp, delta)
      /\ \A n \in Keys \ u : r.flg[n] = flg[n] /\ \A d \in Sides : r.link[<<n, d>>] = lk[<<n, d>>]
      /\ r.link \in [Places -> Keys \cup {NULL}] /\ r.flg \in [Keys -> 0 .. 2]
  <2>1. EndsAt(lk, u, lo, hi, st, pp)
    BY <1>1 DEF EndsAt
  <2>2. Rebalanced(lk, flg, u, lo, hi, r, pp, delta)
    BY <1>4
  <2> QED  BY ONLY <2>1, <2>2, RebalancedChain
<1> QED  BY <1>3, <1>4, <1>5

\* A deletion returns one level up, which tells whether that subtree has shrunk.
LEMMA DeleteReturnInv == IInv /\ DeleteNodeReturn => IInv'
<1> SUFFICES ASSUME IInv, DeleteNodeReturn
             PROVE  IInv'
  OBVIOUS
<1>1. /\ phase = "deleted" /\ Len(stack) > 1 /\ stack' = PopTo(stack)
      /\ UNCHANGED <<used, phase, elem, q, seen, answer, load, more>>
  BY DEF DeleteNodeReturn, Bounds
<1>2. PICK lo, hi, V : InTree(lo, hi, V)
  BY <1>1 DEF IInv, Clearing
<1>3. /\ TypeOK /\ Kept /\ (\A k \in Keys : k < hi[Tree])
      /\ Shape(link, Hung, lo, hi) /\ Even(link, avltFlg, Hung, V, Top, IF ret = 1 THEN -1 ELSE 0)
      /\ Chain(link, Hung, lo, hi, stack) /\ q = NULL /\ Hung' = Hung
  <2>1. stack # <<>>
    BY <1>1 DEF IInv, Kept
  <2> QED  BY <1>1, <1>2, <2>1 DEF IInv, InTree, Kept, Delta, Hole, Hung
<1>4. /\ Chain(link, Hung, lo, hi, stack') /\ Len(stack) \in Nat /\ Len(stack') = Len(stack) - 1
      /\ Caller \in Live(Hung) /\ link[Caller] = Top[1] /\ stack'[Len(stack')] = Caller
      /\ Top[1] \in Hung /\ Top[1] # NULL /\ Top = <<Top[1], Top[2]>> /\ Top[2] \in Sides
      /\ Top' = Caller /\ Hole' = Caller /\ stack' # <<>> /\ stack'[1] = stack[1] /\ stack' \in Seq(Places)
  BY <1>1, <1>3, Popped
<1>5. Hung = used
  BY <1>3, KeysAssumption DEF Hung, TypeOK, NULL
<1>6. Delta' = IF ret' = 1 THEN -1 ELSE 0
  BY <1>1 DEF Delta
<1>7. CASE ret = 1
  <2>1. PICK r : r = delRebalance(link, avltFlg, Caller, Top[2])
    OBVIOUS
  <2>2. link' = r.link /\ avltFlg' = r.flg /\ ret' = r.ret
    BY <1>1, <1>7, <2>1 DEF DeleteNodeReturn, Settle
  <2>3. DelFits(link, avltFlg, Hung, lo, hi, V, stack', Caller, Top[2], Top[1], r)
    BY <1>3, <1>4, <1>7, <2>1 DEF DelFits
  <2>4. /\ r.ret \in {0, 1}
        /\ \E lo2, hi2, V2 :
              /\ Shape(r.link, Hung, lo2, hi2) /\ (\A k \in Keys : k < hi2[Tree])
              /\ Chain(r.link, Hung, lo2, hi2, stack')
              /\ Even(r.link, r.flg, Hung, V2, Caller, IF r.ret = 1 THEN -1 ELSE 0)
        /\ \A n \in Keys \ Hung : r.flg[n] = avltFlg[n] /\ \A d \in Sides : r.link[<<n, d>>] = link[<<n, d>>]
        /\ r.link \in [Places -> Keys \cup {NULL}] /\ r.flg \in [Keys -> 0 .. 2]
    BY ONLY <2>3, DelChain
  <2>5. PICK lo2, hi2, V2 :
              /\ Shape(link', Hung', lo2, hi2) /\ (\A k \in Keys : k < hi2[Tree])
              /\ Chain(link', Hung', lo2, hi2, stack')
              /\ Even(link', avltFlg', Hung', V2, Caller, IF r.ret = 1 THEN -1 ELSE 0)
    BY <1>3, <2>2, <2>4
  <2>6. InTree(lo2, hi2, V2)'
    BY <1>1, <1>4, <1>6, <2>2, <2>5 DEF InTree
  <2>7. Kept'
    BY <1>1, <1>3, <1>4, <1>5, <2>2, <2>4 DEF Kept
  <2>8. TypeOK'
    BY <1>1, <1>3, <1>4, <2>2, <2>4 DEF TypeOK
  <2> QED  BY <1>1, <2>6, <2>7, <2>8 DEF IInv, Clearing
<1>8. CASE ret # 1
  <2>1. link' = link /\ avltFlg' = avltFlg /\ ret' = ret
    BY <1>1, <1>8 DEF DeleteNodeReturn
  <2>2. Even(link, avltFlg, Hung, V, Caller, 0)
    BY <1>3, <1>8, EvenAnywhere
  <2>3. InTree(lo, hi, V)'
    BY <1>1, <1>3, <1>4, <1>6, <1>8, <2>1, <2>2 DEF InTree
  <2>4. Kept'
    BY <1>1, <1>3, <1>4, <2>1 DEF Kept
  <2>5. TypeOK'
    BY <1>1, <1>3, <1>4, <2>1 DEF TypeOK
  <2> QED  BY <1>1, <2>3, <2>4, <2>5 DEF IInv, Clearing
<1> QED  BY <1>7, <1>8

\* What it needs to take out a node with one subtree at the end of a chain.
SpliceFits(lk, flg, u, lo, hi, V, hole, st, pp, p, side, lk2, flg2) ==
  /\ Shape(lk, u, lo, hi) /\ (\A k \in Keys : k < hi[Tree]) /\ Even(lk, flg, u, V, hole, 0)
  /\ Chain(lk, u, lo, hi, st) /\ pp = st[Len(st)] /\ side \in Sides /\ Spliced(lk, u, lk2, pp, p, side)
  /\ flg2 \in [Keys -> 0 .. 2] /\ \A n \in u \ {p} : flg2[n] = flg[n]

\* What it leaves to take out a node with one subtree at the last place of a chain.
LEMMA SplicedChain ==
  ASSUME NEW lk, NEW flg, NEW u, NEW lo, NEW hi, NEW V, NEW hole, NEW st, NEW pp, NEW p, NEW side,
         NEW lk2, NEW flg2, SpliceFits(lk, flg, u, lo, hi, V, hole, st, pp, p, side, lk2, flg2)
  PROVE  \E lo2, hi2 :
           /\ Shape(lk2, u \ {p}, lo2, hi2) /\ (\A k \in Keys : k < hi2[Tree])
           /\ Chain(lk2, u \ {p}, lo2, hi2, st) /\ Even(lk2, flg2, u \ {p}, V, pp, -1)
<1> SUFFICES ASSUME Shape(lk, u, lo, hi), \A k \in Keys : k < hi[Tree], Even(lk, flg, u, V, hole, 0),
                    Chain(lk, u, lo, hi, st), pp = st[Len(st)], side \in Sides, Spliced(lk, u, lk2, pp, p, side),
                    flg2 \in [Keys -> 0 .. 2], \A n \in u \ {p} : flg2[n] = flg[n]
             PROVE  \E lo2, hi2 :
                      /\ Shape(lk2, u \ {p}, lo2, hi2) /\ (\A k \in Keys : k < hi2[Tree])
                      /\ Chain(lk2, u \ {p}, lo2, hi2, st) /\ Even(lk2, flg2, u \ {p}, V, pp, -1)
  BY DEF SpliceFits
<1>1. pp \in Live(u)
  BY DEF Chain
<1>2. PICK lo2, hi2 : Relinked(lk, u, lo, hi, lk2, u \ {p}, lo2, hi2, pp)
  BY <1>1, SpliceRelinked
<1>3. Chain(lk2, u \ {p}, lo2, hi2, st)
  BY <1>2, ChainKept
<1>4. hi2[Tree] = hi[Tree]
  BY <1>1, <1>2, RelinkedRoot
<1>5. Even(lk, flg, u, V, Root, 0)
  BY EvenAnywhere
<1>6. Even(lk2, flg2, u \ {p}, V, pp, -1)
  BY <1>1, <1>5, SpliceEven
<1> QED  BY <1>2, <1>3, <1>4, <1>6 DEF Relinked

\* A node without a left subtree is freed; its right subtree takes its place.
LEMMA DeleteLastInv == IInv /\ DeleteNodeLast => IInv'
<1> SUFFICES ASSUME IInv, DeleteNodeLast
             PROVE  IInv'
  OBVIOUS
<1>1. /\ phase = "DeleteNode" /\ link[Top] = elem /\ link[<<elem, L>>] = NULL
      /\ link' = [link EXCEPT ![Top] = link[<<elem, R>>], ![<<elem, R>>] = NULL]
      /\ avltFlg' = [avltFlg EXCEPT ![elem] = 0] /\ used' = used \ {elem} /\ phase' = "deleted" /\ ret' = 1
      /\ UNCHANGED <<stack, elem, q, seen, answer, load, more>>
  BY DEF DeleteNodeLast, Bounds
<1>2. PICK lo, hi, V : InTree(lo, hi, V)
  BY <1>1 DEF IInv, Clearing
<1>3. /\ TypeOK /\ Kept /\ (\A k \in Keys : k < hi[Tree]) /\ elem \in Keys
      /\ Shape(link, Hung, lo, hi) /\ Even(link, avltFlg, Hung, V, Hole, 0)
      /\ Chain(link, Hung, lo, hi, stack) /\ q = NULL
  BY <1>1, <1>2 DEF IInv, InTree, Kept, Delta
<1>4. /\ Top \in Live(Hung) /\ Top = stack[Len(stack)] /\ stack # <<>> /\ elem # NULL
  BY <1>1, <1>3, KeysAssumption DEF Chain, Top, Kept, NULL
<1>5. elem \in Hung /\ Inside(lo, hi, Top, elem) /\ ~Inside(lo, hi, Top, Top[1]) /\ Top \in Places
  BY <1>1, <1>3, <1>4, PlaceFacts
<1>6. Top[1] # elem
  BY <1>5
<1>7. /\ link' \in [Places -> Keys \cup {NULL}] /\ link'[Top] = link[<<elem, R>>] /\ link'[<<elem, R>>] = NULL
      /\ link'[<<elem, L>>] = NULL
      /\ \A s \in Places : s # Top /\ s[1] # elem => link'[s] = link[s]
  <2>1. <<elem, L>> \in Places /\ <<elem, R>> \in Places /\ Top # <<elem, L>> /\ Top # <<elem, R>>
    BY <1>3, <1>6 DEF Places
  <2>2. link \in [Places -> Keys \cup {NULL}]
    BY <1>3 DEF TypeOK
  <2>3. <<elem, L>> # <<elem, R>>
    BY DEF L, R
  <2>4. \A s \in Places : s # Top /\ s[1] # elem => s # <<elem, R>>
    OBVIOUS
  <2> QED  BY ONLY <1>1, <1>5, <2>1, <2>2, <2>3, <2>4
<1>8. Spliced(link, Hung, link', Top, elem, L)
  BY <1>1, <1>4, <1>7 DEF Spliced, L, R
<1>9. Hung' = Hung \ {elem} /\ Hole' = Top /\ Top' = Top /\ Delta' = -1
  BY <1>1, <1>4 DEF Hung, Hole, Top, Delta
<1>10. avltFlg' \in [Keys -> 0 .. 2] /\ avltFlg'[elem] = 0 /\ \A n \in Keys \ {elem} : avltFlg'[n] = avltFlg[n]
  BY <1>1, <1>3 DEF TypeOK
<1>11. L \in Sides /\ \A n \in Hung \ {elem} : avltFlg'[n] = avltFlg[n]
  BY <1>3, <1>10 DEF Sides, Hung, TypeOK
<1>12. PICK lo2, hi2 :
         /\ Shape(link', Hung', lo2, hi2) /\ (\A k \in Keys : k < hi2[Tree])
         /\ Chain(link', Hung', lo2, hi2, stack) /\ Even(link', avltFlg', Hung', V, Top, -1)
  <2>1. \E lo2, hi2 :
          /\ Shape(link', Hung \ {elem}, lo2, hi2) /\ (\A k \in Keys : k < hi2[Tree])
          /\ Chain(link', Hung \ {elem}, lo2, hi2, stack) /\ Even(link', avltFlg', Hung \ {elem}, V, Top, -1)
    <3>1. SpliceFits(link, avltFlg, Hung, lo, hi, V, Hole, stack, Top, elem, L, link', avltFlg')
      BY <1>3, <1>4, <1>8, <1>10, <1>11 DEF SpliceFits
    <3> QED  BY ONLY <3>1, SplicedChain
  <2> QED  BY <1>9, <2>1
<1>13. InTree(lo2, hi2, V)'
  BY <1>1, <1>9, <1>12 DEF InTree
<1>14. Kept'
  <2>1. ASSUME NEW n \in Keys \ used', NEW d \in Sides
        PROVE  avltFlg'[n] = 0 /\ link'[<<n, d>>] = NULL
    <3>1. CASE n = elem
      BY <1>7, <1>10, <3>1 DEF Sides
    <3>2. CASE n # elem
      <4>1. <<n, d>> # Top /\ <<n, d>> \in Places
        BY <1>1, <1>4, <3>2, KeysAssumption DEF Live, Hung, Root, Places, Sides
      <4> QED  BY <1>1, <1>3, <1>7, <1>10, <3>2, <4>1 DEF Kept
    <3> QED  BY <3>1, <3>2
  <2>2. R \in Sides /\ seen' = <<>> /\ \A i \in 1 .. Len(seen') : FALSE
    BY <1>1, <1>3 DEF Sides, Kept
  <2> QED  BY <1>1, <1>3, <2>1, <2>2 DEF Kept
<1>15. TypeOK'
  BY <1>1, <1>3, <1>7, <1>10 DEF TypeOK
<1> QED  BY <1>1, <1>13, <1>14, <1>15 DEF IInv, Clearing

\* The greatest node below the one to delete is taken out of the tree, not freed.
LEMMA ExtractTakeInv == IInv /\ delExtractMaxTake => IInv'
<1> SUFFICES ASSUME IInv, delExtractMaxTake
             PROVE  IInv'
  OBVIOUS
<1>1. PICK p : p = link[Top]
  OBVIOUS
<1>2. /\ phase = "delExtractMax" /\ link[<<p, R>>] = NULL /\ q' = p
      /\ link' = [link EXCEPT ![Top] = link[<<p, L>>]] /\ phase' = "extracted" /\ ret' = 1
      /\ UNCHANGED <<avltFlg, used, stack, elem, seen, answer, load, more>>
  BY <1>1 DEF delExtractMaxTake, Bounds
<1>3. PICK lo, hi, V : InTree(lo, hi, V)
  BY <1>2 DEF IInv, Clearing
<1>4. /\ TypeOK /\ Kept /\ (\A k \in Keys : k < hi[Tree]) /\ p # NULL /\ High(hi, Top) = elem
      /\ Shape(link, Hung, lo, hi) /\ Even(link, avltFlg, Hung, V, Hole, 0)
      /\ Chain(link, Hung, lo, hi, stack) /\ q = NULL /\ elem \in Hung /\ Rightmost
  BY <1>1, <1>2, <1>3 DEF IInv, InTree, Kept, Delta
<1>5. /\ Top \in Live(Hung) /\ Top = stack[Len(stack)] /\ stack # <<>> /\ Hung = used
  <2>1. Hung = used
    BY <1>4, KeysAssumption DEF Hung, TypeOK, NULL
  <2> QED  BY <1>2, <1>4, <2>1 DEF Chain, Top, Kept
<1>6. /\ p \in Hung /\ Inside(lo, hi, Top, p) /\ ~Inside(lo, hi, Top, Top[1]) /\ Top \in Places
      /\ hi[p] = elem /\ Hung \subseteq Int
  BY <1>1, <1>4, <1>5, PlaceFacts
<1>7. Top[1] # p /\ p < elem
  BY <1>4, <1>6 DEF Inside
<1>8. /\ link' \in [Places -> Keys \cup {NULL}] /\ link'[Top] = link[<<p, L>>]
      /\ \A s \in Places : s # Top => link'[s] = link[s]
  <2>1. <<p, L>> \in Places /\ link \in [Places -> Keys \cup {NULL}]
    BY <1>4, <1>6 DEF Places, Hung, TypeOK
  <2> QED  BY <1>2, <1>6, <2>1
<1>9. Spliced(link, Hung, link', Top, p, R)
  BY <1>1, <1>2, <1>4, <1>8 DEF Spliced, L, R
<1>10. Hung' = Hung \ {p} /\ Hole' = Top /\ Top' = Top /\ Delta' = -1
  BY <1>2, <1>5 DEF Hung, Hole, Top, Delta
<1>11. R \in Sides /\ avltFlg' \in [Keys -> 0 .. 2] /\ \A n \in Hung \ {p} : avltFlg'[n] = avltFlg[n]
  BY <1>2, <1>4 DEF Sides, TypeOK
<1>12. PICK lo2, hi2 :
         /\ Shape(link', Hung', lo2, hi2) /\ (\A k \in Keys : k < hi2[Tree])
         /\ Chain(link', Hung', lo2, hi2, stack) /\ Even(link', avltFlg', Hung', V, Top, -1)
  <2>1. \E lo2, hi2 :
          /\ Shape(link', Hung \ {p}, lo2, hi2) /\ (\A k \in Keys : k < hi2[Tree])
          /\ Chain(link', Hung \ {p}, lo2, hi2, stack) /\ Even(link', avltFlg', Hung \ {p}, V, Top, -1)
    <3>1. SpliceFits(link, avltFlg, Hung, lo, hi, V, Hole, stack, Top, p, R, link', avltFlg')
      BY <1>4, <1>5, <1>9, <1>11 DEF SpliceFits
    <3> QED  BY ONLY <3>1, SplicedChain
  <2> QED  BY <1>10, <2>1
<1>13. InTree(lo2, hi2, V)'
  BY <1>2, <1>10, <1>12 DEF InTree
<1>14. \A n \in Hung' \ {elem} : n < p <=> n < elem
  <2>1. <<p, R>> \in Live(Hung)
    BY <1>6 DEF Live, Sides
  <2>2. \A z \in Hung : ~(p < z /\ z < elem)
    BY <1>2, <1>4, <1>6, <2>1 DEF Shape, Hanging, Low, High, L, R
  <2> QED  BY <1>4, <1>6, <1>7, <1>10, <2>2
<1>15. \A d \in Sides : link'[<<p, d>>] \in Hung' \cup {NULL}
  <2>1. ASSUME NEW d \in Sides
        PROVE  link'[<<p, d>>] \in Hung' \cup {NULL}
    <3>1. <<p, d>> \in Live(Hung) /\ <<p, d>> \in Places /\ <<p, d>> # Top
      BY <1>6, <1>7, PlaceFacts, <1>4 DEF Live
    <3>2. link'[<<p, d>>] = link[<<p, d>>]
      BY <1>8, <3>1
    <3>3. link[<<p, d>>] # NULL => link[<<p, d>>] \in Hung /\ link[<<p, d>>] # p
      BY <1>4, <1>6, <3>1, PlaceFacts
    <3> QED  BY <1>10, <3>2, <3>3
  <2> QED  BY <2>1
<1>16. Kept'
  <2>1. ASSUME NEW n \in Keys \ used', NEW d \in Sides
        PROVE  avltFlg'[n] = 0 /\ link'[<<n, d>>] = NULL
    <3>1. <<n, d>> # Top /\ <<n, d>> \in Places
      BY <1>2, <1>5, KeysAssumption DEF Live, Root, Places, Sides
    <3> QED  BY <1>2, <1>4, <1>8, <3>1 DEF Kept
  <2>2. Rightmost' /\ elem' \in Hung'
    <3>1. Rightmost'
      BY <1>2, <1>4 DEF Rightmost
    <3>2. elem \in Int /\ p \in Int
      BY <1>4, <1>6
    <3> QED  BY <1>2, <1>4, <1>7, <1>10, <3>1, <3>2
  <2>3. R \in Sides
    BY DEF Sides
  <2> QED  BY <1>2, <1>4, <1>5, <1>6, <1>7, <1>14, <1>15, <2>1, <2>2, <2>3 DEF Kept
<1>17. TypeOK'
  BY <1>2, <1>4, <1>5, <1>6, <1>8 DEF TypeOK
<1> QED  BY <1>2, <1>13, <1>16, <1>17 DEF IInv, Clearing

\* delExtractMax returns one level up.
LEMMA ExtractReturnInv == IInv /\ delExtractMaxReturn => IInv'
<1> SUFFICES ASSUME IInv, delExtractMaxReturn
             PROVE  IInv'
  OBVIOUS
<1>1. /\ phase = "extracted" /\ Top # <<elem, L>> /\ stack' = PopTo(stack)
      /\ UNCHANGED <<used, phase, elem, q, seen, answer, load, more>>
  BY DEF delExtractMaxReturn, Bounds
<1>2. PICK lo, hi, V : InTree(lo, hi, V)
  BY <1>1 DEF IInv, Clearing
<1>3. /\ TypeOK /\ Kept /\ (\A k \in Keys : k < hi[Tree])
      /\ Shape(link, Hung, lo, hi) /\ Even(link, avltFlg, Hung, V, Top, IF ret = 1 THEN -1 ELSE 0)
      /\ Chain(link, Hung, lo, hi, stack) /\ Hung' = Hung /\ elem \in Hung /\ Rightmost /\ stack # <<>>
      /\ q \in used /\ seen = <<>>
  <2>1. stack # <<>>
    BY <1>1 DEF IInv, Kept
  <2> QED  BY <1>1, <1>2, <2>1 DEF IInv, InTree, Kept, Delta, Hole, Hung
<1>4. PICK k \in 2 .. Len(stack) : stack[k] = <<elem, L>> /\ \A i \in k + 1 .. Len(stack) : stack[i][2] = R
  BY <1>3 DEF Rightmost
<1>5. Len(stack) > 1 /\ k < Len(stack) /\ Top[2] = R
  <2>1. Len(stack) \in Nat /\ k # Len(stack)
    BY <1>1, <1>3, <1>4 DEF Chain, Top
  <2>2. Len(stack) \in k + 1 .. Len(stack) /\ Len(stack) > 1 /\ k < Len(stack)
    BY <1>4, <2>1
  <2> QED  BY <1>4, <2>2 DEF Top
<1>6. /\ Chain(link, Hung, lo, hi, stack') /\ Len(stack) \in Nat /\ Len(stack') = Len(stack) - 1
      /\ \A i \in 1 .. Len(stack) - 1 : stack'[i] = stack[i]
      /\ Caller \in Live(Hung) /\ link[Caller] = Top[1] /\ stack'[Len(stack')] = Caller
      /\ Top[1] \in Hung /\ Top[1] # NULL /\ Top = <<Top[1], Top[2]>> /\ Top[2] \in Sides
      /\ Top' = Caller /\ Hole' = Caller /\ stack' # <<>> /\ stack'[1] = stack[1] /\ stack' \in Seq(Places)
  BY <1>1, <1>3, <1>5, Popped
<1>7. Rightmost'
  <2>1. k \in 2 .. Len(stack') /\ stack'[k] = <<elem', L>>
    BY <1>1, <1>4, <1>5, <1>6
  <2>2. \A i \in k + 1 .. Len(stack') : i \in k + 1 .. Len(stack) /\ stack'[i] = stack[i]
    BY <1>4, <1>6
  <2> QED  BY <1>4, <2>1, <2>2 DEF Rightmost
<1>8. Delta' = IF ret' = 1 THEN -1 ELSE 0
  BY <1>1 DEF Delta
<1>9. Hung = used \ {q}
  BY DEF Hung
<1>10. CASE ret = 1
  <2>1. PICK r : r = delRebalance(link, avltFlg, Caller, R)
    OBVIOUS
  <2>2. link' = r.link /\ avltFlg' = r.flg /\ ret' = r.ret
    BY <1>1, <1>10, <2>1 DEF delExtractMaxReturn, Settle
  <2>3. DelFits(link, avltFlg, Hung, lo, hi, V, stack', Caller, R, Top[1], r)
    BY <1>3, <1>5, <1>6, <1>10, <2>1 DEF DelFits
  <2>4. /\ r.ret \in {0, 1}
        /\ \E lo2, hi2, V2 :
              /\ Shape(r.link, Hung, lo2, hi2) /\ (\A j \in Keys : j < hi2[Tree])
              /\ Chain(r.link, Hung, lo2, hi2, stack')
              /\ Even(r.link, r.flg, Hung, V2, Caller, IF r.ret = 1 THEN -1 ELSE 0)
        /\ \A n \in Keys \ Hung : r.flg[n] = avltFlg[n] /\ \A d \in Sides : r.link[<<n, d>>] = link[<<n, d>>]
        /\ r.link \in [Places -> Keys \cup {NULL}] /\ r.flg \in [Keys -> 0 .. 2]
    BY ONLY <2>3, DelChain
  <2>5. PICK lo2, hi2, V2 :
              /\ Shape(link', Hung', lo2, hi2) /\ (\A j \in Keys : j < hi2[Tree])
              /\ Chain(link', Hung', lo2, hi2, stack')
              /\ Even(link', avltFlg', Hung', V2, Caller, IF r.ret = 1 THEN -1 ELSE 0)
    BY <1>3, <2>2, <2>4
  <2>6. InTree(lo2, hi2, V2)'
    BY <1>1, <1>6, <1>8, <2>2, <2>5 DEF InTree
  <2>7. Kept'
    <3>1. \A n \in Keys \ used' : avltFlg'[n] = 0 /\ \A d \in Sides : link'[<<n, d>>] = NULL
      BY <1>1, <1>3, <1>9, <2>2, <2>4 DEF Kept
    <3>2. \A d \in Sides : link'[<<q', d>>] \in Hung' \cup {NULL}
      BY <1>1, <1>3, <1>9, <2>2, <2>4 DEF Kept, TypeOK
    <3> QED  BY <1>1, <1>3, <1>6, <1>7, <2>2, <2>4, <3>1, <3>2 DEF Kept
  <2>8. TypeOK'
    BY <1>1, <1>3, <1>6, <2>2, <2>4 DEF TypeOK
  <2> QED  BY <1>1, <2>6, <2>7, <2>8 DEF IInv, Clearing
<1>11. CASE ret # 1
  <2>1. link' = link /\ avltFlg' = avltFlg /\ ret' = 0
    BY <1>1, <1>11 DEF delExtractMaxReturn, Settled
  <2>2. Even(link, avltFlg, Hung, V, Caller, 0)
    BY <1>3, <1>11, EvenAnywhere
  <2>3. InTree(lo, hi, V)'
    BY <1>1, <1>3, <1>6, <1>8, <2>1, <2>2 DEF InTree
  <2>4. Kept'
    BY <1>1, <1>3, <1>6, <1>7, <2>1 DEF Kept
  <2>5. TypeOK'
    BY <1>1, <1>3, <1>6, <2>1 DEF TypeOK
  <2> QED  BY <1>1, <2>3, <2>4, <2>5 DEF IInv, Clearing
<1> QED  BY <1>10, <1>11

\* What the links and flags are when the node t has replaced the node p.
LEMMA ReplacedPlaces ==
  ASSUME NEW lk \in [Places -> Keys \cup {NULL}], NEW flg \in [Keys -> 0 .. 2],
         NEW pp \in Places, NEW p \in Keys, NEW t \in Keys, p # t, pp[1] # p, pp[1] # t,
         NEW lk2, lk2 = Replaced(lk, pp, p, t), NEW flg2, flg2 = ReplacedFlags(flg, p, t)
  PROVE  /\ lk2 \in [Places -> Keys \cup {NULL}] /\ lk2[pp] = t
         /\ \A d \in Sides : lk2[<<t, d>>] = lk[<<p, d>>] /\ lk2[<<p, d>>] = NULL
         /\ \A s \in Places : s # pp /\ s[1] # p /\ s[1] # t => lk2[s] = lk[s]
         /\ flg2 \in [Keys -> 0 .. 2] /\ flg2[t] = flg[p] /\ flg2[p] = 0
         /\ \A n \in Keys \ {p, t} : flg2[n] = flg[n]
<1>1. /\ <<t, L>> \in Places /\ <<t, R>> \in Places /\ <<p, L>> \in Places /\ <<p, R>> \in Places
      /\ pp # <<t, L>> /\ pp # <<t, R>> /\ pp # <<p, L>> /\ pp # <<p, R>>
      /\ <<t, L>> # <<t, R>> /\ <<p, L>> # <<p, R>> /\ <<t, L>> # <<p, L>> /\ <<t, L>> # <<p, R>>
      /\ <<t, R>> # <<p, L>> /\ <<t, R>> # <<p, R>>
  BY DEF Places, L, R
<1>2. lk2 \in [Places -> Keys \cup {NULL}] /\ lk2[pp] = t
  BY <1>1 DEF Replaced
<1>3. lk2[<<t, L>>] = lk[<<p, L>>] /\ lk2[<<t, R>>] = lk[<<p, R>>] /\ lk2[<<p, L>>] = NULL /\ lk2[<<p, R>>] = NULL
  BY <1>1 DEF Replaced
<1>4. \A s \in Places : s # pp /\ s[1] # p /\ s[1] # t => lk2[s] = lk[s]
  <2>1. \A s \in Places : s # pp /\ s[1] # p /\ s[1] # t =>
          s # <<t, L>> /\ s # <<t, R>> /\ s # <<p, L>> /\ s # <<p, R>>
    OBVIOUS
  <2> QED  BY <2>1 DEF Replaced
<1>5. /\ flg2 \in [Keys -> 0 .. 2] /\ flg2[t] = flg[p] /\ flg2[p] = 0
      /\ \A n \in Keys \ {p, t} : flg2[n] = flg[n]
  BY DEF ReplacedFlags
<1> QED  BY <1>2, <1>3, <1>4, <1>5 DEF Sides

\* What it needs to replace a node at the end of a chain.
SwapFits(lk, flg, u, lo, hi, V, delta, st, pp, p, t, lk2, flg2) ==
  /\ Shape(lk, u, lo, hi) /\ (\A k \in Keys : k < hi[Tree]) /\ Chain(lk, u, lo, hi, st) /\ pp = st[Len(st)]
  /\ Swapped(lk, u, lk2, pp, p, t) /\ delta \in Int /\ Even(lk, flg, u, V, <<p, L>>, delta)
  /\ flg2 \in [Keys -> 0 .. 2] /\ flg2[t] = flg[p] /\ \A n \in u \ {p} : flg2[n] = flg[n]

\* What it leaves to put one node in the place of another at the end of a chain.
LEMMA SwappedChain ==
  ASSUME NEW lk, NEW flg, NEW u, NEW lo, NEW hi, NEW V, NEW delta, NEW st, NEW pp, NEW p, NEW t,
         NEW lk2, NEW flg2, SwapFits(lk, flg, u, lo, hi, V, delta, st, pp, p, t, lk2, flg2)
  PROVE  \E lo2, hi2, V2 :
           /\ Shape(lk2, (u \ {p}) \cup {t}, lo2, hi2) /\ (\A k \in Keys : k < hi2[Tree])
           /\ Chain(lk2, (u \ {p}) \cup {t}, lo2, hi2, st)
           /\ Even(lk2, flg2, (u \ {p}) \cup {t}, V2, <<t, L>>, delta)
<1>1. /\ Shape(lk, u, lo, hi) /\ (\A k \in Keys : k < hi[Tree]) /\ Chain(lk, u, lo, hi, st) /\ pp = st[Len(st)]
      /\ Swapped(lk, u, lk2, pp, p, t) /\ delta \in Int /\ Even(lk, flg, u, V, <<p, L>>, delta)
      /\ flg2 \in [Keys -> 0 .. 2] /\ flg2[t] = flg[p] /\ \A n \in u \ {p} : flg2[n] = flg[n]
  BY DEF SwapFits
<1>2. pp \in Live(u)
  BY <1>1 DEF Chain
<1>3. PICK u2 : u2 = (u \ {p}) \cup {t}
  OBVIOUS
<1>4. PICK lo2, hi2 : Relinked(lk, u, lo, hi, lk2, u2, lo2, hi2, pp)
  BY <1>1, <1>2, <1>3, SwapRelinked
<1>5. Chain(lk2, u2, lo2, hi2, st)
  BY <1>1, <1>4, ChainKept
<1>6. hi2[Tree] = hi[Tree]
  BY <1>1, <1>2, <1>4, RelinkedRoot
<1>7. Even(lk2, flg2, u2, [V EXCEPT ![t] = V[p]], <<t, L>>, delta)
  BY <1>1, <1>2, <1>3, SwapEven
<1> QED  BY <1>1, <1>3, <1>4, <1>5, <1>6, <1>7 DEF Relinked

\* The node taken out takes the place of the one to delete, which is freed.
LEMMA DeleteReplaceInv == IInv /\ DeleteNodeReplace => IInv'
<1> SUFFICES ASSUME IInv, DeleteNodeReplace
             PROVE  IInv'
  OBVIOUS
<1>1. PICK lk, flg : lk = Replaced(link, Caller, elem, q) /\ flg = ReplacedFlags(avltFlg, elem, q)
  OBVIOUS
<1>2. PICK r : r = IF ret = 1 THEN delRebalance(lk, flg, Caller, L) ELSE [link |-> lk, flg |-> flg, ret |-> 0]
  OBVIOUS
<1>3. /\ phase = "extracted" /\ Top = <<elem, L>> /\ used' = used \ {elem} /\ q' = NULL
      /\ link' = r.link /\ avltFlg' = r.flg /\ ret' = r.ret
      /\ stack' = PopTo(stack) /\ phase' = "deleted" /\ UNCHANGED <<elem, seen, answer, load, more>>
  BY <1>1, <1>2 DEF DeleteNodeReplace, Settle, Bounds
<1>4. PICK lo, hi, V : InTree(lo, hi, V)
  BY <1>3 DEF IInv, Clearing
<1>5. /\ TypeOK /\ Kept /\ (\A k \in Keys : k < hi[Tree])
      /\ Shape(link, Hung, lo, hi) /\ Even(link, avltFlg, Hung, V, <<elem, L>>, IF ret = 1 THEN -1 ELSE 0)
      /\ Chain(link, Hung, lo, hi, stack) /\ elem \in Hung /\ Rightmost
      /\ q \in used /\ q < elem /\ (\A n \in Hung \ {elem} : n < q <=> n < elem) /\ seen = <<>>
  <2>1. stack # <<>>
    BY <1>3 DEF IInv, Kept
  <2> QED  BY <1>3, <1>4, <2>1 DEF IInv, InTree, Kept, Delta, Hole
<1>6. Len(stack) > 1
  BY <1>5 DEF Rightmost, Chain
<1>7. /\ Chain(link, Hung, lo, hi, stack') /\ Len(stack) \in Nat /\ Len(stack') = Len(stack) - 1
      /\ Caller \in Live(Hung) /\ link[Caller] = elem /\ stack'[Len(stack')] = Caller
      /\ elem # NULL /\ Top' = Caller /\ Hole' = Caller /\ stack' # <<>> /\ stack'[1] = stack[1]
      /\ stack' \in Seq(Places)
  BY <1>3, <1>5, <1>6, Popped
<1>8. Hung = used \ {q} /\ elem \in Keys /\ q \in Keys /\ q \notin Hung /\ elem # q /\ Hung \subseteq Keys
  BY <1>5 DEF Hung, TypeOK
<1>9. PICK u2 : u2 = (Hung \ {elem}) \cup {q}
  OBVIOUS
<1>10. Hung' = u2 /\ used' = u2 /\ elem \notin u2 /\ q # NULL
  <2>1. NULL \notin used
    BY <1>5, KeysAssumption DEF TypeOK, NULL
  <2> QED  BY <1>3, <1>5, <1>8, <1>9, <2>1 DEF Hung
<1>11. Caller \in Places /\ Caller[1] # elem /\ Caller[1] # q
  <2>1. /\ Caller \in Places /\ ~Inside(lo, hi, Caller, Caller[1]) /\ Inside(lo, hi, Caller, elem)
        /\ Caller[1] \in Hung \cup {Tree}
    BY <1>5, <1>7, PlaceFacts
  <2> QED  BY <1>8, <2>1, KeysAssumption DEF Tree
<1>12. /\ lk \in [Places -> Keys \cup {NULL}] /\ lk[Caller] = q
       /\ \A d \in Sides : lk[<<q, d>>] = link[<<elem, d>>] /\ lk[<<elem, d>>] = NULL
       /\ \A s \in Places : s # Caller /\ s[1] # elem /\ s[1] # q => lk[s] = link[s]
       /\ flg \in [Keys -> 0 .. 2] /\ flg[q] = avltFlg[elem] /\ flg[elem] = 0
       /\ \A n \in Keys \ {elem, q} : flg[n] = avltFlg[n]
  <2>1. link \in [Places -> Keys \cup {NULL}] /\ avltFlg \in [Keys -> 0 .. 2]
    BY <1>5 DEF TypeOK
  <2> QED  BY ONLY <1>1, <1>8, <1>11, <2>1, ReplacedPlaces
<1>13. PICK delta \in Int : delta = IF ret = 1 THEN -1 ELSE 0
  OBVIOUS
<1>14. SwapFits(link, avltFlg, Hung, lo, hi, V, delta, stack', Caller, elem, q, lk, flg)
  <2>1. Swapped(link, Hung, lk, Caller, elem, q)
    BY <1>5, <1>7, <1>8, <1>12 DEF Swapped
  <2>2. flg[q] = avltFlg[elem] /\ \A n \in Hung \ {elem} : flg[n] = avltFlg[n]
    BY <1>8, <1>12
  <2> QED  BY <1>5, <1>7, <1>12, <1>13, <2>1, <2>2 DEF SwapFits
<1>15. PICK lo2, hi2, V2 :
         /\ Shape(lk, u2, lo2, hi2) /\ (\A k \in Keys : k < hi2[Tree])
         /\ Chain(lk, u2, lo2, hi2, stack') /\ Even(lk, flg, u2, V2, <<q, L>>, delta)
  BY ONLY <1>9, <1>14, SwappedChain
<1>16. /\ r.ret \in {0, 1}
       /\ \E lo3, hi3, V3 :
            /\ Shape(r.link, u2, lo3, hi3) /\ (\A k \in Keys : k < hi3[Tree])
            /\ Chain(r.link, u2, lo3, hi3, stack')
            /\ Even(r.link, r.flg, u2, V3, Caller, IF r.ret = 1 THEN -1 ELSE 0)
       /\ \A n \in Keys \ u2 : r.flg[n] = flg[n] /\ \A d \in Sides : r.link[<<n, d>>] = lk[<<n, d>>]
       /\ r.link \in [Places -> Keys \cup {NULL}] /\ r.flg \in [Keys -> 0 .. 2]
  <2>1. CASE ret = 1
    <3>1. DelFits(lk, flg, u2, lo2, hi2, V2, stack', Caller, L, q, r)
      <4>1. L \in Sides
        BY DEF Sides
      <4> QED  BY <1>2, <1>7, <1>10, <1>12, <1>13, <1>15, <2>1, <4>1 DEF DelFits
    <3> QED  BY ONLY <3>1, DelChain
  <2>2. CASE ret # 1
    <3>1. r.link = lk /\ r.flg = flg /\ r.ret = 0
      BY <1>2, <2>2
    <3>2. Even(lk, flg, u2, V2, Caller, 0)
      BY <1>13, <1>15, <2>2, EvenAnywhere
    <3> QED  BY <1>12, <1>15, <3>1, <3>2
  <2> QED  BY <2>1, <2>2
<1>17. PICK lo3, hi3, V3 :
         /\ Shape(link', Hung', lo3, hi3) /\ (\A k \in Keys : k < hi3[Tree])
         /\ Chain(link', Hung', lo3, hi3, stack')
         /\ Even(link', avltFlg', Hung', V3, Caller, IF ret' = 1 THEN -1 ELSE 0)
  BY <1>3, <1>10, <1>16
<1>18. Delta' = IF ret' = 1 THEN -1 ELSE 0
  BY <1>3 DEF Delta
<1>19. InTree(lo3, hi3, V3)'
  BY <1>3, <1>7, <1>17, <1>18 DEF InTree
<1>20. Kept'
  <2>1. ASSUME NEW n \in Keys \ used', NEW d \in Sides
        PROVE  avltFlg'[n] = 0 /\ link'[<<n, d>>] = NULL
    <3>1. avltFlg'[n] = flg[n] /\ link'[<<n, d>>] = lk[<<n, d>>]
      BY <1>3, <1>10, <1>16
    <3>2. CASE n = elem
      BY <1>12, <3>1, <3>2
    <3>3. CASE n # elem
      <4>1. n \notin used /\ n # q
        BY <1>3, <1>5, <3>3
      <4>2. <<n, d>> \in Places /\ <<n, d>> # Caller
        <5>1. Caller[1] \in Hung \cup {Tree}
          BY <1>5, <1>7, PlaceFacts
        <5>2. Caller # <<n, d>>
          BY <1>8, <4>1, <5>1, KeysAssumption DEF Tree
        <5> QED  BY <5>2 DEF Places, Sides
      <4> QED  BY <1>5, <1>12, <3>1, <3>3, <4>1, <4>2 DEF Kept
    <3> QED  BY <3>2, <3>3
  <2>2. R \in Sides /\ \A i \in 1 .. Len(seen') : FALSE
    BY <1>3, <1>5 DEF Sides
  <2> QED  BY <1>3, <1>5, <1>7, <1>8, <2>1, <2>2 DEF Kept
<1>21. TypeOK'
  BY <1>3, <1>5, <1>7, <1>16 DEF TypeOK
<1> QED  BY <1>3, <1>19, <1>20, <1>21 DEF IInv, Clearing

----------------------------------------------------------------------------
\* TREE_Clear starts with the whole tree to free.
LEMMA ClearCallInv == IInv /\ TREE_Clear => IInv'
<1> SUFFICES ASSUME IInv, TREE_Clear
             PROVE  IInv'
  OBVIOUS
<1>1. /\ phase = "none" /\ phase' = "DelAllNode" /\ stack' = <<Root>> /\ elem' = NULL /\ ret' = 0 /\ answer' = "none"
      /\ UNCHANGED <<link, avltFlg, used, q, seen, load, more>>
  BY DEF TREE_Clear, Call, nodes, Bounds
<1>2. PICK lo, hi, V : InTree(lo, hi, V)
  BY <1>1 DEF IInv, Clearing
<1>3. /\ TypeOK /\ Kept /\ (\A k \in Keys : k < hi[Tree]) /\ Shape(link, Hung, lo, hi) /\ q = NULL /\ seen = <<>>
  BY <1>1, <1>2 DEF IInv, InTree, Kept
<1>4. Hung = used
  BY <1>3, KeysAssumption DEF Hung, TypeOK, NULL
<1>5. Chain(link, used, lo, hi, stack') /\ Root \in Live(used) /\ Top' = Root /\ stack' \in Seq(Places)
      /\ stack'[1] = Root /\ stack' # <<>> /\ Len(stack') = 1
  <2>1. Root \in Live(used) /\ Root \in Places
    BY DEF Live, Places
  <2> QED  BY <1>1, <1>3, <1>4, <2>1, ChainStart DEF Top
<1>6. \A z \in used : Inside(lo, hi, Root, z)
  BY <1>3, <1>4, NodeFacts DEF Inside, Low, High, Root, Tree, L, R
<1>7. Remaining(used, hi, stack') = {}
  BY <1>5 DEF Remaining
<1>8. Cleared(link, used, lo, hi)'
  <2>1. used = {z \in used : Inside(lo, hi, Root, z)}
    BY <1>6
  <2> QED  BY <1>1, <1>3, <1>4, <1>5, <1>7, <2>1 DEF Cleared, TypeOK
<1>9. Kept'
  BY <1>1, <1>3, <1>5 DEF Kept
<1>10. TypeOK'
  BY <1>1, <1>3, <1>5 DEF TypeOK
<1> QED  BY <1>1, <1>8, <1>9, <1>10 DEF IInv, Clearing

\* The places on the stack of DelAllNode are still allocated.
LEMMA ClearedPlaces ==
  ASSUME NEW lk0, NEW u0, NEW lo, NEW hi, Cleared(lk0, u0, lo, hi), stack[1] = Root
  PROVE  /\ used \subseteq u0 /\ Top \in Live(u0) /\ Top \in Live(used) /\ link[Top] = lk0[Top]
         /\ Len(stack) \in Nat /\ Len(stack) >= 1 /\ stack \in Seq(Places) /\ stack # <<>>
         /\ \A i \in 2 .. Len(stack) : stack[i][1] \in used
         /\ Len(stack) > 1 => Top[1] \in used /\ Top = <<Top[1], Top[2]>> /\ Top[2] \in Sides
<1>1. Shape(lk0, u0, lo, hi) /\ Chain(lk0, u0, lo, hi, stack)
  BY DEF Cleared
<1>2. Len(stack) \in Nat /\ Len(stack) >= 1 /\ stack \in Seq(Places) /\ Top \in Live(u0)
  BY <1>1 DEF Chain, Top
<1>3. used \subseteq u0 /\ Remaining(u0, hi, stack) \subseteq used
  BY DEF Cleared, Remaining
<1>4. ASSUME NEW i \in 2 .. Len(stack)
      PROVE  stack[i][1] \in used
  <2>1. i - 1 \in 1 .. Len(stack) - 1 /\ i - 1 \in 1 .. Len(stack) /\ i \in 1 .. Len(stack) /\ (i - 1) + 1 = i
    BY <1>2
  <2>2. lk0[stack[i - 1]] = stack[i][1] /\ stack[i - 1] \in Live(u0) /\ Inside(lo, hi, stack[i - 1], stack[i][1])
    BY <1>1, <2>1 DEF Chain
  <2>3. stack[i][1] # NULL
    <3>1. stack[i] \in Live(u0)
      BY <1>1, <2>1 DEF Chain
    <3> QED  BY <1>1, <3>1, PlaceFacts DEF Tree, NULL
  <2>4. stack[i][1] \in u0
    BY <1>1, <2>2, <2>3, PlaceFacts
  <2> QED  BY <1>3, <2>4 DEF Remaining
<1>5. Top \in Live(used)
  <2>1. CASE Len(stack) = 1
    BY <2>1 DEF Live, Top
  <2>2. CASE Len(stack) > 1
    <3>1. Top[1] \in used
      BY <1>2, <1>4, <2>2 DEF Top
    <3>2. PICK m, d : Top = <<m, d>> /\ m \in u0 \cup {Tree} /\ d \in Sides
      BY <1>2 DEF Live, Root, Sides, Tree
    <3>3. Top[1] = m
      BY <3>2
    <3>4. m \in used
      BY <3>1, <3>3
    <3> QED  BY <3>2, <3>4 DEF Live
  <2>3. PICK k \in Nat : k = Len(stack) /\ k >= 1
    BY <1>2
  <2>4. Len(stack) = 1 \/ Len(stack) > 1
    BY ONLY <2>3
  <2> QED  BY ONLY <2>1, <2>2, <2>4
<1>6. Len(stack) > 1 => Top[1] \in used /\ Top = <<Top[1], Top[2]>> /\ Top[2] \in Sides
  <2>1. Top = <<Top[1], Top[2]>> /\ Top[2] \in Sides
    BY <1>2 DEF Live, Root, Sides
  <2>2. Len(stack) > 1 => Top[1] \in used
    BY <1>2, <1>4 DEF Top
  <2> QED  BY <2>1, <2>2
<1>7. link[Top] = lk0[Top]
  BY <1>5 DEF Cleared
<1> QED  BY <1>2, <1>3, <1>4, <1>5, <1>6, <1>7

\* TREE_Clear goes down to the left.
LEMMA ClearDownInv == IInv /\ SubtreeDown /\ phase = "DelAllNode" => IInv'
<1> SUFFICES ASSUME IInv, SubtreeDown, phase = "DelAllNode"
             PROVE  IInv'
  OBVIOUS
<1>1. PICK n : n = link[Top]
  OBVIOUS
<1>2. /\ n # NULL /\ phase' = phase /\ stack' = Append(stack, <<n, L>>)
      /\ UNCHANGED <<link, avltFlg, used, elem, ret, q, seen, answer, load, more>>
  BY <1>1 DEF SubtreeDown, nodes, Bounds
<1>3. PICK lk0, u0, lo, hi : Cleared(lk0, u0, lo, hi)
  BY DEF IInv, Clearing
<1>4. TypeOK /\ Kept /\ stack[1] = Root
  BY DEF IInv, Kept
<1>5. /\ used \subseteq u0 /\ Top \in Live(u0) /\ link[Top] = lk0[Top]
      /\ Len(stack) \in Nat /\ Len(stack) >= 1 /\ stack \in Seq(Places)
  BY <1>3, <1>4, ClearedPlaces
<1>6. /\ Shape(lk0, u0, lo, hi) /\ Chain(lk0, u0, lo, hi, stack)
      /\ used = Remaining(u0, hi, stack) \cup {z \in u0 : Inside(lo, hi, Top, z)}
  BY <1>3 DEF Cleared
<1>7. /\ Chain(lk0, u0, lo, hi, stack')
      /\ n \in u0 /\ lo[n] = Low(lo, Top) /\ hi[n] = High(hi, Top) /\ n \in Keys
  <2>1. L \in Sides
    BY DEF Sides
  <2>2. n = lk0[stack[Len(stack)]] /\ n # NULL
    BY <1>1, <1>2, <1>5 DEF Top
  <2>3. Chain(lk0, u0, lo, hi, stack')
    BY <1>2, <1>6, <2>1, <2>2, ChainPush
  <2>4. n \in u0 /\ lo[n] = Low(lo, Top) /\ hi[n] = High(hi, Top) /\ u0 \subseteq Keys
    BY <1>5, <1>6, <2>2, PlaceFacts DEF Top
  <2> QED  BY <2>3, <2>4
<1>8. /\ stack' \in Seq(Places) /\ Len(stack') = Len(stack) + 1 /\ stack' # <<>> /\ Top' = <<n, L>>
      /\ (\A i \in 1 .. Len(stack) : stack'[i] = stack[i]) /\ stack'[Len(stack) + 1] = <<n, L>> /\ stack'[1] = Root
  <2>1. <<n, L>> \in Places
    BY <1>7 DEF Places
  <2>2. /\ stack' \in Seq(Places) /\ Len(stack') = Len(stack) + 1 /\ stack' # <<>>
        /\ (\A i \in 1 .. Len(stack) : stack'[i] = stack[i]) /\ stack'[Len(stack) + 1] = <<n, L>>
    BY <1>2, <1>5, <2>1, AppendProperties
  <2> QED  BY <1>4, <1>5, <2>2 DEF Top
<1>9. used = Remaining(u0, hi, stack') \cup {z \in u0 : Inside(lo, hi, Top', z)}
  <2>1. ASSUME NEW z \in u0
        PROVE  z \in Remaining(u0, hi, stack') <=>
                 z \in Remaining(u0, hi, stack) \/ z = n \/ (n < z /\ z < hi[n])
    <3>1. 2 .. Len(stack') = 2 .. Len(stack) \cup {Len(stack) + 1}
      BY <1>5, <1>8
    <3>2. \A i \in 2 .. Len(stack) : stack'[i] = stack[i]
      BY <1>8
    <3> QED  BY <1>8, <3>1, <3>2 DEF Remaining
  <2>2. ASSUME NEW z \in u0
        PROVE  Inside(lo, hi, Top, z) <=> Inside(lo, hi, Top', z) \/ z = n \/ (n < z /\ z < hi[n])
    <3>1. z \in Int /\ n \in Int /\ lo[n] \in Int /\ hi[n] \in Int /\ lo[n] < n /\ n < hi[n]
      BY <1>6, <1>7, NodeFacts
    <3> QED  BY <1>7, <1>8, <3>1 DEF Inside, Low, High
  <2>3. Remaining(u0, hi, stack) \subseteq u0 /\ Remaining(u0, hi, stack') \subseteq u0
    BY DEF Remaining
  <2> QED  BY <1>6, <2>1, <2>2, <2>3
<1>10. Cleared(lk0, u0, lo, hi)'
  BY <1>2, <1>3, <1>7, <1>9 DEF Cleared
<1>11. Kept'
  BY <1>2, <1>4, <1>8 DEF Kept
<1>12. TypeOK'
  BY <1>2, <1>4, <1>8 DEF TypeOK
<1> QED  BY <1>2, <1>10, <1>11, <1>12 DEF IInv, Clearing

\* A link that is NULL has nothing to free.
LEMMA ClearEmptyInv == IInv /\ SubtreeEmpty /\ phase = "DelAllNode" => IInv'
<1> SUFFICES ASSUME IInv, SubtreeEmpty, phase = "DelAllNode"
             PROVE  IInv'
  OBVIOUS
<1>1. /\ link[Top] = NULL /\ phase' = "freed"
      /\ UNCHANGED <<link, avltFlg, used, stack, elem, ret, q, seen, answer, load, more>>
  BY DEF SubtreeEmpty, nodes, Bounds
<1>2. PICK lk0, u0, lo, hi : Cleared(lk0, u0, lo, hi)
  BY DEF IInv, Clearing
<1>3. TypeOK /\ Kept /\ stack[1] = Root
  BY DEF IInv, Kept
<1>4. Top \in Live(u0) /\ link[Top] = lk0[Top] /\ stack # <<>>
  BY <1>2, <1>3, ClearedPlaces
<1>5. {z \in u0 : Inside(lo, hi, Top, z)} = {}
  BY <1>1, <1>2, <1>4 DEF Cleared, Shape, Hanging, Inside
<1>6. Cleared(lk0, u0, lo, hi)'
  BY <1>1, <1>2, <1>5 DEF Cleared
<1>7. Kept'
  BY <1>1, <1>3, <1>4 DEF Kept
<1>8. TypeOK'
  BY <1>1, <1>3 DEF TypeOK
<1> QED  BY <1>1, <1>6, <1>7, <1>8 DEF IInv, Clearing

\* The right subtree is freed after the left one.
LEMMA ClearRightInv == IInv /\ DelAllNodeRight => IInv'
<1> SUFFICES ASSUME IInv, DelAllNodeRight
             PROVE  IInv'
  OBVIOUS
<1>1. PICK n : n = Top[1]
  OBVIOUS
<1>2. /\ phase = "freed" /\ Len(stack) > 1 /\ Top[2] = L /\ stack' = Turned(stack) /\ phase' = "DelAllNode"
      /\ UNCHANGED <<link, avltFlg, used, elem, ret, q, seen, answer, load, more>>
  BY DEF DelAllNodeRight, nodes, Bounds
<1>3. PICK lk0, u0, lo, hi : Cleared(lk0, u0, lo, hi)
  BY <1>2 DEF IInv, Clearing
<1>4. TypeOK /\ Kept /\ stack[1] = Root
  BY <1>2 DEF IInv, Kept
<1>5. /\ used \subseteq u0 /\ n \in used /\ Top = <<n, L>> /\ Len(stack) \in Nat /\ stack \in Seq(Places)
  BY <1>1, <1>2, <1>3, <1>4, ClearedPlaces
<1>6. /\ Shape(lk0, u0, lo, hi) /\ Chain(lk0, u0, lo, hi, stack) /\ used = Remaining(u0, hi, stack)
  BY <1>2, <1>3 DEF Cleared
<1>7. /\ Chain(lk0, u0, lo, hi, stack') /\ Len(stack') = Len(stack)
      /\ \A i \in 1 .. Len(stack) - 1 : stack'[i] = stack[i]
      /\ stack'[Len(stack)] = <<n, R>>
  BY <1>1, <1>2, <1>6, ChainTurned DEF Top
<1>8. stack' \in Seq(Places) /\ stack' # <<>> /\ stack'[1] = Root /\ Top' = <<n, R>>
  BY <1>2, <1>4, <1>5, <1>7 DEF Chain, Top
<1>9. used = Remaining(u0, hi, stack') \cup {z \in u0 : Inside(lo, hi, Top', z)}
  <2>1. ASSUME NEW z \in u0
        PROVE  z \in Remaining(u0, hi, stack) <=>
                 z \in Remaining(u0, hi, stack') \/ (n < z /\ z < hi[n])
    <3>1. 2 .. Len(stack) = 2 .. Len(stack) - 1 \cup {Len(stack)} /\ Len(stack) \in 2 .. Len(stack)
      BY <1>2, <1>5
    <3>2. \A i \in 2 .. Len(stack) - 1 : stack'[i] = stack[i]
      BY <1>7
    <3>3. stack[Len(stack)] = <<n, L>>
      BY <1>5 DEF Top
    <3> QED  BY <1>7, <3>1, <3>2, <3>3 DEF Remaining, L, R
  <2>2. ASSUME NEW z \in u0
        PROVE  Inside(lo, hi, Top', z) <=> (n < z /\ z < hi[n])
    BY <1>8 DEF Inside, Low, High, L, R
  <2>3. Remaining(u0, hi, stack) \subseteq u0 /\ Remaining(u0, hi, stack') \subseteq u0
    BY DEF Remaining
  <2> QED  BY <1>6, <2>1, <2>2, <2>3
<1>10. Cleared(lk0, u0, lo, hi)'
  BY <1>2, <1>3, <1>7, <1>9 DEF Cleared
<1>11. Kept'
  BY <1>2, <1>4, <1>8 DEF Kept
<1>12. TypeOK'
  BY <1>2, <1>4, <1>8 DEF TypeOK
<1> QED  BY <1>2, <1>10, <1>11, <1>12 DEF IInv, Clearing

\* A node is freed after both its subtrees.
LEMMA ClearFreeInv == IInv /\ DelAllNodeFree => IInv'
<1> SUFFICES ASSUME IInv, DelAllNodeFree
             PROVE  IInv'
  OBVIOUS
<1>1. PICK n : n = Top[1]
  OBVIOUS
<1>2. /\ phase = "freed" /\ Len(stack) > 1 /\ Top[2] = R /\ stack' = PopTo(stack) /\ phase' = phase
      /\ used' = used \ {n} /\ avltFlg' = [avltFlg EXCEPT ![n] = 0]
      /\ link' = [link EXCEPT ![<<n, L>>] = NULL, ![<<n, R>>] = NULL]
      /\ UNCHANGED <<elem, ret, q, seen, answer, load, more>>
  BY <1>1 DEF DelAllNodeFree, Free, Bounds
<1>3. PICK lk0, u0, lo, hi : Cleared(lk0, u0, lo, hi)
  BY <1>2 DEF IInv, Clearing
<1>4. TypeOK /\ Kept /\ stack[1] = Root /\ seen = <<>>
  BY <1>2 DEF IInv, Kept
<1>5. /\ used \subseteq u0 /\ n \in used /\ Top = <<n, R>> /\ Len(stack) \in Nat /\ stack \in Seq(Places)
  BY <1>1, <1>2, <1>3, <1>4, ClearedPlaces
<1>6. /\ Shape(lk0, u0, lo, hi) /\ Chain(lk0, u0, lo, hi, stack) /\ used = Remaining(u0, hi, stack)
      /\ link \in [Places -> Keys \cup {NULL}] /\ (\A s \in Live(used) : link[s] = lk0[s])
      /\ \A k \in Keys : k < hi[Tree]
  BY <1>2, <1>3 DEF Cleared
<1>7. /\ Chain(lk0, u0, lo, hi, stack') /\ Len(stack') = Len(stack) - 1
      /\ \A i \in 1 .. Len(stack) - 1 : stack'[i] = stack[i]
  BY <1>2, <1>6, ChainPop
<1>8. stack' \in Seq(Places) /\ stack' # <<>> /\ stack'[1] = Root
  BY <1>2, <1>4, <1>5, <1>7 DEF Chain
<1>9. n \in Keys /\ <<n, L>> \in Places /\ <<n, R>> \in Places
  BY <1>4, <1>5 DEF TypeOK, Places
<1>10. /\ link' \in [Places -> Keys \cup {NULL}] /\ (\A d \in Sides : link'[<<n, d>>] = NULL)
       /\ \A s \in Places : s[1] # n => link'[s] = link[s]
  <2>1. \A s \in Places : s[1] # n => s # <<n, L>> /\ s # <<n, R>>
    OBVIOUS
  <2> QED  BY <1>2, <1>6, <1>9, <2>1 DEF Sides, L, R
<1>11. avltFlg' \in [Keys -> 0 .. 2] /\ avltFlg'[n] = 0 /\ \A m \in Keys \ {n} : avltFlg'[m] = avltFlg[m]
  BY <1>2, <1>4, <1>9 DEF TypeOK
<1>12. n \notin Remaining(u0, hi, stack')
  <2>1. ASSUME NEW i \in 2 .. Len(stack')
        PROVE  ~(n = stack'[i][1] \/ (stack'[i][2] = L /\ stack'[i][1] < n /\ n < hi[stack'[i][1]]))
    <3>1. i \in 1 .. Len(stack) /\ Len(stack) \in 1 .. Len(stack) /\ i < Len(stack) /\ stack'[i] = stack[i]
      BY <1>2, <1>5, <1>7
    <3>2. Inside(lo, hi, stack[i], n) /\ stack[i] \in Live(u0)
      BY <1>1, <1>6, <3>1 DEF Chain, Top
    <3>3. /\ ~Inside(lo, hi, stack[i], stack[i][1]) /\ stack[i][1] \in Int /\ n \in Int
          /\ stack[i][2] = L => High(hi, stack[i]) = stack[i][1]
      BY <1>5, <1>6, <3>2, PlaceFacts DEF High
    <3> QED  BY <3>1, <3>2, <3>3 DEF Inside
  <2> QED  BY <2>1 DEF Remaining
<1>13. used' = Remaining(u0, hi, stack')
  <2>1. ASSUME NEW z \in u0
        PROVE  z \in Remaining(u0, hi, stack) <=> z \in Remaining(u0, hi, stack') \/ z = n
    <3>1. 2 .. Len(stack) = 2 .. Len(stack') \cup {Len(stack)} /\ Len(stack) \in 2 .. Len(stack)
      BY <1>2, <1>5, <1>7
    <3>2. \A i \in 2 .. Len(stack') : stack'[i] = stack[i]
      BY <1>5, <1>7
    <3>3. stack[Len(stack)] = <<n, R>>
      BY <1>5 DEF Top
    <3> QED  BY <3>1, <3>2, <3>3 DEF Remaining, L, R
  <2>2. Remaining(u0, hi, stack) \subseteq u0 /\ Remaining(u0, hi, stack') \subseteq u0
    BY DEF Remaining
  <2> QED  BY <1>2, <1>6, <1>12, <2>1, <2>2
<1>14. Cleared(lk0, u0, lo, hi)'
  <2>1. \A s \in Live(used') : link'[s] = lk0[s]
    <3>1. ASSUME NEW s \in Live(used')
          PROVE  s \in Live(used) /\ s \in Places /\ s[1] # n
      <4>1. n \in Nat /\ used' \subseteq Keys /\ used' = used \ {n}
        BY <1>2, <1>4, <1>9, KeysAssumption DEF TypeOK
      <4>2. CASE s = Root
        BY <4>1, <4>2 DEF Live, Root, Places
      <4>3. CASE s # Root
        <5>1. PICK m \in used', d \in Sides : s = <<m, d>>
          BY <3>1, <4>3 DEF Live
        <5> QED  BY <4>1, <5>1 DEF Live, Places, Sides
      <4> QED  BY <4>2, <4>3
    <3> QED  BY <1>6, <1>10, <3>1
  <2> QED  BY <1>2, <1>6, <1>7, <1>10, <1>13, <2>1 DEF Cleared
<1>15. Kept'
  <2>1. ASSUME NEW m \in Keys \ used', NEW d \in Sides
        PROVE  avltFlg'[m] = 0 /\ link'[<<m, d>>] = NULL
    <3>1. CASE m = n
      BY <1>10, <1>11, <3>1
    <3>2. CASE m # n
      <4>1. m \notin used /\ <<m, d>> \in Places
        BY <1>2, <3>2 DEF Places, Sides
      <4> QED  BY <1>4, <1>10, <1>11, <3>2, <4>1 DEF Kept
    <3> QED  BY <3>1, <3>2
  <2>2. R \in Sides /\ \A i \in 1 .. Len(seen') : FALSE
    BY <1>2, <1>4 DEF Sides
  <2> QED  BY <1>2, <1>4, <1>8, <2>1, <2>2 DEF Kept
<1>16. TypeOK'
  BY <1>2, <1>4, <1>8, <1>10, <1>11 DEF TypeOK
<1> QED  BY <1>2, <1>14, <1>15, <1>16 DEF IInv, Clearing

\* The tree without nodes.
LEMMA EmptyTree ==
  ASSUME NEW lk \in [Places -> Keys \cup {NULL}], lk[Root] = NULL, NEW flg \in [Keys -> 0 .. 2],
         NEW m \in Int, Tree < m, \A k \in Keys : k < m
  PROVE  \E lo, hi, V : /\ Shape(lk, {}, lo, hi) /\ (\A k \in Keys : k < hi[Tree])
                        /\ Even(lk, flg, {}, V, Root, 0)
<1> DEFINE lo == [n \in Keys \cup {Tree} |-> -2]
           hi == [n \in Keys \cup {Tree} |-> m]
           V  == [n \in Keys \cup {NULL} |-> 0]
<1>1. Bounded({}, lo, hi) /\ Nested({}, lo, hi)
  BY DEF Bounded, Nested, Tree
<1>2. Hanging(lk, {}, lo, hi, Root)
  BY DEF Hanging
<1>3. Shape(lk, {}, lo, hi)
  BY <1>1, <1>2 DEF Shape, Live
<1>4. Even(lk, flg, {}, V, Root, 0)
  BY DEF Even
<1> QED  BY <1>3, <1>4

\* The last call of TREE_Clear returns: the tree is as it was made.
LEMMA ClearReturnInv == IInv /\ TREE_ClearReturn => IInv'
<1> SUFFICES ASSUME IInv, TREE_ClearReturn
             PROVE  IInv'
  OBVIOUS
<1>1. /\ phase = "freed" /\ Len(stack) = 1 /\ link' = [link EXCEPT ![Root] = NULL]
      /\ phase' = "none" /\ stack' = <<>> /\ elem' = NULL /\ ret' = 0 /\ seen' = <<>> /\ answer' = answer
      /\ UNCHANGED <<avltFlg, used, q, load, more>>
  BY DEF TREE_ClearReturn, Answer, Bounds
<1>2. PICK lk0, u0, lo, hi : Cleared(lk0, u0, lo, hi)
  BY <1>1 DEF IInv, Clearing
<1>3. TypeOK /\ Kept /\ stack[1] = Root /\ q = NULL
  BY <1>1 DEF IInv, Kept
<1>4. used = {}
  BY <1>1, <1>2 DEF Cleared, Remaining
<1>5. /\ link' \in [Places -> Keys \cup {NULL}] /\ link'[Root] = NULL
      /\ \A n \in Keys, d \in Sides : link'[<<n, d>>] = NULL
  <2>1. Root \in Places /\ link \in [Places -> Keys \cup {NULL}]
    BY <1>3 DEF Places, TypeOK
  <2>2. \A n \in Keys, d \in Sides : <<n, d>> # Root /\ <<n, d>> \in Places
    BY KeysAssumption DEF Root, Places, Sides
  <2> QED  BY <1>1, <1>3, <1>4, <2>1, <2>2 DEF Kept
<1>6. \E lo2, hi2, V2 : /\ Shape(link', {}, lo2, hi2) /\ (\A k \in Keys : k < hi2[Tree])
                        /\ Even(link', avltFlg', {}, V2, Root, 0)
  <2>1. hi[Tree] \in Int /\ Tree < hi[Tree] /\ \A k \in Keys : k < hi[Tree]
    <3>1. Shape(lk0, u0, lo, hi) /\ Tree \in u0 \cup {Tree}
      BY <1>2 DEF Cleared
    <3> QED  BY <1>2, <3>1, NodeFacts DEF Cleared
  <2>2. avltFlg' \in [Keys -> 0 .. 2]
    BY <1>1, <1>3 DEF TypeOK
  <2> QED  BY <1>5, <2>1, <2>2, EmptyTree
<1>7. Hung' = {} /\ Hole' = Root /\ Delta' = 0
  BY <1>1, <1>4 DEF Hung, Hole, Delta
<1>8. \E lo2, hi2, V2 : InTree(lo2, hi2, V2)'
  BY <1>1, <1>6, <1>7 DEF InTree
<1>9. Kept'
  BY <1>1, <1>3, <1>4, <1>5 DEF Kept
<1>10. TypeOK'
  BY <1>1, <1>3, <1>5 DEF TypeOK
<1> QED  BY <1>1, <1>8, <1>9, <1>10 DEF IInv, Clearing

\* There is a number above all elements.
LEMMA KeysBounded == \E m \in Int : Tree < m /\ \A k \in Keys : k < m
<1> DEFINE Above(T) == {m \in Nat : \A k \in T : k < m}
           Open     == {T \in SUBSET Keys : Above(T) = {}}
<1>1. SUFFICES Keys \notin Open
  BY DEF Tree
<1>2. SUFFICES ASSUME Keys \in Open
               PROVE  FALSE
  OBVIOUS
<1>3. Open \subseteq FiniteSubsetsOf(Nat) /\ Open # {}
  BY <1>2, KeysAssumption, FS_Subset DEF FiniteSubsetsOf
<1>4. PICK T \in Open : \A U \in Open : ~(<<U, T>> \in StrictSubsetOrdering(Nat))
  BY <1>3, FS_StrictSubsetOrderingWellFounded, WFMin
<1>5. T # {}
  <2>1. 0 \in Above({})
    OBVIOUS
  <2> QED  BY <2>1
<1>6. PICK x \in T : TRUE
  BY <1>5
<1>7. x \in Nat /\ T \subseteq Nat
  BY KeysAssumption
<1>8. T \ {x} \notin Open
  <2>1. T \ {x} \subseteq T /\ T \ {x} # T
    OBVIOUS
  <2>2. T \ {x} \in Open => <<T \ {x}, T>> \in StrictSubsetOrdering(Nat)
    BY <1>3, <2>1 DEF StrictSubsetOrdering, FiniteSubsetsOf
  <2> QED  BY <1>4, <2>2
<1>9. PICK m \in Nat : \A k \in T \ {x} : k < m
  BY <1>8
<1>10. m + x + 1 \in Above(T)
  BY <1>7, <1>9
<1> QED  BY <1>10

\* A new tree has the invariant.
LEMMA InitInv == Init => IInv
<1> SUFFICES ASSUME Init
             PROVE  IInv
  OBVIOUS
<1>1. /\ link = [pp \in Places |-> NULL] /\ avltFlg = [n \in Keys |-> 0] /\ used = {}
      /\ phase = "none" /\ stack = <<>> /\ elem = NULL /\ ret = 0 /\ q = NULL /\ seen = <<>>
      /\ answer = "none" /\ load \in Seq(Keys) /\ more \subseteq Keys
  BY LoadsAssumption DEF Init, TREE_Make
<1>2. link \in [Places -> Keys \cup {NULL}] /\ avltFlg \in [Keys -> 0 .. 2] /\ Root \in Places
  BY <1>1 DEF Places
<1>3. TypeOK
  BY <1>1, <1>2 DEF TypeOK
<1>4. Kept
  <2>1. \A n \in Keys, d \in Sides : <<n, d>> \in Places
    BY DEF Places, Sides
  <2>2. \A i \in 1 .. Len(seen) : FALSE
    BY <1>1
  <2>3. \A n \in Keys \ used : avltFlg[n] = 0 /\ \A d \in Sides : link[<<n, d>>] = NULL
    BY <1>1, <2>1
  <2> QED  BY <1>1, <2>2, <2>3 DEF Kept
<1>5. \E lo, hi, V : /\ Shape(link, {}, lo, hi) /\ (\A k \in Keys : k < hi[Tree])
                     /\ Even(link, avltFlg, {}, V, Root, 0)
  <2>1. PICK m \in Int : Tree < m /\ \A k \in Keys : k < m
    BY KeysBounded
  <2>2. link[Root] = NULL
    BY <1>1, <1>2
  <2> QED  BY <1>2, <2>1, <2>2, EmptyTree
<1>6. Hung = {} /\ Hole = Root /\ Delta = 0
  BY <1>1 DEF Hung, Hole, Delta
<1>7. \E lo, hi, V : InTree(lo, hi, V)
  BY <1>1, <1>5, <1>6 DEF InTree
<1> QED  BY <1>1, <1>3, <1>4, <1>7 DEF IInv, Clearing

\* Every call of the tree starts with the invariant.
LEMMA CallsInv == IInv /\ Calls => IInv'
<1> SUFFICES ASSUME IInv, Calls
             PROVE  IInv'
  OBVIOUS
<1>1. CASE TREE_Clear
  BY <1>1, ClearCallInv
<1>2. load \in Seq(Keys) /\ more \subseteq Keys
  BY DEF IInv, TypeOK
<1>3. CASE TREE_DoAll
  <2>1. Call("DoElement", NULL) /\ answer' = answer /\ load' \in Seq(Keys) /\ UNCHANGED more
    BY <1>2, <1>3 DEF TREE_DoAll, Bounds
  <2> QED  BY <2>1, CallInv
<1>4. ASSUME NEW e \in Keys, TREE_Insert(e)
      PROVE  IInv'
  <2>1. Call("insNode", e) /\ answer' = answer /\ UNCHANGED more
    BY <1>4 DEF TREE_Insert
  <2>2. load' \in Seq(Keys)
    BY <1>2, <1>4 DEF TREE_Insert
  <2> QED  BY <2>1, <2>2, CallInv
<1>5. ASSUME NEW e \in Keys, TREE_Search(e)
      PROVE  IInv'
  <2>1. Call("TREE_Search", e) /\ answer' = answer /\ load' \in Seq(Keys) /\ UNCHANGED more
    BY <1>2, <1>5 DEF TREE_Search, Bounds
  <2> QED  BY <2>1, CallInv
<1>6. ASSUME NEW e \in Keys, TREE_Delete(e)
      PROVE  IInv'
  <2>1. Call("DeleteNode", e) /\ answer' = answer /\ load' \in Seq(Keys) /\ UNCHANGED more
    BY <1>2, <1>6 DEF TREE_Delete, Bounds
  <2> QED  BY <2>1, CallInv
<1> QED  BY <1>1, <1>3, <1>4, <1>5, <1>6 DEF Calls

\* Every step of a call keeps the invariant.
LEMMA StepsInv == IInv /\ Steps => IInv'
<1> SUFFICES ASSUME IInv, Steps
             PROVE  IInv'
  OBVIOUS
<1>1. CASE SubtreeDown
  <2>1. phase = "DoElement" \/ phase = "DelAllNode"
    BY <1>1 DEF SubtreeDown
  <2> QED  BY <1>1, <2>1, WalkDownInv, ClearDownInv
<1>2. CASE SubtreeEmpty
  <2>1. phase = "DoElement" \/ phase = "DelAllNode"
    BY <1>2 DEF SubtreeEmpty
  <2> QED  BY <1>2, <2>1, ArrivedInv, ClearEmptyInv
<1>3. CASE insNodeOld \/ DeleteNodeMissing
  BY <1>3, ArrivedInv
<1>4. CASE TREE_InsertReturn \/ TREE_SearchReturn \/ TREE_DeleteReturn \/ TREE_DoAllReturn
  BY <1>4, AnsweredInv
<1>5. CASE Descend \/ insNodeNew \/ insNodeReturn \/ TREE_SearchStep
  BY <1>5, DescendInv, InsertNewInv, InsertReturnInv, SearchStepInv
<1>6. CASE DeleteNodeLast \/ DeleteNodeInner \/ DeleteNodeReplace \/ DeleteNodeReturn
  BY <1>6, DeleteLastInv, InnerInv, DeleteReplaceInv, DeleteReturnInv
<1>7. CASE delExtractMaxDescend \/ delExtractMaxTake \/ delExtractMaxReturn
  BY <1>7, ExtractDescendInv, ExtractTakeInv, ExtractReturnInv
<1>8. CASE DoElementNode \/ DoElementReturn
  BY <1>8, WalkNodeInv, WalkReturnInv
<1>9. CASE DelAllNodeRight \/ DelAllNodeFree \/ TREE_ClearReturn
  BY <1>9, ClearRightInv, ClearFreeInv, ClearReturnInv
<1> QED  BY <1>1, <1>2, <1>3, <1>4, <1>5, <1>6, <1>7, <1>8, <1>9 DEF Steps

\* So does a step of something else.
LEMMA StutterInv == IInv /\ UNCHANGED vars => IInv'
<1> SUFFICES ASSUME IInv, UNCHANGED vars
             PROVE  IInv'
  OBVIOUS
<1>1. /\ UNCHANGED <<link, avltFlg, used, phase, stack, elem, ret, q, seen, answer, load, more>>
  BY DEF vars, nodes, locals
<1>2. TypeOK' /\ Kept'
  BY <1>1 DEF IInv, TypeOK, Kept, Rightmost, Hung
<1>3. Hung' = Hung /\ Hole' = Hole /\ Delta' = Delta /\ Top' = Top /\ Clearing' = Clearing
  BY <1>1 DEF Hung, Hole, Delta, Top, Clearing
<1>4. ASSUME NEW lo, NEW hi, NEW V, InTree(lo, hi, V)
      PROVE  InTree(lo, hi, V)'
  BY <1>1, <1>3, <1>4 DEF InTree, HandedOver
<1>5. ASSUME NEW lk0, NEW u0, NEW lo, NEW hi, Cleared(lk0, u0, lo, hi)
      PROVE  Cleared(lk0, u0, lo, hi)'
  BY <1>1, <1>3, <1>5 DEF Cleared
<1> QED  BY <1>2, <1>3, <1>4, <1>5 DEF IInv

\* The invariant holds in every state of the tree's calls.
THEOREM Invariance == Spec => []IInv
<1>1. IInv /\ [Next]_vars => IInv'
  BY CallsInv, StepsInv, StutterInv DEF Next
<1> QED  BY InitInv, <1>1, PTL DEF Spec

\* TypeOK: every place, flag, argument and answer stays in its range, in the
\* midst of every call.
THEOREM TypeCorrect == Spec => []TypeOK
<1>1. IInv => TypeOK
  BY DEF IInv
<1> QED  BY Invariance, <1>1, PTL

----------------------------------------------------------------------------
(* What the recursive functions of Ordered and Balanced are, told by the   *)
(* invariant's ends and heights.                                           *)

\* A non-empty set of numbers has a least one.
LEMMA LeastOfNats ==
  ASSUME NEW S \in SUBSET Nat, S # {}
  PROVE  \E x \in S : \A y \in S : x <= y
<1> DEFINE Segments == {0 .. y : y \in S}
<1>1. Segments \subseteq FiniteSubsetsOf(Nat) /\ Segments # {}
  <2>1. ASSUME NEW y \in S
        PROVE  0 .. y \in FiniteSubsetsOf(Nat)
    <3>1. 0 \in Int /\ y \in Int /\ 0 .. y \subseteq Nat
      OBVIOUS
    <3> QED  BY <3>1, FS_Interval DEF FiniteSubsetsOf
  <2> QED  BY <2>1
<1>2. PICK T \in Segments : \A U \in Segments : ~(<<U, T>> \in StrictSubsetOrdering(Nat))
  BY <1>1, FS_StrictSubsetOrderingWellFounded, WFMin
<1>3. PICK x \in S : T = 0 .. x
  BY <1>2
<1>4. ASSUME NEW y \in S, y < x
      PROVE  FALSE
  <2>1. 0 .. y \subseteq 0 .. x /\ 0 .. y # 0 .. x
    BY <1>4
  <2>2. <<0 .. y, T>> \in StrictSubsetOrdering(Nat)
    BY <1>1, <1>2, <1>3, <2>1 DEF StrictSubsetOrdering, FiniteSubsetsOf
  <2> QED  BY <1>2, <2>2
<1> QED  BY <1>4

\* The nodes in the interval of node n.
Within(u, lo, hi, n) == IF n = NULL THEN {} ELSE {z \in u : lo[n] < z /\ z < hi[n]}

\* Below a place of the tree hang the nodes between its ends.
LEMMA WithinPlace ==
  ASSUME NEW lk, NEW u, NEW lo, NEW hi, Shape(lk, u, lo, hi), NEW s \in Live(u)
  PROVE  Within(u, lo, hi, lk[s]) = {z \in u : Inside(lo, hi, s, z)}
<1>1. Hanging(lk, u, lo, hi, s)
  BY DEF Shape
<1> QED  BY <1>1 DEF Hanging, Within, Inside

\* They are the node itself and those below its two links.
LEMMA WithinNode ==
  ASSUME NEW lk, NEW u, NEW lo, NEW hi, Shape(lk, u, lo, hi), NEW n \in u
  PROVE  /\ Within(u, lo, hi, n)
              = {n} \cup Within(u, lo, hi, lk[<<n, L>>]) \cup Within(u, lo, hi, lk[<<n, R>>])
         /\ \A d \in Sides : /\ lk[<<n, d>>] \in u \cup {NULL}
                             /\ lk[<<n, d>>] \in u => hi[lk[<<n, d>>]] - lo[lk[<<n, d>>]] < hi[n] - lo[n]
<1>1. <<n, L>> \in Live(u) /\ <<n, R>> \in Live(u) /\ \A d \in Sides : <<n, d>> \in Live(u)
  BY DEF Live, Sides
<1>2. n \in Int /\ lo[n] \in Int /\ hi[n] \in Int /\ lo[n] < n /\ n < hi[n]
  BY NodeFacts
<1>3. n # NULL /\ u \subseteq Int /\ NULL \notin u
  BY <1>1, PlaceFacts
<1>4. /\ Low(lo, <<n, L>>) = lo[n] /\ High(hi, <<n, L>>) = n
      /\ Low(lo, <<n, R>>) = n /\ High(hi, <<n, R>>) = hi[n]
  BY DEF Low, High, L, R
<1>5. /\ Within(u, lo, hi, lk[<<n, L>>]) = {z \in u : lo[n] < z /\ z < n}
      /\ Within(u, lo, hi, lk[<<n, R>>]) = {z \in u : n < z /\ z < hi[n]}
  BY <1>1, <1>4, WithinPlace DEF Inside
<1>6. Within(u, lo, hi, n) = {z \in u : lo[n] < z /\ z < hi[n]}
  BY <1>3 DEF Within
<1>7. \A z \in u : lo[n] < z /\ z < hi[n] <=> z = n \/ (lo[n] < z /\ z < n) \/ (n < z /\ z < hi[n])
  BY <1>2, <1>3
<1>8. ASSUME NEW d \in Sides
      PROVE  /\ lk[<<n, d>>] \in u \cup {NULL}
             /\ lk[<<n, d>>] \in u => hi[lk[<<n, d>>]] - lo[lk[<<n, d>>]] < hi[n] - lo[n]
  <2>1. lk[<<n, d>>] # NULL => /\ lk[<<n, d>>] \in u /\ lo[lk[<<n, d>>]] = Low(lo, <<n, d>>)
                               /\ hi[lk[<<n, d>>]] = High(hi, <<n, d>>)
    BY <1>1, PlaceFacts
  <2>2. /\ Low(lo, <<n, d>>) \in Int /\ High(hi, <<n, d>>) \in Int
        /\ High(hi, <<n, d>>) - Low(lo, <<n, d>>) < hi[n] - lo[n]
    BY <1>2 DEF Low, High
  <2> QED  BY <1>3, <2>1, <2>2
<1> QED  BY <1>5, <1>6, <1>7, <1>8

\* The nodes of the subtree at each place, if no node that does not hang in the
\* tree has links to others like it.
LEMMA SubtreesAre ==
  ASSUME NEW lk, NEW u, NEW lo, NEW hi, Shape(lk, u, lo, hi),
         \A n \in Keys \ u, d \in Sides : lk[<<n, d>>] \in u \cup {NULL},
         NEW s \in Live(u)
  PROVE  Subtrees(lk)[lk[s]] = {z \in u : Inside(lo, hi, s, z)}
<1> DEFINE N == Keys \cup {NULL}
           step(f) == [n \in N |-> IF n = NULL THEN {} ELSE {n} \cup f[lk[<<n, L>>]] \cup f[lk[<<n, R>>]]]
           W(n) == Within(u, lo, hi, n)
           w == [n \in N |-> IF n \in u \cup {NULL} THEN W(n) ELSE {n} \cup W(lk[<<n, L>>]) \cup W(lk[<<n, R>>])]
           b == Subtrees(lk)
<1>1. u \subseteq Keys /\ NULL \notin u /\ L \in Sides /\ R \in Sides
  BY PlaceFacts DEF Sides
<1>2. w = step(w)
  <2>1. ASSUME NEW n \in Keys
        PROVE  w[n] = {n} \cup w[lk[<<n, L>>]] \cup w[lk[<<n, R>>]]
    <3>1. lk[<<n, L>>] \in u \cup {NULL} /\ lk[<<n, R>>] \in u \cup {NULL}
      BY <1>1, WithinNode
    <3>2. w[lk[<<n, L>>]] = W(lk[<<n, L>>]) /\ w[lk[<<n, R>>]] = W(lk[<<n, R>>])
      BY <1>1, <3>1
    <3>3. CASE n \in u
      <4>1. w[n] = W(n)
        BY <3>3
      <4>2. W(n) = {n} \cup W(lk[<<n, L>>]) \cup W(lk[<<n, R>>])
        BY <3>3, WithinNode
      <4> HIDE DEF w, W
      <4> QED  BY <3>2, <4>1, <4>2
    <3>4. CASE n \notin u
      <4>1. n # NULL
        BY KeysAssumption DEF NULL
      <4> QED  BY <3>2, <3>4, <4>1
    <3> QED  BY <3>3, <3>4
  <2>2. w[NULL] = {} /\ w = [n \in N |-> w[n]]
    BY DEF Within
  <2> HIDE DEF w
  <2>3. step(w) = [n \in N |-> w[n]]
    BY <2>1, <2>2
  <2> QED  BY <2>2, <2>3
<1>3. b = step(b)
  <2>1. b = CHOOSE f : f = step(f)
    BY DEF Subtrees
  <2> HIDE DEF step, w, b
  <2> QED  BY <1>2, <2>1
<1>4. b[NULL] = {} /\ \A n \in Keys : b[n] = {n} \cup b[lk[<<n, L>>]] \cup b[lk[<<n, R>>]]
  <2>1. \A n \in Keys : n # NULL
    BY KeysAssumption DEF NULL
  <2>2. \A n \in N : b[n] = IF n = NULL THEN {} ELSE {n} \cup b[lk[<<n, L>>]] \cup b[lk[<<n, R>>]]
    <3> HIDE DEF b
    <3> QED  BY <1>3
  <2> HIDE DEF b
  <2> QED  BY <2>1, <2>2
<1> HIDE DEF b, w
<1>5. ASSUME NEW n \in u, b[n] # W(n)
      PROVE  FALSE
  <2> DEFINE S == {hi[m] - lo[m] : m \in {x \in u : b[x] # W(x)}}
  <2>1. S \subseteq Nat /\ S # {}
    <3>1. \A m \in u : hi[m] - lo[m] \in Nat
      <4>1. \A m \in u : hi[m] \in Int /\ lo[m] \in Int /\ m \in Int /\ lo[m] < m /\ m < hi[m]
        BY NodeFacts
      <4> QED  BY <4>1
    <3> QED  BY <1>5, <3>1
  <2>2. PICK x \in S : \A y \in S : x <= y
    <3> HIDE DEF S
    <3> QED  BY <2>1, LeastOfNats
  <2>3. PICK m \in u : b[m] # W(m) /\ x = hi[m] - lo[m]
    BY <2>2
  <2>4. ASSUME NEW d \in Sides
        PROVE  b[lk[<<m, d>>]] = W(lk[<<m, d>>])
    <3>1. /\ lk[<<m, d>>] \in u \cup {NULL}
          /\ lk[<<m, d>>] \in u => hi[lk[<<m, d>>]] - lo[lk[<<m, d>>]] < x
      BY <2>3, WithinNode
    <3>2. CASE lk[<<m, d>>] = NULL
      BY <1>4, <3>2 DEF Within
    <3>3. CASE lk[<<m, d>>] \in u
      <4>1. PICK c \in u : c = lk[<<m, d>>]
        BY <3>3
      <4>2. hi[c] \in Int /\ lo[c] \in Int /\ x \in Nat
        BY <2>1, <2>2, NodeFacts
      <4>3. hi[c] - lo[c] < x
        BY <3>1, <4>1
      <4>4. hi[c] - lo[c] \notin S
        <5> HIDE DEF S
        <5> QED  BY <2>2, <4>2, <4>3
      <4>5. b[c] = W(c)
        BY <4>4
      <4> QED  BY <4>1, <4>5
    <3> QED  BY <3>1, <3>2, <3>3
  <2>5. b[m] = {m} \cup b[lk[<<m, L>>]] \cup b[lk[<<m, R>>]]
    BY <1>1, <1>4
  <2>6. W(m) = {m} \cup W(lk[<<m, L>>]) \cup W(lk[<<m, R>>])
    BY WithinNode
  <2> QED  BY <1>1, <2>3, <2>4, <2>5, <2>6
<1>6. lk[s] \in u \cup {NULL}
  BY PlaceFacts
<1>7. b[lk[s]] = W(lk[s])
  <2>1. CASE lk[s] = NULL
    BY <1>4, <2>1 DEF Within
  <2>2. CASE lk[s] \in u
    BY <1>5, <2>2
  <2> QED  BY <1>6, <2>1, <2>2
<1> QED  BY <1>7, WithinPlace DEF b

\* The height of the subtree at each node of an even tree is the one it tells.
LEMMA HeightsAre ==
  ASSUME NEW lk, NEW flg, NEW u, NEW lo, NEW hi, NEW V, Shape(lk, u, lo, hi),
         Even(lk, flg, u, V, Root, 0),
         \A n \in Keys \ u, d \in Sides : lk[<<n, d>>] = NULL,
         NEW s \in Live(u)
  PROVE  Heights(lk)[lk[s]] = V[lk[s]]
<1> DEFINE N == Keys \cup {NULL}
           one(x, y) == 1 + (IF x > y THEN x ELSE y)
           step(f) == [n \in N |-> IF n = NULL THEN 0
                                   ELSE one(f[lk[<<n, L>>]], f[lk[<<n, R>>]])]
           w == [n \in N |-> IF n \in u \cup {NULL} THEN V[n] ELSE 1]
           h == Heights(lk)
<1>1. u \subseteq Keys /\ NULL \notin u /\ L \in Sides /\ R \in Sides
  BY PlaceFacts DEF Sides
<1>2. \A n \in u, d \in Sides : lk[<<n, d>>] \in u \cup {NULL}
  BY WithinNode
<1>3. V[NULL] = 0 /\ \A n \in u : V[n] = one(V[lk[<<n, L>>]], V[lk[<<n, R>>]])
  <2>1. ASSUME NEW n \in u
        PROVE  V[n] = one(V[lk[<<n, L>>]], V[lk[<<n, R>>]])
    <3>1. PICK x, y : x = V[lk[<<n, L>>]] /\ y = V[lk[<<n, R>>]]
      OBVIOUS
    <3>2. x \in Nat /\ y \in Nat
      BY <1>1, <1>2, <3>1 DEF Even
    <3>3. Told(lk, V, Root, 0, <<n, L>>) = x /\ Told(lk, V, Root, 0, <<n, R>>) = y
      <4>1. <<n, L>> # Root /\ <<n, R>> # Root
        BY <1>1, KeysAssumption DEF Root
      <4> QED  BY <3>1, <4>1 DEF Told
    <3>4. Level(flg[n], L, x, y, V[n])
      BY <3>3 DEF Even, EvenAt
    <3>5. V[n] = one(x, y)
      BY <3>2, <3>4 DEF Level
    <3> QED  BY <3>1, <3>5
  <2> QED  BY <2>1 DEF Even
<1>4. w = step(w)
  <2>1. ASSUME NEW n \in Keys
        PROVE  w[n] = one(w[lk[<<n, L>>]], w[lk[<<n, R>>]])
    <3>1. CASE n \in u
      <4>1. w[n] = V[n] /\ w[lk[<<n, L>>]] = V[lk[<<n, L>>]] /\ w[lk[<<n, R>>]] = V[lk[<<n, R>>]]
        BY <1>1, <1>2, <3>1
      <4> QED  BY <1>3, <3>1, <4>1
    <3>2. CASE n \notin u
      <4>1. n # NULL /\ lk[<<n, L>>] = NULL /\ lk[<<n, R>>] = NULL
        BY <1>1, <3>2, KeysAssumption DEF NULL
      <4>2. w[NULL] = 0 /\ w[n] = 1
        BY <1>3, <3>2, <4>1
      <4> QED  BY <4>1, <4>2
    <3> QED  BY <3>1, <3>2
  <2>2. w[NULL] = 0
    BY <1>3
  <2>3. step(w) = [n \in N |-> w[n]]
    BY <2>1, <2>2
  <2> QED  BY <2>3
<1>5. h = step(h)
  <2>1. h = CHOOSE f : f = step(f)
    BY DEF Heights
  <2> HIDE DEF step, w, h
  <2> QED  BY <1>4, <2>1
<1>6. h[NULL] = 0 /\ \A n \in Keys : h[n] = one(h[lk[<<n, L>>]], h[lk[<<n, R>>]])
  <2>1. \A n \in Keys : n # NULL
    BY KeysAssumption DEF NULL
  <2>2. \A n \in N : h[n] = IF n = NULL THEN 0 ELSE one(h[lk[<<n, L>>]], h[lk[<<n, R>>]])
    <3> HIDE DEF h, one
    <3> QED  BY <1>5
  <2> HIDE DEF h, one
  <2> QED  BY <2>1, <2>2
<1> HIDE DEF h, w, one
<1>7. ASSUME NEW n \in u, h[n] # V[n]
      PROVE  FALSE
  <2> DEFINE S == {hi[m] - lo[m] : m \in {x \in u : h[x] # V[x]}}
  <2>1. S \subseteq Nat /\ S # {}
    <3>1. \A m \in u : hi[m] - lo[m] \in Nat
      <4>1. \A m \in u : hi[m] \in Int /\ lo[m] \in Int /\ m \in Int /\ lo[m] < m /\ m < hi[m]
        BY NodeFacts
      <4> QED  BY <4>1
    <3> QED  BY <1>7, <3>1
  <2>2. PICK x \in S : \A y \in S : x <= y
    <3> HIDE DEF S
    <3> QED  BY <2>1, LeastOfNats
  <2>3. PICK m \in u : h[m] # V[m] /\ x = hi[m] - lo[m]
    BY <2>2
  <2>4. ASSUME NEW d \in Sides
        PROVE  h[lk[<<m, d>>]] = V[lk[<<m, d>>]]
    <3>1. /\ lk[<<m, d>>] \in u \cup {NULL}
          /\ lk[<<m, d>>] \in u => hi[lk[<<m, d>>]] - lo[lk[<<m, d>>]] < x
      BY <2>3, WithinNode
    <3>2. CASE lk[<<m, d>>] = NULL
      BY <1>3, <1>6, <3>2
    <3>3. CASE lk[<<m, d>>] \in u
      <4>1. PICK c \in u : c = lk[<<m, d>>]
        BY <3>3
      <4>2. hi[c] \in Int /\ lo[c] \in Int /\ x \in Nat
        BY <2>1, <2>2, NodeFacts
      <4>3. hi[c] - lo[c] < x
        BY <3>1, <4>1
      <4>4. hi[c] - lo[c] \notin S
        <5> HIDE DEF S
        <5> QED  BY <2>2, <4>2, <4>3
      <4>5. h[c] = V[c]
        BY <4>4
      <4> QED  BY <4>1, <4>5
    <3> QED  BY <3>1, <3>2, <3>3
  <2> QED  BY <1>1, <1>3, <1>6, <2>3, <2>4
<1>8. lk[s] \in u \cup {NULL}
  BY PlaceFacts
<1>9. h[lk[s]] = V[lk[s]]
  <2>1. CASE lk[s] = NULL
    BY <1>3, <1>6, <2>1
  <2>2. CASE lk[s] \in u
    BY <1>7, <2>2
  <2> QED  BY <1>8, <2>1, <2>2
<1> QED  BY <1>9 DEF h

\* No call has a pointer into a node that is not allocated.
LEMMA CallsInUsed == IInv => \A i \in 2 .. Len(stack) : stack[i][1] \in used
<1> SUFFICES ASSUME IInv, NEW i \in 2 .. Len(stack)
             PROVE  stack[i][1] \in used
  OBVIOUS
<1>1. TypeOK /\ Kept /\ stack # <<>>
  <2>1. CASE stack = <<>>
    <3>1. Len(stack) = 0
      BY <2>1
    <3> QED  BY <3>1
  <2> QED  BY <2>1 DEF IInv
<1>2. phase # "none"
  BY <1>1 DEF Kept
<1>3. CASE Clearing
  <2>1. PICK lk0, u0, lo, hi : Cleared(lk0, u0, lo, hi)
    BY <1>3 DEF IInv
  <2>2. stack[1] = Root
    BY <1>1, <1>3 DEF Kept, Clearing
  <2> QED  BY <2>1, <2>2, ClearedPlaces
<1>4. CASE ~Clearing
  <2>1. PICK lo, hi, V : InTree(lo, hi, V)
    BY <1>4 DEF IInv
  <2>2. Shape(link, Hung, lo, hi) /\ Chain(link, Hung, lo, hi, stack)
    BY <1>2, <2>1 DEF InTree
  <2>3. PICK j \in Nat : j + 1 = i /\ j \in 1 .. Len(stack) - 1 /\ j \in 1 .. Len(stack) /\ i \in 1 .. Len(stack)
    <3>1. Len(stack) \in Nat /\ i \in Int /\ 2 <= i /\ i <= Len(stack)
      BY <1>1 DEF TypeOK
    <3>2. i - 1 \in Nat /\ (i - 1) + 1 = i
      BY <3>1
    <3> QED  BY <3>1, <3>2
  <2>4. link[stack[j]] = stack[i][1] /\ stack[i] \in Live(Hung) /\ stack[j] \in Live(Hung)
    BY <2>2, <2>3 DEF Chain
  <2>5. stack[i][1] \in Hung \cup {Tree} /\ NULL \notin Hung
    BY <2>2, <2>4, PlaceFacts
  <2>6. stack[i][1] # NULL => stack[i][1] \in Hung
    BY <2>2, <2>4, PlaceFacts
  <2> QED  BY <2>5, <2>6 DEF Hung, Tree, NULL
<1> QED  BY <1>3, <1>4

\* The nodes below each place, in a tree that is not being freed.
LEMMA InTreeOrdered ==
  ASSUME IInv, ~Clearing
  PROVE  /\ Subtrees(link)[link[Root]] = used \ {q}
         /\ \A n \in used \ {q} : /\ \A m \in Subtrees(link)[link[<<n, L>>]] : m < n
                                  /\ \A m \in Subtrees(link)[link[<<n, R>>]] : n < m
<1>1. PICK lo, hi, V : InTree(lo, hi, V)
  BY DEF IInv
<1>2. Shape(link, Hung, lo, hi) /\ TypeOK /\ Kept /\ \A k \in Keys : k < hi[Tree]
  BY <1>1 DEF IInv, InTree
<1>3. ASSUME NEW n \in Keys \ Hung, NEW d \in Sides
      PROVE  link[<<n, d>>] \in Hung \cup {NULL}
  <2>1. CASE n \notin used
    BY <1>2, <2>1 DEF Kept
  <2>2. CASE n \in used
    <3>1. n = q /\ n # NULL
      BY <2>2, KeysAssumption DEF Hung, NULL
    <3> QED  BY <1>2, <3>1 DEF Kept
  <2> QED  BY <2>1, <2>2
<1>4. \A s \in Live(Hung) : Subtrees(link)[link[s]] = {z \in Hung : Inside(lo, hi, s, z)}
  BY <1>2, <1>3, SubtreesAre
<1>5. Subtrees(link)[link[Root]] = Hung
  <2>1. Root \in Live(Hung)
    BY DEF Live
  <2>2. \A z \in Hung : Inside(lo, hi, Root, z)
    <3>1. \A z \in Hung : z \in Keys /\ z \in Nat
      BY <1>2, KeysAssumption DEF Hung, TypeOK
    <3> QED  BY <1>2, <3>1 DEF Inside, Low, High, Root, L, R, Tree
  <2> QED  BY <1>4, <2>1, <2>2
<1>6. ASSUME NEW n \in Hung
      PROVE  /\ \A m \in Subtrees(link)[link[<<n, L>>]] : m < n
             /\ \A m \in Subtrees(link)[link[<<n, R>>]] : n < m
  <2>1. <<n, L>> \in Live(Hung) /\ <<n, R>> \in Live(Hung)
    BY DEF Live, Sides
  <2>2. High(hi, <<n, L>>) = n /\ Low(lo, <<n, R>>) = n
    BY DEF Low, High, L, R
  <2> QED  BY <1>4, <2>1, <2>2 DEF Inside
<1> QED  BY <1>5, <1>6 DEF Hung

\* TREE_DoAll has handed over every element when its last call has returned.
LEMMA AllHandedOver ==
  ASSUME IInv, phase = "done", Len(stack) = 1
  PROVE  {seen[i] : i \in 1 .. Len(seen)} = used
<1>1. PICK lo, hi, V : InTree(lo, hi, V)
  BY DEF IInv, Clearing
<1>2. TypeOK /\ Kept /\ (\A k \in Keys : k < hi[Tree]) /\ \A z \in used : HandedOver(z) <=> z < High(hi, Top)
  BY <1>1 DEF IInv, InTree
<1>3. Top = Root
  BY <1>2 DEF Kept, Top
<1>4. High(hi, Top) = hi[Tree]
  BY <1>3 DEF High, Root, L, R, Tree
<1>5. \A z \in used : HandedOver(z)
  BY <1>2, <1>4 DEF TypeOK
<1>6. \A i \in 1 .. Len(seen) : seen[i] \in used
  BY <1>2 DEF Kept
<1> QED  BY <1>5, <1>6 DEF HandedOver

\* Ordered: in the midst of every rotation, deletion and walk the allocated
\* nodes hang in the tree, each once and in order, no running call points into
\* a freed node, and TREE_DoAll hands each element over once, in order.
THEOREM OrderedAlways == Spec => []Ordered
<1>1. IInv => Ordered
  <2> SUFFICES ASSUME IInv
               PROVE  Ordered
    OBVIOUS
  <2>1. \A i, j \in 1 .. Len(seen) : i < j => seen[i] < seen[j]
    BY DEF IInv, Kept
  <2>2. phase \notin {"DelAllNode", "freed"} => ~Clearing
    BY DEF Clearing
  <2> QED  BY <2>1, <2>2, CallsInUsed, InTreeOrdered, AllHandedOver DEF Ordered
<1> QED  BY Invariance, <1>1, PTL

\* Balanced: between two calls the flags tell the heights of every node's
\* subtrees, which differ by one at most.
THEOREM BalancedAlways == Spec => []Balanced
<1>1. IInv => Balanced
  <2> SUFFICES ASSUME IInv, phase = "none", NEW n \in used
               PROVE  Heights(link)[link[<<n, R>>]] - Heights(link)[link[<<n, L>>]]
                        = CASE avltFlg[n] = 0 -> 0 [] avltFlg[n] = 1 -> -1 [] OTHER -> 1
    BY DEF Balanced
  <2>1. PICK lo, hi, V : InTree(lo, hi, V)
    BY DEF IInv, Clearing
  <2>2. TypeOK /\ Kept /\ q = NULL /\ Delta = 0
    BY DEF IInv, Kept, Delta
  <2>3. Hung = used
    BY <2>2, KeysAssumption DEF Hung, TypeOK, NULL
  <2>4. Shape(link, used, lo, hi) /\ Even(link, avltFlg, used, V, Root, 0)
    <3>1. Shape(link, used, lo, hi) /\ Even(link, avltFlg, used, V, Hole, 0)
      BY <2>1, <2>2, <2>3 DEF InTree
    <3> QED  BY <3>1, EvenAnywhere
  <2>5. <<n, L>> \in Live(used) /\ <<n, R>> \in Live(used) /\ <<n, L>> # Root /\ <<n, R>> # Root
    BY <2>2, KeysAssumption DEF Live, Sides, Root, TypeOK
  <2>6. \A m \in Keys \ used, d \in Sides : link[<<m, d>>] = NULL
    BY <2>2 DEF Kept
  <2>7. PICK x, y : x = V[link[<<n, L>>]] /\ y = V[link[<<n, R>>]]
    OBVIOUS
  <2>8. Heights(link)[link[<<n, L>>]] = x /\ Heights(link)[link[<<n, R>>]] = y
    BY <2>4, <2>5, <2>6, <2>7, HeightsAre
  <2>9. x \in Nat /\ y \in Nat /\ avltFlg[n] \in 0 .. 2
    <3>1. link[<<n, L>>] \in Keys \cup {NULL} /\ link[<<n, R>>] \in Keys \cup {NULL}
      BY <2>4, <2>5, PlaceFacts
    <3> QED  BY <2>2, <2>4, <2>7, <3>1 DEF Even, TypeOK
  <2>10. Level(avltFlg[n], L, x, y, V[n])
    BY <2>4, <2>5, <2>7 DEF Even, EvenAt, Told
  <2>11. y - x = CASE avltFlg[n] = 0 -> 0 [] avltFlg[n] = 1 -> -1 [] OTHER -> 1
    BY <2>9, <2>10 DEF Level, Pt, L, R
  <2> QED  BY <2>8, <2>11
<1> QED  BY Invariance, <1>1, PTL

----------------------------------------------------------------------------
(* The tree implements the set.                                            *)

\* Where the search for an element ends, the element is or would be.
LEMMA SearchEnds ==
  ASSUME IInv, phase \in {"insNode", "TREE_Search", "DeleteNode"}
  PROVE  /\ elem \in Keys /\ elem # NULL
         /\ link[Top] = NULL => elem \notin used
         /\ link[Top] = elem => elem \in used
<1>1. PICK lo, hi, V : InTree(lo, hi, V)
  BY DEF IInv, Clearing
<1>2. /\ Shape(link, Hung, lo, hi) /\ Chain(link, Hung, lo, hi, stack) /\ elem \in Keys
      /\ Inside(lo, hi, Top, elem) /\ TypeOK /\ q = NULL
  BY <1>1 DEF InTree, IInv, Kept
<1>3. elem # NULL /\ Hung = used
  BY <1>2, KeysAssumption DEF Hung, TypeOK, NULL
<1>4. Top \in Live(Hung)
  BY <1>2 DEF Chain, Top
<1>5. link[Top] = NULL => \A z \in Hung : ~Inside(lo, hi, Top, z)
  BY <1>2, <1>4 DEF Shape, Hanging, Inside
<1>6. link[Top] # NULL => link[Top] \in Hung
  BY <1>2, <1>4, PlaceFacts
<1> QED  BY <1>2, <1>3, <1>5, <1>6

\* A rebalancing step says whether the subtree has shrunk, never "not found".
LEMMA RebalanceTells ==
  ASSUME NEW lk, NEW flg, NEW pp, NEW dir
  PROVE  delRebalance(lk, flg, pp, dir).ret \in {0, 1}
BY DEF delRebalance

\* What the calls and returns do to the set.
Unseen == Stored' = Stored /\ answer' = answer

\* A call changes nothing that is stored, but for TREE_Clear.
LEMMA CallsImplement == IInv /\ Calls => Set!Clear \/ Unseen
<1> SUFFICES ASSUME IInv, Calls
             PROVE  Set!Clear \/ Unseen
  OBVIOUS
<1>1. CASE TREE_Clear
  <2>1. Stored' = {} /\ answer' = "none"
    BY <1>1 DEF TREE_Clear, Call, Stored
  <2> QED  BY <2>1 DEF Set!Clear
<1>2. ASSUME NEW f \in {"insNode", "TREE_Search", "DeleteNode", "DoElement"}, NEW e, Call(f, e), answer' = answer
      PROVE  Unseen
  <2>1. phase = "none" /\ phase' = f /\ used' = used
    BY <1>2 DEF Call, nodes
  <2> QED  BY <1>2, <2>1 DEF Unseen, Stored
<1>3. CASE TREE_DoAll
  BY <1>2, <1>3 DEF TREE_DoAll
<1>4. ASSUME NEW e \in Keys, TREE_Insert(e) \/ TREE_Search(e) \/ TREE_Delete(e)
      PROVE  Unseen
  <2>1. CASE TREE_Insert(e)
    BY <1>2, <2>1 DEF TREE_Insert
  <2>2. CASE TREE_Search(e)
    BY <1>2, <2>2 DEF TREE_Search
  <2>3. CASE TREE_Delete(e)
    BY <1>2, <2>3 DEF TREE_Delete
  <2> QED  BY <1>4, <2>1, <2>2, <2>3
<1> QED  BY <1>1, <1>3, <1>4 DEF Calls

\* The steps that come to an end of what was asked for.
LEMMA EndsImplement ==
  IInv => /\ insNodeNew \/ insNodeOld => Set!Insert(elem) /\ elem \in Keys
          /\ TREE_SearchReturn => Set!Search(elem) /\ elem \in Keys
          /\ TREE_DeleteReturn => Set!Delete(elem) /\ elem \in Keys
<1> SUFFICES ASSUME IInv
             PROVE  /\ insNodeNew \/ insNodeOld => Set!Insert(elem) /\ elem \in Keys
                    /\ TREE_SearchReturn => Set!Search(elem) /\ elem \in Keys
                    /\ TREE_DeleteReturn => Set!Delete(elem) /\ elem \in Keys
  OBVIOUS
<1>1. ASSUME insNodeNew
      PROVE  Set!Insert(elem) /\ elem \in Keys
  <2>1. phase = "insNode" /\ phase' = "inserted" /\ used' = used \cup {elem} /\ answer' = "new" /\ link[Top] = NULL
    BY <1>1 DEF insNodeNew
  <2>2. elem \in Keys /\ elem \notin used
    BY <2>1, SearchEnds
  <2>3. Stored = used /\ Stored' = used'
    BY <2>1 DEF Stored
  <2> QED  BY <2>1, <2>2, <2>3 DEF Set!Insert
<1>2. ASSUME insNodeOld
      PROVE  Set!Insert(elem) /\ elem \in Keys
  <2>1. phase = "insNode" /\ phase' = "inserted" /\ used' = used /\ answer' = "old" /\ link[Top] = elem
    BY <1>2 DEF insNodeOld, nodes
  <2>2. elem \in Keys /\ elem \in used
    BY <2>1, SearchEnds
  <2>3. Stored = used /\ Stored' = used'
    BY <2>1 DEF Stored
  <2> QED  BY <2>1, <2>2, <2>3 DEF Set!Insert
<1>3. ASSUME TREE_SearchReturn
      PROVE  Set!Search(elem) /\ elem \in Keys
  <2>1. /\ phase = "TREE_Search" /\ phase' = "none" /\ used' = used /\ link[Top] \in {NULL, elem}
        /\ answer' = IF link[Top] # NULL THEN "found" ELSE "absent"
    BY <1>3 DEF TREE_SearchReturn, Answer, nodes
  <2>2. /\ elem \in Keys /\ elem # NULL
        /\ link[Top] = NULL => elem \notin used
        /\ link[Top] = elem => elem \in used
    BY <2>1, SearchEnds
  <2>3. Stored = used /\ Stored' = used'
    BY <2>1 DEF Stored
  <2> QED  BY <2>1, <2>2, <2>3 DEF Set!Search
<1>4. ASSUME TREE_DeleteReturn
      PROVE  Set!Delete(elem) /\ elem \in Keys
  <2>1. /\ phase = "deleted" /\ phase' = "none" /\ used' = used
        /\ answer' = IF ret < 0 THEN "absent" ELSE "deleted"
    BY <1>4 DEF TREE_DeleteReturn, Answer, nodes
  <2>2. elem \in Keys \ used /\ ret \in -1 .. 1
    BY <2>1 DEF IInv, Kept, TypeOK
  <2>3. Stored = (IF ret # -1 THEN used \cup {elem} ELSE used) /\ Stored' = used
    BY <2>1 DEF Stored
  <2>4. ret < 0 <=> ret = -1
    BY <2>2
  <2> QED  BY <2>1, <2>2, <2>3, <2>4 DEF Set!Delete
<1> QED  BY <1>1, <1>2, <1>3, <1>4

\* The steps of a deletion: the element is stored till the deletion returns.
LEMMA DeletionUnseen ==
  IInv /\ (DeleteNodeMissing \/ DeleteNodeLast \/ DeleteNodeReplace \/ DeleteNodeReturn) => Unseen
<1> SUFFICES ASSUME IInv, DeleteNodeMissing \/ DeleteNodeLast \/ DeleteNodeReplace \/ DeleteNodeReturn
             PROVE  Unseen
  OBVIOUS
<1>1. CASE DeleteNodeMissing
  <2>1. phase = "DeleteNode" /\ phase' = "deleted" /\ ret' = -1 /\ UNCHANGED <<used, answer>>
    BY <1>1 DEF DeleteNodeMissing, nodes
  <2> QED  BY <2>1 DEF Unseen, Stored
<1>2. CASE DeleteNodeLast
  <2>1. /\ phase = "DeleteNode" /\ phase' = "deleted" /\ ret' = 1 /\ used' = used \ {elem} /\ link[Top] = elem
        /\ UNCHANGED <<elem, answer>>
    BY <1>2 DEF DeleteNodeLast
  <2>2. elem \in used
    BY <2>1, SearchEnds
  <2> QED  BY <2>1, <2>2 DEF Unseen, Stored
<1>3. CASE DeleteNodeReplace
  <2>1. /\ phase = "extracted" /\ phase' = "deleted" /\ used' = used \ {elem} /\ UNCHANGED <<elem, answer>>
    BY <1>3 DEF DeleteNodeReplace
  <2>2. ret' \in {0, 1}
    BY <1>3, RebalanceTells DEF DeleteNodeReplace, Settle
  <2>3. elem \in used
    BY <2>1 DEF IInv, Kept, Hung
  <2> QED  BY <2>1, <2>2, <2>3 DEF Unseen, Stored
<1>4. CASE DeleteNodeReturn
  <2>1. phase = "deleted" /\ phase' = "deleted" /\ UNCHANGED <<used, elem, answer>>
    BY <1>4 DEF DeleteNodeReturn
  <2>2. ret' = ret \/ (ret = 1 /\ ret' \in {0, 1})
    BY <1>4, RebalanceTells DEF DeleteNodeReturn, Settle
  <2> QED  BY <2>1, <2>2 DEF Unseen, Stored
<1> QED  BY <1>1, <1>2, <1>3, <1>4

\* TREE_Clear's last call leaves no node.
LEMMA NothingLeft ==
  ASSUME IInv, TREE_ClearReturn
  PROVE  used = {}
<1>1. phase = "freed" /\ Len(stack) = 1
  BY DEF TREE_ClearReturn
<1>2. PICK lk0, u0, lo, hi : Cleared(lk0, u0, lo, hi)
  BY <1>1 DEF IInv, Clearing
<1> QED  BY <1>1, <1>2 DEF Cleared, Remaining

\* The steps that no user of the tree sees.
LEMMA WorkUnseen ==
  ASSUME IInv, Steps,
         ~(insNodeNew \/ insNodeOld \/ TREE_SearchReturn \/ TREE_DeleteReturn
             \/ DeleteNodeMissing \/ DeleteNodeLast \/ DeleteNodeReplace \/ DeleteNodeReturn)
  PROVE  Unseen
<1>1. CASE Descend \/ insNodeReturn \/ TREE_InsertReturn \/ TREE_SearchStep
  <2>1. /\ phase \in {"insNode", "DeleteNode", "inserted", "TREE_Search"}
        /\ phase' \in {phase, "none"} /\ UNCHANGED <<used, answer>>
    BY <1>1 DEF Descend, insNodeReturn, TREE_InsertReturn, TREE_SearchStep, Answer, nodes
  <2> QED  BY <2>1 DEF Unseen, Stored
<1>2. CASE DeleteNodeInner \/ delExtractMaxDescend \/ delExtractMaxTake \/ delExtractMaxReturn
  <2>1. /\ phase \in {"DeleteNode", "delExtractMax", "extracted"}
        /\ phase' \in {"delExtractMax", "extracted"} /\ UNCHANGED <<used, answer>>
    BY <1>2 DEF DeleteNodeInner, delExtractMaxDescend, delExtractMaxTake, delExtractMaxReturn, nodes
  <2> QED  BY <2>1 DEF Unseen, Stored
<1>3. CASE SubtreeDown \/ SubtreeEmpty
  <2>1. /\ \/ phase = "DoElement" /\ phase' \in {"DoElement", "done"}
           \/ phase = "DelAllNode" /\ phase' \in {"DelAllNode", "freed"}
        /\ UNCHANGED <<used, answer>>
    BY <1>3 DEF SubtreeDown, SubtreeEmpty, nodes
  <2> QED  BY <2>1 DEF Unseen, Stored
<1>4. CASE DoElementNode \/ DoElementReturn \/ TREE_DoAllReturn
  <2>1. phase = "done" /\ phase' \in {"DoElement", "done", "none"} /\ UNCHANGED <<used, answer>>
    BY <1>4 DEF DoElementNode, DoElementReturn, TREE_DoAllReturn, Answer, nodes
  <2> QED  BY <2>1 DEF Unseen, Stored
<1>5. CASE DelAllNodeRight \/ DelAllNodeFree
  <2>1. phase = "freed" /\ phase' \in {"DelAllNode", "freed"} /\ UNCHANGED answer
    BY <1>5 DEF DelAllNodeRight, DelAllNodeFree
  <2> QED  BY <2>1 DEF Unseen, Stored
<1>6. CASE TREE_ClearReturn
  <2>1. phase = "freed" /\ phase' = "none" /\ UNCHANGED <<used, answer>>
    BY <1>6 DEF TREE_ClearReturn, Answer
  <2>2. used = {}
    BY <1>6, NothingLeft
  <2> QED  BY <2>1, <2>2 DEF Unseen, Stored
<1> QED  BY <1>1, <1>2, <1>3, <1>4, <1>5, <1>6 DEF Steps

\* ImplementsSet: for every set of elements the tree, called in any order, is
\* the set of the calls, and answers what the set answers; all its other steps,
\* rotations and relinkings, leave the set as it is.
THEOREM Refinement == Spec => ImplementsSet
<1>1. Init => Set!Init
  <2>1. Init => used = {} /\ phase = "none" /\ answer = "none"
    BY DEF Init, TREE_Make
  <2>2. Init => Stored = {}
    BY <2>1 DEF Stored
  <2> QED  BY <2>1, <2>2 DEF Set!Init
<1>2. IInv /\ [Next]_vars => [Set!Next]_<<Stored, answer>>
  <2> SUFFICES ASSUME IInv, [Next]_vars
               PROVE  Set!Next \/ Unseen
    BY DEF Unseen
  <2>1. CASE UNCHANGED vars
    <3>1. UNCHANGED <<used, phase, ret, elem, answer>>
      BY <2>1 DEF vars, nodes, locals
    <3> QED  BY <3>1 DEF Unseen, Stored
  <2>2. CASE Calls
    BY <2>2, CallsImplement DEF Set!Next
  <2>3. CASE insNodeNew \/ insNodeOld \/ TREE_SearchReturn \/ TREE_DeleteReturn
    BY <2>3, EndsImplement DEF Set!Next
  <2>4. CASE DeleteNodeMissing \/ DeleteNodeLast \/ DeleteNodeReplace \/ DeleteNodeReturn
    BY <2>4, DeletionUnseen
  <2>5. CASE Steps /\ ~(insNodeNew \/ insNodeOld \/ TREE_SearchReturn \/ TREE_DeleteReturn
                          \/ DeleteNodeMissing \/ DeleteNodeLast \/ DeleteNodeReplace \/ DeleteNodeReturn)
    BY <2>5, WorkUnseen
  <2> QED  BY <2>1, <2>2, <2>3, <2>4, <2>5 DEF Next
<1> QED  BY Invariance, <1>1, <1>2, PTL DEF Spec, ImplementsSet, Set!Spec

\* ClearFreesAll: when TREE_Clear returns, it has freed every node it found, in
\* whatever shape the tree was, and no link or flag of a node is left.
THEOREM ClearAlwaysFrees == Spec => ClearFreesAll
<1> DEFINE Freed == phase = "freed" /\ phase' = "none"
                      => /\ used' = {} /\ link' = [pp \in Places |-> NULL] /\ avltFlg' = [n \in Keys |-> 0]
<1>1. IInv /\ [Next]_vars => [Freed]_vars
  <2> SUFFICES ASSUME IInv, Next, phase = "freed", phase' = "none"
               PROVE  /\ used' = {} /\ link' = [pp \in Places |-> NULL] /\ avltFlg' = [n \in Keys |-> 0]
    OBVIOUS
  <2>1. TREE_ClearReturn
    <3>1. ~Calls
      BY DEF Calls, TREE_Insert, TREE_Search, TREE_Delete, TREE_DoAll, TREE_Clear, Call
    <3>2. ~(Descend \/ insNodeNew \/ insNodeOld \/ insNodeReturn \/ TREE_InsertReturn
              \/ TREE_SearchStep \/ TREE_SearchReturn)
      BY DEF Descend, insNodeNew, insNodeOld, insNodeReturn, TREE_InsertReturn, TREE_SearchStep,
             TREE_SearchReturn
    <3>3. ~(DeleteNodeMissing \/ DeleteNodeLast \/ DeleteNodeInner \/ delExtractMaxDescend
              \/ delExtractMaxTake \/ delExtractMaxReturn)
      BY DEF DeleteNodeMissing, DeleteNodeLast, DeleteNodeInner, delExtractMaxDescend,
             delExtractMaxTake, delExtractMaxReturn
    <3>4. ~(DeleteNodeReplace \/ DeleteNodeReturn \/ TREE_DeleteReturn)
      BY DEF DeleteNodeReplace, DeleteNodeReturn, TREE_DeleteReturn
    <3>5. ~(SubtreeDown \/ SubtreeEmpty \/ DoElementNode \/ DoElementReturn \/ TREE_DoAllReturn
              \/ DelAllNodeRight \/ DelAllNodeFree)
      BY DEF SubtreeDown, SubtreeEmpty, DoElementNode, DoElementReturn, TREE_DoAllReturn,
             DelAllNodeRight, DelAllNodeFree
    <3> QED  BY <3>1, <3>2, <3>3, <3>4, <3>5 DEF Next, Steps
  <2>2. link' = [link EXCEPT ![Root] = NULL] /\ UNCHANGED <<avltFlg, used>>
    BY <2>1 DEF TREE_ClearReturn
  <2>3. used = {} /\ TypeOK /\ Kept
    BY <2>1, NothingLeft DEF IInv
  <2>4. \A n \in Keys : avltFlg[n] = 0 /\ \A d \in Sides : link[<<n, d>>] = NULL
    BY <2>3 DEF Kept
  <2>5. avltFlg = [n \in Keys |-> 0]
    BY <2>3, <2>4 DEF TypeOK
  <2>6. link' = [pp \in Places |-> NULL]
    <3>1. link \in [Places -> Keys \cup {NULL}] /\ Root \in Places
      BY <2>3 DEF TypeOK, Places
    <3>2. ASSUME NEW pp \in Places
          PROVE  link'[pp] = NULL
      <4>1. CASE pp = Root
        BY <2>2, <3>1, <4>1
      <4>2. CASE pp # Root
        <5>1. PICK n \in Keys, d \in Sides : pp = <<n, d>>
          BY <4>2 DEF Places, Sides
        <5> QED  BY <2>2, <2>4, <3>1, <4>2, <5>1
      <4> QED  BY <4>1, <4>2
    <3> QED  BY <2>2, <3>1, <3>2
  <2> QED  BY <2>2, <2>3, <2>5, <2>6
<1> QED  BY Invariance, <1>1, PTL DEF Spec, ClearFreesAll
=============================================================================
