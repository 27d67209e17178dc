------------------------------ MODULE AvlTree ------------------------------
(***************************************************************************)
(* The AVL tree of src/src/tree.c, whose text src/src/filn.c repeats: one  *)
(* step for each call and each return of its recursive functions.          *)
(*                                                                         *)
(* A node holds the same element from malloc to free - a deletion moves    *)
(* nodes, never elements -, so a node is named by its element.  A pointer  *)
(* to a pointer (pp) is <<n, dir>> for &n->link[dir] and Root for          *)
(* &tree->root; link[pp] is *pp.                                           *)
(***************************************************************************)
EXTENDS Integers, Sequences, FiniteSets

CONSTANTS Keys, \* the elements, ordered as cmpElement orders them
          Loads \* bound: [seq: what is inserted first, more: what the calls after that are about]

ASSUME KeysAssumption == Keys \subseteq Nat \ {0} /\ IsFiniteSet(Keys)
ASSUME LoadsAssumption == \A l \in Loads : l.seq \in Seq(Keys) /\ l.more \subseteq Keys

VARIABLES link,    \* the nodes: what each pointer points to
          avltFlg, \* which subtree of a node is one higher
          used,    \* the nodes between malloc and free
          phase,   \* the function that runs, or that has just returned
          stack,   \* the pps of the calls of that function that have not returned
          elem,    \* the argument of the call
          ret,     \* what the last call returned: grown or shrinked, -1 for not found
          q,       \* *qq of delExtractMax: the node taken out of the tree
          seen,    \* what TREE_DoAll has handed to its function
          answer,  \* tree->flag after TREE_Insert, NULL or not, -1 or 0 of the others
          load,    \* bound: the elements still to be inserted first
          more     \* bound: the elements of the calls after that

nodes  == <<link, avltFlg, used>>
locals == <<phase, stack, elem, ret, q, seen>>
vars   == <<nodes, locals, answer, load, more>>

NULL == 0
L == 0
R == 1

Root   == <<-1, R>>
Places == {Root} \cup (Keys \X {L, R})

TREE_Make ==
  /\ link = [pp \in Places |-> NULL] /\ avltFlg = [n \in Keys |-> 0] /\ used = {}
  /\ phase = "none" /\ stack = <<>> /\ elem = NULL /\ ret = 0 /\ q = NULL /\ seen = <<>>
  /\ answer = "none"

Top         == stack[Len(stack)]
Caller      == stack[Len(stack) - 1]
PopTo(s)    == SubSeq(s, 1, Len(s) - 1)
Turned(s)   == [s EXCEPT ![Len(s)] = <<@[1], R>>]
Side(e, n)  == <<n, IF e < n THEN L ELSE R>>

\* mutant of Pt: 2 << dir
PtOff(dir) == IF dir = L THEN 2 ELSE 4

\* 1 << dir: the flag of a node whose subtree on side dir is one higher
Pt(dir) == IF dir = L THEN 1 ELSE 2

----------------------------------------------------------------------------
\* mutant of Single: the inner subtree of b is not taken over by a
SingleLosing(lk, pp, a, b, dir) ==
  [lk EXCEPT ![<<a, dir>>] = NULL, ![<<b, 1 - dir>>] = a, ![pp] = b]

\* b, the child of a on side dir, goes up
Single(lk, pp, a, b, dir) ==
  [lk EXCEPT ![<<a, dir>>] = lk[<<b, 1 - dir>>], ![<<b, 1 - dir>>] = a, ![pp] = b]

\* c, the inner child of b, goes up two levels
Double(lk, pp, a, b, c, dir) ==
  [lk EXCEPT ![<<a, dir>>] = lk[<<c, 1 - dir>>], ![<<b, 1 - dir>>] = lk[<<c, dir>>],
             ![<<c, 1 - dir>>] = a, ![<<c, dir>>] = b, ![pp] = c]

\* mutant of DoubleFlags: the flags of a and b are cleared whatever c had
DoubleLevel(flg, a, b, c, dir) == [flg EXCEPT ![b] = 0, ![a] = 0, ![c] = 0]

DoubleFlags(flg, a, b, c, dir) ==
  [flg EXCEPT ![b] = IF flg[c] # Pt(1 - dir) THEN 0 ELSE Pt(dir),
              ![a] = IF flg[c] # Pt(dir) THEN 0 ELSE Pt(1 - dir),
              ![c] = 0]

\* Rebalancing of *pp, whose subtree on side dir was changed: the nodes, and
\* whether the subtree at pp has grown (insertion) or shrunk (deletion).
insRebalance(lk, flg, pp, dir) ==
  LET ndr == 1 - dir
      ap  == lk[pp]
      bp  == lk[<<ap, dir>>]
  IN CASE flg[ap] = Pt(ndr) -> [link |-> lk, flg |-> [flg EXCEPT ![ap] = 0], ret |-> 0]
       [] flg[ap] = 0       -> [link |-> lk, flg |-> [flg EXCEPT ![ap] = Pt(dir)], ret |-> 1]
       [] flg[ap] = Pt(dir) /\ flg[bp] = Pt(dir) ->
            [link |-> Single(lk, pp, ap, bp, dir), flg |-> [flg EXCEPT ![ap] = 0, ![bp] = 0], ret |-> 0]
       [] flg[ap] = Pt(dir) /\ flg[bp] = Pt(ndr) ->
            [link |-> Double(lk, pp, ap, bp, lk[<<bp, ndr>>], dir),
             flg  |-> DoubleFlags(flg, ap, bp, lk[<<bp, ndr>>], dir), ret |-> 0]
       [] OTHER -> [link |-> lk, flg |-> flg, ret |-> 0]

delRebalance(lk, flg, pp, dir) ==
  LET ndr == 1 - dir
      ap  == lk[pp]
      bp  == lk[<<ap, ndr>>]
  IN CASE flg[ap] = 0       -> [link |-> lk, flg |-> [flg EXCEPT ![ap] = Pt(ndr)], ret |-> 0]
       [] flg[ap] = Pt(dir) -> [link |-> lk, flg |-> [flg EXCEPT ![ap] = 0], ret |-> 1]
       [] flg[ap] = Pt(ndr) /\ flg[bp] = 0 ->
            [link |-> Single(lk, pp, ap, bp, ndr),
             flg  |-> [flg EXCEPT ![ap] = Pt(ndr), ![bp] = Pt(dir)], ret |-> 0]
       [] flg[ap] = Pt(ndr) /\ flg[bp] = Pt(ndr) ->
            [link |-> Single(lk, pp, ap, bp, ndr), flg |-> [flg EXCEPT ![ap] = 0, ![bp] = 0], ret |-> 1]
       [] OTHER ->
            [link |-> Double(lk, pp, ap, bp, lk[<<bp, dir>>], ndr),
             flg  |-> DoubleFlags(flg, ap, bp, lk[<<bp, dir>>], ndr), ret |-> 1]

\* "if (s) shrinked = delRebalance(pp, dir)", and its like for an insertion
Settle(r) == link' = r.link /\ avltFlg' = r.flg /\ ret' = r.ret

Settled == ret' = 0 /\ UNCHANGED <<link, avltFlg>>

----------------------------------------------------------------------------
\* A call starts at the root; e is put in the static elem.
Call(f, e) ==
  /\ phase = "none"
  /\ phase' = f /\ stack' = <<Root>> /\ elem' = e /\ ret' = 0
  /\ UNCHANGED <<nodes, q, seen>>

\* The outermost call returns, and the call of the tree with it.
Answer(a) ==
  /\ phase' = "none" /\ stack' = <<>> /\ elem' = NULL /\ ret' = 0 /\ seen' = <<>>
  /\ answer' = a
  /\ UNCHANGED q

Bounds == UNCHANGED <<load, more>>

TREE_Insert(e) ==
  /\ \/ load # <<>> /\ e = Head(load) /\ load' = Tail(load)
     \/ load = <<>> /\ e \in more /\ UNCHANGED load
  /\ Call("insNode", e)
  /\ UNCHANGED <<answer, more>>

TREE_Search(e) == load = <<>> /\ e \in more /\ Call("TREE_Search", e) /\ UNCHANGED answer /\ Bounds
TREE_Delete(e) == load = <<>> /\ e \in more /\ Call("DeleteNode", e) /\ UNCHANGED answer /\ Bounds
TREE_DoAll     == load = <<>> /\ Call("DoElement", NULL) /\ UNCHANGED answer /\ Bounds
TREE_Clear     == load = <<>> /\ Call("DelAllNode", NULL) /\ answer' = "none" /\ Bounds

----------------------------------------------------------------------------
\* insNode and DeleteNode go on below a node with another element.
Descend ==
  /\ phase \in {"insNode", "DeleteNode"} /\ link[Top] \notin {NULL, elem}
  /\ stack' = Append(stack, Side(elem, link[Top]))
  /\ UNCHANGED <<nodes, phase, elem, ret, q, seen, answer>> /\ Bounds

insNodeNew ==
  /\ phase = "insNode" /\ link[Top] = NULL
  /\ link' = [link EXCEPT ![Top] = elem] /\ used' = used \cup {elem}
  /\ phase' = "inserted" /\ ret' = 1 /\ answer' = "new"
  /\ UNCHANGED <<avltFlg, stack, elem, q, seen>> /\ Bounds

insNodeOld ==
  /\ phase = "insNode" /\ link[Top] = elem
  /\ phase' = "inserted" /\ ret' = 0 /\ answer' = "old"
  /\ UNCHANGED <<nodes, stack, elem, q, seen>> /\ Bounds

insNodeReturn ==
  /\ phase = "inserted" /\ Len(stack) > 1
  /\ IF ret = 1 THEN Settle(insRebalance(link, avltFlg, Caller, Top[2])) ELSE Settled
  /\ stack' = PopTo(stack)
  /\ UNCHANGED <<used, phase, elem, q, seen, answer>> /\ Bounds

TREE_InsertReturn ==
  /\ phase = "inserted" /\ Len(stack) = 1
  /\ Answer(answer) /\ UNCHANGED nodes /\ Bounds

----------------------------------------------------------------------------
TREE_SearchStep ==
  /\ phase = "TREE_Search" /\ link[Top] \notin {NULL, elem}
  /\ stack' = <<Side(elem, link[Top])>>
  /\ UNCHANGED <<nodes, phase, elem, ret, q, seen, answer>> /\ Bounds

TREE_SearchReturn ==
  /\ phase = "TREE_Search" /\ link[Top] \in {NULL, elem}
  /\ Answer(IF link[Top] # NULL THEN "found" ELSE "absent")
  /\ UNCHANGED nodes /\ Bounds

----------------------------------------------------------------------------
DeleteNodeMissing ==
  /\ phase = "DeleteNode" /\ link[Top] = NULL
  /\ phase' = "deleted" /\ ret' = -1
  /\ UNCHANGED <<nodes, stack, elem, q, seen, answer>> /\ Bounds

\* without a left subtree the right one takes its place
DeleteNodeLast ==
  /\ phase = "DeleteNode" /\ link[Top] = elem /\ link[<<elem, L>>] = NULL
  /\ link' = [link EXCEPT ![Top] = link[<<elem, R>>], ![<<elem, R>>] = NULL]
  /\ avltFlg' = [avltFlg EXCEPT ![elem] = 0] /\ used' = used \ {elem}
  /\ phase' = "deleted" /\ ret' = 1
  /\ UNCHANGED <<stack, elem, q, seen, answer>> /\ Bounds

DeleteNodeInner ==
  /\ phase = "DeleteNode" /\ link[Top] = elem /\ link[<<elem, L>>] # NULL
  /\ stack' = Append(stack, <<elem, L>>) /\ phase' = "delExtractMax"
  /\ UNCHANGED <<nodes, elem, ret, q, seen, answer>> /\ Bounds

delExtractMaxDescend ==
  /\ phase = "delExtractMax" /\ link[<<link[Top], R>>] # NULL
  /\ stack' = Append(stack, <<link[Top], R>>)
  /\ UNCHANGED <<nodes, phase, elem, ret, q, seen, answer>> /\ Bounds

delExtractMaxTake ==
  /\ phase = "delExtractMax" /\ link[<<link[Top], R>>] = NULL
  /\ q' = link[Top] /\ link' = [link EXCEPT ![Top] = link[<<link[Top], L>>]]
  /\ phase' = "extracted" /\ ret' = 1
  /\ UNCHANGED <<avltFlg, used, stack, elem, seen, answer>> /\ Bounds

delExtractMaxReturn ==
  /\ phase = "extracted" /\ Top # <<elem, L>>
  /\ IF ret = 1 THEN Settle(delRebalance(link, avltFlg, Caller, R)) ELSE Settled
  /\ stack' = PopTo(stack)
  /\ UNCHANGED <<used, phase, elem, q, seen, answer>> /\ Bounds

\* t takes over the links and the flag of p, which is freed: a freed node's
\* links and flag mean nothing any more
Replaced(lk, pp, p, t) ==
  [lk EXCEPT ![<<t, L>>] = lk[<<p, L>>], ![<<t, R>>] = lk[<<p, R>>], ![pp] = t,
             ![<<p, L>>] = NULL, ![<<p, R>>] = NULL]

ReplacedFlags(flg, p, t) == [flg EXCEPT ![t] = flg[p], ![p] = 0]

DeleteNodeReplace ==
  LET lk  == Replaced(link, Caller, elem, q)
      flg == ReplacedFlags(avltFlg, elem, q)
  IN /\ phase = "extracted" /\ Top = <<elem, L>>
     /\ used' = used \ {elem} /\ q' = NULL
     /\ Settle(IF ret = 1 THEN delRebalance(lk, flg, Caller, L)
                          ELSE [link |-> lk, flg |-> flg, ret |-> 0])
     /\ stack' = PopTo(stack) /\ phase' = "deleted"
     /\ UNCHANGED <<elem, seen, answer>> /\ Bounds

DeleteNodeReturn ==
  /\ phase = "deleted" /\ Len(stack) > 1
  /\ IF ret = 1 THEN Settle(delRebalance(link, avltFlg, Caller, Top[2]))
                ELSE UNCHANGED <<link, avltFlg, ret>>
  /\ stack' = PopTo(stack)
  /\ UNCHANGED <<used, phase, elem, q, seen, answer>> /\ Bounds

\* mutant of TREE_DeleteReturn: 0 (the tree is no lower) is taken for "not found"
TREE_DeleteShrunk ==
  /\ phase = "deleted" /\ Len(stack) = 1
  /\ Answer(IF ret <= 0 THEN "absent" ELSE "deleted") /\ UNCHANGED nodes /\ Bounds

TREE_DeleteReturn ==
  /\ phase = "deleted" /\ Len(stack) = 1
  /\ Answer(IF ret < 0 THEN "absent" ELSE "deleted") /\ UNCHANGED nodes /\ Bounds

----------------------------------------------------------------------------
\* DoElement and DelAllNode go down the links that are not NULL, left ones first.
SubtreeDown ==
  /\ phase \in {"DoElement", "DelAllNode"} /\ link[Top] # NULL
  /\ stack' = Append(stack, <<link[Top], L>>)
  /\ UNCHANGED <<nodes, phase, elem, ret, q, seen, answer>> /\ Bounds

SubtreeEmpty ==
  /\ phase \in {"DoElement", "DelAllNode"} /\ link[Top] = NULL
  /\ phase' = IF phase = "DoElement" THEN "done" ELSE "freed"
  /\ UNCHANGED <<nodes, stack, elem, ret, q, seen, answer>> /\ Bounds

DoElementNode ==
  /\ phase = "done" /\ Len(stack) > 1 /\ Top[2] = L
  /\ seen' = Append(seen, Top[1]) /\ stack' = Turned(stack) /\ phase' = "DoElement"
  /\ UNCHANGED <<nodes, elem, ret, q, answer>> /\ Bounds

DoElementReturn ==
  /\ phase = "done" /\ Len(stack) > 1 /\ Top[2] = R
  /\ stack' = PopTo(stack)
  /\ UNCHANGED <<nodes, phase, elem, ret, q, seen, answer>> /\ Bounds

TREE_DoAllReturn ==
  /\ phase = "done" /\ Len(stack) = 1
  /\ Answer(answer) /\ UNCHANGED nodes /\ Bounds

Free(n) ==
  /\ used' = used \ {n} /\ avltFlg' = [avltFlg EXCEPT ![n] = 0]
  /\ link' = [link EXCEPT ![<<n, L>>] = NULL, ![<<n, R>>] = NULL]

\* mutant of DelAllNodeRight: a node is freed before its right subtree
DelAllNodeEarly ==
  /\ phase = "freed" /\ Len(stack) > 1 /\ Top[2] = L
  /\ Free(Top[1]) /\ stack' = Turned(stack) /\ phase' = "DelAllNode"
  /\ UNCHANGED <<elem, ret, q, seen, answer>> /\ Bounds

DelAllNodeRight ==
  /\ phase = "freed" /\ Len(stack) > 1 /\ Top[2] = L
  /\ stack' = Turned(stack) /\ phase' = "DelAllNode"
  /\ UNCHANGED <<nodes, elem, ret, q, seen, answer>> /\ Bounds

DelAllNodeFree ==
  /\ phase = "freed" /\ Len(stack) > 1 /\ Top[2] = R
  /\ Free(Top[1]) /\ stack' = PopTo(stack)
  /\ UNCHANGED <<phase, elem, ret, q, seen, answer>> /\ Bounds

\* TREE_Clear frees the TREE too; a new one is made empty
TREE_ClearReturn ==
  /\ phase = "freed" /\ Len(stack) = 1
  /\ link' = [link EXCEPT ![Root] = NULL] /\ Answer(answer)
  /\ UNCHANGED <<avltFlg, used>> /\ Bounds

----------------------------------------------------------------------------
Init == TREE_Make /\ \E l \in Loads : load = l.seq /\ more = l.more

Calls == TREE_DoAll \/ TREE_Clear \/ \E e \in Keys : TREE_Insert(e) \/ TREE_Search(e) \/ TREE_Delete(e)

Steps ==
  \/ Descend \/ insNodeNew \/ insNodeOld \/ insNodeReturn \/ TREE_InsertReturn
  \/ TREE_SearchStep \/ TREE_SearchReturn
  \/ DeleteNodeMissing \/ DeleteNodeLast \/ DeleteNodeInner
  \/ delExtractMaxDescend \/ delExtractMaxTake \/ delExtractMaxReturn
  \/ DeleteNodeReplace \/ DeleteNodeReturn \/ TREE_DeleteReturn
  \/ SubtreeDown \/ SubtreeEmpty \/ DoElementNode \/ DoElementReturn \/ TREE_DoAllReturn
  \/ DelAllNodeRight \/ DelAllNodeFree \/ TREE_ClearReturn

Next == Calls \/ Steps

Spec == Init /\ [][Next]_vars

----------------------------------------------------------------------------
TypeOK ==
  /\ link \in [Places -> Keys \cup {NULL}] /\ avltFlg \in [Keys -> 0 .. 2] /\ used \subseteq Keys
  /\ phase \in {"none", "insNode", "inserted", "TREE_Search", "DeleteNode", "deleted",
                "delExtractMax", "extracted", "DoElement", "done", "DelAllNode", "freed"}
  /\ stack \in Seq(Places) /\ seen \in Seq(Keys)
  /\ {elem, q} \subseteq Keys \cup {NULL} /\ ret \in -1 .. 1
  /\ answer \in {"none", "new", "old", "found", "absent", "deleted"}
  /\ load \in Seq(Keys) /\ more \subseteq Keys

\* the nodes of the subtree at each node
Subtrees(lk) ==
  LET b[n \in Keys \cup {NULL}] ==
        IF n = NULL THEN {} ELSE {n} \cup b[lk[<<n, L>>]] \cup b[lk[<<n, R>>]]
  IN b

\* the height of the subtree at each node
Heights(lk) ==
  LET h[n \in Keys \cup {NULL}] ==
        IF n = NULL THEN 0
        ELSE 1 + (IF h[lk[<<n, L>>]] > h[lk[<<n, R>>]] THEN h[lk[<<n, L>>]] ELSE h[lk[<<n, R>>]])
  IN h

\* Every allocated node hangs in the tree, in order and so only once, in the
\* midst of an insertion or deletion too (but for the node that delExtractMax
\* has taken out): nothing a rotation or a deletion relinks is lost, shared or
\* freed while linked.  No call that runs has a pointer into a freed node, and
\* TREE_DoAll hands over each element once, in order.
Ordered ==
  /\ phase \notin {"DelAllNode", "freed"} =>
       /\ Subtrees(link)[link[Root]] = used \ {q}
       /\ \A n \in used \ {q} :
            /\ \A m \in Subtrees(link)[link[<<n, L>>]] : m < n
            /\ \A m \in Subtrees(link)[link[<<n, R>>]] : n < m
  /\ \A i \in 2 .. Len(stack) : stack[i][1] \in used
  /\ \A i, j \in 1 .. Len(seen) : i < j => seen[i] < seen[j]
  /\ phase = "done" /\ Len(stack) = 1 => {seen[i] : i \in 1 .. Len(seen)} = used

\* Between two calls avltFlg of every node says which of its subtrees is one
\* higher, and no difference is larger: all rebalancing steps of a call
\* together keep the heights the flags tell.
Balanced ==
  phase = "none" =>
    \A n \in used :
      Heights(link)[link[<<n, R>>]] - Heights(link)[link[<<n, L>>]]
        = CASE avltFlg[n] = 0 -> 0 [] avltFlg[n] = 1 -> -1 [] OTHER -> 1

\* The set the users of the tree see: a deletion is over when it returns, an
\* insertion when the node is linked, TREE_Clear when it is called.
Stored == CASE phase \in {"DelAllNode", "freed"}   -> {}
            [] phase = "deleted" /\ ret # -1       -> used \cup {elem}
            [] OTHER                               -> used

\* The tree is the set its users take it for, and each call answers as the set
\* does: in particular flag tells a new label from one that was defined.
Set == INSTANCE OrderedSet WITH Elements <- Keys, set <- Stored
ImplementsSet == Set!Spec

\* The children-first order of TREE_Clear frees every node: what is left is a
\* tree as TREE_Make makes it.
ClearFreesAll ==
  [][phase = "freed" /\ phase' = "none"
       => /\ used' = {} /\ link' = [pp \in Places |-> NULL] /\ avltFlg' = [n \in Keys |-> 0]]_vars
===========================================================================
