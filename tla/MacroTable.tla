----------------------------- MODULE MacroTable -----------------------------
(***************************************************************************)
(* The macro names of Filn (src/src/filn.c, MTREE_*, M_Define, M_Undef): one *)
(* entry of the tree, and what the operations make of it.                   *)
(*                                                                          *)
(* atr is M_ATR_0 ("removed"), M_ATR_SET, M_ATR_DEF or M_ATR_MAC, and       *)
(* "absent" when the tree has no node.  buf is the text, <<>> also for the  *)
(* NULL that SAFE_FREE leaves; val is the number of a #set.                 *)
(***************************************************************************)
EXTENDS Integers, Sequences

Atrs == {"absent", "removed", "set", "def", "mac"}

NoEntry == [atr |-> "absent", val |-> 0, buf |-> <<>>]

(* MTREE_Search: a removed name is not found.                               *)
Found(e) == e.atr \notin {"absent", "removed"}

(* The text kinds: #define and #macro.                                      *)
IsText(atr) == atr \in {"def", "mac"}

(* MTREE_Add may not give the name of e to an entry of kind atr: it reports *)
(* a redefinition.                                                          *)
Clashes(e, atr) == Found(e) /\ ~(e.atr = "set" /\ atr = "set")

(* MTREE_Add.  TREE_Insert copies the text into a new node only: label J1   *)
(* sets every field of an old node but buf, which was freed when the name   *)
(* was removed or is freed for the redefinition.                            *)
MTREE_Add(e, atr, val, buf) ==
  IF e.atr = "absent" THEN [atr |-> atr, val |-> val, buf |-> buf]
  ELSE IF ~Clashes(e, atr) THEN [e EXCEPT !.atr = atr, !.val = val]
  ELSE IF IsText(e.atr) /\ IsText(atr) THEN [atr |-> atr, val |-> val, buf |-> <<>>]
  ELSE e

(* Mutant: only the text is removed.                                        *)
M_UndefText(e) == IF Found(e) THEN [e EXCEPT !.buf = <<>>] ELSE e

(* M_Undef: the node stays in the tree.                                     *)
M_Undef(e) == IF Found(e) THEN [e EXCEPT !.atr = "removed", !.buf = <<>>] ELSE e
=============================================================================
