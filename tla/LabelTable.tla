----------------------------- MODULE LabelTable -----------------------------
(***************************************************************************)
(* The label table of src/src/dcasm.c: a tree of label_t {name, val, typ}   *)
(* keyed by name, filled in pass 1 only.  The tree itself is the subject of *)
(* module AvlTree; here it is the function from names to entries that the   *)
(* tree implements.                                                         *)
(***************************************************************************)
EXTENDS Integers, FiniteSets

(* typ of an entry; NotInTree stands for a name TREE_Search does not find.  *)
NotInTree == -1
Label     == 0      \* defined by "name:"
Xdef      == 1      \* only named by an xdef
XdefLabel == 3      \* named by an xdef and defined

Types == {NotInTree, Label, Xdef, XdefLabel}
Entry == [typ : Types, val : Int]

(* TREE_Insert hands out a zeroed node (callocE).                           *)
NoEntry == [typ |-> NotInTree, val |-> 0]

(* Mutants: the last definition wins; an xdef'd name cannot be defined.     *)
LBL_AddLast(e, val, typ) ==
  IF e.typ = NotInTree THEN [typ |-> typ, val |-> val]
  ELSE IF typ = Xdef \/ e.typ \in {Xdef, XdefLabel}
       THEN [typ |-> XdefLabel, val |-> IF typ = Label THEN val ELSE e.val]
       ELSE [e EXCEPT !.val = val]

LBL_AddEarly(e, val, typ) ==
  IF e.typ = NotInTree THEN [typ |-> typ, val |-> val]
  ELSE IF typ = Xdef /\ e.typ # Xdef THEN [e EXCEPT !.typ = XdefLabel] ELSE e

(* LBL_Add(name, val, typ) on the entry e of that name: the entry after the *)
(* call.  typ is Label (from "name:") or Xdef (from an xdef).               *)
LBL_Add(e, val, typ) ==
  IF e.typ = NotInTree
  THEN [typ |-> typ, val |-> val]
  ELSE IF e.typ = Xdef \/ typ = Xdef
       THEN [typ |-> XdefLabel, val |-> IF typ = Label THEN val ELSE e.val]
       ELSE e

(* LBL_Add returns NULL: the name is already taken, and the "overloaded"    *)
(* message is issued.                                                       *)
LBL_AddFails(e, typ) == e.typ \notin {NotInTree, Xdef} /\ typ # Xdef

(* The value of a name is fixed: no LBL_Add with typ Label succeeds on it.  *)
Bound(e) == e.typ \in {Label, XdefLabel}

(* The entry of name n after "xdef xs", one LBL_Add for each time xs names  *)
(* it; from the third on they change nothing.                               *)
XdefEntry(e, n, xs) ==
  LET times == Cardinality({i \in DOMAIN xs : xs[i] = n})
      once  == LBL_Add(e, 0, Xdef)
  IN  IF times = 0 THEN e
      ELSE IF times = 1 THEN once ELSE LBL_Add(once, 0, Xdef)
=============================================================================
