-------------------------- MODULE DcasmPassProofs --------------------------
(***************************************************************************)
(* Proofs about module DcasmPass for every set of names, every set of       *)
(* sources and every option: types, binding of labels, and agreement of the *)
(* two passes.                                                              *)
(***************************************************************************)
EXTENDS DcasmPassSafety, TLAPS

-----------------------------------------------------------------------------
(* Lemmas about the operators of LabelTable and Layout.                     *)

(* LBL_Add returns an entry.                                                *)
LEMMA LBL_AddType ==
  ASSUME NEW e \in Entry, NEW val \in Int, NEW typ \in {Label, Xdef}
  PROVE  LBL_Add(e, val, typ) \in Entry
BY DEF LBL_Add, Entry, Types, NotInTree, Label, Xdef, XdefLabel

(* LBL_Add never takes back a definition and never changes its value.       *)
LEMMA LBL_AddBinds ==
  ASSUME NEW e \in Entry, NEW val \in Int, NEW typ \in {Label, Xdef}, Bound(e)
  PROVE  Bound(LBL_Add(e, val, typ)) /\ LBL_Add(e, val, typ).val = e.val
BY DEF LBL_Add, Entry, Types, Bound, NotInTree, Label, Xdef, XdefLabel

(* A name that "name:" was applied to is defined.                           *)
LEMMA LBL_AddLabelBinds ==
  ASSUME NEW e \in Entry, NEW val \in Int
  PROVE  Bound(LBL_Add(e, val, Label))
BY DEF LBL_Add, Entry, Types, Bound, NotInTree, Label, Xdef, XdefLabel

(* Any number of xdefs gives an entry and changes no defined value.         *)
LEMMA XdefEntryType ==
  ASSUME NEW e \in Entry, NEW n, NEW xs
  PROVE  /\ XdefEntry(e, n, xs) \in Entry
         /\ Bound(e) => /\ Bound(XdefEntry(e, n, xs))
                        /\ XdefEntry(e, n, xs).val = e.val
<1>1. LBL_Add(e, 0, Xdef) \in Entry
  BY LBL_AddType
<1>2. LBL_Add(LBL_Add(e, 0, Xdef), 0, Xdef) \in Entry
  BY <1>1, LBL_AddType
<1>3. Bound(e) => /\ Bound(LBL_Add(e, 0, Xdef))
                  /\ LBL_Add(e, 0, Xdef).val = e.val
  BY LBL_AddBinds
<1>4. Bound(e) => /\ Bound(LBL_Add(LBL_Add(e, 0, Xdef), 0, Xdef))
                  /\ LBL_Add(LBL_Add(e, 0, Xdef), 0, Xdef).val = e.val
  BY <1>1, <1>3, LBL_AddBinds
<1>. QED
  BY <1>1, <1>2, <1>3, <1>4 DEF XdefEntry

(* Rounding an address gives an address.                                    *)
LEMMA AlignUpType ==
  ASSUME NEW adr \in Int, NEW n \in Nat \ {0}
  PROVE  AlignUp(adr, n) \in Int
<1>1. adr + n - 1 \in Int
  OBVIOUS
<1>2. (adr + n - 1) \div n \in Int
  BY <1>1
<1>. QED
  BY <1>2 DEF AlignUp

LEMMA AutoAlignType ==
  ASSUME NEW adr \in Int, NEW md \in Mds, NEW mode \in 0..3
  PROVE  AutoAlign(adr, md, mode) \in Int
<1>1. CASE md = 0 \/ mode = 0
  BY <1>1 DEF AutoAlign
<1>2. CASE md # 0 /\ mode # 0
  <2> DEFINE k == IF mode < md THEN mode ELSE md
  <2>1. k \in 0..3
    BY DEF Mds
  <2>2. Size(k) \in Nat \ {0}
    BY <2>1 DEF Size
  <2>. QED
    BY <1>2, <2>2, AlignUpType DEF AutoAlign
<1>. QED
  BY <1>1, <1>2

LEMMA MaxAlignType == MaxAlign \in Nat
BY SMT DEF MaxAlign

LEMMA SizeType ==
  ASSUME NEW md \in Mds
  PROVE  Size(md) \in Nat
BY DEF Size, Mds

-----------------------------------------------------------------------------
(* Lemmas about lines and expressions.                                      *)

(* The current line is a line.                                              *)
LEMMA TheLineType ==
  ASSUME TypeOK, pc <= Len(srcl)
  PROVE  /\ srcl \in Seq(Line)
         /\ pc \in 1..Len(srcl)
         /\ pc \in 1..(Len(srcl) + 1)
         /\ TheLine \in Line
<1>1. srcl \in Seq(Line)
  BY ConstantsAssumption DEF TypeOK
<1>2. Len(srcl) \in Nat
  BY <1>1
<1>3. pc \in 1..Len(srcl)
  BY <1>2 DEF TypeOK
<1>. QED
  BY <1>1, <1>2, <1>3 DEF TheLine

LEMMA ValueType ==
  ASSUME NEW e \in Expr, NEW top \in Int, NEW tbl \in [Names -> Entry]
  PROVE  Value(e, top, tbl) \in Int
<1>1. e.off \in Int /\ e.base \in Names \cup {NoName, Here}
  BY DEF Expr
<1>2. CASE e.base = NoName
  BY <1>1, <1>2 DEF Value
<1>3. CASE e.base = Here
  BY <1>1, <1>3, ConstantsAssumption DEF Value
<1>4. CASE e.base \in Names
  <2>1. tbl[e.base].val \in Int
    BY <1>4 DEF Entry
  <2>. QED
    BY <1>1, <1>4, <2>1, ConstantsAssumption DEF Value
<1>. QED
  BY <1>1, <1>2, <1>3, <1>4

LEMMA ArgType ==
  ASSUME NEW ln \in Line, NEW top \in Int, NEW tbl \in [Names -> Entry]
  PROVE  Arg(ln, top, tbl) \in Int
<1>1. CASE ln.args = <<>>
  BY <1>1 DEF Arg
<1>2. CASE ln.args # <<>>
  <2>1. ln.args \in Seq(Expr)
    BY DEF Line
  <2>2. ln.args[1] \in Expr
    BY <1>2, <2>1
  <2>. QED
    BY <1>2, <2>2, ValueType DEF Arg
<1>. QED
  BY <1>1, <1>2

(* A line moves an address to an address.                                   *)
LEMMA NextAdrType ==
  ASSUME NEW ln \in Line, NEW n, NEW adr \in Int, NEW arg \in Int, NEW mode \in 0..3,
         NEW stri \in BOOLEAN, NEW opt \in Int
  PROVE  NextAdr(ln, n, adr, arg, mode, stri, opt) \in Int
<1>1. ln.md \in Mds /\ Size(ln.md) \in Nat /\ Len(ln.args) \in Nat
  BY SizeType DEF Line
<1>2. AutoAlign(adr, ln.md, mode) \in Int
  BY <1>1, AutoAlignType
<1>3. DcEnd(ln, adr, mode, n) \in Int
  BY <1>1, <1>2 DEF DcEnd, DcStart
<1>4. GenDs(adr, arg, ln.md, mode) \in Int
  BY <1>1, <1>2 DEF GenDs
<1>5. GenOrg(adr, arg) \in Int
  BY DEF GenOrg
<1>6. GenAlign(adr, arg) \in Int
  <2> DEFINE k == IF arg \in 1..MaxAlign THEN arg ELSE 1
  <2>1. k \in Nat \ {0}
    BY MaxAlignType
  <2>. QED
    BY <2>1, AlignUpType DEF GenAlign
<1>7. adr + TextLen(ln, opt) \in Int
  BY DEF TextLen, Line
<1>. QED
  BY <1>3, <1>4, <1>5, <1>6, <1>7 DEF NextAdr

-----------------------------------------------------------------------------
(* Type correctness.                                                        *)

(* The label table after the line's label, and the line's argument.         *)
LEMMA LabelledType ==
  ASSUME TypeOK, pc <= Len(srcl)
  PROVE  Labelled \in [Names -> Entry]
<1>1. TheLine.lab \in Names \cup {NoName}
  BY TheLineType DEF Line
<1>2. CASE passNo = 1 /\ TheLine.lab # NoName
  <2>1. LBL_Add(labels[TheLine.lab], g_adr, Label) \in Entry
    BY <1>1, <1>2, LBL_AddType DEF TypeOK
  <2>. QED
    BY <1>1, <1>2, <2>1 DEF Labelled, TypeOK
<1>3. CASE ~(passNo = 1 /\ TheLine.lab # NoName)
  BY <1>3 DEF Labelled, TypeOK
<1>. QED
  BY <1>2, <1>3

LEMMA TheArgType ==
  ASSUME TypeOK, pc <= Len(srcl)
  PROVE  TheArg \in Int
BY TheLineType, LabelledType, ArgType DEF TheArg, TypeOK

(* A step of an order keeps the types if what the order itself assigns is   *)
(* typed.                                                                   *)
LEMMA OrderType ==
  ASSUME TypeOK, NEW odr, Order(odr),
         pc' \in 1..(Len(srcl) + 1), g_endianMode' \in Mds, autoAlignMode' \in 0..3,
         striMode' \in BOOLEAN, striOpt' \in Int, labels' \in [Names -> Entry]
  PROVE  TypeOK'
<1>1. pc <= Len(srcl)
  BY DEF Order
<1>2. TheLine \in Line /\ TheArg \in Int /\ pc \in 1..(Len(srcl) + 1)
  BY <1>1, TheLineType, TheArgType
<1>3. OrderAdr(TheLine, g_adr, striMode) \in Int
  BY DEF OrderAdr, TypeOK
<1>4. g_adr' \in Int
  BY <1>2, <1>3, NextAdrType DEF Order, TypeOK
<1>5. [adr |-> g_adr, mode |-> autoAlignMode, stri |-> striMode,
       opt |-> striOpt, arg |-> TheArg] \in LayoutState
  BY <1>2 DEF TypeOK, LayoutState
<1>6. pass1' \in [1..(Len(srcl) + 1) -> LayoutState]
  BY <1>2, <1>5 DEF Order, TypeOK
<1>7. /\ srcl' = srcl /\ srcl' \in Sources
      /\ phase' \in {"line", "alloc", "save", "done"}
      /\ passNo' \in {1, 2}
      /\ memSize' \in Int
  BY DEF Order, TypeOK, outputs
<1>. QED
  BY <1>4, <1>6, <1>7 DEF TypeOK

(* The parts of a line that most orders share.                              *)
LEMMA MovesType ==
  ASSUME TypeOK, NEW odr, Order(odr)
  PROVE  /\ pc <= Len(srcl)
         /\ NextLine => pc' \in 1..(Len(srcl) + 1)
         /\ EndStri => striMode' \in BOOLEAN
         /\ Labelled \in [Names -> Entry]
<1>1. pc <= Len(srcl)
  BY DEF Order
<1>2. pc \in 1..Len(srcl) /\ Len(srcl) \in Nat
  BY <1>1, TheLineType
<1>3. NextLine => pc' \in 1..(Len(srcl) + 1)
  BY <1>2 DEF NextLine
<1>4. EndStri => striMode' \in BOOLEAN
  BY DEF EndStri
<1>. QED
  BY <1>1, <1>3, <1>4, LabelledType

LEMMA TypeInit == Init => TypeOK
<1> SUFFICES ASSUME Init PROVE TypeOK
  OBVIOUS
<1>1. srcl \in Seq(Line)
  BY ConstantsAssumption DEF Init
<1>2. pc \in 1..(Len(srcl) + 1)
  BY <1>1 DEF Init
<1>3. NoEntry \in Entry
  BY DEF NoEntry, Entry, Types, NotInTree
<1>4. NotReached \in LayoutState
  BY DEF NotReached, LayoutState
<1>5. pass1 \in [1..(Len(srcl) + 1) -> LayoutState]
  BY <1>4 DEF Init
<1>6. labels \in [Names -> Entry]
  BY <1>3 DEF Init
<1>7. /\ srcl \in Sources
      /\ phase = "line" /\ passNo = 1 /\ g_adr = 0 /\ striMode = FALSE
      /\ striOpt = 1 /\ memSize = 0
  BY DEF Init
<1>9. /\ phase \in {"line", "alloc", "save", "done"}
      /\ passNo \in {1, 2}
      /\ g_adr \in Int /\ striOpt \in Int /\ memSize \in Int
  BY <1>7
<1>10. striMode \in BOOLEAN
  BY <1>7
<1>8. g_endianMode \in Mds /\ autoAlignMode \in 0..3
  <2>1. g_endianMode \in {0, 1} /\ autoAlignMode \in 0..3
    BY ConstantsAssumption DEF Init
  <2>. QED
    BY <2>1 DEF Mds
<1>. QED
  BY <1>2, <1>5, <1>6, <1>7, <1>8, <1>9, <1>10 DEF TypeOK

(* What ds, org, align and auto_align have in common.                       *)
LEMMA ArgumentType ==
  ASSUME TypeOK, NEW odr, Order(odr), Argument
  PROVE  /\ pc' \in 1..(Len(srcl) + 1)
         /\ g_endianMode' \in Mds
         /\ striMode' \in BOOLEAN
         /\ labels' \in [Names -> Entry]
<1>1. NextLine /\ EndStri /\ labels' = Labelled /\ g_endianMode' = g_endianMode
  BY DEF Argument
<1>. QED
  BY <1>1, MovesType DEF TypeOK

(* Each order keeps the types.                                              *)
LEMMA TypeLine == TypeOK /\ PassLine => TypeOK'
<1> SUFFICES ASSUME TypeOK, PassLine PROVE TypeOK'
  OBVIOUS
<1>t. g_endianMode \in Mds /\ autoAlignMode \in 0..3 /\ striMode \in BOOLEAN /\ striOpt \in Int
  BY DEF TypeOK
<1>1. CASE NoOrder
  <2>1. PICK odr : Order(odr)
    BY <1>1 DEF NoOrder
  <2>2. NextLine /\ EndStri /\ labels' = Labelled
        /\ UNCHANGED <<g_endianMode, autoAlignMode, striOpt>>
    BY <1>1 DEF NoOrder
  <2>. QED
    BY <1>t, <2>1, <2>2, OrderType, MovesType
<1>2. CASE StriText
  <2>1. Order("text")
    BY <1>2 DEF StriText
  <2>2. NextLine /\ UNCHANGED <<g_endianMode, autoAlignMode, striMode, striOpt, labels>>
    BY <1>2 DEF StriText
  <2>3. labels \in [Names -> Entry]
    BY DEF TypeOK
  <2>. QED
    BY <1>t, <2>1, <2>2, <2>3, OrderType, MovesType
<1>3. CASE StrayText
  <2>1. Order("text")
    BY <1>3 DEF StrayText
  <2>2. NextLine /\ EndStri /\ labels' = Labelled
        /\ UNCHANGED <<g_endianMode, autoAlignMode, striOpt>>
    BY <1>3 DEF StrayText
  <2>. QED
    BY <1>t, <2>1, <2>2, OrderType, MovesType
<1>4. CASE Equ
  <2>1. Order("equ")
    BY <1>4 DEF Equ
  <2>2. NextLine /\ EndStri /\ labels' = EquLabels(TheLine)
        /\ UNCHANGED <<g_endianMode, autoAlignMode, striOpt>>
    BY <1>4 DEF Equ
  <2>3. EquLabels(TheLine) \in [Names -> Entry]
    <3>1. Labelled \in [Names -> Entry] /\ TheArg \in Int /\ pc <= Len(srcl)
      BY <2>1, MovesType, TheArgType
    <3>2. \A n \in Names : [Labelled[n] EXCEPT !.val = TheArg] \in Entry
      BY <3>1 DEF Entry
    <3>3. TheLine.lab \in Names \cup {NoName}
      BY <3>1, TheLineType DEF Line
    <3>. QED
      BY <3>1, <3>2, <3>3 DEF EquLabels
  <2>. QED
    BY <1>t, <2>1, <2>2, <2>3, OrderType, MovesType
<1>5. CASE Dc
  <2>1. Order("dc")
    BY <1>5 DEF Dc
  <2>2. NextLine /\ EndStri /\ labels' = Labelled
        /\ UNCHANGED <<g_endianMode, autoAlignMode, striOpt>>
    BY <1>5 DEF Dc
  <2>. QED
    BY <1>t, <2>1, <2>2, OrderType, MovesType
<1>6. CASE Ds
  <2>1. Order("ds")
    BY <1>6 DEF Ds
  <2>2. Argument /\ UNCHANGED <<autoAlignMode, striOpt>>
    BY <1>6 DEF Ds
  <2>. QED
    BY <1>t, <2>1, <2>2, OrderType, ArgumentType
<1>7. CASE Org
  <2>1. Order("org")
    BY <1>7 DEF Org
  <2>2. Argument /\ UNCHANGED <<autoAlignMode, striOpt>>
    BY <1>7 DEF Org
  <2>. QED
    BY <1>t, <2>1, <2>2, OrderType, ArgumentType
<1>8. CASE Align
  <2>1. Order("align")
    BY <1>8 DEF Align
  <2>2. Argument /\ UNCHANGED <<autoAlignMode, striOpt>>
    BY <1>8 DEF Align
  <2>. QED
    BY <1>t, <2>1, <2>2, OrderType, ArgumentType
<1>9. CASE SetAutoAlign
  <2>1. Order("auto_align")
    BY <1>9 DEF SetAutoAlign
  <2>2. Argument /\ autoAlignMode' = GenAutoAlign(TheArg, autoAlignMode) /\ striOpt' = striOpt
    BY <1>9 DEF SetAutoAlign
  <2>3. autoAlignMode' \in 0..3
    BY <1>t, <2>2 DEF GenAutoAlign
  <2>. QED
    BY <1>t, <2>1, <2>2, <2>3, OrderType, ArgumentType
<1>10. CASE Endian
  <2>1. Order("endian")
    BY <1>10 DEF Endian
  <2>2. NextLine /\ EndStri /\ labels' = Labelled /\ g_endianMode' = TheLine.md
        /\ UNCHANGED <<autoAlignMode, striOpt>>
    BY <1>10 DEF Endian
  <2>3. TheLine.md \in Mds
    BY <2>1, MovesType, TheLineType DEF Line
  <2>. QED
    BY <1>t, <2>1, <2>2, <2>3, OrderType, MovesType
<1>11. CASE Stri
  <2>1. Order("stri")
    BY <1>11 DEF Stri
  <2>2. NextLine /\ striMode' = TRUE /\ labels' = Labelled
        /\ UNCHANGED <<g_endianMode, autoAlignMode, striOpt>>
    BY <1>11 DEF Stri
  <2>. QED
    BY <1>t, <2>1, <2>2, OrderType, MovesType
<1>12. CASE StriOpt
  <2>1. Order("stri_opt")
    BY <1>12 DEF StriOpt
  <2>2. NextLine /\ EndStri /\ labels' = Labelled /\ striOpt' = TheArg
        /\ UNCHANGED <<g_endianMode, autoAlignMode>>
    BY <1>12 DEF StriOpt
  <2>. QED
    BY <1>t, <2>1, <2>2, TheArgType, OrderType, MovesType
<1>13. CASE XdefOrder
  <2>1. Order("xdef")
    BY <1>13 DEF XdefOrder
  <2>2. NextLine /\ EndStri /\ labels' = XdefLabels(TheLine)
        /\ UNCHANGED <<g_endianMode, autoAlignMode, striOpt>>
    BY <1>13 DEF XdefOrder
  <2>3. XdefLabels(TheLine) \in [Names -> Entry]
    BY <2>1, MovesType, XdefEntryType DEF XdefLabels
  <2>. QED
    BY <1>t, <2>1, <2>2, <2>3, OrderType, MovesType
<1>14. CASE End
  <2>1. Order("end")
    BY <1>14 DEF End
  <2>2. pc' = Len(srcl) + 1 /\ EndStri /\ labels' = Labelled
        /\ UNCHANGED <<g_endianMode, autoAlignMode, striOpt>>
    BY <1>14 DEF End
  <2>3. Len(srcl) + 1 \in 1..(Len(srcl) + 1)
    BY <2>1, MovesType, TheLineType
  <2>. QED
    BY <1>t, <2>1, <2>2, <2>3, OrderType, MovesType
<1>. QED
  BY <1>1, <1>2, <1>3, <1>4, <1>5, <1>6, <1>7, <1>8, <1>9, <1>10, <1>11, <1>12, <1>13, <1>14
     DEF PassLine

LEMMA TypeNext == TypeOK /\ [Next]_vars => TypeOK'
<1> SUFFICES ASSUME TypeOK, [Next]_vars PROVE TypeOK'
  OBVIOUS
<1>1. CASE PassLine
  BY <1>1, TypeLine
<1>2. CASE EndPass
  <2>1. [adr |-> g_adr, mode |-> autoAlignMode, stri |-> striMode,
         opt |-> striOpt, arg |-> 0] \in LayoutState
    BY DEF TypeOK, LayoutState
  <2>2. pass1' \in [1..(Len(srcl) + 1) -> LayoutState]
    BY <1>2, <2>1 DEF EndPass, TypeOK
  <2>3. /\ UNCHANGED <<srcl, passNo, pc, g_endianMode, autoAlignMode, striOpt, labels, memSize>>
        /\ phase' \in {"alloc", "save"}
        /\ g_adr' \in Int
        /\ striMode' = FALSE
    BY <1>2 DEF EndPass, TypeOK, outputs
  <2>. QED
    BY <2>2, <2>3 DEF TypeOK
<1>3. CASE BeginPass2
  <2>1. srcl \in Seq(Line)
    BY ConstantsAssumption DEF TypeOK
  <2>2. 1 \in 1..(Len(srcl) + 1)
    BY <2>1
  <2>. QED
    BY <1>3, <2>2, ConstantsAssumption DEF BeginPass2, TypeOK, Mds
<1>4. CASE Save
  BY <1>4 DEF Save, TypeOK
<1>5. CASE Finished
  BY <1>5 DEF Finished, vars, outputs, TypeOK
<1>6. CASE UNCHANGED vars
  BY <1>6 DEF vars, TypeOK
<1>. QED
  BY <1>1, <1>2, <1>3, <1>4, <1>5, <1>6 DEF Next

(* In every reachable state every variable of the passes has its type: no   *)
(* sequence of orders gives an alignment mode outside 0..3, a label entry   *)
(* outside LBL_Add's four, or an address that is no number.                 *)
THEOREM TypeCorrect == Spec => []TypeOK
<1>1. Init => TypeOK
  BY TypeInit
<1>2. TypeOK /\ [Next]_vars => TypeOK'
  BY TypeNext
<1>. QED
  BY <1>1, <1>2, PTL DEF Spec

-----------------------------------------------------------------------------
(* One line of a pass: where it goes, what it does to the layout state and   *)
(* to the label table.                                                      *)

(* The address an order leaves is the one Moved gives.                      *)
LEMMA OrderMoves ==
  ASSUME TypeOK, NEW odr, Order(odr)
  PROVE  /\ phase = "line" /\ pc \in 1..Len(srcl) /\ TheLine = srcl[pc] /\ TheLine.odr = odr
         /\ UNCHANGED <<srcl, phase, passNo, memSize>>
         /\ g_adr' = NextAdr(TheLine, passNo, OrderAdr(TheLine, g_adr, striMode), TheArg,
                             autoAlignMode, striMode, striOpt)
         /\ passNo = 1 => pass1' = [pass1 EXCEPT ![pc] =
                                      [adr |-> g_adr, mode |-> autoAlignMode, stri |-> striMode,
                                       opt |-> striOpt, arg |-> TheArg]]
         /\ passNo # 1 => pass1' = pass1
<1>1. pc <= Len(srcl)
  BY DEF Order
<1>2. pc \in 1..Len(srcl)
  BY <1>1, TheLineType
<1>. QED
  BY <1>2 DEF Order, outputs, TheLine

(* The layout state after a line, apart from its address, and the next line. *)
LineOptions ==
  /\ autoAlignMode' = IF TheLine.odr = "auto_align"
                      THEN GenAutoAlign(TheArg, autoAlignMode) ELSE autoAlignMode
  /\ striMode' = (TheLine.odr = "stri" \/ (striMode /\ ~EndsStri(TheLine)))
  /\ striOpt' = IF TheLine.odr = "stri_opt" THEN TheArg ELSE striOpt
  /\ pc' = NextPc(srcl, pc)

(* How each order leaves the options.                                       *)
LEMMA PassLineMoves ==
  ASSUME TypeOK, PassLine
  PROVE  LineOptions /\ \E odr : Order(odr)
<1>1. CASE NoOrder
  <2>1. Order("none") \/ Order("rem")
    BY <1>1 DEF NoOrder
  <2>2. NextLine /\ EndStri /\ UNCHANGED <<autoAlignMode, striOpt>>
    BY <1>1 DEF NoOrder
  <2>. QED
    BY <2>1, <2>2, OrderMoves DEF LineOptions, NextPc, NextLine, EndStri
<1>2. CASE StriText
  <2>1. Order("text")
    BY <1>2 DEF StriText
  <2>2. NextLine /\ UNCHANGED <<autoAlignMode, striMode, striOpt>>
        /\ IsStriText(TheLine, striMode)
    BY <1>2 DEF StriText
  <2>3. striMode' = (striMode /\ ~EndsStri(TheLine))
    BY <2>2 DEF IsStriText, TypeOK
  <2>. QED
    BY <2>1, <2>2, <2>3, OrderMoves DEF LineOptions, NextPc, NextLine, EndStri
<1>3. CASE StrayText
  <2>1. Order("text")
    BY <1>3 DEF StrayText
  <2>2. NextLine /\ EndStri /\ UNCHANGED <<autoAlignMode, striOpt>>
    BY <1>3 DEF StrayText
  <2>. QED
    BY <2>1, <2>2, OrderMoves DEF LineOptions, NextPc, NextLine, EndStri
<1>4. CASE Equ
  <2>1. Order("equ")
    BY <1>4 DEF Equ
  <2>2. NextLine /\ EndStri /\ UNCHANGED <<autoAlignMode, striOpt>>
    BY <1>4 DEF Equ
  <2>. QED
    BY <2>1, <2>2, OrderMoves DEF LineOptions, NextPc, NextLine, EndStri
<1>5. CASE Dc
  <2>1. Order("dc")
    BY <1>5 DEF Dc
  <2>2. NextLine /\ EndStri /\ UNCHANGED <<autoAlignMode, striOpt>>
    BY <1>5 DEF Dc
  <2>. QED
    BY <2>1, <2>2, OrderMoves DEF LineOptions, NextPc, NextLine, EndStri
<1>6. CASE Ds
  <2>1. Order("ds")
    BY <1>6 DEF Ds
  <2>2. NextLine /\ EndStri /\ UNCHANGED <<autoAlignMode, striOpt>>
    BY <1>6 DEF Ds, Argument
  <2>. QED
    BY <2>1, <2>2, OrderMoves DEF LineOptions, NextPc, NextLine, EndStri
<1>7. CASE Org
  <2>1. Order("org")
    BY <1>7 DEF Org
  <2>2. NextLine /\ EndStri /\ UNCHANGED <<autoAlignMode, striOpt>>
    BY <1>7 DEF Org, Argument
  <2>. QED
    BY <2>1, <2>2, OrderMoves DEF LineOptions, NextPc, NextLine, EndStri
<1>8. CASE Align
  <2>1. Order("align")
    BY <1>8 DEF Align
  <2>2. NextLine /\ EndStri /\ UNCHANGED <<autoAlignMode, striOpt>>
    BY <1>8 DEF Align, Argument
  <2>. QED
    BY <2>1, <2>2, OrderMoves DEF LineOptions, NextPc, NextLine, EndStri
<1>9. CASE SetAutoAlign
  <2>1. Order("auto_align")
    BY <1>9 DEF SetAutoAlign
  <2>2. NextLine /\ EndStri /\ striOpt' = striOpt
        /\ autoAlignMode' = GenAutoAlign(TheArg, autoAlignMode)
    BY <1>9 DEF SetAutoAlign, Argument
  <2>. QED
    BY <2>1, <2>2, OrderMoves DEF LineOptions, NextPc, NextLine, EndStri
<1>10. CASE Endian
  <2>1. Order("endian")
    BY <1>10 DEF Endian
  <2>2. NextLine /\ EndStri /\ UNCHANGED <<autoAlignMode, striOpt>>
    BY <1>10 DEF Endian
  <2>. QED
    BY <2>1, <2>2, OrderMoves DEF LineOptions, NextPc, NextLine, EndStri
<1>11. CASE Stri
  <2>1. Order("stri")
    BY <1>11 DEF Stri
  <2>2. NextLine /\ striMode' = TRUE /\ UNCHANGED <<autoAlignMode, striOpt>>
    BY <1>11 DEF Stri
  <2>3. TheLine.odr = "stri"
    BY <2>1, OrderMoves
  <2>4. striMode' = (TheLine.odr = "stri" \/ (striMode /\ ~EndsStri(TheLine)))
    BY <2>2, <2>3
  <2>. QED
    BY <2>1, <2>2, <2>3, <2>4, OrderMoves DEF LineOptions, NextPc, NextLine, EndStri
<1>12. CASE StriOpt
  <2>1. Order("stri_opt")
    BY <1>12 DEF StriOpt
  <2>2. NextLine /\ EndStri /\ striOpt' = TheArg
        /\ autoAlignMode' = autoAlignMode
    BY <1>12 DEF StriOpt
  <2>. QED
    BY <2>1, <2>2, OrderMoves DEF LineOptions, NextPc, NextLine, EndStri
<1>13. CASE XdefOrder
  <2>1. Order("xdef")
    BY <1>13 DEF XdefOrder
  <2>2. NextLine /\ EndStri /\ UNCHANGED <<autoAlignMode, striOpt>>
    BY <1>13 DEF XdefOrder
  <2>. QED
    BY <2>1, <2>2, OrderMoves DEF LineOptions, NextPc, NextLine, EndStri
<1>14. CASE End
  <2>1. Order("end")
    BY <1>14 DEF End
  <2>2. pc' = Len(srcl) + 1 /\ EndStri /\ UNCHANGED <<autoAlignMode, striOpt>>
    BY <1>14 DEF End
  <2>. QED
    BY <2>1, <2>2, OrderMoves DEF LineOptions, NextPc, NextLine, EndStri
<1>. QED
  BY <1>1, <1>2, <1>3, <1>4, <1>5, <1>6, <1>7, <1>8, <1>9, <1>10, <1>11, <1>12, <1>13, <1>14
     DEF PassLine

(* What a line may do to the label table.                                   *)
LineLabels ==
  \/ TheLine.odr # "xdef" /\ labels' = Labelled
  \/ TheLine.odr = "equ" /\ labels' = EquLabels(TheLine)
  \/ TheLine.odr = "xdef" /\ labels' = XdefLabels(TheLine)

(* Every order is one of the three; text of a stri has no label to add.     *)
LEMMA PassLineLabels ==
  ASSUME TypeOK, PassLine
  PROVE  LineLabels
<1>1. CASE StriText
  <2>1. labels' = labels /\ IsStriText(TheLine, striMode)
    BY <1>1 DEF StriText
  <2>2. TheLine.lab = NoName /\ TheLine.odr # "xdef"
    BY <2>1 DEF IsStriText, EndsStri
  <2>. QED
    BY <2>1, <2>2 DEF LineLabels, Labelled
<1>2. CASE Equ
  <2>1. Order("equ") /\ labels' = EquLabels(TheLine)
    BY <1>2 DEF Equ
  <2>. QED
    BY <2>1, OrderMoves DEF LineLabels
<1>3. CASE XdefOrder
  <2>1. Order("xdef") /\ labels' = XdefLabels(TheLine)
    BY <1>3 DEF XdefOrder
  <2>. QED
    BY <2>1, OrderMoves DEF LineLabels
<1>4. CASE NoOrder \/ StrayText \/ Dc \/ Endian \/ Stri \/ StriOpt \/ End
  <2>1. labels' = Labelled
    BY <1>4 DEF NoOrder, StrayText, Dc, Endian, Stri, StriOpt, End
  <2>2. \E odr \in Orders \ {"xdef"} : Order(odr)
    BY <1>4 DEF NoOrder, StrayText, Dc, Endian, Stri, StriOpt, End, Orders
  <2>. QED
    BY <2>1, <2>2, OrderMoves DEF LineLabels
<1>5. CASE Ds \/ Org \/ Align \/ SetAutoAlign
  <2>1. labels' = Labelled
    BY <1>5 DEF Ds, Org, Align, SetAutoAlign, Argument
  <2>2. \E odr \in Orders \ {"xdef"} : Order(odr)
    BY <1>5 DEF Ds, Org, Align, SetAutoAlign, Orders
  <2>. QED
    BY <2>1, <2>2, OrderMoves DEF LineLabels
<1>. QED
  BY <1>1, <1>2, <1>3, <1>4, <1>5 DEF PassLine

(* The label of a line is defined by it, and no definition changes.         *)
LEMMA LabelledBinds ==
  ASSUME TypeOK, pc <= Len(srcl)
  PROVE  /\ \A n \in Names : Bound(labels[n]) =>
              Bound(Labelled[n]) /\ Labelled[n].val = labels[n].val
         /\ passNo = 2 => Labelled = labels
         /\ passNo = 1 /\ TheLine.lab # NoName => Bound(Labelled[TheLine.lab])
<1>1. TheLine.lab \in Names \cup {NoName} /\ labels \in [Names -> Entry] /\ g_adr \in Int
  BY TheLineType DEF Line, TypeOK
<1>2. CASE passNo = 1 /\ TheLine.lab # NoName
  <2> DEFINE e == labels[TheLine.lab]
  <2>1. e \in Entry /\ TheLine.lab \in Names
    BY <1>1, <1>2
  <2>2. Bound(LBL_Add(e, g_adr, Label))
    BY <1>1, <2>1, LBL_AddLabelBinds
  <2>3. Bound(e) => LBL_Add(e, g_adr, Label).val = e.val
    BY <1>1, <2>1, LBL_AddBinds
  <2>4. Labelled = [labels EXCEPT ![TheLine.lab] = LBL_Add(e, g_adr, Label)]
    BY <1>2 DEF Labelled
  <2>. QED
    BY <1>1, <1>2, <2>1, <2>2, <2>3, <2>4
<1>3. CASE ~(passNo = 1 /\ TheLine.lab # NoName)
  BY <1>3 DEF Labelled
<1>. QED
  BY <1>2, <1>3

(* No line changes the value of a defined label, and none changes the table *)
(* in pass 2.                                                               *)
LEMMA PassLineBinds ==
  ASSUME TypeOK, PassLine
  PROVE  /\ BindOnce
         /\ passNo = 1 /\ TheLine.lab # NoName => Bound(labels'[TheLine.lab])
<1>1. pc <= Len(srcl)
  <2>1. PICK odr : Order(odr)
    BY PassLineMoves
  <2>. QED
    BY <2>1 DEF Order
<1>2. Labelled \in [Names -> Entry] /\ TheArg \in Int
  BY <1>1, LabelledType, TheArgType
<1>3. TheLine.lab \in Names \cup {NoName}
  BY <1>1, TheLineType DEF Line
<1>4. LineLabels
  BY PassLineLabels
<1>5. CASE labels' = Labelled
  BY <1>1, <1>5, LabelledBinds DEF BindOnce
<1>6. CASE labels' = EquLabels(TheLine)
  <2>1. CASE passNo = 1 /\ TheLine.lab # NoName /\ ~Overloaded(TheLine)
    <3>1. labels' = [Labelled EXCEPT ![TheLine.lab].val = TheArg]
      BY <1>6, <2>1 DEF EquLabels
    <3>2. TheLine.lab \in Names /\ labels[TheLine.lab] \in Entry
      BY <1>3, <2>1 DEF TypeOK
    <3>3. ~Bound(labels[TheLine.lab])
      BY <2>1, <3>2 DEF Overloaded, LBL_AddFails, Bound, Label, Xdef, XdefLabel, NotInTree
    <3>4. \A n \in Names : n # TheLine.lab => labels'[n] = Labelled[n]
      BY <1>2, <3>1, <3>2
    <3>5. labels'[TheLine.lab].typ = Labelled[TheLine.lab].typ
      BY <1>2, <3>1, <3>2 DEF Entry
    <3>6. \A n \in Names : Bound(labels'[n]) <=> Bound(Labelled[n])
      BY <3>4, <3>5 DEF Bound
    <3>. QED
      BY <1>1, <2>1, <3>2, <3>3, <3>4, <3>6, LabelledBinds DEF BindOnce
  <2>2. CASE ~(passNo = 1 /\ TheLine.lab # NoName /\ ~Overloaded(TheLine))
    <3>1. labels' = Labelled
      BY <1>6, <2>2 DEF EquLabels
    <3>. QED
      BY <1>5, <3>1
  <2>. QED
    BY <2>1, <2>2
<1>7. CASE labels' = XdefLabels(TheLine)
  <2>1. CASE passNo = 1
    <3>1. \A n \in Names : labels'[n] = XdefEntry(Labelled[n], n, TheLine.xs)
      BY <1>7, <2>1 DEF XdefLabels
    <3>2. \A n \in Names : Labelled[n] \in Entry
      BY <1>2
    <3>3. \A n \in Names : Bound(Labelled[n]) =>
            Bound(labels'[n]) /\ labels'[n].val = Labelled[n].val
      BY <3>1, <3>2, XdefEntryType
    <3>. QED
      BY <1>1, <1>3, <2>1, <3>3, LabelledBinds DEF BindOnce
  <2>2. CASE passNo # 1
    <3>1. labels' = Labelled
      BY <1>7, <2>2 DEF XdefLabels
    <3>. QED
      BY <1>5, <3>1
  <2>. QED
    BY <2>1, <2>2
<1>. QED
  BY <1>4, <1>5, <1>6, <1>7 DEF LineLabels

(* Whatever a source does - define a name again, export it before or after, *)
(* give it an equ - a name keeps the value "name:" first gave it, and pass 2 *)
(* sees the table pass 1 left (LBL_Add, Pass_Line).                         *)
THEOREM DefinitionsAreFinal == Spec => LabelsBindOnce
<1>1. TypeOK /\ [Next]_vars => [BindOnce]_vars
  <2> SUFFICES ASSUME TypeOK, [Next]_vars PROVE [BindOnce]_vars
    OBVIOUS
  <2>1. CASE PassLine
    BY <2>1, PassLineBinds
  <2>2. CASE labels' = labels
    BY <2>2 DEF BindOnce
  <2>3. CASE EndPass \/ BeginPass2 \/ Save
    <3>1. labels' = labels
      BY <2>3 DEF EndPass, BeginPass2, Save
    <3>. QED
      BY <2>2, <3>1
  <2>4. CASE Finished \/ UNCHANGED vars
    BY <2>4 DEF Finished
  <2>. QED
    BY <2>1, <2>3, <2>4 DEF Next
<1>. QED
  BY <1>1, TypeCorrect, PTL DEF Spec, LabelsBindOnce
=============================================================================
