-------------------------- MODULE AgreementProofs --------------------------
(***************************************************************************)
(* Proofs about the two passes and the label table of module DcasmPass, for *)
(* every set of sources, names and options.  The passes agree:              *)
(* AgreementInvariant is inductive.  A label is the address of its first    *)
(* line, and the header lists what is both defined and exported:            *)
(* LabelInvariant is inductive.                                             *)
(***************************************************************************)
EXTENDS DcasmPassProofs, FiniteSetTheorems

Layout4 == [adr : Int, mode : -1..3, stri : BOOLEAN, opt : Int]

-----------------------------------------------------------------------------
(* Lemmas about the layout function.                                        *)

(* The alignment of a byte datum does not depend on the mode.               *)
LEMMA ByteAligned ==
  ASSUME NEW adr, NEW mode1, NEW mode2, NEW md, md = 0 \/ mode1 = mode2
  PROVE  AutoAlign(adr, md, mode1) = AutoAlign(adr, md, mode2)
BY DEF AutoAlign

(* Passes 1 and 2 move alike over a line if they meet it at the same        *)
(* address, agree on whether it is text of a stri, on the options it looks  *)
(* at and on its argument, and it is not an empty dc.                       *)
LEMMA MovedAlike ==
  ASSUME NEW ln \in Line, NEW s, NEW t, NEW arg1, NEW arg2,
         s.adr = t.adr, s.stri = t.stri,
         ln.odr = "dc" => ln.args # <<>>,
         ln.odr \in Layouts => arg1 = arg2,
         ln.odr \in {"dc", "ds"} /\ ln.md # 0 => s.mode = t.mode,
         ln.odr = "text" => s.opt = t.opt
  PROVE  /\ Moved(ln, 1, s, arg1).adr = Moved(ln, 2, t, arg2).adr
         /\ Moved(ln, 1, s, arg1).stri = Moved(ln, 2, t, arg2).stri
<1> DEFINE adr == OrderAdr(ln, s.adr, s.stri)
<1>1. OrderAdr(ln, t.adr, t.stri) = adr
  OBVIOUS
<1>2. NextAdr(ln, 1, adr, arg1, s.mode, s.stri, s.opt)
        = NextAdr(ln, 2, adr, arg2, t.mode, s.stri, t.opt)
  <2>1. CASE ln.odr = "dc"
    <3>1. AutoAlign(adr, ln.md, s.mode) = AutoAlign(adr, ln.md, t.mode)
      BY <2>1, ByteAligned
    <3>2. DcEnd(ln, adr, s.mode, 1) = DcEnd(ln, adr, t.mode, 2)
      BY <2>1, <3>1 DEF DcEnd, DcStart
    <3>. QED
      BY <2>1, <3>2 DEF NextAdr, IsStriText
  <2>2. CASE ln.odr = "ds"
    <3>1. AutoAlign(adr, ln.md, s.mode) = AutoAlign(adr, ln.md, t.mode)
      BY <2>2, ByteAligned
    <3>2. arg1 = arg2
      BY <2>2 DEF Layouts
    <3>3. GenDs(adr, arg1, ln.md, s.mode) = GenDs(adr, arg2, ln.md, t.mode)
      BY <3>1, <3>2 DEF GenDs
    <3>4. ~IsStriText(ln, s.stri)
      BY <2>2 DEF IsStriText
    <3>. QED
      BY <2>2, <3>3, <3>4 DEF NextAdr
  <2>3. CASE ln.odr \in {"org", "align"}
    <3>1. arg1 = arg2
      BY <2>3 DEF Layouts
    <3>2. ~IsStriText(ln, s.stri)
      BY <2>3 DEF IsStriText
    <3>3. CASE ln.odr = "org"
      BY <3>1, <3>2, <3>3 DEF NextAdr
    <3>4. CASE ln.odr = "align"
      BY <3>1, <3>2, <3>4 DEF NextAdr
    <3>. QED
      BY <2>3, <3>3, <3>4
  <2>4. CASE ln.odr = "text"
    BY <2>4 DEF NextAdr
  <2>5. CASE ln.odr \notin {"dc", "ds", "org", "align", "text"}
    BY <2>5 DEF NextAdr, IsStriText
  <2>. QED
    BY <2>1, <2>2, <2>3, <2>4, <2>5
<1>. QED
  BY <1>1, <1>2 DEF Moved

(* An expression keeps its value when its label keeps its own.              *)
LEMMA ArgKept ==
  ASSUME NEW ln \in Line, NEW top, NEW tbl1, NEW tbl2,
         ln.args # <<>> /\ ln.args[1].base \in Names =>
           tbl1[ln.args[1].base].val = tbl2[ln.args[1].base].val
  PROVE  Arg(ln, top, tbl1) = Arg(ln, top, tbl2)
<1>1. CASE ln.args = <<>>
  BY <1>1 DEF Arg
<1>2. CASE ln.args # <<>>
  <2>1. ln.args[1] \in Expr
    BY <1>2 DEF Line
  <2>2. ln.args[1].base \in Names \cup {NoName, Here}
    BY <2>1 DEF Expr
  <2>3. Value(ln.args[1], top, tbl1) = Value(ln.args[1], top, tbl2)
    BY <1>2, <2>2, ConstantsAssumption DEF Value
  <2>. QED
    BY <1>2, <2>3 DEF Arg
<1>. QED
  BY <1>1, <1>2

-----------------------------------------------------------------------------
(* A line of either pass.                                                   *)

(* What a step of Pass_Line does to the layout.                             *)
LEMMA LineFacts ==
  ASSUME TypeOK, PassLine
  PROVE  /\ phase = "line" /\ phase' = "line" /\ passNo' = passNo /\ srcl' = srcl
         /\ pc \in 1..Len(srcl) /\ Len(srcl) \in Nat /\ TheLine = srcl[pc] /\ TheLine \in Line
         /\ pc' = NextPc(srcl, pc)
         /\ CurrentLayout' = Moved(TheLine, passNo, CurrentLayout, TheArg)
         /\ CurrentLayout \in Layout4 /\ CurrentLayout.mode # -1
         /\ TheArg \in Int /\ memSize' = memSize
         /\ passNo = 1 => pass1' = [pass1 EXCEPT ![pc] =
                                      [adr |-> g_adr, mode |-> autoAlignMode, stri |-> striMode,
                                       opt |-> striOpt, arg |-> TheArg]]
         /\ passNo # 1 => pass1' = pass1
<1>1. PICK odr : Order(odr)
  BY PassLineMoves
<1>2. LineOptions
  BY PassLineMoves
<1>3. pc \in 1..Len(srcl) /\ pc <= Len(srcl) /\ Len(srcl) \in Nat
  BY <1>1, OrderMoves, TheLineType DEF Order
<1>4. TheLine = srcl[pc] /\ TheLine \in Line /\ TheArg \in Int
  BY <1>3, TheLineType, TheArgType DEF TheLine
<1>5. CurrentLayout' = Moved(TheLine, passNo, CurrentLayout, TheArg)
  <2>1. g_adr' = NextAdr(TheLine, passNo, OrderAdr(TheLine, g_adr, striMode), TheArg,
                         autoAlignMode, striMode, striOpt)
    BY <1>1, OrderMoves
  <2>. QED
    BY <1>2, <2>1, Zenon DEF CurrentLayout, Moved, LineOptions
<1>6. CurrentLayout \in Layout4 /\ CurrentLayout.mode # -1
  BY DEF CurrentLayout, Layout4, TypeOK
<1>. QED
  BY <1>1, <1>2, <1>3, <1>4, <1>5, <1>6, OrderMoves DEF LineOptions

(* The next line comes after this one.                                      *)
LEMMA NextPcAfter ==
  ASSUME TypeOK, NEW i \in 1..Len(srcl)
  PROVE  /\ NextPc(srcl, i) \in (i + 1)..(Len(srcl) + 1)
         /\ srcl[i].odr # "end" => NextPc(srcl, i) = i + 1
         /\ srcl[i].odr = "end" => NextPc(srcl, i) = Len(srcl) + 1
<1>1. Len(srcl) \in Nat
  BY ConstantsAssumption DEF TypeOK
<1>. QED
  BY <1>1 DEF NextPc

(* The records of pass 1 are layout states.                                 *)
LEMMA RecordType ==
  ASSUME TypeOK, NEW i \in 1..(Len(srcl) + 1)
  PROVE  /\ pass1[i] \in LayoutState
         /\ pass1[i].mode # -1 <=> Reached(i)
         /\ Remembered(i) \in Layout4
BY DEF TypeOK, LayoutState, Layout4, Remembered, Reached, NotReached

-----------------------------------------------------------------------------
(* A line of pass 1.                                                        *)

(* Only the record of the line changes, to its layout state and argument.   *)
LEMMA Pass1Records ==
  ASSUME TypeOK, PassLine, passNo = 1, NEW i \in 1..(Len(srcl) + 1)
  PROVE  /\ i = pc => /\ Reached(i)'
                      /\ Remembered(i)' = CurrentLayout
                      /\ pass1'[i].arg = TheArg /\ pass1'[i].adr = g_adr
         /\ i # pc => /\ pass1'[i] = pass1[i]
                      /\ Reached(i)' = Reached(i)
                      /\ Remembered(i)' = Remembered(i)
<1>1. pass1' = [pass1 EXCEPT ![pc] =
                  [adr |-> g_adr, mode |-> autoAlignMode, stri |-> striMode,
                   opt |-> striOpt, arg |-> TheArg]]
  BY LineFacts
<1>2. pc \in 1..(Len(srcl) + 1) /\ pass1 \in [1..(Len(srcl) + 1) -> LayoutState]
  BY DEF TypeOK
<1>3. CASE i = pc
  <2>1. pass1'[i] = [adr |-> g_adr, mode |-> autoAlignMode, stri |-> striMode,
                     opt |-> striOpt, arg |-> TheArg]
    BY <1>1, <1>2, <1>3
  <2>2. pass1'[i].mode # -1
    BY <2>1 DEF TypeOK
  <2>3. Reached(i)'
    BY <2>2 DEF Reached, NotReached
  <2>. QED
    BY <1>3, <2>1, <2>3 DEF Remembered, CurrentLayout
<1>4. CASE i # pc
  <2>1. pass1'[i] = pass1[i]
    BY <1>1, <1>2, <1>4
  <2>. QED
    BY <1>4, <2>1 DEF Reached, Remembered
<1>. QED
  BY <1>3, <1>4

(* Front and ReachedInOrder after a line of pass 1.                         *)
LEMMA Pass1Front ==
  ASSUME TypeOK, PassLine, passNo = 1, Front, ReachedInOrder
  PROVE  Front' /\ ReachedInOrder'
<1>1. /\ phase = "line" /\ srcl' = srcl /\ Len(srcl) \in Nat
      /\ pc \in 1..Len(srcl) /\ pc' = NextPc(srcl, pc)
  BY LineFacts
<1>2. /\ pc' \in (pc + 1)..(Len(srcl) + 1)
      /\ pc' <= Len(srcl) => srcl[pc].odr # "end" /\ pc' = pc + 1
  BY <1>1, NextPcAfter
<1>3. \A i \in 1..(Len(srcl) + 1) : Reached(i)' => i <= pc
  <2> SUFFICES ASSUME NEW i \in 1..(Len(srcl) + 1), Reached(i)' PROVE i <= pc
    OBVIOUS
  <2>1. CASE i = pc
    BY <2>1, <1>1
  <2>2. CASE i # pc
    <3>1. Reached(i)
      BY <2>2, Pass1Records
    <3>. QED
      BY <1>1, <3>1 DEF Front
  <2>. QED
    BY <2>1, <2>2
<1>4. \A i \in 1..pc : Reached(i)'
  <2> SUFFICES ASSUME NEW i \in 1..pc PROVE Reached(i)'
    OBVIOUS
  <2>1. i \in 1..(Len(srcl) + 1)
    BY <1>1
  <2>2. CASE i = pc
    BY <2>1, <2>2, Pass1Records
  <2>3. CASE i # pc
    <3>1. i \in 1..(pc - 1)
      BY <1>1, <2>3
    <3>2. Reached(i)
      BY <1>1, <3>1 DEF Front
    <3>. QED
      BY <2>1, <2>3, <3>2, Pass1Records
  <2>. QED
    BY <2>2, <2>3
<1>5. Front'
  <2>1. \A i \in 1..(Len(srcl) + 1) : Reached(i)' => i < pc'
    BY <1>1, <1>2, <1>3
  <2>2. pc' <= Len(srcl) => \A i \in 1..(pc' - 1) : Reached(i)' /\ srcl[i].odr # "end"
    <3> SUFFICES ASSUME pc' <= Len(srcl), NEW i \in 1..(pc' - 1)
                 PROVE  Reached(i)' /\ srcl[i].odr # "end"
      OBVIOUS
    <3>1. i \in 1..pc /\ srcl[pc].odr # "end"
      BY <1>1, <1>2
    <3>2. i # pc => srcl[i].odr # "end"
      BY <1>1, <3>1 DEF Front
    <3>. QED
      BY <1>4, <3>1, <3>2
  <2>. QED
    BY <1>1, <2>1, <2>2 DEF Front
<1>6. ReachedInOrder'
  BY <1>1, <1>3, <1>4 DEF ReachedInOrder
<1>. QED
  BY <1>5, <1>6

(* Trace after a line of pass 1: the record of the line and the layout      *)
(* after it are one more step of the run.                                   *)
LEMMA Pass1Trace ==
  ASSUME TypeOK, PassLine, passNo = 1, Front, Trace
  PROVE  Trace'
<1>1. /\ phase = "line" /\ phase' = "line" /\ passNo' = 1 /\ srcl' = srcl /\ Len(srcl) \in Nat
      /\ pc \in 1..Len(srcl) /\ pc' = NextPc(srcl, pc)
      /\ CurrentLayout' = Moved(srcl[pc], 1, CurrentLayout, TheArg)
  BY LineFacts
<1>2. pc' \in (pc + 1)..(Len(srcl) + 1)
  BY <1>1, NextPcAfter
<1>3. \A i \in 1..pc : Pass1Layout(i)' = Pass1Layout(i)
  <2> SUFFICES ASSUME NEW i \in 1..pc PROVE Pass1Layout(i)' = Pass1Layout(i)
    OBVIOUS
  <2>1. i \in 1..(Len(srcl) + 1) /\ i # pc'
    BY <1>1, <1>2
  <2>2. Pass1Layout(i)' = Remembered(i)'
    BY <2>1 DEF Pass1Layout
  <2>. QED
    BY <1>1, <2>1, <2>2, Pass1Records DEF Pass1Layout
<1>4. \A j : j = pc' => Pass1Layout(j)' = CurrentLayout'
  BY <1>1 DEF Pass1Layout
<1>5. Pass1Layout(1)' = [adr |-> 0, mode |-> optAutoAlign, stri |-> FALSE, opt |-> 1]
  BY <1>1, <1>3 DEF Trace
<1>6. ASSUME NEW i \in 1..Len(srcl), Reached(i)'
      PROVE  Pass1Layout(NextPc(srcl, i))' = Moved(srcl[i], 1, Remembered(i)', pass1'[i].arg)
  <2>1. i \in 1..(Len(srcl) + 1)
    BY <1>1
  <2>2. CASE i = pc
    <3>1. Remembered(i)' = CurrentLayout /\ pass1'[i].arg = TheArg
      BY <2>1, <2>2, Pass1Records
    <3>2. NextPc(srcl', i) = pc'
      BY <1>1, <2>2
    <3>. QED
      BY <1>1, <1>4, <2>2, <3>1, <3>2
  <2>3. CASE i # pc
    <3>1. Reached(i) /\ Remembered(i)' = Remembered(i) /\ pass1'[i].arg = pass1[i].arg
      BY <1>6, <2>1, <2>3, Pass1Records
    <3>2. i < pc
      BY <1>1, <2>1, <3>1 DEF Front
    <3>3. srcl[i].odr # "end"
      BY <1>1, <3>2 DEF Front
    <3>4. NextPc(srcl, i) = i + 1 /\ i + 1 \in 1..pc
      BY <1>1, <3>2, <3>3, NextPcAfter
    <3>5. Pass1Layout(i + 1) = Moved(srcl[i], 1, Remembered(i), pass1[i].arg)
      BY <3>1, <3>4 DEF Trace
    <3>6. Pass1Layout(i + 1)' = Pass1Layout(i + 1)
      BY <1>3, <3>4
    <3>7. NextPc(srcl', i) = i + 1
      BY <1>1, <3>4
    <3>. QED
      BY <3>1, <3>5, <3>6, <3>7
  <2>. QED
    BY <2>2, <2>3
<1>. QED
  BY <1>1, <1>5, <1>6 DEF Trace

(* LabelsBound and ArgumentsKept after a line of pass 1: the line defines   *)
(* its label, and the labels a backward argument names are defined already. *)
LEMMA Pass1Labels ==
  ASSUME TypeOK, PassLine, passNo = 1, ReachedInOrder, LabelsBound, ArgumentsKept
  PROVE  LabelsBound' /\ ArgumentsKept'
<1>1. /\ srcl' = srcl /\ Len(srcl) \in Nat /\ pc \in 1..Len(srcl)
      /\ TheLine = srcl[pc]
  BY LineFacts
<1>2. /\ BindOnce
      /\ TheLine.lab # NoName => Bound(labels'[TheLine.lab])
  BY PassLineBinds
<1>3. \A i \in 1..Len(srcl) : srcl[i] \in Line
  BY ConstantsAssumption DEF TypeOK
<1>4. \A i \in 1..Len(srcl) : srcl[i].lab \in Names \cup {NoName}
  BY <1>3 DEF Line
<1>5. ASSUME NEW i \in 1..Len(srcl), Reached(i), srcl[i].lab # NoName
      PROVE  srcl[i].lab \in Names /\ Bound(labels[srcl[i].lab])
  BY <1>1, <1>4, <1>5 DEF LabelsBound
<1>6. LabelsBound'
  <2> SUFFICES ASSUME NEW i \in 1..Len(srcl), Reached(i)', srcl[i].lab # NoName
               PROVE  Bound(labels'[srcl[i].lab])
    BY <1>1 DEF LabelsBound, Bound
  <2>1. i \in 1..(Len(srcl) + 1)
    BY <1>1
  <2>2. CASE i = pc
    BY <1>1, <1>2, <2>2
  <2>3. CASE i # pc
    <3>1. Reached(i)
      BY <2>1, <2>3, Pass1Records
    <3>. QED
      BY <1>2, <1>5, <3>1 DEF BindOnce
  <2>. QED
    BY <2>2, <2>3
<1>7. ASSUME NEW i \in 1..Len(srcl), Reached(i)', srcl[i].odr \in Layouts,
             BackwardArgument(srcl, i)
      PROVE  pass1'[i].arg = Arg(srcl[i], pass1'[i].adr, labels')
  <2>1. i \in 1..(Len(srcl) + 1)
    BY <1>1
  <2>2. CASE i = pc
    <3>1. pass1'[i].arg = TheArg /\ pass1'[i].adr = g_adr
      BY <2>1, <2>2, Pass1Records
    <3>2. labels' = Labelled
      BY <1>1, <1>7, <2>2, PassLineLabels DEF LineLabels, Layouts
    <3>. QED
      BY <1>1, <2>2, <3>1, <3>2 DEF TheArg
  <2>3. CASE i # pc
    <3>1. Reached(i) /\ pass1'[i] = pass1[i]
      BY <1>7, <2>1, <2>3, Pass1Records
    <3>2. pass1[i].arg = Arg(srcl[i], pass1[i].adr, labels)
      BY <1>1, <1>7, <3>1 DEF ArgumentsKept
    <3>3. ASSUME srcl[i].args # <<>>, srcl[i].args[1].base \in Names
          PROVE  labels'[srcl[i].args[1].base].val = labels[srcl[i].args[1].base].val
      <4>1. PICK j \in 1..i : srcl[i].args[1].base = srcl[j].lab
        BY <1>7, <3>3, ConstantsAssumption DEF BackwardArgument
      <4>2. j \in 1..Len(srcl) /\ Reached(j)
        BY <1>1, <3>1 DEF ReachedInOrder
      <4>3. Bound(labels[srcl[j].lab])
        BY <1>5, <3>3, <4>1, <4>2, ConstantsAssumption
      <4>. QED
        BY <1>2, <3>3, <4>1, <4>3 DEF BindOnce
    <3>4. Arg(srcl[i], pass1[i].adr, labels') = Arg(srcl[i], pass1[i].adr, labels)
      BY <1>3, <3>3, ArgKept
    <3>. QED
      BY <3>1, <3>2, <3>4
  <2>. QED
    BY <2>2, <2>3
<1>8. ArgumentsKept'
  BY <1>1, <1>7 DEF ArgumentsKept
<1>. QED
  BY <1>6, <1>8

-----------------------------------------------------------------------------
(* The options.                                                             *)

(* A number is its own value.                                               *)
LEMMA ConstantArg ==
  ASSUME NEW ln \in Line, NEW top, NEW tbl, Constant(ln)
  PROVE  Arg(ln, top, tbl) = ln.args[1].off
<1>1. ln.args # <<>> /\ ln.args[1].base = NoName
  BY DEF Constant
<1>2. ln.args[1] \in Expr
  BY <1>1 DEF Line
<1>3. ln.args[1].off \in Int
  BY <1>2 DEF Expr
<1>4. Value(ln.args[1], top, tbl) = ln.args[1].off + 0
  BY <1>1, ConstantsAssumption DEF Value
<1>. QED
  BY <1>1, <1>3, <1>4 DEF Arg

(* A valid number replaces any mode by the same one.                        *)
LEMMA SetsAnyMode ==
  ASSUME NEW n \in {0, 2, 4, 8}, NEW m1, NEW m2
  PROVE  GenAutoAlign(n, m1) = GenAutoAlign(n, m2)
BY DEF GenAutoAlign

(* A line keeps an option that no line of the source changes.               *)
LEMMA LineKeepsOptions ==
  ASSUME TypeOK, PassLine, OptionsKept
  PROVE  /\ ModeFixed(srcl) => autoAlignMode' = optAutoAlign
         /\ OptFixed(srcl) => striOpt' = 1
<1>1. /\ pc \in 1..Len(srcl) /\ TheLine = srcl[pc] /\ TheLine \in Line
      /\ LineOptions
  BY LineFacts, PassLineMoves
<1>2. ASSUME ModeFixed(srcl) PROVE autoAlignMode' = optAutoAlign
  <2>1. autoAlignMode = optAutoAlign /\ KeepsMode(TheLine)
    BY <1>1, <1>2 DEF OptionsKept, ModeFixed
  <2>2. CASE TheLine.odr = "auto_align"
    <3>1. /\ Constant(TheLine) /\ TheLine.args[1].off \in {0, 2, 4, 8}
          /\ GenAutoAlign(TheLine.args[1].off, 0) = optAutoAlign
      BY <2>1, <2>2 DEF KeepsMode, SetsMode
    <3>2. TheArg = TheLine.args[1].off
      BY <1>1, <3>1, ConstantArg DEF TheArg
    <3>. QED
      BY <1>1, <2>2, <3>1, <3>2, SetsAnyMode DEF LineOptions
  <2>3. CASE TheLine.odr # "auto_align"
    BY <1>1, <2>1, <2>3 DEF LineOptions
  <2>. QED
    BY <2>2, <2>3
<1>3. ASSUME OptFixed(srcl) PROVE striOpt' = 1
  <2>1. striOpt = 1 /\ KeepsOpt(TheLine)
    BY <1>1, <1>3 DEF OptionsKept, OptFixed
  <2>2. CASE TheLine.odr = "stri_opt"
    <3>1. Constant(TheLine) /\ TheLine.args[1].off = 1
      BY <2>1, <2>2 DEF KeepsOpt, SetsOpt
    <3>2. TheArg = TheLine.args[1].off
      BY <1>1, <3>1, ConstantArg DEF TheArg
    <3>. QED
      BY <1>1, <2>2, <3>1, <3>2 DEF LineOptions
  <2>3. CASE TheLine.odr # "stri_opt"
    BY <1>1, <2>1, <2>3 DEF LineOptions
  <2>. QED
    BY <2>2, <2>3
<1>. QED
  BY <1>2, <1>3

(* OptionsKept after a line of pass 1.                                      *)
LEMMA Pass1Options ==
  ASSUME TypeOK, PassLine, passNo = 1, OptionsKept
  PROVE  OptionsKept'
<1>1. srcl' = srcl /\ pc \in 1..Len(srcl) /\ Len(srcl) \in Nat
  BY LineFacts
<1>2. ASSUME NEW i \in 1..(Len(srcl) + 1), Reached(i)'
      PROVE  /\ ModeFixed(srcl) => pass1'[i].mode = optAutoAlign
             /\ OptFixed(srcl) => pass1'[i].opt = 1
  <2>1. CASE i = pc
    <3>1. Remembered(i)' = CurrentLayout
      BY <2>1, Pass1Records
    <3>2. pass1'[i].mode = autoAlignMode /\ pass1'[i].opt = striOpt
      BY <3>1 DEF Remembered, CurrentLayout
    <3>. QED
      BY <3>2 DEF OptionsKept
  <2>2. CASE i # pc
    <3>1. pass1'[i] = pass1[i] /\ Reached(i)
      BY <1>2, <2>2, Pass1Records
    <3>. QED
      BY <3>1 DEF OptionsKept
  <2>. QED
    BY <2>1, <2>2
<1>. QED
  BY <1>1, <1>2, LineKeepsOptions DEF OptionsKept

-----------------------------------------------------------------------------
(* A line of pass 2.                                                        *)

(* What a step that leaves the records and the labels alone keeps, outside  *)
(* pass 1.                                                                  *)
LEMMA RecordsKept ==
  ASSUME srcl' = srcl, pass1' = pass1, labels' = labels,
         ~(passNo = 1 /\ phase = "line"), ~(passNo' = 1 /\ phase' = "line"),
         Front, ReachedInOrder, Trace, LabelsBound, ArgumentsKept
  PROVE  Front' /\ ReachedInOrder' /\ Trace' /\ LabelsBound' /\ ArgumentsKept'
<1>1. Front'
  BY DEF Front
<1>2. ReachedInOrder'
  BY DEF ReachedInOrder, Reached
<1>3. Trace'
  BY DEF Trace, Pass1Layout, Reached, Remembered
<1>4. LabelsBound'
  BY DEF LabelsBound, Reached
<1>5. ArgumentsKept'
  BY DEF ArgumentsKept, Reached
<1>. QED
  BY <1>1, <1>2, <1>3, <1>4, <1>5

(* A line of pass 2 leaves both alone.                                      *)
LEMMA Pass2Records ==
  ASSUME TypeOK, PassLine, passNo = 2
  PROVE  pass1' = pass1 /\ labels' = labels /\ Labelled = labels
<1>1. pass1' = pass1 /\ pc <= Len(srcl)
  BY LineFacts
<1>2. Labelled = labels
  BY <1>1, LabelledBinds
<1>3. EquLabels(TheLine) = labels
  BY <1>2 DEF EquLabels
<1>4. XdefLabels(TheLine) = labels
  BY <1>2 DEF XdefLabels
<1>. QED
  BY <1>1, <1>2, <1>3, <1>4, PassLineLabels DEF LineLabels

(* The line's argument is the one pass 1 saw.                               *)
LEMMA Pass2Argument ==
  ASSUME TypeOK, PassLine, passNo = 2, WellFormed(srcl), PassesAgree, ArgumentsKept,
         TheLine.odr \in Layouts
  PROVE  TheArg = pass1[pc].arg
<1>1. pc \in 1..Len(srcl) /\ TheLine = srcl[pc] /\ phase = "line"
  BY LineFacts
<1>2. Reached(pc) /\ g_adr = pass1[pc].adr
  BY <1>1 DEF PassesAgree
<1>3. BackwardArgument(srcl, pc)
  BY <1>1 DEF WellFormed
<1>4. pass1[pc].arg = Arg(srcl[pc], pass1[pc].adr, labels)
  BY <1>1, <1>2, <1>3 DEF ArgumentsKept
<1>. QED
  BY <1>1, <1>2, <1>4, Pass2Records DEF TheArg

(* The next line of pass 2 is one pass 1 reached by the same move.          *)
LEMMA Pass2Next ==
  ASSUME TypeOK, PassLine, passNo = 2, WellFormed(srcl), PassesAgree, Trace
  PROVE  /\ pc' \in 1..(Len(srcl) + 1)
         /\ Reached(pc)
         /\ \A i : i = pc' => Remembered(i) = Moved(srcl[pc], 1, Remembered(pc), pass1[pc].arg)
<1>1. pc \in 1..Len(srcl) /\ Len(srcl) \in Nat /\ phase = "line" /\ pc' = NextPc(srcl, pc)
  BY LineFacts
<1>2. Reached(pc)
  BY <1>1 DEF PassesAgree
<1>3. pc' \in 1..(Len(srcl) + 1)
  BY <1>1, NextPcAfter
<1>4. Pass1Layout(NextPc(srcl, pc)) = Moved(srcl[pc], 1, Remembered(pc), pass1[pc].arg)
  BY <1>1, <1>2 DEF Trace
<1>. QED
  BY <1>1, <1>2, <1>3, <1>4 DEF Pass1Layout

(* InStep after a line of pass 2: an option once set is the same in both    *)
(* passes.                                                                  *)
LEMMA Pass2InStep ==
  ASSUME TypeOK, PassLine, passNo = 2, PassesAgree, Trace, ArgumentsKept, InStep
  PROVE  InStep'
<1>1. /\ pc \in 1..Len(srcl) /\ Len(srcl) \in Nat /\ phase = "line" /\ phase' = "line"
      /\ srcl' = srcl /\ passNo' = 2 /\ TheLine = srcl[pc] /\ TheLine \in Line
      /\ pc' = NextPc(srcl, pc) /\ LineOptions
  BY LineFacts, PassLineMoves
<1>2. pass1' = pass1
  BY Pass2Records
<1>3. ASSUME WellFormed(srcl), pc' <= Len(srcl)
      PROVE  /\ ModeSetBefore(srcl, pc') => autoAlignMode' = pass1[pc'].mode
             /\ OptSetBefore(srcl, pc') => striOpt' = pass1[pc'].opt
  <2>1. pc' = pc + 1
    BY <1>1, <1>3, NextPcAfter
  <2>2. /\ ModeSetBefore(srcl, pc') => SetsMode(TheLine) \/ ModeSetBefore(srcl, pc)
        /\ OptSetBefore(srcl, pc') => SetsOpt(TheLine) \/ OptSetBefore(srcl, pc)
    BY <1>1, <2>1 DEF ModeSetBefore, OptSetBefore
  <2>3. Remembered(pc') = Moved(srcl[pc], 1, Remembered(pc), pass1[pc].arg)
    <3>1. \A i : i = pc' => Remembered(i) = Moved(srcl[pc], 1, Remembered(pc), pass1[pc].arg)
      BY <1>3, Pass2Next
    <3>. QED
      BY <3>1
  <2>4. /\ pass1[pc'].mode = IF TheLine.odr = "auto_align"
                             THEN GenAutoAlign(pass1[pc].arg, pass1[pc].mode)
                             ELSE pass1[pc].mode
        /\ pass1[pc'].opt = IF TheLine.odr = "stri_opt" THEN pass1[pc].arg ELSE pass1[pc].opt
    BY <1>1, <2>3 DEF Moved, Remembered
  <2>5. TheLine.odr \in {"auto_align", "stri_opt"} => TheArg = pass1[pc].arg
    BY <1>3, Pass2Argument DEF Layouts
  <2>6. ASSUME ModeSetBefore(srcl, pc') PROVE autoAlignMode' = pass1[pc'].mode
    <3>1. CASE SetsMode(TheLine)
      <4>1. /\ TheLine.odr = "auto_align" /\ Constant(TheLine)
            /\ TheLine.args[1].off \in {0, 2, 4, 8}
        BY <3>1 DEF SetsMode
      <4>2. TheArg = TheLine.args[1].off
        BY <1>1, <4>1, ConstantArg DEF TheArg
      <4>3. GenAutoAlign(TheArg, autoAlignMode) = GenAutoAlign(TheArg, pass1[pc].mode)
        BY <4>1, <4>2, SetsAnyMode
      <4>. QED
        BY <1>1, <2>4, <2>5, <4>1, <4>3 DEF LineOptions
    <3>2. CASE ~SetsMode(TheLine)
      <4>1. autoAlignMode = pass1[pc].mode
        BY <1>1, <1>3, <2>2, <2>6, <3>2 DEF InStep
      <4>. QED
        BY <1>1, <2>4, <2>5, <4>1 DEF LineOptions
    <3>. QED
      BY <3>1, <3>2
  <2>7. ASSUME OptSetBefore(srcl, pc') PROVE striOpt' = pass1[pc'].opt
    <3>1. CASE TheLine.odr = "stri_opt"
      BY <1>1, <2>4, <2>5, <3>1 DEF LineOptions
    <3>2. CASE TheLine.odr # "stri_opt"
      <4>1. striOpt = pass1[pc].opt
        BY <1>1, <1>3, <2>2, <2>7, <3>2 DEF InStep, SetsOpt
      <4>. QED
        BY <1>1, <2>4, <3>2, <4>1 DEF LineOptions
    <3>. QED
      BY <3>1, <3>2
  <2>. QED
    BY <2>6, <2>7
<1>. QED
  BY <1>1, <1>2, <1>3 DEF InStep

(* Pass 2 meets a line with the options pass 1 met it with, as far as the   *)
(* line looks at them.                                                      *)
LEMMA Pass2Options ==
  ASSUME TypeOK, PassLine, passNo = 2, WellFormed(srcl), PassesAgree, OptionsKept, InStep
  PROVE  /\ TheLine.odr \in {"dc", "ds"} /\ TheLine.md # 0 => pass1[pc].mode = autoAlignMode
         /\ TheLine.odr = "text" => pass1[pc].opt = striOpt
<1>1. /\ pc \in 1..Len(srcl) /\ Len(srcl) \in Nat /\ phase = "line" /\ TheLine = srcl[pc]
      /\ pc \in 1..(Len(srcl) + 1) /\ pc <= Len(srcl)
  BY LineFacts
<1>2. Reached(pc)
  BY <1>1 DEF PassesAgree
<1>3. TheLine.odr \in {"dc", "ds"} /\ TheLine.md # 0 => pass1[pc].mode = autoAlignMode
  <2>1. CASE ModeFixed(srcl)
    BY <1>1, <1>2, <2>1 DEF OptionsKept
  <2>2. CASE ~ModeFixed(srcl)
    <3>1. TheLine.odr \in {"dc", "ds"} /\ TheLine.md # 0 => ModeSetBefore(srcl, pc)
      BY <1>1, <2>2 DEF WellFormed, ModeSettled
    <3>. QED
      BY <1>1, <3>1 DEF InStep
  <2>. QED
    BY <2>1, <2>2
<1>4. TheLine.odr = "text" => pass1[pc].opt = striOpt
  <2>1. CASE OptFixed(srcl)
    BY <1>1, <1>2, <2>1 DEF OptionsKept
  <2>2. CASE ~OptFixed(srcl)
    <3>1. TheLine.odr = "text" => OptSetBefore(srcl, pc)
      BY <1>1, <2>2 DEF WellFormed, OptSettled
    <3>. QED
      BY <1>1, <3>1 DEF InStep
  <2>. QED
    BY <2>1, <2>2
<1>. QED
  BY <1>3, <1>4

(* PassesAgree after a line of pass 2.                                      *)
LEMMA Pass2Agrees ==
  ASSUME TypeOK, PassLine, passNo = 2, PassesAgree, Trace, ArgumentsKept, OptionsKept, InStep
  PROVE  PassesAgree'
<1>1. /\ pc \in 1..Len(srcl) /\ Len(srcl) \in Nat /\ phase = "line" /\ phase' = "line"
      /\ srcl' = srcl /\ passNo' = 2 /\ TheLine = srcl[pc] /\ TheLine \in Line
      /\ CurrentLayout' = Moved(TheLine, 2, CurrentLayout, TheArg) /\ TheArg \in Int
  BY LineFacts
<1>2. pass1' = pass1
  BY Pass2Records
<1>3. ASSUME WellFormed(srcl)
      PROVE  Reached(pc') /\ g_adr' = pass1[pc'].adr /\ striMode' = pass1[pc'].stri
  <2> DEFINE s == Remembered(pc)
             t == CurrentLayout
  <2>1. /\ pc' \in 1..(Len(srcl) + 1) /\ Reached(pc)
        /\ Remembered(pc') = Moved(TheLine, 1, s, pass1[pc].arg)
    <3>1. /\ pc' \in 1..(Len(srcl) + 1) /\ Reached(pc)
          /\ \A i : i = pc' => Remembered(i) = Moved(srcl[pc], 1, s, pass1[pc].arg)
      BY <1>3, Pass2Next
    <3>. QED
      BY <1>1, <3>1
  <2>2. s.adr = t.adr /\ s.stri = t.stri
    BY <1>1, <1>3 DEF PassesAgree, Remembered, CurrentLayout
  <2>3. TheLine.odr = "dc" => TheLine.args # <<>>
    BY <1>1, <1>3 DEF WellFormed
  <2>4. TheLine.odr \in Layouts => pass1[pc].arg = TheArg
    BY <1>3, Pass2Argument
  <2>5. TheLine.odr \in {"dc", "ds"} /\ TheLine.md # 0 => s.mode = t.mode
    BY <1>3, Pass2Options DEF Remembered, CurrentLayout
  <2>6. TheLine.odr = "text" => s.opt = t.opt
    BY <1>3, Pass2Options DEF Remembered, CurrentLayout
  <2>7. /\ Remembered(pc').adr = CurrentLayout'.adr
        /\ Remembered(pc').stri = CurrentLayout'.stri
    <3>1. /\ Moved(TheLine, 1, s, pass1[pc].arg).adr = Moved(TheLine, 2, t, TheArg).adr
          /\ Moved(TheLine, 1, s, pass1[pc].arg).stri = Moved(TheLine, 2, t, TheArg).stri
      BY <1>1, <2>2, <2>3, <2>4, <2>5, <2>6, MovedAlike
    <3>. QED
      BY <1>1, <2>1, <3>1
  <2>8. pass1[pc'].mode # -1
    <3>1. pass1[pc].mode \in 0..3
      BY <2>1 DEF TypeOK, LayoutState, Reached, NotReached
    <3>2. Remembered(pc').mode \in 0..3
      BY <2>1, <3>1 DEF Moved, Remembered, GenAutoAlign
    <3>. QED
      BY <3>2 DEF Remembered
  <2>. QED
    BY <2>7, <2>8 DEF Remembered, CurrentLayout, Reached, NotReached
<1>. QED
  BY <1>1, <1>2, <1>3 DEF PassesAgree, Reached

-----------------------------------------------------------------------------
(* The inductive invariant.                                                 *)

LEMMA AgreementInit == Init => AgreementInvariant
<1> SUFFICES ASSUME Init PROVE AgreementInvariant
  OBVIOUS
<1>1. /\ phase = "line" /\ passNo = 1 /\ pc = 1 /\ g_adr = 0 /\ striMode = FALSE
      /\ autoAlignMode = optAutoAlign /\ striOpt = 1
  BY DEF Init
<1>2. Len(srcl) \in Nat
  BY ConstantsAssumption DEF Init
<1>3. \A i \in 1..(Len(srcl) + 1) : ~Reached(i)
  BY DEF Init, Reached
<1>4. Front
  BY <1>1, <1>2, <1>3 DEF Front
<1>5. ReachedInOrder
  BY <1>2, <1>3 DEF ReachedInOrder
<1>6. Trace
  <2>1. Pass1Layout(1) = [adr |-> 0, mode |-> optAutoAlign, stri |-> FALSE, opt |-> 1]
    BY <1>1 DEF Pass1Layout, CurrentLayout
  <2>. QED
    BY <1>2, <1>3, <2>1 DEF Trace
<1>7. LabelsBound /\ ArgumentsKept
  BY <1>2, <1>3 DEF LabelsBound, ArgumentsKept
<1>8. OptionsKept
  BY <1>1, <1>3 DEF OptionsKept
<1>9. InStep /\ PassesAgree
  BY <1>1 DEF InStep, PassesAgree
<1>. QED
  BY <1>4, <1>5, <1>6, <1>7, <1>8, <1>9 DEF AgreementInvariant

LEMMA AgreementLine ==
  ASSUME TypeOK, PassLine, AgreementInvariant
  PROVE  AgreementInvariant'
<1>1. /\ Front /\ ReachedInOrder /\ Trace /\ LabelsBound /\ ArgumentsKept
      /\ OptionsKept /\ InStep /\ PassesAgree
  BY DEF AgreementInvariant
<1>2. phase = "line" /\ phase' = "line" /\ passNo' = passNo /\ srcl' = srcl
  BY LineFacts
<1>3. CASE passNo = 1
  <2>1. InStep' /\ PassesAgree'
    BY <1>2, <1>3 DEF InStep, PassesAgree
  <2>. QED
    BY <1>1, <1>3, <2>1, Pass1Front, Pass1Trace, Pass1Labels, Pass1Options DEF AgreementInvariant
<1>4. CASE passNo = 2
  <2>1. pass1' = pass1 /\ labels' = labels
    BY <1>4, Pass2Records
  <2>2. Front' /\ ReachedInOrder' /\ Trace' /\ LabelsBound' /\ ArgumentsKept'
    BY <1>1, <1>2, <1>4, <2>1, RecordsKept
  <2>3. OptionsKept'
    BY <1>1, <1>2, <2>1, LineKeepsOptions DEF OptionsKept, Reached
  <2>4. InStep' /\ PassesAgree'
    BY <1>1, <1>4, Pass2InStep, Pass2Agrees
  <2>. QED
    BY <2>2, <2>3, <2>4 DEF AgreementInvariant
<1>. QED
  BY <1>3, <1>4 DEF TypeOK

(* The end of pass 1 records the layout after the last line.                *)
LEMMA AgreementEndPass ==
  ASSUME TypeOK, EndPass, AgreementInvariant
  PROVE  AgreementInvariant'
<1>1. /\ Front /\ ReachedInOrder /\ Trace /\ LabelsBound /\ ArgumentsKept
      /\ OptionsKept /\ InStep /\ PassesAgree
  BY DEF AgreementInvariant
<1>2. /\ phase = "line" /\ pc = Len(srcl) + 1 /\ Len(srcl) \in Nat
      /\ UNCHANGED <<srcl, passNo, pc, autoAlignMode, striOpt, labels>>
      /\ phase' \in {"alloc", "save"} /\ striMode' = FALSE
  BY ConstantsAssumption DEF EndPass, TypeOK
<1>3. InStep' /\ PassesAgree'
  BY <1>2 DEF InStep, PassesAgree
<1>4. CASE passNo = 2
  <2>1. pass1' = pass1
    BY <1>4 DEF EndPass
  <2>2. Front' /\ ReachedInOrder' /\ Trace' /\ LabelsBound' /\ ArgumentsKept'
    BY <1>1, <1>2, <1>4, <2>1, RecordsKept
  <2>3. OptionsKept'
    BY <1>1, <1>2, <2>1 DEF OptionsKept, Reached
  <2>. QED
    BY <1>3, <2>2, <2>3 DEF AgreementInvariant
<1>5. CASE passNo = 1
  <2>1. /\ pass1' = [pass1 EXCEPT ![pc] =
                       [adr |-> g_adr, mode |-> autoAlignMode, stri |-> striMode,
                        opt |-> striOpt, arg |-> 0]]
        /\ pass1 \in [1..(Len(srcl) + 1) -> LayoutState]
    BY <1>5 DEF EndPass, TypeOK
  <2>2. \A i \in 1..Len(srcl) : pass1'[i] = pass1[i] /\ i # pc
    BY <1>2, <2>1
  <2>3. \A i \in 1..Len(srcl) : Reached(i)' = Reached(i) /\ Remembered(i)' = Remembered(i)
    BY <2>2 DEF Reached, Remembered
  <2>4. pass1'[Len(srcl) + 1] = [adr |-> g_adr, mode |-> autoAlignMode, stri |-> striMode,
                                 opt |-> striOpt, arg |-> 0]
    BY <1>2, <2>1
  <2>5. ASSUME NEW i \in 1..(Len(srcl) + 1) PROVE Pass1Layout(i)' = Pass1Layout(i)
    <3>1. Pass1Layout(i)' = Remembered(i)'
      BY <1>2 DEF Pass1Layout
    <3>2. CASE i = Len(srcl) + 1
      <4>1. Remembered(i)' = CurrentLayout
        BY <2>4, <3>2 DEF Remembered, CurrentLayout
      <4>. QED
        BY <1>2, <1>5, <3>1, <3>2, <4>1 DEF Pass1Layout
    <3>3. CASE i # Len(srcl) + 1
      <4>1. i \in 1..Len(srcl) /\ i # pc
        BY <1>2, <3>3
      <4>. QED
        BY <2>3, <3>1, <4>1 DEF Pass1Layout
    <3>. QED
      BY <3>2, <3>3
  <2>6. Front'
    BY <1>2 DEF Front
  <2>7. ReachedInOrder'
    BY <1>1, <1>2, <2>3 DEF ReachedInOrder
  <2>8. Trace'
    <3>1. \A i \in 1..Len(srcl) : NextPc(srcl, i) \in 1..(Len(srcl) + 1)
      BY <1>2, NextPcAfter
    <3>2. ASSUME NEW i \in 1..Len(srcl), Reached(i)'
          PROVE  Pass1Layout(NextPc(srcl, i))' = Moved(srcl[i], 1, Remembered(i)', pass1'[i].arg)
      <4>1. Pass1Layout(NextPc(srcl, i)) = Moved(srcl[i], 1, Remembered(i), pass1[i].arg)
        BY <1>1, <2>3, <3>2 DEF Trace
      <4>2. PICK j \in 1..(Len(srcl) + 1) : j = NextPc(srcl, i)
        BY <3>1
      <4>3. Pass1Layout(j)' = Pass1Layout(j)
        BY <2>5
      <4>4. NextPc(srcl', i) = j
        BY <1>2, <4>2
      <4>. QED
        BY <2>2, <2>3, <4>1, <4>2, <4>3, <4>4
    <3>3. Pass1Layout(1)' = [adr |-> 0, mode |-> optAutoAlign, stri |-> FALSE, opt |-> 1]
      BY <1>1, <1>2, <2>5 DEF Trace
    <3>. QED
      BY <1>2, <3>2, <3>3 DEF Trace
  <2>9. LabelsBound'
    BY <1>1, <1>2, <2>3 DEF LabelsBound
  <2>10. ArgumentsKept'
    BY <1>1, <1>2, <2>2, <2>3 DEF ArgumentsKept
  <2>11. OptionsKept'
    <3>1. ASSUME NEW i \in 1..(Len(srcl) + 1), Reached(i)'
          PROVE  /\ ModeFixed(srcl) => pass1'[i].mode = optAutoAlign
                 /\ OptFixed(srcl) => pass1'[i].opt = 1
      <4>1. CASE i = Len(srcl) + 1
        BY <1>1, <2>4, <4>1 DEF OptionsKept
      <4>2. CASE i # Len(srcl) + 1
        <5>1. i \in 1..Len(srcl)
          BY <1>2, <4>2
        <5>. QED
          BY <1>1, <2>2, <2>3, <3>1, <5>1 DEF OptionsKept
      <4>. QED
        BY <4>1, <4>2
    <3>. QED
      BY <1>1, <1>2, <3>1 DEF OptionsKept
  <2>. QED
    BY <1>3, <2>6, <2>7, <2>8, <2>9, <2>10, <2>11 DEF AgreementInvariant
<1>. QED
  BY <1>4, <1>5 DEF TypeOK

(* Pass 2 begins in the layout pass 1 began in.                             *)
LEMMA AgreementBeginPass2 ==
  ASSUME TypeOK, BeginPass2, AgreementInvariant
  PROVE  AgreementInvariant'
<1>1. /\ Front /\ ReachedInOrder /\ Trace /\ LabelsBound /\ ArgumentsKept
      /\ OptionsKept /\ InStep
  BY DEF AgreementInvariant
<1>2. /\ phase = "alloc" /\ phase' = "line" /\ passNo' = 2 /\ pc' = 1 /\ g_adr' = 0
      /\ UNCHANGED <<srcl, autoAlignMode, striMode, striOpt, labels, pass1>>
  BY DEF BeginPass2
<1>3. Front' /\ ReachedInOrder' /\ Trace' /\ LabelsBound' /\ ArgumentsKept'
  BY <1>1, <1>2, RecordsKept
<1>4. OptionsKept'
  BY <1>1, <1>2 DEF OptionsKept, Reached
<1>5. Remembered(1) = [adr |-> 0, mode |-> optAutoAlign, stri |-> FALSE, opt |-> 1]
  BY <1>1, <1>2 DEF Trace, Pass1Layout
<1>6. pass1[1].adr = 0 /\ pass1[1].mode = optAutoAlign /\ pass1[1].stri = FALSE
  BY <1>5 DEF Remembered
<1>7. striMode = FALSE
  BY <1>1, <1>2 DEF InStep
<1>8. pass1[1].mode # -1
  BY <1>6, ConstantsAssumption
<1>9. PassesAgree'
  BY <1>2, <1>6, <1>7, <1>8 DEF PassesAgree, Reached, NotReached
<1>10. InStep'
  BY <1>2 DEF InStep, ModeSetBefore, OptSetBefore
<1>. QED
  BY <1>3, <1>4, <1>9, <1>10 DEF AgreementInvariant

LEMMA AgreementNext ==
  ASSUME TypeOK, AgreementInvariant, [Next]_vars
  PROVE  AgreementInvariant'
<1>1. /\ Front /\ ReachedInOrder /\ Trace /\ LabelsBound /\ ArgumentsKept
      /\ OptionsKept /\ InStep /\ PassesAgree
  BY DEF AgreementInvariant
<1>2. CASE Save
  <2>1. /\ phase = "save" /\ phase' = "done" /\ passNo' = passNo
        /\ UNCHANGED <<srcl, autoAlignMode, striMode, striOpt, labels, pass1>>
    BY <1>2 DEF Save
  <2>2. Front' /\ ReachedInOrder' /\ Trace' /\ LabelsBound' /\ ArgumentsKept'
    BY <1>1, <2>1, RecordsKept
  <2>3. OptionsKept'
    BY <1>1, <2>1 DEF OptionsKept, Reached
  <2>4. InStep' /\ PassesAgree'
    BY <2>1 DEF InStep, PassesAgree
  <2>. QED
    BY <2>2, <2>3, <2>4 DEF AgreementInvariant
<1>3. CASE UNCHANGED vars
  BY <1>1, <1>3 DEF AgreementInvariant, vars, Front, ReachedInOrder, Trace, LabelsBound,
     ArgumentsKept, OptionsKept, InStep, PassesAgree, Reached, Remembered, Pass1Layout,
     CurrentLayout
<1>. QED
  BY <1>2, <1>3, AgreementLine, AgreementEndPass, AgreementBeginPass2 DEF Next, Finished

(* Pass 1 leaves a record of one run of the layout function, arguments that  *)
(* name labels defined so far keep the value it saw, and pass 2 follows the  *)
(* record with the options it had (Pass, Pass_Line, GetArg).                 *)
THEOREM AgreementAlways == Spec => []AgreementInvariant
<1>1. Init => AgreementInvariant
  BY AgreementInit
<1>2. TypeOK /\ AgreementInvariant /\ [Next]_vars => AgreementInvariant'
  BY AgreementNext
<1>. QED
  BY <1>1, <1>2, TypeCorrect, PTL DEF Spec

(* Whatever the source, if it is well-formed then pass 2 meets every line   *)
(* at the address pass 1 gave it and on the same side of a stri: no order,  *)
(* option or label value makes Pass(2) drift from Pass(1).                  *)
THEOREM PassesAgreeAlways == Spec => []PassesAgree
<1>1. AgreementInvariant => PassesAgree
  BY DEF AgreementInvariant
<1>. QED
  BY <1>1, AgreementAlways, PTL

-----------------------------------------------------------------------------
(* The label table.                                                         *)

Exported(e) == e.typ \in {Xdef, XdefLabel}

(* "name:" defines the name, with its value unless it had one already.      *)
LEMMA LBL_AddLabel ==
  ASSUME NEW e \in Entry, NEW val \in Int
  PROVE  /\ Bound(LBL_Add(e, val, Label))
         /\ Exported(LBL_Add(e, val, Label)) <=> Exported(e)
         /\ ~Bound(e) => LBL_Add(e, val, Label).val = val
BY DEF LBL_Add, Entry, Types, Bound, Exported, NotInTree, Label, Xdef, XdefLabel

(* The first xdef of a name exports it and defines nothing.                 *)
LEMMA LBL_AddXdef ==
  ASSUME NEW e \in Entry, ~Exported(e)
  PROVE  /\ Exported(LBL_Add(e, 0, Xdef))
         /\ Bound(LBL_Add(e, 0, Xdef)) <=> Bound(e)
BY DEF LBL_Add, Entry, Types, Bound, Exported, NotInTree, Label, Xdef, XdefLabel

(* An xdef that has the name once, or not at all.                           *)
LEMMA XdefEntryOnce ==
  ASSUME NEW e, NEW n, NEW xs,
         \A k, m \in DOMAIN xs : xs[k] = n /\ xs[m] = n => k = m
  PROVE  /\ n \in {xs[k] : k \in DOMAIN xs} => XdefEntry(e, n, xs) = LBL_Add(e, 0, Xdef)
         /\ n \notin {xs[k] : k \in DOMAIN xs} => XdefEntry(e, n, xs) = e
<1> DEFINE S == {k \in DOMAIN xs : xs[k] = n}
<1>1. XdefEntry(e, n, xs) = IF Cardinality(S) = 0 THEN e
                            ELSE IF Cardinality(S) = 1 THEN LBL_Add(e, 0, Xdef)
                            ELSE LBL_Add(LBL_Add(e, 0, Xdef), 0, Xdef)
  BY DEF XdefEntry
<1>2. ASSUME n \in {xs[k] : k \in DOMAIN xs} PROVE Cardinality(S) = 1
  <2>1. PICK k \in DOMAIN xs : xs[k] = n
    BY <1>2
  <2>2. S = {k}
    BY <2>1
  <2>. QED
    BY <2>2, FS_Singleton
<1>3. ASSUME n \notin {xs[k] : k \in DOMAIN xs} PROVE Cardinality(S) = 0
  <2>1. S = {}
    BY <1>3
  <2>. QED
    BY <2>1, FS_EmptySet
<1> HIDE DEF S
<1>. QED
  BY <1>1, <1>2, <1>3

-----------------------------------------------------------------------------
(* A line of pass 1.                                                        *)

(* The entry of a name after the line's "name:".                            *)
LEMMA LabelledEntry ==
  ASSUME TypeOK, passNo = 1, pc <= Len(srcl), NEW n \in Names
  PROVE  /\ Labelled[n] \in Entry
         /\ Bound(Labelled[n]) <=> Bound(labels[n]) \/ TheLine.lab = n
         /\ Exported(Labelled[n]) <=> Exported(labels[n])
         /\ TheLine.lab = n /\ ~Bound(labels[n]) => Labelled[n].val = g_adr
<1>1. /\ TheLine.lab \in Names \cup {NoName} /\ labels \in [Names -> Entry] /\ g_adr \in Int
      /\ Labelled \in [Names -> Entry]
  BY TheLineType, LabelledType DEF Line, TypeOK
<1>2. n # NoName
  BY ConstantsAssumption
<1>3. CASE TheLine.lab = n
  <2>1. Labelled[n] = LBL_Add(labels[n], g_adr, Label)
    BY <1>1, <1>2, <1>3 DEF Labelled
  <2>. QED
    BY <1>1, <1>3, <2>1, LBL_AddLabel
<1>4. CASE TheLine.lab # n
  <2>1. Labelled[n] = labels[n]
    BY <1>1, <1>4 DEF Labelled
  <2>. QED
    BY <1>1, <1>4, <2>1
<1>. QED
  BY <1>3, <1>4

(* The entry of a name after the whole line.                                *)
LEMMA LineEntry ==
  ASSUME TypeOK, PassLine, passNo = 1, NEW n \in Names,
         \A k, m \in DOMAIN TheLine.xs : TheLine.xs[k] = n /\ TheLine.xs[m] = n => k = m,
         NEW exports, exports <=> /\ TheLine.odr = "xdef"
                                  /\ n \in {TheLine.xs[k] : k \in DOMAIN TheLine.xs},
         exports => ~Exported(labels[n])
  PROVE  /\ Bound(labels'[n]) <=> Bound(labels[n]) \/ TheLine.lab = n
         /\ Exported(labels'[n]) <=> Exported(labels[n]) \/ exports
         /\ TheLine.lab = n /\ ~Bound(labels[n]) /\ TheLine.odr # "equ" => labels'[n].val = g_adr
<1>1. pc <= Len(srcl) /\ TheArg \in Int /\ pc \in 1..Len(srcl)
  BY LineFacts
<1>2. /\ Labelled \in [Names -> Entry]
      /\ Bound(Labelled[n]) <=> Bound(labels[n]) \/ TheLine.lab = n
      /\ Exported(Labelled[n]) <=> Exported(labels[n])
      /\ TheLine.lab = n /\ ~Bound(labels[n]) => Labelled[n].val = g_adr
  BY <1>1, LabelledEntry, LabelledType
<1>3. CASE TheLine.odr # "xdef" /\ labels' = Labelled
  BY <1>2, <1>3
<1>4. CASE TheLine.odr = "equ" /\ labels' = EquLabels(TheLine)
  <2>1. labels'[n].typ = Labelled[n].typ
    BY <1>2, <1>4 DEF EquLabels, Entry
  <2>. QED
    BY <1>2, <1>4, <2>1 DEF Bound, Exported
<1>5. CASE TheLine.odr = "xdef" /\ labels' = XdefLabels(TheLine)
  <2>1. labels'[n] = XdefEntry(Labelled[n], n, TheLine.xs)
    BY <1>5 DEF XdefLabels
  <2>2. CASE exports
    <3>1. labels'[n] = LBL_Add(Labelled[n], 0, Xdef)
      BY <2>1, <2>2, XdefEntryOnce
    <3>2. Labelled[n] \in Entry /\ ~Exported(Labelled[n])
      BY <1>2, <2>2
    <3>3. /\ Exported(labels'[n])
          /\ Bound(labels'[n]) <=> Bound(Labelled[n])
      BY <3>1, <3>2, LBL_AddXdef
    <3>4. Bound(Labelled[n]) => labels'[n].val = Labelled[n].val
      BY <3>1, <3>2, LBL_AddBinds DEF Xdef, Label
    <3>. QED
      BY <1>2, <2>2, <3>3, <3>4
  <2>3. CASE ~exports
    <3>1. labels'[n] = Labelled[n]
      BY <1>5, <2>1, <2>3, XdefEntryOnce
    <3>. QED
      BY <1>2, <2>3, <3>1
  <2>. QED
    BY <2>2, <2>3
<1>. QED
  BY <1>3, <1>4, <1>5, PassLineLabels DEF LineLabels

-----------------------------------------------------------------------------
(* LabelInvariant is inductive.                                             *)

LEMMA SourceDomain ==
  ASSUME TypeOK
  PROVE  Len(srcl) \in Nat /\ DOMAIN srcl = 1..Len(srcl)
BY ConstantsAssumption DEF TypeOK

LEMMA LabelInit == Init => LabelInvariant
<1> SUFFICES ASSUME Init PROVE LabelInvariant
  OBVIOUS
<1>1. Len(srcl) \in Nat /\ DOMAIN srcl = 1..Len(srcl) /\ phase = "line"
  BY ConstantsAssumption DEF Init
<1>2. \A i \in DOMAIN srcl : ~Reached(i)
  BY <1>1 DEF Init, Reached
<1>3. ASSUME NEW n \in Names
      PROVE  ~Bound(labels[n]) /\ labels[n].typ \notin {Xdef, XdefLabel}
  BY DEF Init, NoEntry, Bound, NotInTree, Label, Xdef, XdefLabel
<1>4. LabelHistory
  BY <1>2, <1>3 DEF LabelHistory, Defines, Exports, FirstDefinition
<1>. QED
  BY <1>1, <1>4 DEF LabelInvariant

(* The lines reached after a line of pass 1 are those before and it.        *)
LEMMA Pass1Reached ==
  ASSUME TypeOK, PassLine, passNo = 1, AgreementInvariant, NEW i \in DOMAIN srcl
  PROVE  /\ Reached(i)' <=> Reached(i) \/ i = pc
         /\ Reached(i) => i < pc /\ i # pc
         /\ i # pc => pass1'[i] = pass1[i]
         /\ i = pc => pass1'[i].adr = g_adr
<1>1. phase = "line" /\ Len(srcl) \in Nat /\ DOMAIN srcl = 1..Len(srcl) /\ pc \in 1..Len(srcl)
  BY LineFacts, SourceDomain
<1>2. i \in 1..(Len(srcl) + 1) /\ i \in Int
  BY <1>1
<1>3. Reached(i) => i < pc
  BY <1>1, <1>2 DEF AgreementInvariant, Front
<1>. QED
  BY <1>1, <1>2, <1>3, Pass1Records

(* A line of pass 1 adds what it defines and what it exports.               *)
LEMMA LabelPass1Line ==
  ASSUME TypeOK, PassLine, passNo = 1, AgreementInvariant, LabelInvariant
  PROVE  LabelInvariant'
<1>1. /\ phase' = "line" /\ srcl' = srcl /\ pc \in DOMAIN srcl /\ TheLine = srcl[pc]
      /\ pc \in Int /\ DOMAIN srcl = 1..Len(srcl)
  BY LineFacts, SourceDomain
<1>2. ASSUME NEW n \in Names, ExportedOnce(n)
      PROVE  /\ Bound(labels'[n]) <=> \E i \in DOMAIN srcl : Defines(i, n)'
             /\ Exported(labels'[n]) <=> \E i \in DOMAIN srcl : Exports(i, n)'
             /\ \A i \in DOMAIN srcl :
                  FirstDefinition(i, n)' /\ srcl[i].odr # "equ" => labels'[n].val = pass1'[i].adr
  <2> DEFINE exports == /\ TheLine.odr = "xdef"
                        /\ n \in {TheLine.xs[k] : k \in DOMAIN TheLine.xs}
  <2>1. /\ Bound(labels[n]) <=> \E i \in DOMAIN srcl : Defines(i, n)
        /\ Exported(labels[n]) <=> \E i \in DOMAIN srcl : Exports(i, n)
        /\ \A i \in DOMAIN srcl :
             FirstDefinition(i, n) /\ srcl[i].odr # "equ" => labels[n].val = pass1[i].adr
    BY <1>2 DEF LabelInvariant, LabelHistory, Exported
  <2>2. \A i \in DOMAIN srcl : /\ Defines(i, n)' <=> Defines(i, n) \/ (i = pc /\ TheLine.lab = n)
                               /\ Exports(i, n)' <=> Exports(i, n) \/ (i = pc /\ exports)
    BY <1>1, Pass1Reached DEF Defines, Exports
  <2>3. \A k, m \in DOMAIN TheLine.xs : TheLine.xs[k] = n /\ TheLine.xs[m] = n => k = m
    BY <1>1, <1>2 DEF ExportedOnce
  <2>4. ASSUME exports PROVE ~Exported(labels[n])
    <3>1. ASSUME NEW i \in DOMAIN srcl, Exports(i, n) PROVE FALSE
      <4>1. Reached(i) /\ i # pc
        BY <3>1, Pass1Reached DEF Exports
      <4>2. PICK k \in DOMAIN srcl[i].xs : srcl[i].xs[k] = n
        BY <3>1 DEF Exports
      <4>3. PICK m \in DOMAIN srcl[pc].xs : srcl[pc].xs[m] = n
        BY <1>1, <2>4
      <4>. QED
        BY <1>1, <1>2, <4>1, <4>2, <4>3 DEF ExportedOnce
    <3>. QED
      BY <2>1, <3>1
  <2> HIDE DEF exports
  <2>5. /\ Bound(labels'[n]) <=> Bound(labels[n]) \/ TheLine.lab = n
        /\ Exported(labels'[n]) <=> Exported(labels[n]) \/ exports
        /\ TheLine.lab = n /\ ~Bound(labels[n]) /\ TheLine.odr # "equ" => labels'[n].val = g_adr
    BY <2>3, <2>4, LineEntry DEF exports
  <2>6. ASSUME NEW i \in DOMAIN srcl, FirstDefinition(i, n)', srcl[i].odr # "equ"
        PROVE  labels'[n].val = pass1'[i].adr
    <3>1. Defines(i, n)' /\ \A j \in 1..(i - 1) : ~Defines(j, n)'
      BY <2>6 DEF FirstDefinition
    <3>2. \A j \in 1..(i - 1) : j \in DOMAIN srcl
      BY <1>1
    <3>3. CASE i = pc
      <4>1. \A j \in DOMAIN srcl : ~Defines(j, n)
        <5> SUFFICES ASSUME NEW j \in DOMAIN srcl, Defines(j, n) PROVE FALSE
          OBVIOUS
        <5>1. j < pc
          BY Pass1Reached DEF Defines
        <5>2. j \in 1..(i - 1)
          BY <1>1, <3>3, <5>1
        <5>. QED
          BY <2>2, <3>1, <5>2
      <4>2. TheLine.lab = n
        BY <2>2, <3>1, <4>1
      <4>3. pass1'[i].adr = g_adr
        BY <3>3, Pass1Reached
      <4>. QED
        BY <1>1, <2>1, <2>5, <2>6, <3>3, <4>1, <4>2, <4>3
    <3>4. CASE i # pc
      <4>1. Defines(i, n) /\ \A j \in 1..(i - 1) : ~Defines(j, n)
        BY <2>2, <3>1, <3>2, <3>4
      <4>2. labels[n].val = pass1[i].adr /\ Bound(labels[n])
        BY <2>1, <2>6, <4>1 DEF FirstDefinition
      <4>3. labels'[n].val = labels[n].val
        BY <4>2, PassLineBinds DEF BindOnce
      <4>. QED
        BY <3>4, <4>2, <4>3, Pass1Reached
    <3>. QED
      BY <3>3, <3>4
  <2>. QED
    BY <1>1, <2>1, <2>2, <2>5, <2>6
<1>3. \A n \in Names : ExportedOnce(n)' <=> ExportedOnce(n)
  BY <1>1 DEF ExportedOnce
<1>4. LabelHistory'
  BY <1>1, <1>2, <1>3 DEF LabelHistory, Exported, Bound
<1>. QED
  BY <1>1, <1>4 DEF LabelInvariant

(* A step that leaves the labels and the records of the lines alone.        *)
LEMMA HistoryKept ==
  ASSUME srcl' = srcl, labels' = labels, \A i \in DOMAIN srcl : pass1'[i] = pass1[i],
         DOMAIN srcl = 1..Len(srcl), LabelHistory
  PROVE  LabelHistory'
<1>1. \A n \in Names : \A i \in DOMAIN srcl :
        (Defines(i, n)' <=> Defines(i, n)) /\ (Exports(i, n)' <=> Exports(i, n))
  BY DEF Defines, Exports, Reached
<1>2. \A n \in Names : \A i \in DOMAIN srcl : FirstDefinition(i, n)' => FirstDefinition(i, n)
  <2> SUFFICES ASSUME NEW n \in Names, NEW i \in DOMAIN srcl, FirstDefinition(i, n)'
               PROVE  FirstDefinition(i, n)
    OBVIOUS
  <2>1. \A j \in 1..(i - 1) : j \in DOMAIN srcl => ~Defines(j, n)
    BY <1>1 DEF FirstDefinition
  <2>. QED
    BY <1>1, <2>1 DEF FirstDefinition
<1>3. \A n \in Names : ExportedOnce(n)' <=> ExportedOnce(n)
  BY DEF ExportedOnce
<1>. QED
  BY <1>1, <1>2, <1>3 DEF LabelHistory, Bound

LEMMA LabelNext ==
  ASSUME TypeOK, AgreementInvariant, LabelInvariant, [Next]_vars
  PROVE  LabelInvariant'
<1> USE DEF LabelInvariant
<1>1. DOMAIN srcl = 1..Len(srcl) /\ Len(srcl) \in Nat
  BY SourceDomain
<1>2. CASE PassLine
  <2>1. CASE passNo = 1
    BY <1>2, <2>1, LabelPass1Line
  <2>2. CASE passNo = 2
    <3>1. srcl' = srcl /\ labels' = labels /\ pass1' = pass1 /\ phase' = "line"
      BY <1>2, <2>2, LineFacts, Pass2Records
    <3>. QED
      BY <1>1, <3>1, HistoryKept
  <2>. QED
    BY <2>1, <2>2 DEF TypeOK
<1>3. CASE EndPass
  <2>1. /\ srcl' = srcl /\ labels' = labels /\ phase' # "done" /\ pc = Len(srcl) + 1
        /\ pass1' = pass1 \/ \E r : pass1' = [pass1 EXCEPT ![pc] = r]
        /\ pass1 \in [1..(Len(srcl) + 1) -> LayoutState]
    BY <1>3 DEF EndPass, TypeOK
  <2>2. \A i \in DOMAIN srcl : pass1'[i] = pass1[i]
    BY <1>1, <2>1
  <2>. QED
    BY <1>1, <2>1, <2>2, HistoryKept
<1>4. CASE BeginPass2
  <2>1. srcl' = srcl /\ labels' = labels /\ pass1' = pass1 /\ phase' = "line"
    BY <1>4 DEF BeginPass2
  <2>. QED
    BY <1>1, <2>1, HistoryKept
<1>5. CASE Save
  <2>1. /\ srcl' = srcl /\ labels' = labels /\ pass1' = pass1
        /\ header' = {<<n, labels[n].val>> : n \in {m \in Names : labels[m].typ = XdefLabel}}
    BY <1>5 DEF Save
  <2>. QED
    BY <1>1, <2>1, HistoryKept
<1>6. CASE UNCHANGED vars
  <2>1. UNCHANGED <<srcl, labels, pass1, phase, header>>
    BY <1>6 DEF vars
  <2>. QED
    BY <1>1, <2>1, HistoryKept
<1>. QED
  BY <1>2, <1>3, <1>4, <1>5, <1>6 DEF Next, Finished

(* At every step of either pass the label table knows of each name that is  *)
(* exported at most once whether it has been defined, whether it has been   *)
(* exported, and the address of its first line (LBL_Add, Pass_Line).        *)
THEOREM LabelsAlways == Spec => []LabelInvariant
<1>1. Init => LabelInvariant
  BY LabelInit
<1>2. TypeOK /\ AgreementInvariant /\ LabelInvariant /\ [Next]_vars => LabelInvariant'
  BY LabelNext
<1>. QED
  BY <1>1, <1>2, TypeCorrect, AgreementAlways, PTL DEF Spec

(* Whatever the source, if it is well-formed then a label that is no equ    *)
(* has in the end the address at which the passes met its first line        *)
(* (LBL_Add, Pass_Line).                                                    *)
THEOREM LabelsAreAddresses == Spec => []LabelIsAddress
<1>1. LabelInvariant => LabelIsAddress
  BY DEF LabelInvariant, LabelHistory, LabelIsAddress, FirstDefinition
<1>. QED
  BY <1>1, LabelsAlways, PTL

(* Whatever the source, the -h file has a line for a name exported at most  *)
(* once exactly if the name is defined and exported, in either order        *)
(* (gen_hdr).                                                               *)
THEOREM HeaderIsComplete == Spec => []HeaderListsExports
<1>1. TypeOK /\ LabelInvariant => HeaderListsExports
  <2> SUFFICES ASSUME TypeOK, LabelInvariant, phase = "done", NEW n \in Names, ExportedOnce(n)
               PROVE  <<n, labels[n].val>> \in header <=>
                        (\E i \in DOMAIN srcl : Defines(i, n)) /\ (\E i \in DOMAIN srcl : Exports(i, n))
    BY DEF HeaderListsExports
  <2>1. <<n, labels[n].val>> \in header <=> labels[n].typ = XdefLabel
    BY DEF LabelInvariant
  <2>2. labels[n].typ = XdefLabel <=> Bound(labels[n]) /\ labels[n].typ \in {Xdef, XdefLabel}
    BY DEF Bound, Label, Xdef, XdefLabel
  <2>. QED
    BY <2>1, <2>2 DEF LabelInvariant, LabelHistory
<1>. QED
  BY <1>1, TypeCorrect, LabelsAlways, PTL
============================================================================
