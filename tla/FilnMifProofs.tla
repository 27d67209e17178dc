--------------------------- MODULE FilnMifProofs ---------------------------
(***************************************************************************)
(* The #if stack and the stack of macros of Filn_GetsMif never leave their  *)
(* arrays, and the #if stack keeps its discipline, whatever the macros do;  *)
(* every variable keeps its type, and the marks in M_mbuf their order;      *)
(* MM_name is overrun by nested names alone; and dcasm dies of known causes *)
(* only.  For every set of files.                                           *)
(***************************************************************************)
EXTENDS FilnMifSafety, SequenceTheorems, FiniteSetTheorems, TLAPS

USE DEF NoScan

(* The types of what the actions of Filn_GetsMif change.                    *)
StackTypes ==
  /\ mifCur \in 0..FILN_IF_NEST
  /\ mifStk \in [0..FILN_IF_NEST -> 0..3]
  /\ mifMacCur \in 0..FILN_IF_NEST
  /\ mifMacStk \in [1..FILN_IF_NEST -> 0..FILN_IF_NEST]
  /\ mifChkSnc \in Nat
  /\ scan \in Nat \cup {NoScan}

StackInvariant == StackTypes /\ StackDiscipline

LEMMA NestNat == FILN_IF_NEST \in Nat \ {0}
BY ConstantsAssumption

LEMMA InitStacks == Init => StackInvariant
BY NestNat DEF Init, StackInvariant, StackTypes, StackDiscipline, Dead

(* A step that leaves the stacks alone.                                     *)
LEMMA SameStacks == StackInvariant /\ UNCHANGED <<stacks, scan>> => StackInvariant'
BY DEF StackInvariant, StackTypes, StackDiscipline, stacks, Dead

(* Reading and expanding lines leave the stacks alone.                      *)
LEMMA LinesKeepStacks == GetLine \/ Macc \/ Stop => UNCHANGED <<stacks, scan>>
<1>1. GetLine => UNCHANGED <<stacks, scan>>
  BY DEF GetLine, ReadRaw, ReadExpand, ReadMacro, EndFile
<1>2. Macc => UNCHANGED <<stacks, scan>>
  BY DEF Macc, MaccText, MaccExpand, MaccAsk, MaccAnswer, MaccReturn, MaccDefine, MaccUndef,
         MaccCopy
<1>3. Stop => UNCHANGED <<stacks, scan>>
  BY DEF Stop, vars, stacks
<1> QED  BY <1>1, <1>2, <1>3

(* A branch gets a new state.  Above 1 it may only be when no #exitmacro is *)
(* looking for its macro's end.                                             *)
LEMMA NewBranch ==
  ASSUME StackInvariant, NEW state \in 0..3, Branch(state),
         mifCur = 0 => state = 0,
         scan = NoScan, mifChkSnc' = 0,
         UNCHANGED <<mifCur, mifMacCur, mifMacStk, scan>>
  PROVE  StackInvariant'
<1>1. mifStk' \in [0..FILN_IF_NEST -> 0..3]
  BY DEF StackInvariant, StackTypes, Branch
<1>2. StackTypes'
  BY <1>1 DEF StackInvariant, StackTypes
<1>3. mifStk'[0] = 0
  BY NestNat DEF StackInvariant, StackTypes, StackDiscipline, Branch
<1>4. \A i \in 0..FILN_IF_NEST : i # mifCur' => mifStk'[i] <= 1
  BY DEF StackInvariant, StackTypes, StackDiscipline, Branch
<1> QED  BY <1>2, <1>3, <1>4 DEF StackInvariant, StackDiscipline

(* The #if stack goes up or down, from a branch that stops no line.         *)
LEMMA NewTop ==
  ASSUME StackInvariant, ~Dead, mifCur' \in 0..FILN_IF_NEST, UNCHANGED mifStk,
         mifMacCur' \in 0..FILN_IF_NEST,
         mifMacStk' \in [1..FILN_IF_NEST -> 0..FILN_IF_NEST],
         mifChkSnc' = 0, scan' \in Nat \cup {NoScan},
         scan' # NoScan => mifMacCur' > 0
  PROVE  StackInvariant'
<1>1. StackTypes'
  BY DEF StackInvariant, StackTypes
<1>2. \A i \in 0..FILN_IF_NEST : mifStk[i] <= 1
  BY DEF StackInvariant, StackTypes, StackDiscipline, Dead
<1>3. mifStk'[0] = 0 /\ \A i \in 0..FILN_IF_NEST : mifStk'[i] <= 1
  BY <1>2 DEF StackInvariant, StackDiscipline
<1>4. mifStk'[mifCur'] \in 0..3 /\ mifStk'[mifCur'] <= 1
  BY <1>1, <1>3 DEF StackTypes
<1>5. ~Dead'
  BY <1>4 DEF Dead
<1> QED  BY <1>1, <1>3, <1>5 DEF StackInvariant, StackDiscipline

(* Lines that Filn_GetsMif passes over.                                     *)
LEMMA SkipStep ==
  StackInvariant /\ (Text \/ SkipIf \/ SkipEndif \/ Skip) => StackInvariant'
<1> SUFFICES ASSUME StackInvariant, Text \/ SkipIf \/ SkipEndif \/ Skip
             PROVE  StackInvariant'
  OBVIOUS
<1>1. CASE Text \/ Skip
  <2>1. UNCHANGED <<stacks, scan>>
    BY <1>1 DEF Text, Skip
  <2> QED  BY <2>1, SameStacks
<1>2. CASE SkipIf \/ SkipEndif
  <2>1. Dead /\ UNCHANGED <<mifCur, mifStk, mifMacCur, mifMacStk, scan>>
    BY <1>2 DEF SkipIf, SkipEndif
  <2>2. mifChkSnc' \in Nat
    BY <1>2 DEF SkipIf, SkipEndif, StackInvariant, StackTypes
  <2>3. StackTypes'
    BY <2>1, <2>2 DEF StackInvariant, StackTypes
  <2>4. Dead'
    BY <2>1 DEF Dead
  <2> QED  BY <2>1, <2>3, <2>4 DEF StackInvariant, StackDiscipline
<1> QED  BY <1>1, <1>2

(* The conditional directives.                                              *)
LEMMA IfStep == StackInvariant /\ If => StackInvariant'
<1> SUFFICES ASSUME StackInvariant, If
             PROVE  StackInvariant'
  OBVIOUS
<1>1. /\ ~Dead /\ mifChkSnc' = 0 /\ UNCHANGED <<mifMacCur, mifMacStk, scan>> /\ scan = NoScan
  BY DEF If, Live, Gets
<1>2. CASE mifCur >= FILN_IF_NEST
  <2>1. UNCHANGED <<mifCur, mifStk>>
    BY <1>2 DEF If
  <2> QED  BY <1>1, <2>1, NewTop DEF StackInvariant, StackTypes
<1>3. CASE ~(mifCur >= FILN_IF_NEST)
  <2>1. mifCur' = mifCur + 1 /\ mifCur + 1 \in 1..FILN_IF_NEST
    BY <1>3, NestNat DEF If, StackInvariant, StackTypes
  <2>2. PICK state \in {1, 2} : mifStk' = [mifStk EXCEPT ![mifCur + 1] = state]
    BY <1>3 DEF If
  <2>3. StackTypes'
    BY <1>1, <2>1, <2>2 DEF StackInvariant, StackTypes
  <2>4. mifStk'[0] = 0
    BY <2>1, <2>2, NestNat DEF StackInvariant, StackTypes, StackDiscipline
  <2>5. \A i \in 0..FILN_IF_NEST : mifStk[i] <= 1
    BY <1>1 DEF StackInvariant, StackTypes, StackDiscipline, Dead
  <2>6. \A i \in 0..FILN_IF_NEST : i # mifCur' => mifStk'[i] <= 1
    BY <2>1, <2>2, <2>5 DEF StackInvariant, StackTypes
  <2> QED  BY <1>1, <2>3, <2>4, <2>6 DEF StackInvariant, StackDiscipline
<1> QED  BY <1>2, <1>3

LEMMA ElifStep == StackInvariant /\ Elif => StackInvariant'
<1> SUFFICES ASSUME StackInvariant, Elif
             PROVE  StackInvariant'
  OBVIOUS
<1>1. /\ scan = NoScan /\ mifChkSnc' = 0
      /\ UNCHANGED <<mifCur, mifMacCur, mifMacStk, scan>>
  BY DEF Elif, Obeys, Live, Gets
<1>2. mifStk[mifCur] \in 0..3 /\ mifStk[0] = 0 /\ mifStk \in [0..FILN_IF_NEST -> 0..3]
  BY DEF StackInvariant, StackTypes, StackDiscipline
<1>3. PICK state \in 0..3 : Branch(state) /\ (mifStk[mifCur] = 0 => state = 0)
  <2>1. CASE mifStk[mifCur] = 0
    <3>1. UNCHANGED mifStk
      BY <2>1 DEF Elif
    <3> QED  BY <1>2, <2>1, <3>1 DEF Branch
  <2>2. CASE mifStk[mifCur] = 1
    BY <2>2 DEF Elif
  <2>3. CASE mifStk[mifCur] = 2
    BY <2>3 DEF Elif
  <2>4. CASE mifStk[mifCur] = 3
    <3>1. UNCHANGED mifStk
      BY <2>4 DEF Elif
    <3> QED  BY <1>2, <2>4, <3>1 DEF Branch
  <2> QED  BY <1>2, <2>1, <2>2, <2>3, <2>4
<1> QED  BY <1>1, <1>2, <1>3, NewBranch

LEMMA ElseStep == StackInvariant /\ Else => StackInvariant'
<1> SUFFICES ASSUME StackInvariant, Else
             PROVE  StackInvariant'
  OBVIOUS
<1>1. /\ scan = NoScan /\ mifChkSnc' = 0
      /\ UNCHANGED <<mifCur, mifMacCur, mifMacStk, scan>>
  BY DEF Else, Obeys, Live, Gets
<1>2. mifStk[mifCur] \in 0..3 /\ mifStk[0] = 0 /\ mifStk \in [0..FILN_IF_NEST -> 0..3]
  BY DEF StackInvariant, StackTypes, StackDiscipline
<1>3. PICK state \in 0..3 : Branch(state) /\ (mifStk[mifCur] = 0 => state = 0)
  <2>1. CASE mifStk[mifCur] = 0
    <3>1. UNCHANGED mifStk
      BY <2>1 DEF Else
    <3> QED  BY <1>2, <2>1, <3>1 DEF Branch
  <2>2. CASE mifStk[mifCur] = 2
    BY <2>2 DEF Else
  <2>3. CASE mifStk[mifCur] \notin {0, 2}
    BY <2>3 DEF Else
  <2> QED  BY <2>1, <2>2, <2>3
<1> QED  BY <1>1, <1>2, <1>3, NewBranch

(* #endif first clears the entry it pops: nothing stops a line after it.    *)
LEMMA EndifStep == StackInvariant /\ Endif => StackInvariant'
<1> SUFFICES ASSUME StackInvariant, Endif
             PROVE  StackInvariant'
  OBVIOUS
<1>1. /\ scan = NoScan /\ mifChkSnc' = 0 /\ Branch(0)
      /\ UNCHANGED <<mifMacCur, mifMacStk, scan>>
  BY DEF Endif, Obeys, Live, Gets
<1>2. mifCur' \in 0..FILN_IF_NEST
  BY NestNat DEF Endif, StackInvariant, StackTypes
<1>3. StackTypes'
  BY <1>1, <1>2 DEF StackInvariant, StackTypes, Branch
<1>4. mifStk'[0] = 0
  BY <1>1, NestNat DEF StackInvariant, StackTypes, StackDiscipline, Branch
<1>5. \A i \in 0..FILN_IF_NEST : mifStk'[i] <= 1
  BY <1>1 DEF StackInvariant, StackTypes, StackDiscipline, Branch
<1> QED  BY <1>1, <1>3, <1>4, <1>5 DEF StackInvariant, StackDiscipline

LEMMA MacroLeft ==
  ASSUME StackTypes, mifMacCur # 0, LeaveMacro
  PROVE  mifCur' \in 0..FILN_IF_NEST /\ mifMacCur' \in 0..FILN_IF_NEST
<1>1. mifMacCur \in 1..FILN_IF_NEST
  BY NestNat DEF StackTypes
<1> QED  BY <1>1, NestNat DEF StackTypes, LeaveMacro

(* The marks of macros, and #exitmacro.                                     *)
LEMMA MacroStep ==
  StackInvariant /\ (MacroStart \/ MacroEnd \/ ExitMacro \/ Include \/ Report)
    => StackInvariant'
<1> SUFFICES ASSUME StackInvariant,
                    MacroStart \/ MacroEnd \/ ExitMacro \/ Include \/ Report
             PROVE  StackInvariant'
  OBVIOUS
<1> USE DEF StackInvariant, StackTypes
<1>1. CASE MacroStart
  <2>1. ~Dead /\ mifChkSnc' = 0 /\ scan = NoScan /\ UNCHANGED <<mifCur, mifStk, scan>>
    BY <1>1 DEF MacroStart, Live, Gets
  <2>2. mifMacCur' \in 0..FILN_IF_NEST
    BY <1>1, NestNat DEF MacroStart
  <2>3. mifMacStk' \in [1..FILN_IF_NEST -> 0..FILN_IF_NEST]
    BY <1>1 DEF MacroStart
  <2> QED  BY <2>1, <2>2, <2>3, NewTop
<1>2. CASE MacroEnd
  <2>1. /\ ~Dead /\ mifChkSnc' = 0 /\ scan = NoScan
        /\ UNCHANGED <<mifStk, mifMacStk, scan>>
    BY <1>2 DEF MacroEnd, Live, Gets
  <2>2. mifCur' \in 0..FILN_IF_NEST /\ mifMacCur' \in 0..FILN_IF_NEST
    BY <1>2, MacroLeft DEF MacroEnd
  <2> QED  BY <2>1, <2>2, NewTop
<1>3. CASE ExitMacro
  <2>1. /\ ~Dead /\ mifChkSnc' = 0 /\ scan = NoScan
        /\ UNCHANGED <<mifCur, mifStk, mifMacCur, mifMacStk>>
    BY <1>3 DEF ExitMacro, Live, Gets
  <2>2. scan' \in Nat \cup {NoScan} /\ (scan' # NoScan => mifMacCur > 0)
    BY <1>3, <2>1 DEF ExitMacro
  <2> QED  BY <2>1, <2>2, NewTop
<1>4. CASE Include \/ Report
  <2>1. /\ ~Dead /\ mifChkSnc' = 0 /\ scan = NoScan
        /\ UNCHANGED <<mifCur, mifStk, mifMacCur, mifMacStk, scan>>
    BY <1>4 DEF Include, Report, Live, Gets
  <2> QED  BY <2>1, NewTop
<1> QED  BY <1>1, <1>2, <1>3, <1>4

LEMMA ScanStep == StackInvariant /\ Scan => StackInvariant'
<1> SUFFICES ASSUME StackInvariant, Scan
             PROVE  StackInvariant'
  OBVIOUS
<1>1. /\ scan \in Nat /\ ~Dead /\ mifMacCur > 0
      /\ UNCHANGED <<mifStk, mifMacStk, mifChkSnc>>
  BY DEF Scan, StackInvariant, StackTypes, StackDiscipline
<1>2. mifChkSnc' = 0
  BY <1>1 DEF StackInvariant, StackTypes, StackDiscipline
<1>3. CASE Got.k = "E" /\ scan = 0
  <2>1. scan' = NoScan /\ LeaveMacro
    BY <1>3 DEF Scan
  <2>2. mifCur' \in 0..FILN_IF_NEST /\ mifMacCur' \in 0..FILN_IF_NEST
    BY <1>1, <2>1, MacroLeft DEF StackInvariant
  <2> QED  BY <1>1, <1>2, <2>1, <2>2, NewTop DEF StackInvariant, StackTypes
<1>4. CASE ~(Got.k = "E" /\ scan = 0)
  <2>1. UNCHANGED <<mifCur, mifMacCur>>
    BY <1>4 DEF Scan
  <2>2. scan' \in Nat
    <3>1. CASE Got.k = "S"
      BY <1>1, <1>4, <3>1 DEF Scan
    <3>2. CASE Got.k = "E"
      <4>1. scan' = scan - 1
        BY <1>4, <3>2 DEF Scan
      <4> QED  BY <1>1, <1>4, <3>2, <4>1
    <3>3. CASE Got.k # "S" /\ Got.k # "E"
      BY <1>1, <1>4, <3>3 DEF Scan
    <3> QED  BY <3>1, <3>2, <3>3
  <2> QED  BY <1>1, <1>2, <2>1, <2>2, NewTop DEF StackInvariant, StackTypes
<1> QED  BY <1>3, <1>4

LEMMA StackStep == StackInvariant /\ [Next]_vars => StackInvariant'
<1>1. StackInvariant /\ GetsMif => StackInvariant'
  BY SkipStep, IfStep, ElifStep, ElseStep, EndifStep, MacroStep, ScanStep DEF GetsMif
<1>2. StackInvariant /\ UNCHANGED vars => StackInvariant'
  BY SameStacks DEF vars, stacks
<1> QED  BY <1>1, <1>2, LinesKeepStacks, SameStacks DEF Next

(* src/src/filn.c 4323-4529: no file takes mifCur or mifMacCur out of the   *)
(* arrays of FILN_IF_NEST entries, and every entry is one of the four       *)
(* states, whatever #ifs its macros leave open or close too much.           *)
THEOREM StacksInBounds == Spec => []StackTypes
<1>1. Spec => []StackInvariant
  BY InitStacks, StackStep, PTL DEF Spec
<1>2. StackInvariant => StackTypes
  BY DEF StackInvariant
<1> QED  BY <1>1, <1>2, PTL

(* src/src/filn.c 4331, 4362: a look at the innermost entry is enough.  For *)
(* every set of files no other entry of the #if stack stops lines, skipped  *)
(* #ifs are counted only where that entry does, and #exitmacro searches in  *)
(* a macro that is being read and is not skipped.                           *)
THEOREM DisciplineKept == Spec => []StackDiscipline
<1>1. Spec => []StackInvariant
  BY InitStacks, StackStep, PTL DEF Spec
<1>2. StackInvariant => StackDiscipline
  BY DEF StackInvariant
<1> QED  BY <1>1, <1>2, PTL

-----------------------------------------------------------------------------
(* Types.                                                                   *)

Entries == [atr : Atrs, val : Int, buf : Seq(Line)]
Calls == [text : Seq(Line), name : Names \cup {NoName}, mark : Nat, at : Nat]

(* What is read from: the files and the stack of those that are open.       *)
InputTypes ==
  /\ inclStk \in Seq([file : FileNames, lin : Nat]) /\ Len(inclStk) <= FILN_INCL_NUM + 1
  /\ \A f \in DOMAIN files : f \in FileNames /\ files[f] \in Seq(Line)
  /\ \A i \in 1..Len(inclStk) : inclStk[i].file \in DOMAIN files
  /\ phase \in {"read", "macc"} => inclStk # <<>>
  /\ phase \in {"read", "macc", "eof", "exit", "crash"}

(* What is made of it: the expansion and the lines handed on.               *)
TextTypes ==
  /\ MM_ptr \in Seq(Line) /\ mbuf \in Seq(Line) /\ out \in Seq(Line)
  /\ frames \in Seq(Calls) /\ Len(frames) <= StackLimit + 1
  /\ phase = "macc" => frames # <<>> /\ Len(frames) <= StackLimit
  /\ MM_cnt \in Int /\ (phase # "exit" => MM_cnt <= FILN_MAC_NEST)
  /\ overwritten \subseteq {"MM_cnt", "errLblSkip"}
  /\ MM_name \in [0..(FILN_MAC_NEST - 1) -> Names \cup {NoName}]
  /\ macros \in [Names \cup {Nameless, NoName} -> Entries]

LEMMA TypeParts == TypeInvariant <=> StackTypes /\ InputTypes /\ TextTypes /\ MarksInOrder
BY LenProperties DEF TypeInvariant, TypeOK, StackTypes, InputTypes, TextTypes, Entries, Calls

LEMMA LimitsNat ==
  /\ FILN_IF_NEST \in Nat /\ FILN_MAC_NEST \in Nat /\ FILN_INCL_NUM \in Nat /\ StackLimit \in Nat
  /\ FILN_MAC_NEST > 0 /\ FILN_INCL_NUM > 0 /\ StackLimit > 0
BY ConstantsAssumption

(* A non-empty set of numbers has a least one: of the initial segments that *)
(* end in it none is infinitely often smaller.                              *)
LEMMA LeastOfNats ==
  ASSUME NEW S \in SUBSET Nat, S # {}
  PROVE  Min(S) \in S /\ \A y \in S : Min(S) <= y
<1> DEFINE Segments == {0..y : y \in S}
<1>1. Segments \subseteq FiniteSubsetsOf(Nat) /\ Segments # {}
  <2>1. ASSUME NEW y \in S
        PROVE  0..y \in FiniteSubsetsOf(Nat)
    <3>1. 0 \in Int /\ y \in Int /\ 0..y \subseteq Nat
      OBVIOUS
    <3> QED  BY <3>1, FS_Interval DEF FiniteSubsetsOf
  <2> QED  BY <2>1
<1>2. PICK T \in Segments : \A U \in Segments : ~(<<U, T>> \in StrictSubsetOrdering(Nat))
  BY <1>1, FS_StrictSubsetOrderingWellFounded, WFMin
<1>3. PICK x \in S : T = 0..x
  BY <1>2
<1>4. ASSUME NEW y \in S, y < x
      PROVE  FALSE
  <2>1. 0..y \subseteq 0..x /\ 0..y # 0..x
    BY <1>4
  <2>2. <<0..y, T>> \in StrictSubsetOrdering(Nat)
    BY <1>1, <1>2, <1>3, <2>1 DEF StrictSubsetOrdering, FiniteSubsetsOf
  <2> QED  BY <1>2, <2>2
<1>5. \A y \in S : x <= y
  BY <1>4
<1> QED  BY <1>5 DEF Min

(* The fields of a line, and lines made of others.                          *)
LEMMA LineFields ==
  ASSUME NEW l \in Line
  PROVE  /\ l.k \in Kinds /\ l.v \in Int /\ l.h \in Hows /\ l.to \in Names \cup {NoName}
         /\ l.k # "include" => l.n \in Names \cup {NoName, Nameless}
BY DEF Line

LEMMA MarkType == ASSUME NEW k \in Kinds PROVE Mark(k) \in Line
BY DEF Mark, Line, Hows

LEMMA NumberType ==
  ASSUME NEW v \in Int, NEW n \in Names \cup {NoName}
  PROVE  Number(v) \in Line /\ [Number(v) EXCEPT !.n = n] \in Line
<1>1. Number(v) = [k |-> "text", n |-> NoName, v |-> v, h |-> "number", to |-> NoName]
  BY DEF Number, Mark
<1> QED  BY <1>1 DEF Line, Kinds, Hows

LEMMA ResolvedType ==
  ASSUME TextTypes, NEW l \in Line, l.k \in {"if", "elif"}
  PROVE  Resolved(l) \in Line /\ Resolved(l).k = l.k
<1>1. /\ l \in [k : Kinds, n : Names \cup FileNames \cup {NoName, Nameless}, v : Int,
               h : Hows, to : Names \cup {NoName}]
      /\ l.n \in Names \cup {NoName, Nameless}
  BY DEF Line
<1>2. \A v \in Int : /\ [l EXCEPT !.h = "number", !.v = v] \in Line
                     /\ [l EXCEPT !.h = "number", !.v = v].k = l.k
  BY <1>1 DEF Line, Hows
<1> DEFINE As(v) == [l EXCEPT !.h = "number", !.v = v]
<1>3. CASE l.h = "defined"
  <2>1. Resolved(l) = As(IF Found(macros[l.n]) THEN 1 ELSE 0)
    BY <1>3 DEF Resolved
  <2>2. (IF Found(macros[l.n]) THEN 1 ELSE 0) \in Int
    OBVIOUS
  <2> QED  BY <1>2, <2>1, <2>2
<1>4. CASE l.h = "value" /\ Counts(l)
  <2>1. Resolved(l) = As(macros[l.n].val)
    BY <1>4 DEF Resolved
  <2>2. macros[l.n].val \in Int
    BY <1>1 DEF TextTypes, Entries
  <2> QED  BY <1>2, <2>1, <2>2
<1>5. CASE l.h # "defined" /\ ~(l.h = "value" /\ Counts(l))
  BY <1>5 DEF Resolved
<1> QED  BY <1>3, <1>4, <1>5

LEMMA ArgumentType ==
  ASSUME NEW l \in Line, NEW h, NEW n, NEW v,
         h \in Hows, n \in Names \cup {NoName, Nameless}, v \in Int
  PROVE  /\ With(l, h, n, v) \in Line /\ With(l, h, n, v).k = l.k
         /\ With(l, h, n, v).h = h /\ With(l, h, n, v).n = n
BY DEF Line, With

(* What the operations of the macro tree return.                            *)
LEMMA EntryTypes ==
  ASSUME NEW e \in Entries
  PROVE  /\ M_Undef(e) \in Entries
         /\ \A atr \in Atrs, val \in Int, buf \in Seq(Line) :
              MTREE_Add(e, atr, val, buf) \in Entries
<1>1. <<>> \in Seq(Line)
  BY EmptySeq
<1>2. M_Undef(e) \in Entries
  BY <1>1 DEF M_Undef, Entries, Atrs
<1>3. ASSUME NEW atr \in Atrs, NEW val \in Int, NEW buf \in Seq(Line)
      PROVE  MTREE_Add(e, atr, val, buf) \in Entries
  <2>1. [atr |-> atr, val |-> val, buf |-> buf] \in Entries
        /\ [atr |-> atr, val |-> val, buf |-> <<>>] \in Entries
        /\ [e EXCEPT !.atr = atr, !.val = val] \in Entries
    BY <1>1 DEF Entries
  <2> QED  BY <2>1 DEF MTREE_Add
<1> QED  BY <1>2, <1>3

LEMMA FrontOfSeq ==
  ASSUME NEW S, NEW s \in Seq(S), s # <<>>
  PROVE  /\ Front(s) \in Seq(S) /\ Len(Front(s)) = Len(s) - 1
         /\ \A i \in 1..(Len(s) - 1) : Front(s)[i] = s[i]
<1>1. Len(s) \in Nat \ {0} /\ \A i \in 1..Len(s) : s[i] \in S
  BY EmptySeq, ElementOfSeq
<1>2. PICK n \in Nat : n = Len(s) - 1
  BY <1>1
<1>3. /\ SubSeq(s, 1, n) \in Seq(S)
      /\ Len(SubSeq(s, 1, n)) = IF 1 <= n THEN n - 1 + 1 ELSE 0
      /\ \A i \in 1..(n - 1 + 1) : SubSeq(s, 1, n)[i] = s[1 + i - 1]
  BY <1>1, <1>2, SubSeqProperties
<1>4. Len(SubSeq(s, 1, n)) = n /\ \A i \in 1..n : SubSeq(s, 1, n)[i] = s[i]
  BY <1>2, <1>3
<1>5. Front(s) = SubSeq(s, 1, n)
  BY <1>2 DEF Front
<1> QED  BY <1>2, <1>3, <1>4, <1>5

(* The innermost call, and the calls after its next line was taken.         *)
LEMMA InnermostCall ==
  ASSUME TextTypes, phase = "macc"
  PROVE  /\ Len(frames) \in 1..StackLimit
         /\ Last(frames) \in Calls
         /\ Front(frames) \in Seq(Calls) /\ Len(Front(frames)) = Len(frames) - 1
         /\ \A i \in 1..(Len(frames) - 1) : Front(frames)[i] = frames[i]
<1>1. Len(frames) \in 1..StackLimit /\ frames \in Seq(Calls)
  BY LimitsNat, EmptySeq DEF TextTypes
<1>2. \A i \in 1..Len(frames) : frames[i] \in Calls
  BY <1>1, ElementOfSeq
<1>3. Last(frames) \in Calls
  BY <1>1, <1>2 DEF Last
<1>4. frames # <<>>
  BY <1>1, EmptySeq
<1> QED  BY <1>1, <1>3, <1>4, FrontOfSeq

LEMMA NextLine ==
  ASSUME TextTypes, NEW ks, Scans(ks)
  PROVE  /\ phase = "macc" /\ Scanned \in Line /\ Scanned.k \in ks
         /\ Last(frames).text \in Seq(Line) /\ Last(frames).text # <<>>
         /\ Tail(Last(frames).text) \in Seq(Line)
         /\ Advance \in Seq(Calls) /\ Len(Advance) = Len(frames)
         /\ \A i \in 1..(Len(frames) - 1) : Advance[i] = frames[i]
         /\ Advance[Len(frames)] = [Last(frames) EXCEPT !.text = Tail(@)]
<1>1. phase = "macc" /\ Last(frames).text # <<>> /\ Scanned.k \in ks
  BY DEF Scans, Scanned
<1>2. Last(frames) \in Calls /\ Len(frames) \in 1..StackLimit
  BY <1>1, InnermostCall
<1>3. Last(frames).text \in Seq(Line) /\ frames \in Seq(Calls)
  BY <1>2 DEF Calls, TextTypes
<1>4. Scanned \in Line /\ Tail(Last(frames).text) \in Seq(Line)
  BY <1>1, <1>3, HeadTailProperties DEF Scanned
<1> DEFINE f == [Last(frames) EXCEPT !.text = Tail(@)]
<1>5. f \in Calls
  BY <1>2, <1>4 DEF Calls
<1>6. Advance = [frames EXCEPT ![Len(frames)] = f]
  BY DEF Advance, Last
<1>7. /\ Advance \in Seq(Calls) /\ Len(Advance) = Len(frames)
      /\ \A i \in 1..Len(frames) : Advance[i] = IF i = Len(frames) THEN f ELSE frames[i]
  <2> HIDE DEF f
  <2> QED  BY <1>2, <1>3, <1>5, <1>6, ExceptSeq
<1>8. Advance[Len(frames)] = f /\ \A i \in 1..(Len(frames) - 1) : Advance[i] = frames[i]
  <2> HIDE DEF f
  <2> QED  BY <1>2, <1>7
<1> QED  BY <1>1, <1>3, <1>4, <1>7, <1>8

(* A round of MM_Macc that moves on to the next line and may write one.     *)
LEMMA RoundTypes ==
  ASSUME TextTypes, phase = "macc", phase' = phase,
         frames' \in Seq(Calls), Len(frames') = Len(frames),
         mbuf' \in Seq(Line),
         macros' \in [Names \cup {Nameless, NoName} -> Entries],
         UNCHANGED <<MM_ptr, out, names>>
  PROVE  TextTypes'
<1>1. frames' # <<>>
  BY EmptySeq, InnermostCall
<1> QED  BY <1>1 DEF TextTypes, names

LEMMA MaccTextTypes == TextTypes /\ MaccText => TextTypes'
<1> SUFFICES ASSUME TextTypes, MaccText PROVE TextTypes'
  OBVIOUS
<1>1. Scans({"text"})
  BY DEF MaccText
<1>2. phase = "macc" /\ Scanned \in Line /\ Advance \in Seq(Calls) /\ Len(Advance) = Len(frames)
  BY <1>1, NextLine
<1> DEFINE l == IF Counts(Scanned) THEN Number(macros[Scanned.n].val) ELSE Scanned
<1>3. l \in Line
  <2>1. CASE Counts(Scanned)
    <3>1. macros[Scanned.n].val \in Int
      BY <2>1 DEF TextTypes, Entries, Counts
    <3> QED  BY <2>1, <3>1, NumberType
  <2> QED  BY <1>2, <2>1
<1>4. mbuf' = Append(mbuf, l) /\ frames' = Advance
  BY DEF MaccText
<1>5. mbuf' \in Seq(Line)
  BY <1>3, <1>4, AppendProperties DEF TextTypes
<1> HIDE DEF l
<1> QED  BY <1>2, <1>4, <1>5, RoundTypes DEF MaccText, TextTypes

LEMMA MaccCopyTypes == TextTypes /\ MaccCopy => TextTypes'
<1> SUFFICES ASSUME TextTypes, MaccCopy PROVE TextTypes'
  OBVIOUS
<1>1. Scans(Kinds \ {"text", "define", "set", "undef"})
  BY DEF MaccCopy
<1>2. phase = "macc" /\ Scanned \in Line /\ Advance \in Seq(Calls) /\ Len(Advance) = Len(frames)
  BY <1>1, NextLine
<1> DEFINE l == IF Scanned.k \in {"if", "elif"} THEN Resolved(Scanned) ELSE Scanned
<1>3. l \in Line
  BY <1>2, ResolvedType
<1>4. mbuf' = Append(mbuf, l) /\ frames' = Advance
  BY DEF MaccCopy
<1>5. mbuf' \in Seq(Line)
  BY <1>3, <1>4, AppendProperties DEF TextTypes
<1> HIDE DEF l
<1> QED  BY <1>2, <1>4, <1>5, RoundTypes DEF MaccCopy, TextTypes

LEMMA MaccDefineTypes == TextTypes /\ (MaccDefine \/ MaccUndef) => TextTypes'
<1> SUFFICES ASSUME TextTypes, MaccDefine \/ MaccUndef PROVE TextTypes'
  OBVIOUS
<1>1. Scans({"define", "set"}) \/ Scans({"undef"})
  BY DEF MaccDefine, MaccUndef
<1>2. /\ phase = "macc" /\ Scanned \in Line
      /\ Advance \in Seq(Calls) /\ Len(Advance) = Len(frames)
      /\ Scanned.k \in {"define", "set", "undef"}
  BY <1>1, NextLine
<1>3. Scanned.n \in DOMAIN macros /\ macros[Scanned.n] \in Entries
  BY <1>2, LineFields DEF TextTypes
<1>4. macros' \in [Names \cup {Nameless, NoName} -> Entries]
  <2>1. ASSUME NEW e \in Entries, macros' = [macros EXCEPT ![Scanned.n] = e]
        PROVE  macros' \in [Names \cup {Nameless, NoName} -> Entries]
    BY <2>1 DEF TextTypes
  <2>2. CASE MaccUndef
    BY <1>3, <2>1, <2>2, EntryTypes DEF MaccUndef
  <2>3. CASE MaccDefine /\ Scanned.k = "set"
    <3>1. MTREE_Add(macros[Scanned.n], "set", Scanned.v, <<>>) \in Entries
      BY <1>2, <1>3, EntryTypes, LineFields, EmptySeq DEF Atrs
    <3>2. macros' = [macros EXCEPT ![Scanned.n]
                       = MTREE_Add(macros[Scanned.n], "set", Scanned.v, <<>>)]
      BY <2>3 DEF MaccDefine, Define
    <3> QED  BY <2>1, <3>1, <3>2
  <2>4. CASE MaccDefine /\ Scanned.k # "set"
    <3> DEFINE b == <<[Number(Scanned.v) EXCEPT !.n = Scanned.to]>>
    <3>1. Scanned.v \in Int /\ Scanned.to \in Names \cup {NoName}
      BY <1>2, LineFields
    <3>2. b \in Seq(Line)
      BY <3>1, NumberType
    <3>3. MTREE_Add(macros[Scanned.n], "def", 0, b) \in Entries
      <4>1. "def" \in Atrs /\ 0 \in Int
        BY DEF Atrs
      <4> HIDE DEF b
      <4> QED  BY <1>3, <3>2, <4>1, EntryTypes, Zenon
    <3>4. macros' = [macros EXCEPT ![Scanned.n] = MTREE_Add(macros[Scanned.n], "def", 0, b)]
      BY <2>4 DEF MaccDefine, Define
    <3> HIDE DEF b
    <3> QED  BY <2>1, <3>3, <3>4
  <2> QED  BY <2>2, <2>3, <2>4
<1>5. frames' = Advance /\ UNCHANGED <<MM_ptr, out, names, phase, mbuf>>
  BY DEF MaccDefine, MaccUndef
<1>6. mbuf' \in Seq(Line)
  BY <1>5 DEF TextTypes
<1> QED  BY <1>2, <1>4, <1>5, <1>6, RoundTypes

(* A call is entered: the steps have it in common.                          *)
LEMMA EntersTypes ==
  ASSUME TextTypes, phase = "macc", Scanned.n \in Names,
         NEW callers \in Seq(Calls), Len(callers) = Len(frames), NEW written \in Seq(Line),
         Enters(callers, written), UNCHANGED <<MM_ptr, macros, out>>
  PROVE  TextTypes'
<1>1. PICK cnt \in Int :
        /\ MM_cnt' = cnt + 1
        /\ IF cnt >= FILN_MAC_NEST
           THEN phase' = "exit" /\ UNCHANGED <<frames, mbuf>>
           ELSE /\ frames' = Append(callers, Call(macros[Scanned.n].buf, Scanned.n, Len(written)))
                /\ mbuf' = written
                /\ Len(frames) = StackLimit => phase' = "crash"
                /\ phase' \in {"macc", "crash"}
  BY ConstantsAssumption DEF Enters, Outcome, TextTypes
<1>2. MM_name' \in [0..(FILN_MAC_NEST - 1) -> Names \cup {NoName}]
  BY DEF Enters, TextTypes
<1>3. overwritten' \subseteq {"MM_cnt", "errLblSkip"}
  BY DEF Enters, TextTypes
<1>4. CASE cnt >= FILN_MAC_NEST
  BY <1>1, <1>2, <1>3, <1>4 DEF TextTypes
<1>5. CASE ~(cnt >= FILN_MAC_NEST)
  <2>1. MM_cnt' \in Int /\ MM_cnt' <= FILN_MAC_NEST
    BY <1>1, <1>5, LimitsNat
  <2> DEFINE c == Call(macros[Scanned.n].buf, Scanned.n, Len(written))
  <2>2. c \in Calls
    <3>1. macros[Scanned.n].buf \in Seq(Line) /\ Len(written) \in Nat
      BY LenProperties DEF TextTypes, Entries
    <3> QED  BY <3>1 DEF Calls, Call
  <2>3. /\ frames' = Append(callers, c) /\ mbuf' = written
        /\ phase' = "macc" => Len(frames) # StackLimit
    BY <1>1, <1>5
  <2> HIDE DEF c
  <2>4. frames' \in Seq(Calls) /\ Len(frames') = Len(frames) + 1 /\ frames' # <<>>
    BY <2>2, <2>3, AppendProperties
  <2>5. Len(frames) <= StackLimit /\ Len(frames) \in Nat
    BY InnermostCall
  <2>6. Len(frames') <= StackLimit + 1 /\ (phase' = "macc" => Len(frames') <= StackLimit)
    BY <2>3, <2>4, <2>5, LimitsNat
  <2> QED  BY <1>2, <1>3, <2>1, <2>3, <2>4, <2>6 DEF TextTypes
<1> QED  BY <1>4, <1>5

LEMMA MaccExpandTypes == TextTypes /\ MaccExpand => TextTypes'
<1> SUFFICES ASSUME TextTypes, MaccExpand PROVE TextTypes'
  OBVIOUS
<1>1. Scans({"text"}) /\ Scanned.n \in Names /\ mbuf \in Seq(Line)
  BY DEF MaccExpand, Expands, TextTypes
<1>2. phase = "macc" /\ Advance \in Seq(Calls) /\ Len(Advance) = Len(frames)
  BY <1>1, NextLine
<1>3. Enters(Advance, mbuf) /\ UNCHANGED <<MM_ptr, macros, out>>
  BY DEF MaccExpand
<1> QED  BY <1>1, <1>2, <1>3, EntersTypes

(* The directive whose argument is to be replaced, and the calls by then.   *)
Bare == With(Scanned, "number", NoName, 0)
Asked == [Last(frames) EXCEPT !.text = Tail(@), !.at = Len(mbuf) + 1]

LEMMA AskTypes ==
  ASSUME TextTypes, MaccAsk
  PROVE  /\ Scans({"if", "elif"}) /\ phase = "macc"
         /\ Scanned.n \in Names /\ IsText(macros[Scanned.n].atr) /\ Asking(Scanned)
         /\ Bare \in Line /\ Bare.k = Scanned.k /\ Bare.k \in {"if", "elif"} /\ ~Asking(Bare)
         /\ Asked \in Calls
         /\ Enters([frames EXCEPT ![Len(frames)] = Asked], Append(mbuf, Bare))
         /\ UNCHANGED <<MM_ptr, macros, out>>
<1>1. /\ Scans({"if", "elif"}) /\ Scanned.n \in Names /\ IsText(macros[Scanned.n].atr)
      /\ UNCHANGED <<MM_ptr, macros, out>>
  BY DEF MaccAsk, Expands
<1>2. phase = "macc" /\ Scanned \in Line /\ Scanned.k \in {"if", "elif"}
      /\ Tail(Last(frames).text) \in Seq(Line)
  BY <1>1, NextLine
<1>3. Bare \in Line /\ Bare.k = Scanned.k /\ Bare.h = "number"
  <2>1. "number" \in Hows /\ NoName \in Names \cup {NoName, Nameless} /\ 0 \in Int
    BY DEF Hows
  <2> QED  BY <1>2, <2>1, ArgumentType DEF Bare
<1>4. Len(frames) \in 1..Len(frames) /\ Last(frames) \in Calls /\ Len(mbuf) \in Nat
      /\ frames \in Seq(Calls)
  BY <1>2, InnermostCall, LenProperties DEF TextTypes
<1>5. Asked \in Calls
  <2>1. PICK f \in Calls, t \in Seq(Line) : f = Last(frames) /\ t = Tail(Last(frames).text)
    BY <1>2, <1>4
  <2> PICK n \in Nat : n = Len(mbuf) + 1
    BY <1>4
  <2>2. [f EXCEPT !.text = t, !.at = n] \in Calls
    BY DEF Calls
  <2>3. Asked = [f EXCEPT !.text = t, !.at = n]
    BY <2>1 DEF Asked
  <2> QED  BY <2>2, <2>3
<1>6. [Advance EXCEPT ![Len(frames)].at = Len(mbuf) + 1] = [frames EXCEPT ![Len(frames)] = Asked]
  BY <1>4 DEF Advance, Asked, Last, Calls
<1>7. Enters([frames EXCEPT ![Len(frames)] = Asked], Append(mbuf, Bare))
  BY <1>6 DEF MaccAsk, Bare
<1>8. Asking(Scanned)
  BY <1>2 DEF MaccAsk, Expands
<1> QED  BY <1>1, <1>2, <1>3, <1>5, <1>7, <1>8 DEF Asking

LEMMA MaccAskTypes == TextTypes /\ MaccAsk => TextTypes'
<1> SUFFICES ASSUME TextTypes, MaccAsk PROVE TextTypes'
  OBVIOUS
<1> DEFINE callers == [frames EXCEPT ![Len(frames)] = Asked]
<1>1. /\ phase = "macc" /\ Scanned.n \in Names /\ Bare \in Line /\ Asked \in Calls
      /\ Enters(callers, Append(mbuf, Bare)) /\ UNCHANGED <<MM_ptr, macros, out>>
  BY AskTypes
<1>2. callers \in Seq(Calls) /\ Len(callers) = Len(frames)
  BY <1>1, InnermostCall, ExceptSeq DEF TextTypes
<1>3. Append(mbuf, Bare) \in Seq(Line)
  BY <1>1, AppendProperties DEF TextTypes
<1> HIDE DEF callers
<1> QED  BY <1>1, <1>2, <1>3, EntersTypes

(* An #if and the lines that came for its argument.                         *)
LEMMA AnswerLines ==
  ASSUME NEW l \in Line, l.k \in {"if", "elif"}, NEW ls \in Seq(Line)
  PROVE  \E a \in Line, rest \in Seq(Line) :
           /\ Answer(l, ls) = <<a>> \o rest /\ a.k = l.k
           /\ \/ a = l /\ rest = ls
              \/ ls # <<>> /\ Head(ls).k = "text" /\ a.n = Head(ls).n /\ rest = Tail(ls)
<1>1. CASE ls # <<>> /\ Head(ls).k = "text"
  <2> DEFINE a == With(l, IF Head(ls).n = NoName THEN "number" ELSE "value",
                       Head(ls).n, Head(ls).v)
  <2>1. Head(ls) \in Line /\ Tail(ls) \in Seq(Line)
    BY <1>1, HeadTailProperties
  <2>2. a \in Line /\ a.k = l.k /\ a.n = Head(ls).n
    <3>1. (IF Head(ls).n = NoName THEN "number" ELSE "value") \in Hows
      BY DEF Hows
    <3>2. Head(ls).n \in Names \cup {NoName, Nameless} /\ Head(ls).v \in Int
      BY <1>1, <2>1, LineFields
    <3> QED  BY <3>1, <3>2, ArgumentType
  <2>3. Answer(l, ls) = <<a>> \o Tail(ls)
    BY <1>1 DEF Answer
  <2> HIDE DEF a
  <2> QED  BY <1>1, <2>1, <2>2, <2>3
<1>2. CASE ~(ls # <<>> /\ Head(ls).k = "text")
  BY <1>2 DEF Answer
<1> QED  BY <1>1, <1>2

(* The argument of the innermost call's #if is complete.                    *)
LEMMA AnswerTypes ==
  ASSUME TextTypes, MarksInOrder, MaccAnswer
  PROVE  LET at == Last(frames).at
             c == [Last(frames) EXCEPT !.at = 0]
             before == SubSeq(mbuf, 1, at - 1)
             ls == SubSeq(mbuf, at + 1, Len(mbuf))
         IN  /\ phase = "macc" /\ at \in 1..Len(mbuf) /\ at \in Nat /\ Last(frames).mark < at
             /\ Len(mbuf) \in Nat /\ mbuf[at] \in Line /\ mbuf[at].k \in {"if", "elif"}
             /\ c \in Calls /\ frames' = [frames EXCEPT ![Len(frames)] = c]
             /\ before \in Seq(Line) /\ Len(before) = at - 1
             /\ \A x \in 1..(at - 1) : before[x] = mbuf[x]
             /\ ls \in Seq(Line) /\ Len(ls) = Len(mbuf) - at
             /\ \A x \in 1..Len(ls) : ls[x] = mbuf[at + x]
             /\ mbuf' = before \o Answer(mbuf[at], ls)
<1>1. /\ phase = "macc" /\ Last(frames).at # 0
      /\ mbuf' = SubSeq(mbuf, 1, Last(frames).at - 1)
                   \o Answer(mbuf[Last(frames).at],
                             SubSeq(mbuf, Last(frames).at + 1, Len(mbuf)))
      /\ frames' = [frames EXCEPT ![Len(frames)].at = 0]
  BY DEF MaccAnswer
<1>2. /\ Len(frames) \in 1..Len(frames) /\ Last(frames) \in Calls /\ Last(frames) = frames[Len(frames)]
      /\ mbuf \in Seq(Line) /\ frames \in Seq(Calls) /\ DOMAIN frames = 1..Len(frames)
  BY <1>1, InnermostCall, LenProperties DEF TextTypes, Last
<1>3. PICK at \in Nat : at = Last(frames).at
  BY <1>2 DEF Calls
<1>4. PICK n \in Nat : n = Len(mbuf)
  BY <1>2, LenProperties
<1>5. at <= n /\ Last(frames).mark < at /\ mbuf[at].k \in {"if", "elif"} /\ at > 0
  BY <1>1, <1>2, <1>3, <1>4 DEF MarksInOrder, InOrder, Reached
<1>6. \A x \in 1..n : mbuf[x] \in Line
  BY <1>2, <1>4, ElementOfSeq
<1>7. [Last(frames) EXCEPT !.at = 0] \in Calls
  BY <1>2 DEF Calls
<1>8. frames' = [frames EXCEPT ![Len(frames)] = [Last(frames) EXCEPT !.at = 0]]
  BY <1>1, <1>2
<1>9. PICK b \in Nat : b = at - 1
  BY <1>5
<1>10. /\ SubSeq(mbuf, 1, b) \in Seq(Line) /\ Len(SubSeq(mbuf, 1, b)) = b
       /\ \A x \in 1..b : SubSeq(mbuf, 1, b)[x] = mbuf[x]
  <2>1. 1 \in Int /\ b \in Int /\ \A x \in 1..b : mbuf[x] \in Line
    BY <1>5, <1>6, <1>9
  <2>2. /\ SubSeq(mbuf, 1, b) \in Seq(Line)
        /\ Len(SubSeq(mbuf, 1, b)) = IF 1 <= b THEN b - 1 + 1 ELSE 0
        /\ \A x \in 1..(b - 1 + 1) : SubSeq(mbuf, 1, b)[x] = mbuf[1 + x - 1]
    BY <2>1, SubSeqProperties
  <2>3. \A x \in 1..b : x \in 1..(b - 1 + 1) /\ 1 + x - 1 = x
    OBVIOUS
  <2>4. \A x \in 1..b : SubSeq(mbuf, 1, b)[x] = mbuf[x]
    BY <2>2, <2>3
  <2>5. Len(SubSeq(mbuf, 1, b)) = b
    BY <2>2
  <2> QED  BY <2>2, <2>4, <2>5
<1>11. /\ SubSeq(mbuf, at + 1, n) \in Seq(Line) /\ Len(SubSeq(mbuf, at + 1, n)) = n - at
       /\ \A x \in 1..(n - at) : SubSeq(mbuf, at + 1, n)[x] = mbuf[at + x]
  <2>1. at + 1 \in Int /\ n \in Int /\ \A x \in (at + 1)..n : mbuf[x] \in Line
    BY <1>5, <1>6
  <2>2. /\ SubSeq(mbuf, at + 1, n) \in Seq(Line)
        /\ Len(SubSeq(mbuf, at + 1, n)) = IF at + 1 <= n THEN n - (at + 1) + 1 ELSE 0
        /\ \A x \in 1..(n - (at + 1) + 1) : SubSeq(mbuf, at + 1, n)[x] = mbuf[(at + 1) + x - 1]
    BY <2>1, SubSeqProperties
  <2>3. \A x \in 1..(n - at) : x \in 1..(n - (at + 1) + 1) /\ (at + 1) + x - 1 = at + x
    OBVIOUS
  <2>4. \A x \in 1..(n - at) : SubSeq(mbuf, at + 1, n)[x] = mbuf[at + x]
    BY <2>2, <2>3
  <2>5. Len(SubSeq(mbuf, at + 1, n)) = n - at
    BY <1>5, <2>2
  <2> QED  BY <2>2, <2>4, <2>5
<1>12. at \in 1..n
  BY <1>5
<1> QED  BY <1>1, <1>3, <1>4, <1>5, <1>6, <1>7, <1>8, <1>9, <1>10, <1>11, <1>12

LEMMA MaccAnswerTypes == TextTypes /\ MarksInOrder /\ MaccAnswer => TextTypes'
<1> SUFFICES ASSUME TextTypes, MarksInOrder, MaccAnswer PROVE TextTypes'
  OBVIOUS
<1> DEFINE at == Last(frames).at
           c == [Last(frames) EXCEPT !.at = 0]
           before == SubSeq(mbuf, 1, at - 1)
           ls == SubSeq(mbuf, at + 1, Len(mbuf))
<1>1. /\ phase = "macc" /\ mbuf[at] \in Line /\ mbuf[at].k \in {"if", "elif"}
      /\ c \in Calls /\ frames' = [frames EXCEPT ![Len(frames)] = c]
      /\ before \in Seq(Line) /\ ls \in Seq(Line)
      /\ mbuf' = before \o Answer(mbuf[at], ls)
  BY AnswerTypes
<1>2. UNCHANGED <<MM_ptr, names, macros, phase, out>>
  BY DEF MaccAnswer
<1> HIDE DEF c, before, ls
<1>3. PICK a \in Line, rest \in Seq(Line) : Answer(mbuf[at], ls) = <<a>> \o rest
  <2>1. PICK l \in Line : l = mbuf[at]
    BY <1>1
  <2> HIDE DEF at
  <2>2. l.k \in {"if", "elif"}
    BY <1>1, <2>1
  <2>3. \E a \in Line, rest \in Seq(Line) : Answer(l, ls) = <<a>> \o rest
    <3>1. ls \in Seq(Line)
      BY <1>1
    <3> QED  BY <2>2, <3>1, AnswerLines
  <2> QED  BY <2>1, <2>3
<1>4. Answer(mbuf[at], ls) \in Seq(Line)
  <2>1. <<a>> \in Seq(Line)
    OBVIOUS
  <2> QED  BY <1>3, <2>1, ConcatProperties
<1>5. mbuf' \in Seq(Line)
  BY <1>1, <1>4, ConcatProperties
<1>6. frames' \in Seq(Calls) /\ Len(frames') = Len(frames)
  BY <1>1, InnermostCall, ExceptSeq DEF TextTypes
<1>7. macros' \in [Names \cup {Nameless, NoName} -> Entries]
  BY <1>2 DEF TextTypes
<1> QED  BY <1>1, <1>2, <1>5, <1>6, <1>7, RoundTypes

(* The marks and the names that a return takes back.                        *)
LEMMA MaccReturnTypes == TextTypes /\ MarksInOrder /\ MaccReturn => TextTypes'
<1> SUFFICES ASSUME TextTypes, MarksInOrder, MaccReturn PROVE TextTypes'
  OBVIOUS
<1> DEFINE f == Last(frames)
<1>1. /\ phase = "macc" /\ f \in Calls /\ Len(frames) \in 1..StackLimit
      /\ Front(frames) \in Seq(Calls) /\ Len(Front(frames)) = Len(frames) - 1
  BY InnermostCall DEF MaccReturn
<1>2. CASE f.name = NoName
  <2>1. EndCall
    BY <1>2 DEF MaccReturn
  <2>2. frames' \in Seq(Calls) /\ Len(frames') = Len(frames) - 1
    BY <1>1, <2>1 DEF EndCall
  <2>3. CASE Len(frames) > 1
    <3>1. frames' # <<>> /\ Len(frames') <= StackLimit
      BY <1>1, <2>2, <2>3, LimitsNat, EmptySeq
    <3> QED  BY <2>1, <2>2, <2>3, <3>1, LimitsNat DEF EndCall, MaccReturn, TextTypes, names
  <2>4. CASE ~(Len(frames) > 1)
    <3>1. MM_ptr' = mbuf /\ mbuf' = <<>> /\ phase' = "read" /\ UNCHANGED names
      BY <2>1, <2>4 DEF EndCall
    <3>2. Len(frames') <= StackLimit + 1
      BY <1>1, <2>2, LimitsNat
    <3> QED  BY <2>2, <3>1, <3>2, EmptySeq DEF MaccReturn, TextTypes, names
  <2> QED  BY <2>3, <2>4
<1>3. CASE f.name # NoName
  <2> DEFINE seg == SubSeq(mbuf, f.mark + 1, Len(mbuf))
             c == Call(seg, NoName, f.mark)
  <2>1. /\ FreeName /\ UNCHANGED <<MM_ptr, out, macros>>
        /\ frames' = Append(Front(frames), c) /\ mbuf' = SubSeq(mbuf, 1, f.mark)
    BY <1>3 DEF MaccReturn
  <2>2. f.mark \in Nat /\ f.mark <= Len(mbuf) /\ mbuf \in Seq(Line) /\ Len(mbuf) \in Nat
    <3>1. Len(frames) \in DOMAIN frames
      BY <1>1, LenProperties DEF TextTypes
    <3> QED  BY <1>1, <1>3, <3>1, LenProperties DEF MaccReturn, MarksInOrder, InOrder, Reached, Calls, Last,
                                              TextTypes
  <2>3. seg \in Seq(Line)
    BY <2>2, ElementOfSeq, SubSeqProperties
  <2>4. frames' \in Seq(Calls) /\ Len(frames') = Len(frames) /\ frames' # <<>>
    <3>1. c \in Calls
      BY <2>2, <2>3 DEF Calls, Call
    <3> HIDE DEF c
    <3> QED  BY <1>1, <2>1, <3>1, AppendProperties
  <2> HIDE DEF seg, c
  <2>5. mbuf' \in Seq(Line)
    BY <2>1, <2>2, ElementOfSeq, SubSeqProperties
  <2>6. /\ MM_cnt' \in Int /\ MM_cnt' <= FILN_MAC_NEST
        /\ MM_name' \in [0..(FILN_MAC_NEST - 1) -> Names \cup {NoName}]
        /\ overwritten' \subseteq {"MM_cnt", "errLblSkip"} /\ phase' \in {"macc", "crash"}
    <3>1. PICK m \in Int : m = MM_cnt - 2
      BY DEF TextTypes
    <3>2. MM_cnt' = m /\ m <= FILN_MAC_NEST
      BY <1>1, <2>1, <3>1, LimitsNat DEF FreeName, TextTypes
    <3>3. MM_name' = [i \in DOMAIN MM_name |-> IF i = m THEN NoName ELSE MM_name[i]]
      BY <2>1, <3>1 DEF FreeName
    <3>4. MM_name' \in [0..(FILN_MAC_NEST - 1) -> Names \cup {NoName}]
      BY <3>3 DEF TextTypes
    <3>5. overwritten' \subseteq {"MM_cnt", "errLblSkip"} /\ phase' \in {"macc", "crash"}
      BY <2>1 DEF FreeName, TextTypes
    <3> QED  BY <3>2, <3>4, <3>5, Zenon
  <2>7. Len(frames') <= StackLimit
    BY <1>1, <2>4, LimitsNat
  <2> QED  BY <2>1, <2>4, <2>5, <2>6, <2>7, LimitsNat DEF TextTypes
<1> QED  BY <1>2, <1>3

LEMMA EachCall ==
  ASSUME TextTypes, NEW i \in 1..Len(frames)
  PROVE  /\ frames[i] \in Calls /\ frames[i].mark \in Nat /\ frames[i].text \in Seq(Line)
         /\ Reached(frames[i]) \in Nat
<1>1. frames[i] \in Calls
  BY ElementOfSeq DEF TextTypes
<1> QED  BY <1>1 DEF Calls, Reached

(* Calls in order, and one more that starts where they have got to: what is *)
(* in the buffer behind that does not matter to them.                       *)
LEMMA OrderGrows ==
  ASSUME NEW fs \in Seq(Calls), NEW buf \in Seq(Line), InOrder(fs, buf),
         NEW c \in Calls, NEW new \in Seq(Line), NEW n \in Nat,
         n <= Len(buf), n <= Len(new), \A x \in 1..n : new[x] = buf[x],
         \A i \in 1..Len(fs) : Reached(fs[i]) <= n /\ Reached(fs[i]) <= c.mark,
         Reached(c) <= Len(new),
         c.at # 0 => c.mark < c.at /\ new[c.at].k \in {"if", "elif"}
  PROVE  InOrder(Append(fs, c), new)
<1>1. PICK m \in Nat : m = Len(fs)
  BY LenProperties
<1> DEFINE gs == Append(fs, c)
<1>2. /\ DOMAIN gs = 1..(m + 1) /\ gs[m + 1] = c
      /\ \A i \in 1..m : gs[i] = fs[i]
  <2>1. gs \in Seq(Calls) /\ Len(gs) = m + 1 /\ gs[m + 1] = c /\ \A i \in 1..m : gs[i] = fs[i]
    BY <1>1, AppendProperties
  <2> QED  BY <2>1, LenProperties
<1>3. Len(buf) \in Nat /\ Len(new) \in Nat /\ DOMAIN fs = 1..m
  BY <1>1, LenProperties
<1> HIDE DEF gs
<1>4. ASSUME NEW j \in 1..(m + 1)
      PROVE  /\ Reached(gs[j]) <= Len(new)
             /\ \A i \in 1..(j - 1) : Reached(gs[i]) <= gs[j].mark
             /\ gs[j].at # 0 => gs[j].mark < gs[j].at /\ new[gs[j].at].k \in {"if", "elif"}
  <2>1. CASE j = m + 1
    <3>1. \A i \in 1..(j - 1) : i \in 1..m
      BY <2>1
    <3> QED  BY <1>1, <1>2, <2>1, <3>1
  <2>2. CASE j # m + 1
    <3>1. j \in 1..m /\ \A i \in 1..(j - 1) : i \in 1..m
      BY <2>2
    <3>2. gs[j] = fs[j] /\ \A i \in 1..(j - 1) : gs[i] = fs[i]
      BY <1>2, <3>1
    <3>3. /\ \A i \in 1..(j - 1) : Reached(fs[i]) <= fs[j].mark
          /\ fs[j].at # 0 => fs[j].mark < fs[j].at /\ buf[fs[j].at].k \in {"if", "elif"}
      BY <1>3, <3>1 DEF InOrder
    <3>4. fs[j] \in Calls /\ Reached(fs[j]) <= n
      BY <1>1, <3>1, ElementOfSeq
    <3>5. Reached(fs[j]) <= Len(new)
      <4>1. Reached(fs[j]) \in Nat
        BY <3>4 DEF Reached, Calls
      <4> QED  BY <1>3, <3>4, <4>1
    <3>6. ASSUME fs[j].at # 0
          PROVE  fs[j].mark < fs[j].at /\ new[fs[j].at].k \in {"if", "elif"}
      <4>1. fs[j].at \in 1..n
        BY <3>4, <3>6 DEF Reached, Calls
      <4> QED  BY <3>3, <3>6, <4>1
    <3> QED  BY <3>2, <3>3, <3>5, <3>6
  <2> QED  BY <2>1, <2>2
<1> QED  BY <1>2, <1>4 DEF InOrder, gs

(* The innermost call changed: the calls are those before, and it.          *)
LEMMA InnermostChanged ==
  ASSUME TextTypes, phase = "macc", NEW c \in Calls
  PROVE  [frames EXCEPT ![Len(frames)] = c] = Append(Front(frames), c)
<1>1. PICK n \in Nat : n + 1 = Len(frames)
  <2>1. PICK m \in Nat : m = Len(frames) /\ m > 0
    BY InnermostCall
  <2>2. m - 1 \in Nat /\ (m - 1) + 1 = m
    BY <2>1
  <2> QED  BY <2>1, <2>2
<1> DEFINE s == [frames EXCEPT ![Len(frames)] = c]
           t == Append(Front(frames), c)
<1>2. /\ Len(s) = n + 1 /\ s \in Seq(Calls)
      /\ \A i \in 1..(n + 1) : s[i] = IF i = n + 1 THEN c ELSE frames[i]
  BY <1>1, InnermostCall, ExceptSeq DEF TextTypes
<1>3. /\ Front(frames) \in Seq(Calls) /\ Len(Front(frames)) = n
      /\ \A i \in 1..n : Front(frames)[i] = frames[i]
  <2>1. /\ Front(frames) \in Seq(Calls) /\ Len(Front(frames)) = Len(frames) - 1
        /\ \A i \in 1..(Len(frames) - 1) : Front(frames)[i] = frames[i]
    BY InnermostCall
  <2> QED  BY <1>1, <2>1
<1>4. /\ Len(t) = n + 1 /\ t \in Seq(Calls)
      /\ \A i \in 1..n : t[i] = frames[i]
      /\ t[n + 1] = c
  BY <1>3, AppendProperties
<1> HIDE DEF s, t
<1>5. ASSUME NEW i \in 1..(n + 1)
      PROVE  s[i] = t[i]
  <2>1. CASE i = n + 1
    BY <1>2, <1>4, <2>1
  <2>2. CASE i # n + 1
    <3>1. i \in 1..n
      BY <2>2
    <3> QED  BY <1>2, <1>4, <2>2, <3>1
  <2> QED  BY <2>1, <2>2
<1>6. s = t
  BY <1>2, <1>4, <1>5, SeqEqual
<1> QED  BY <1>6 DEF s, t

(* MM_Macc reads and writes behind what the calls around it have.           *)
LEMMA MarksStep == TextTypes /\ MarksInOrder /\ Macc => MarksInOrder'
<1> SUFFICES ASSUME TextTypes, MarksInOrder, Macc PROVE MarksInOrder'
  OBVIOUS
<1> DEFINE f == Last(frames)
           fs == Front(frames)
<1>1. phase = "macc" /\ InOrder(frames, mbuf)
  BY DEF Macc, MaccText, MaccExpand, MaccAsk, MaccAnswer, MaccReturn, MaccDefine, MaccUndef,
         MaccCopy, Scans, MarksInOrder
<1>2. /\ Len(frames) \in 1..StackLimit /\ f \in Calls /\ f = frames[Len(frames)]
      /\ fs \in Seq(Calls) /\ Len(fs) = Len(frames) - 1
      /\ \A i \in 1..(Len(frames) - 1) : fs[i] = frames[i]
      /\ mbuf \in Seq(Line) /\ Len(mbuf) \in Nat /\ DOMAIN frames = 1..Len(frames)
      /\ DOMAIN fs = 1..(Len(frames) - 1)
  BY <1>1, InnermostCall, LenProperties DEF TextTypes, Last
<1>3. /\ f.mark \in Nat /\ f.at \in Nat /\ f.mark <= Len(mbuf) /\ f.mark <= Reached(f)
      /\ Reached(f) <= Len(mbuf) /\ Reached(f) \in Nat
      /\ \A i \in 1..Len(fs) : Reached(fs[i]) \in Nat /\ Reached(fs[i]) <= f.mark
  <2>1. f.mark \in Nat /\ f.at \in Nat /\ Len(frames) \in 1..Len(frames)
    BY <1>2 DEF Calls
  <2>2. /\ Reached(f) <= Len(mbuf) /\ (f.at # 0 => f.mark < f.at)
        /\ \A i \in 1..(Len(frames) - 1) : Reached(frames[i]) <= f.mark
    BY <1>1, <1>2, <2>1 DEF InOrder
  <2>3. \A i \in 1..(Len(frames) - 1) : i \in 1..Len(frames)
    BY <1>2
  <2>4. \A i \in 1..(Len(frames) - 1) : Reached(frames[i]) \in Nat
    BY <2>3, EachCall
  <2> QED  BY <1>2, <2>1, <2>2, <2>4 DEF Reached
<1>4. InOrder(fs, mbuf)
  <2>1. \A j \in 1..(Len(frames) - 1) : /\ j \in DOMAIN frames /\ fs[j] = frames[j]
                                        /\ \A i \in 1..(j - 1) : fs[i] = frames[i]
    BY <1>2
  <2> QED  BY <1>1, <1>2, <2>1 DEF InOrder
<1> HIDE DEF f, fs
(* The innermost call, with its text changed, in a buffer that grows.       *)
<1>5. ASSUME NEW c \in Calls, c.mark = f.mark, c.at = 0,
             NEW new \in Seq(Line), Len(mbuf) <= Len(new), \A x \in 1..Len(mbuf) : new[x] = mbuf[x]
      PROVE  InOrder(Append(fs, c), new)
  <2>1. Reached(c) = f.mark /\ Len(new) \in Nat
    BY <1>5, LenProperties DEF Reached
  <2>2. Reached(c) <= Len(new)
    BY <1>2, <1>3, <1>5, <2>1
  <2>3. PICK n \in Nat : n = Len(mbuf)
    BY <1>2
  <2>4. \A i \in 1..Len(fs) : Reached(fs[i]) <= n /\ Reached(fs[i]) <= c.mark
    BY <1>2, <1>3, <1>5, <2>3
  <2>5. n <= Len(mbuf) /\ n <= Len(new) /\ \A x \in 1..n : new[x] = mbuf[x]
    BY <1>5, <2>3
  <2>6. fs \in Seq(Calls) /\ mbuf \in Seq(Line)
    BY <1>2
  <2> QED  BY <1>4, <1>5, <2>2, <2>3, <2>4, <2>5, <2>6, OrderGrows
<1>6. ASSUME NEW ks, Scans(ks)
      PROVE  /\ Advance = Append(fs, [f EXCEPT !.text = Tail(@)]) /\ f.at = 0
             /\ [f EXCEPT !.text = Tail(@)] \in Calls
             /\ [f EXCEPT !.text = Tail(@)].mark = f.mark /\ [f EXCEPT !.text = Tail(@)].at = 0
  <2> DEFINE c == [f EXCEPT !.text = Tail(@)]
  <2>1. f.at = 0 /\ Tail(f.text) \in Seq(Line)
    BY <1>6, NextLine DEF Scans, f
  <2>2. c \in Calls /\ c.mark = f.mark /\ c.at = 0
    BY <1>2, <2>1 DEF Calls
  <2>3. Advance = [frames EXCEPT ![Len(frames)] = c]
    BY <1>2 DEF Advance, f
  <2> HIDE DEF c
  <2>4. Advance = Append(fs, c)
    BY <1>1, <2>2, <2>3, InnermostChanged DEF fs
  <2> QED  BY <2>1, <2>2, <2>4 DEF c
(* Such a call, and one it makes.                                           *)
<1>7. ASSUME NEW gs \in Seq(Calls), NEW new \in Seq(Line), InOrder(gs, new), gs # <<>>,
             Reached(gs[Len(gs)]) <= Len(new),
             \A i \in 1..Len(gs) : Reached(gs[i]) <= Len(new),
             NEW c \in Calls, c.mark = Len(new), c.at = 0
      PROVE  InOrder(Append(gs, c), new)
  <2>1. Len(new) \in Nat /\ Reached(c) = Len(new)
    BY <1>7, LenProperties DEF Reached
  <2> QED  BY <1>7, <2>1, OrderGrows
<1>8. CASE MaccText \/ MaccCopy \/ MaccDefine \/ MaccUndef
  <2>1. PICK ks : Scans(ks)
    BY <1>8 DEF MaccText, MaccCopy, MaccDefine, MaccUndef
  <2>2. frames' = Advance
    BY <1>8 DEF MaccText, MaccCopy, MaccDefine, MaccUndef
  <2>3. mbuf' \in Seq(Line) /\ Len(mbuf) <= Len(mbuf') /\ \A x \in 1..Len(mbuf) : mbuf'[x] = mbuf[x]
    <3>1. mbuf' \in Seq(Line)
      BY <1>8, MaccTextTypes, MaccCopyTypes, MaccDefineTypes DEF TextTypes
    <3>2. CASE MaccText \/ MaccCopy
      <4>1. PICK l : mbuf' = Append(mbuf, l)
        BY <3>2 DEF MaccText, MaccCopy
      <4>2. Len(mbuf') = Len(mbuf) + 1 /\ \A x \in 1..Len(mbuf) : mbuf'[x] = mbuf[x]
        BY <1>2, <4>1
      <4> QED  BY <1>2, <3>1, <4>2
    <3>3. CASE MaccDefine \/ MaccUndef
      <4>1. mbuf' = mbuf
        BY <3>3 DEF MaccDefine, MaccUndef
      <4> QED  BY <1>2, <4>1
    <3> QED  BY <1>8, <3>1, <3>2, <3>3
  <2>4. InOrder(frames', mbuf')
    BY <1>5, <1>6, <2>1, <2>2, <2>3
  <2> QED  BY <2>4 DEF MarksInOrder
<1>9. CASE MaccExpand
  <2>1. Scans({"text"}) /\ Scanned.n \in Names /\ Enters(Advance, mbuf)
    BY <1>9 DEF MaccExpand, Expands
  <2> DEFINE c == Call(macros[Scanned.n].buf, Scanned.n, Len(mbuf))
  <2>2. phase' = "exit" \/ (frames' = Append(Advance, c) /\ mbuf' = mbuf)
    BY <2>1 DEF Enters
  <2>3. c \in Calls /\ c.mark = Len(mbuf) /\ c.at = 0
    BY <1>2, <2>1 DEF TextTypes, Entries, Calls, Call
  <2>4. InOrder(Advance, mbuf) /\ Advance \in Seq(Calls)
    <3>1. PICK d \in Calls : Advance = Append(fs, d) /\ d.mark = f.mark /\ d.at = 0
      BY <1>6, <2>1
    <3>2. InOrder(Append(fs, d), mbuf)
      BY <1>2, <1>5, <3>1
    <3>3. Append(fs, d) \in Seq(Calls)
      BY <1>2, <3>1, AppendProperties
    <3> QED  BY <3>1, <3>2, <3>3
  <2>5. Advance # <<>> /\ DOMAIN Advance = 1..Len(Advance) /\ Len(Advance) \in 1..Len(Advance)
    BY <1>2, <2>1, <2>4, NextLine, EmptySeq, LenProperties
  <2> HIDE DEF c
  <2>6. InOrder(Append(Advance, c), mbuf)
    BY <1>2, <1>7, <2>3, <2>4, <2>5 DEF InOrder
  <2> QED  BY <2>2, <2>6 DEF MarksInOrder
<1>10. CASE MaccAsk
  <2> DEFINE gs == [frames EXCEPT ![Len(frames)] = Asked]
             new == Append(mbuf, Bare)
             c == Call(macros[Scanned.n].buf, Scanned.n, Len(new))
  <2>1. /\ Scans({"if", "elif"}) /\ Scanned.n \in Names /\ Bare \in Line
        /\ Bare.k \in {"if", "elif"} /\ Asked \in Calls /\ Enters(gs, new)
    BY <1>10, AskTypes
  <2>2. phase' = "exit" \/ (frames' = Append(gs, c) /\ mbuf' = new)
    BY <2>1 DEF Enters
  <2>3. /\ new \in Seq(Line) /\ Len(new) = Len(mbuf) + 1 /\ new[Len(mbuf) + 1] = Bare
        /\ \A x \in 1..Len(mbuf) : new[x] = mbuf[x]
    BY <1>2, <2>1, AppendProperties
  <2> HIDE DEF new
  <2>4. c \in Calls /\ c.mark = Len(new) /\ c.at = 0
    <3>1. Len(new) \in Nat /\ macros[Scanned.n].buf \in Seq(Line)
      BY <1>2, <2>1, <2>3 DEF TextTypes, Entries
    <3> QED  BY <2>1, <3>1 DEF Calls, Call
  <2>5. gs = Append(fs, Asked) /\ Asked.mark = f.mark /\ Asked.at = Len(mbuf) + 1
    BY <1>1, <1>2, <2>1, InnermostChanged DEF Asked, f, fs, Calls
  <2> HIDE DEF c, gs
  <2>6. gs \in Seq(Calls) /\ gs # <<>> /\ DOMAIN gs = 1..Len(gs) /\ Len(gs) \in 1..Len(gs)
    <3>1. PICK k \in Nat : k = Len(fs)
      BY <1>2
    <3>2. gs \in Seq(Calls) /\ Len(gs) = k + 1
      <4>1. PICK d \in Calls : d = Asked
        BY <2>1
      <4>2. fs \in Seq(Calls) /\ gs = Append(fs, d)
        BY <1>2, <2>5, <4>1
      <4> QED  BY <3>1, <4>2, AppendProperties
    <3>3. DOMAIN gs = 1..Len(gs) /\ Len(gs) \in 1..Len(gs) /\ Len(gs) # 0
      BY <3>2, LenProperties
    <3> QED  BY <3>2, <3>3, EmptySeq
  <2>7. InOrder(gs, new)
    <3>1. Reached(Asked) <= Len(new) /\ Len(mbuf) <= Len(new) /\ Len(mbuf) <= Len(mbuf)
      BY <1>2, <2>3, <2>5 DEF Reached
    <3>2. Asked.mark < Asked.at /\ new[Asked.at].k \in {"if", "elif"}
      BY <1>2, <1>3, <2>1, <2>3, <2>5
    <3>3. \A i \in 1..Len(fs) : Reached(fs[i]) <= Len(mbuf) /\ Reached(fs[i]) <= Asked.mark
      BY <1>2, <1>3, <2>5
    <3>4. InOrder(Append(fs, Asked), new)
      BY <1>2, <1>4, <2>1, <2>3, <3>1, <3>2, <3>3, OrderGrows
    <3> QED  BY <2>5, <3>4
  <2>8. InOrder(Append(gs, c), new)
    BY <1>7, <2>3, <2>4, <2>6, <2>7 DEF InOrder
  <2> QED  BY <2>2, <2>8 DEF MarksInOrder
<1>11. CASE MaccAnswer
  <2> DEFINE c == [f EXCEPT !.at = 0]
             before == SubSeq(mbuf, 1, f.at - 1)
             ls == SubSeq(mbuf, f.at + 1, Len(mbuf))
  <2>1. /\ f.at \in 1..Len(mbuf) /\ f.mark < f.at /\ mbuf[f.at] \in Line
        /\ mbuf[f.at].k \in {"if", "elif"}
        /\ c \in Calls /\ frames' = [frames EXCEPT ![Len(frames)] = c]
        /\ before \in Seq(Line) /\ Len(before) = f.at - 1
        /\ \A x \in 1..(f.at - 1) : before[x] = mbuf[x]
        /\ ls \in Seq(Line) /\ mbuf' = before \o Answer(mbuf[f.at], ls)
    BY <1>11, AnswerTypes DEF f
  <2>2. c.mark = f.mark /\ c.at = 0
    BY <1>2 DEF Calls
  <2> HIDE DEF c, before, ls
  <2>3. PICK n \in Nat : n = f.at - 1
    BY <1>3, <2>1
  <2>4. mbuf' \in Seq(Line)
    BY <1>11, MaccAnswerTypes DEF TextTypes
  <2>5. PICK a \in Seq(Line) : a = Answer(mbuf[f.at], ls)
    <3>1. PICK l \in Line : l = mbuf[f.at]
      BY <2>1
    <3>2. PICK b \in Line, rest \in Seq(Line) : Answer(l, ls) = <<b>> \o rest
      <4>1. l.k \in {"if", "elif"}
        BY <2>1, <3>1
      <4>2. ls \in Seq(Line)
        BY <2>1
      <4> QED  BY <4>1, <4>2, AnswerLines
    <3>3. <<b>> \o rest \in Seq(Line)
      BY ConcatProperties
    <3> QED  BY <3>1, <3>2, <3>3
  <2>6. n <= Len(mbuf) /\ n <= Len(mbuf') /\ \A x \in 1..n : mbuf'[x] = mbuf[x]
    <3>1. PICK m \in Nat : m = Len(a)
      BY LenProperties
    <3>2. mbuf' = before \o a /\ Len(before) = n /\ before \in Seq(Line)
      BY <2>1, <2>3, <2>5
    <3>3. /\ Len(mbuf') = n + m
          /\ \A x \in 1..(n + m) : mbuf'[x] = IF x <= n THEN before[x] ELSE a[x - n]
      BY <3>1, <3>2, ConcatProperties
    <3> QED  BY <1>2, <2>1, <2>3, <3>3
  <2>7. Reached(c) = f.mark /\ f.mark <= n
    BY <1>3, <2>1, <2>2, <2>3 DEF Reached
  <2>8. /\ Reached(c) <= Len(mbuf')
        /\ \A i \in 1..Len(fs) : Reached(fs[i]) <= n /\ Reached(fs[i]) <= c.mark
    <3>1. Len(mbuf') \in Nat
      BY <2>4, LenProperties
    <3> QED  BY <1>3, <2>2, <2>6, <2>7, <3>1
  <2>9. frames' = Append(fs, c)
    BY <1>1, <2>1, InnermostChanged DEF fs
  <2>10. InOrder(Append(fs, c), mbuf')
    BY <1>2, <1>4, <2>1, <2>2, <2>4, <2>6, <2>8, OrderGrows
  <2> QED  BY <2>9, <2>10 DEF MarksInOrder
<1>12. CASE MaccReturn
  <2>1. CASE f.name = NoName
    <3>1. EndCall
      BY <1>12, <2>1 DEF MaccReturn, f
    <3>2. phase' = "read" \/ (frames' = fs /\ mbuf' = mbuf)
      BY <3>1 DEF EndCall, fs
    <3> QED  BY <1>4, <3>2 DEF MarksInOrder
  <2>2. CASE f.name # NoName
    <3> DEFINE seg == SubSeq(mbuf, f.mark + 1, Len(mbuf))
               c == Call(seg, NoName, f.mark)
    <3>1. frames' = Append(fs, c) /\ mbuf' = SubSeq(mbuf, 1, f.mark)
      BY <1>12, <2>2 DEF MaccReturn, f, fs
    <3>2. PICK n \in Nat : n = f.mark /\ n <= Len(mbuf)
      BY <1>3
    <3>3. \A x \in 1..Len(mbuf) : mbuf[x] \in Line
      BY <1>2, ElementOfSeq
    <3>4. mbuf' \in Seq(Line) /\ Len(mbuf') = n /\ \A x \in 1..n : mbuf'[x] = mbuf[x]
      <4>1. 1 \in Int /\ n \in Int /\ \A x \in 1..n : mbuf[x] \in Line
        BY <1>2, <3>2, <3>3
      <4>2. /\ SubSeq(mbuf, 1, n) \in Seq(Line)
            /\ Len(SubSeq(mbuf, 1, n)) = IF 1 <= n THEN n - 1 + 1 ELSE 0
            /\ \A x \in 1..(n - 1 + 1) : SubSeq(mbuf, 1, n)[x] = mbuf[1 + x - 1]
        BY <4>1, SubSeqProperties
      <4>3. \A x \in 1..n : x \in 1..(n - 1 + 1) /\ 1 + x - 1 = x
        OBVIOUS
      <4>4. \A x \in 1..n : SubSeq(mbuf, 1, n)[x] = mbuf[x]
        BY <4>2, <4>3
      <4>5. Len(SubSeq(mbuf, 1, n)) = n
        BY <4>2
      <4> QED  BY <3>1, <3>2, <4>2, <4>4, <4>5
    <3>5. c \in Calls /\ c.mark = n /\ c.at = 0
      <4>1. seg \in Seq(Line)
        BY <1>2, <1>3, <3>3, SubSeqProperties
      <4> QED  BY <3>2, <4>1 DEF Calls, Call
    <3> HIDE DEF seg, c
    <3>6. /\ Reached(c) <= Len(mbuf') /\ n <= Len(mbuf')
          /\ \A i \in 1..Len(fs) : Reached(fs[i]) <= n /\ Reached(fs[i]) <= c.mark
      BY <1>3, <3>2, <3>4, <3>5 DEF Reached
    <3>7. InOrder(Append(fs, c), mbuf')
      BY <1>2, <1>4, <3>2, <3>4, <3>5, <3>6, OrderGrows
    <3> QED  BY <3>1, <3>7 DEF MarksInOrder
  <2> QED  BY <2>1, <2>2
<1> QED  BY <1>8, <1>9, <1>10, <1>11, <1>12 DEF Macc

(* The call for a line.                                                     *)
LEMMA FirstInOrder == ASSUME NEW c, c.mark = 0, c.at = 0 PROVE InOrder(<<c>>, <<>>)
BY EmptySeq DEF InOrder, Reached

(* The rest of the innermost file, and what taking lines of it does.        *)
LEMMA RestOfFile ==
  ASSUME InputTypes, phase \in {"read", "macc"}
  PROVE  /\ Len(inclStk) \in Nat \ {0} /\ Len(inclStk) \in 1..Len(inclStk)
         /\ inclStk[Len(inclStk)] \in [file : FileNames, lin : Nat]
         /\ Last(inclStk).file \in DOMAIN files /\ Input \in Seq(Line) /\ Rest \in Seq(Line)
<1>1. Len(inclStk) \in Nat \ {0} /\ Len(inclStk) \in 1..Len(inclStk)
  BY EmptySeq DEF InputTypes
<1>2. inclStk[Len(inclStk)] \in [file : FileNames, lin : Nat]
  BY <1>1, ElementOfSeq DEF InputTypes
<1>3. Last(inclStk).file \in DOMAIN files /\ Input \in Seq(Line)
  BY <1>1, LenProperties DEF InputTypes, Last, Input
<1>4. \A i \in (Last(inclStk).lin + 1)..Len(Input) : Input[i] \in Line
  BY <1>2, <1>3, ElementOfSeq, LenProperties DEF Last
<1>5. Rest \in Seq(Line)
  <2>1. Last(inclStk).lin + 1 \in Int /\ Len(Input) \in Int
    BY <1>2, <1>3, LenProperties DEF Last
  <2> QED  BY <1>4, <2>1, SubSeqProperties DEF Rest
<1> QED  BY <1>1, <1>2, <1>3, <1>5

LEMMA TakeTypes ==
  ASSUME InputTypes, phase = "read", NEW k \in Nat, TakeLines(k), UNCHANGED files,
         phase' \in {"read", "macc", "eof", "exit", "crash"}
  PROVE  InputTypes'
<1>1. /\ Len(inclStk) \in 1..Len(inclStk) /\ Len(inclStk) \in Nat
      /\ inclStk[Len(inclStk)] \in [file : FileNames, lin : Nat]
  BY RestOfFile
<1> DEFINE e == [inclStk[Len(inclStk)] EXCEPT !.lin = @ + k]
<1>2. e \in [file : FileNames, lin : Nat] /\ e.file = inclStk[Len(inclStk)].file
  BY <1>1
<1>3. inclStk' = [inclStk EXCEPT ![Len(inclStk)] = e]
  BY DEF TakeLines
<1> HIDE DEF e
<1>4. /\ inclStk' \in Seq([file : FileNames, lin : Nat]) /\ Len(inclStk') = Len(inclStk)
      /\ \A i \in 1..Len(inclStk) : inclStk'[i] = IF i = Len(inclStk) THEN e ELSE inclStk[i]
  BY <1>1, <1>2, <1>3, ExceptSeq DEF InputTypes
<1>5. inclStk' # <<>>
  BY <1>1, <1>4, EmptySeq
<1> QED  BY <1>1, <1>2, <1>4, <1>5 DEF InputTypes

(* A line, or lines, of the file are read.                                  *)
LEMMA ReadTypes ==
  InputTypes /\ TextTypes /\ (ReadRaw \/ ReadExpand \/ EndFile)
    => InputTypes' /\ TextTypes' /\ MarksInOrder'
<1> SUFFICES ASSUME InputTypes, TextTypes, ReadRaw \/ ReadExpand \/ EndFile
             PROVE  InputTypes' /\ TextTypes' /\ MarksInOrder'
  OBVIOUS
<1>1. phase = "read"
  BY DEF ReadRaw, ReadExpand, EndFile, Reading
<1>2. Rest \in Seq(Line) /\ Len(inclStk) \in Nat \ {0}
  BY <1>1, RestOfFile
<1>3. CASE ReadRaw
  <2>1. Head(Rest) \in Line
    BY <1>2, <1>3, HeadTailProperties DEF ReadRaw
  <2>2. MM_ptr' \in Seq(Line)
    BY <1>3, <2>1 DEF ReadRaw
  <2>3. InputTypes'
    <3>1. TakeLines(1) /\ UNCHANGED <<files, phase>>
      BY <1>3 DEF ReadRaw
    <3> QED  BY <1>1, <3>1, TakeTypes
  <2> QED  BY <1>1, <1>3, <2>2, <2>3 DEF ReadRaw, TextTypes, MarksInOrder, expansion, names
<1>4. CASE ReadExpand
  <2> DEFINE c == Call(<<Head(Rest)>>, NoName, 0)
  <2>1. Head(Rest) \in Line
    BY <1>2, <1>4, HeadTailProperties DEF ReadExpand
  <2>2. c \in Calls /\ c.name = NoName /\ c.mark = 0 /\ c.at = 0
    BY <2>1 DEF Calls, Call
  <2>3. frames' = <<c>> /\ mbuf' = <<>>
    BY <1>4 DEF ReadExpand
  <2> HIDE DEF c
  <2>4. frames' \in Seq(Calls) /\ Len(frames') = 1 /\ frames' # <<>> /\ DOMAIN frames' = {1}
    BY <2>2, <2>3
  <2>5. InputTypes'
    <3>1. TakeLines(1) /\ UNCHANGED files /\ phase' = "macc"
      BY <1>4 DEF ReadExpand
    <3> QED  BY <1>1, <3>1, TakeTypes
  <2>6. TextTypes'
    <3>1. phase' = "macc" /\ UNCHANGED <<MM_ptr, names, macros, out>>
      BY <1>4 DEF ReadExpand
    <3> QED  BY <1>1, <2>3, <2>4, <3>1, LimitsNat, EmptySeq DEF TextTypes, names
  <2>7. MarksInOrder'
    BY <2>2, <2>3, <2>4, FirstInOrder DEF MarksInOrder
  <2> QED  BY <2>5, <2>6, <2>7
<1>5. CASE EndFile
  <2>1. TextTypes' /\ MarksInOrder'
    BY <1>1, <1>5 DEF EndFile, TextTypes, MarksInOrder, expansion, names
  <2>2. CASE scan # NoScan
    BY <1>5, <2>1, <2>2 DEF EndFile, InputTypes
  <2>3. CASE scan = NoScan
    <3>1. inclStk \in Seq([file : FileNames, lin : Nat]) /\ inclStk # <<>>
      BY <1>2, EmptySeq DEF InputTypes
    <3>2. /\ Front(inclStk) \in Seq([file : FileNames, lin : Nat])
          /\ Len(Front(inclStk)) = Len(inclStk) - 1
          /\ \A i \in 1..(Len(inclStk) - 1) : Front(inclStk)[i] = inclStk[i]
      BY <3>1, FrontOfSeq
    <3>3. inclStk' = Front(inclStk) /\ UNCHANGED files
          /\ phase' = IF Len(inclStk) = 1 THEN "eof" ELSE "read"
      BY <1>5, <2>3 DEF EndFile
    <3>4. phase' = "read" => inclStk' # <<>>
      BY <1>2, <3>2, <3>3, EmptySeq
    <3>5. \A i \in 1..(Len(inclStk) - 1) : i \in 1..Len(inclStk)
      BY <1>2
    <3>6. Len(inclStk') <= FILN_INCL_NUM + 1
      BY <1>2, <3>2, <3>3, LimitsNat DEF InputTypes
    <3> QED  BY <2>1, <3>2, <3>3, <3>4, <3>5, <3>6 DEF InputTypes
  <2> QED  BY <2>1, <2>2, <2>3
<1> QED  BY <1>3, <1>4, <1>5

(* M_Macro finds the end of the macro in the rest of the file.              *)
LEMMA MacroEndType ==
  ASSUME NEW rest \in Seq(Line), rest # <<>>,
         NEW ends, ends = {i \in DOMAIN rest : rest[i].k = "endmacro"}
  PROVE  /\ ends # {} => Min(ends) \in ends /\ Min(ends) \in 1..Len(rest)
         /\ (IF ends = {} THEN Len(rest) + 1 ELSE Min(ends)) \in 1..(Len(rest) + 1)
<1>1. DOMAIN rest = 1..Len(rest) /\ Len(rest) \in Nat
  BY LenProperties
<1>2. ends \in SUBSET Nat
  BY <1>1
<1>3. ends # {} => Min(ends) \in ends
  BY <1>2, LeastOfNats
<1> QED  BY <1>1, <1>3

LEMMA BodyType == ASSUME NEW ls \in Seq(Line) PROVE Body(ls) \in Seq(Line)
<1>1. <<Mark("S")>> \in Seq(Line) /\ <<Mark("E")>> \in Seq(Line)
  BY MarkType DEF Kinds
<1> QED  BY <1>1, ConcatProperties DEF Body

LEMMA MacroTypes ==
  InputTypes /\ TextTypes /\ ReadMacro => InputTypes' /\ TextTypes' /\ MarksInOrder'
<1> SUFFICES ASSUME InputTypes, TextTypes, ReadMacro
             PROVE  InputTypes' /\ TextTypes' /\ MarksInOrder'
  OBVIOUS
<1> DEFINE ends == {i \in DOMAIN Rest : Rest[i].k = "endmacro"}
           end  == IF ends = {} THEN Len(Rest) + 1 ELSE Min(ends)
           ls   == SubSeq(Rest, 2, end - 1)
           n    == Head(Rest).n
           new  == MTREE_Add(macros[n], "mac", 0, Body(ls))
           dies == \E i \in DOMAIN ls : ls[i].k \in {"undef", "macro"}
<1>1. phase = "read" /\ Rest # <<>> /\ UNCHANGED <<files, MM_ptr, names, out>>
  BY DEF ReadMacro, Reading
<1>2. Rest \in Seq(Line) /\ Len(Rest) \in Nat
  BY <1>1, RestOfFile, LenProperties
<1>3. end \in 1..(Len(Rest) + 1)
  BY <1>1, <1>2, MacroEndType
<1>4. ls \in Seq(Line)
  <2> HIDE DEF end
  <2>1. \A i \in 2..(end - 1) : Rest[i] \in Line
    <3>1. \A i \in 2..(end - 1) : i \in 1..Len(Rest)
      BY <1>2, <1>3
    <3> QED  BY <1>2, <3>1, ElementOfSeq
  <2>2. 2 \in Int /\ end - 1 \in Int
    BY <1>2, <1>3
  <2> QED  BY <2>1, <2>2, SubSeqProperties
<1>5. n \in Names \cup {NoName, Nameless}
  <2>1. Head(Rest) \in Line /\ Head(Rest).k = "macro"
    BY <1>1, <1>2, HeadTailProperties DEF ReadMacro
  <2> QED  BY <2>1, LineFields
<1>6. new \in Entries
  <2> HIDE DEF n, ls
  <2>1. macros[n] \in Entries /\ Body(ls) \in Seq(Line) /\ "mac" \in Atrs /\ 0 \in Int
    BY <1>4, <1>5, BodyType DEF TextTypes, Atrs
  <2> QED  BY <2>1, EntryTypes
<1>7. CASE dies \/ ends = {}
  <2>1. /\ phase' \in {"crash", "exit"} /\ TakeLines(Len(Rest))
        /\ UNCHANGED <<frames, mbuf, macros>>
    BY <1>7 DEF ReadMacro
  <2>2. InputTypes'
    BY <1>1, <1>2, <2>1, TakeTypes
  <2>3. TextTypes' /\ MarksInOrder'
    BY <1>1, <2>1 DEF TextTypes, MarksInOrder, names
  <2> QED  BY <2>2, <2>3
<1>8. CASE ~(dies \/ ends = {}) /\ n # Nameless
  <2>1. TakeLines(end) /\ macros' = [macros EXCEPT ![n] = new] /\ UNCHANGED <<frames, mbuf, phase>>
    BY <1>8 DEF ReadMacro
  <2> HIDE DEF end, new
  <2>2. InputTypes'
    BY <1>1, <1>2, <1>3, <2>1, TakeTypes
  <2>3. TextTypes' /\ MarksInOrder'
    BY <1>1, <1>6, <2>1 DEF TextTypes, MarksInOrder, names
  <2> QED  BY <2>2, <2>3
<1>9. CASE ~(dies \/ ends = {}) /\ n = Nameless
  <2> DEFINE c == Call(new.buf, NoName, 0)
  <2>1. /\ TakeLines(end) /\ macros' = [macros EXCEPT ![n] = M_Undef(new)]
        /\ frames' = <<c>> /\ mbuf' = <<>> /\ phase' = "macc"
    BY <1>9 DEF ReadMacro
  <2>2. c \in Calls /\ c.name = NoName /\ c.mark = 0 /\ c.at = 0
    BY <1>6 DEF Calls, Call, Entries
  <2>3. M_Undef(new) \in Entries
    BY <1>6, EntryTypes
  <2> HIDE DEF end, new, c
  <2>4. InputTypes'
    BY <1>1, <1>2, <1>3, <2>1, TakeTypes
  <2>5. frames' \in Seq(Calls) /\ Len(frames') = 1 /\ frames' # <<>> /\ DOMAIN frames' = {1}
    BY <2>1, <2>2
  <2>6. macros' \in [Names \cup {Nameless, NoName} -> Entries]
    BY <2>1, <2>3 DEF TextTypes
  <2>7. TextTypes'
    BY <1>1, <2>1, <2>5, <2>6, LimitsNat, EmptySeq DEF TextTypes, names
  <2>8. MarksInOrder'
    BY <2>1, <2>2, <2>5, FirstInOrder DEF MarksInOrder
  <2> QED  BY <2>4, <2>7, <2>8
<1> QED  BY <1>7, <1>8, <1>9

(* Filn_GetsMif takes a line of the expansion; #include opens a file.       *)
LEMMA GetsTypes ==
  InputTypes /\ TextTypes /\ GetsMif => InputTypes' /\ TextTypes' /\ MarksInOrder'
<1> SUFFICES ASSUME InputTypes, TextTypes, GetsMif
             PROVE  InputTypes' /\ TextTypes' /\ MarksInOrder'
  OBVIOUS
<1> USE DEF Gets, Live, Obeys
<1>1. phase = "read" /\ MM_ptr # <<>> /\ Take
  BY DEF GetsMif, Text, SkipIf, SkipEndif, Skip, If, Elif, Else, Endif,
         MacroStart, MacroEnd, ExitMacro, Scan, Include, Report
<1>2. Got \in Line /\ MM_ptr' \in Seq(Line)
  BY <1>1, HeadTailProperties DEF TextTypes, Got, Take
<1>3. out' \in Seq(Line)
  <2>1. UNCHANGED out \/ out' = Append(out, Got)
    BY DEF GetsMif, Text, SkipIf, SkipEndif, Skip, If, Elif, Else, Endif,
           MacroStart, MacroEnd, ExitMacro, Scan, Include, Report
  <2>2. out \in Seq(Line) /\ Append(out, Got) \in Seq(Line)
    BY <1>2, AppendProperties DEF TextTypes
  <2> QED  BY <2>1, <2>2
<1>4. phase' \in {"read", "exit", "crash"} /\ UNCHANGED <<files, frames, mbuf, names, macros>>
  <2>1. UNCHANGED <<files, frames, mbuf, names, macros>>
    BY <1>1 DEF Take, expansion
  <2>2. GetsMif => phase' = phase \/ phase' \in {"read", "exit", "crash"}
    BY DEF GetsMif, Text, SkipIf, SkipEndif, Skip, If, Elif, Else, Endif,
           MacroStart, MacroEnd, ExitMacro, Scan, Include, Report
  <2> QED  BY <1>1, <2>1, <2>2
<1>5. TextTypes' /\ MarksInOrder'
  BY <1>1, <1>2, <1>3, <1>4 DEF TextTypes, MarksInOrder, names
<1>6. InputTypes'
  <2>1. CASE UNCHANGED inclStk
    BY <1>1, <1>4, <2>1 DEF InputTypes
  <2>2. CASE inclStk' # inclStk
    <3>1. Include
      BY <2>2 DEF GetsMif, Text, SkipIf, SkipEndif, Skip, If, Elif, Else, Endif,
                  MacroStart, MacroEnd, ExitMacro, Scan, Report
    <3>2. /\ ~(Len(inclStk) - 1 >= FILN_INCL_NUM) /\ Got.n \in DOMAIN files
          /\ inclStk' = Append(inclStk, [file |-> Got.n, lin |-> 0])
      BY <2>2, <3>1 DEF Include
    <3>3. Got.n \in FileNames /\ [file |-> Got.n, lin |-> 0] \in [file : FileNames, lin : Nat]
      BY <3>2 DEF InputTypes
    <3>4. /\ inclStk' \in Seq([file : FileNames, lin : Nat]) /\ Len(inclStk') = Len(inclStk) + 1
          /\ inclStk' # <<>> /\ inclStk'[Len(inclStk) + 1] = [file |-> Got.n, lin |-> 0]
          /\ \A i \in 1..Len(inclStk) : inclStk'[i] = inclStk[i]
      BY <3>2, <3>3, AppendProperties DEF InputTypes
    <3>5. Len(inclStk) \in Nat /\ Len(inclStk') <= FILN_INCL_NUM + 1
      BY <3>2, <3>4, LimitsNat, LenProperties DEF InputTypes
    <3>6. ASSUME NEW i \in 1..Len(inclStk')
          PROVE  inclStk'[i].file \in DOMAIN files
      <4>1. CASE i = Len(inclStk) + 1
        BY <3>2, <3>4, <4>1
      <4>2. CASE i # Len(inclStk) + 1
        <5>1. i \in 1..Len(inclStk)
          BY <3>4, <3>5, <4>2
        <5> QED  BY <3>4, <5>1 DEF InputTypes
      <4> QED  BY <4>1, <4>2
    <3> QED  BY <1>4, <3>4, <3>5, <3>6 DEF InputTypes
  <2> QED  BY <2>1, <2>2
<1> QED  BY <1>5, <1>6

(* MM_Macc reads no file.                                                   *)
LEMMA MaccInput == InputTypes /\ Macc => InputTypes'
<1> SUFFICES ASSUME InputTypes, Macc PROVE InputTypes'
  OBVIOUS
<1>1. phase = "macc" /\ UNCHANGED <<files, inclStk>>
  BY DEF Macc, MaccText, MaccExpand, MaccAsk, MaccAnswer, MaccReturn, MaccDefine, MaccUndef,
         MaccCopy, Scans
<1>2. phase' \in {"read", "macc", "exit", "crash"}
  <2>1. ASSUME NEW callers, NEW written, Enters(callers, written)
        PROVE  phase' \in {"macc", "exit", "crash"}
    BY <2>1 DEF Enters, Outcome
  <2> QED  BY <1>1, <2>1 DEF Macc, MaccText, MaccExpand, MaccAsk, MaccAnswer, MaccReturn,
                             MaccDefine, MaccUndef, MaccCopy, EndCall, FreeName
<1> QED  BY <1>1, <1>2 DEF InputTypes

LEMMA InitTypes == Init => TypeInvariant
<1> SUFFICES ASSUME Init PROVE TypeInvariant
  OBVIOUS
<1>1. StackTypes
  BY InitStacks DEF StackInvariant
<1>2. InputTypes
  <2>1. /\ files \in Sources /\ phase = "read"
        /\ inclStk = <<[file |-> MainFile, lin |-> 0]>>
    BY DEF Init
  <2>2. /\ MainFile \in DOMAIN files /\ MainFile \in FileNames
        /\ \A f \in DOMAIN files : f \in FileNames /\ files[f] \in Seq(Line)
    BY <2>1, ConstantsAssumption
  <2>3. /\ inclStk \in Seq([file : FileNames, lin : Nat]) /\ Len(inclStk) = 1
        /\ inclStk # <<>> /\ inclStk[1].file = MainFile
    BY <2>1, <2>2
  <2> QED  BY <2>1, <2>2, <2>3, LimitsNat DEF InputTypes
<1>3. TextTypes
  <2>1. NoEntry \in Entries
    BY EmptySeq DEF NoEntry, Entries, Atrs
  <2> QED  BY <2>1, EmptySeq, LimitsNat DEF Init, TextTypes
<1>4. MarksInOrder
  BY DEF Init, MarksInOrder
<1> QED  BY <1>1, <1>2, <1>3, <1>4, TypeParts

LEMMA TypeStep == StackInvariant /\ TypeInvariant /\ [Next]_vars => TypeInvariant'
<1> SUFFICES ASSUME StackInvariant, TypeInvariant, [Next]_vars PROVE TypeInvariant'
  OBVIOUS
<1>1. InputTypes /\ TextTypes /\ MarksInOrder
  BY TypeParts
<1>2. StackTypes'
  BY StackStep DEF StackInvariant
<1>3. GetLine => InputTypes' /\ TextTypes' /\ MarksInOrder'
  BY <1>1, ReadTypes, MacroTypes DEF GetLine
<1>4. Macc => InputTypes' /\ TextTypes' /\ MarksInOrder'
  BY <1>1, MaccInput, MarksStep, MaccTextTypes, MaccCopyTypes, MaccDefineTypes,
     MaccExpandTypes, MaccAskTypes, MaccAnswerTypes, MaccReturnTypes DEF Macc
<1>5. GetsMif => InputTypes' /\ TextTypes' /\ MarksInOrder'
  BY <1>1, GetsTypes
<1>6. Stop \/ UNCHANGED vars => InputTypes' /\ TextTypes' /\ MarksInOrder'
  BY <1>1 DEF Stop, vars, names, InputTypes, TextTypes, MarksInOrder
<1>7. InputTypes' /\ TextTypes' /\ MarksInOrder'
  BY <1>3, <1>4, <1>5, <1>6 DEF Next
<1>8. StackTypes' /\ InputTypes' /\ TextTypes' /\ MarksInOrder' => TypeInvariant'
  BY TypeParts, PTL
<1> QED  BY <1>2, <1>7, <1>8

LEMMA TypeInvariantHolds == Spec => [](StackInvariant /\ TypeInvariant)
BY InitStacks, InitTypes, StackStep, TypeStep, PTL DEF Spec

(* Every variable of Filn's lines, macros and conditionals holds what the C *)
(* variable can, whatever the files are: no more files are open than the    *)
(* one entry behind inclStk (filn.c 1099, 1137); MM_cnt may fall below 0    *)
(* (3841), and a name may be stored over it at the limit (3830), but while  *)
(* dcasm goes on it counts at most what MM_name has room for, and of the    *)
(* fields beside MM_name only errLblSkip is stored over too.                *)
THEOREM FilnTypes == Spec => []TypeOK
<1>1. TypeInvariant => TypeOK
  BY DEF TypeInvariant
<1> QED  BY <1>1, TypeInvariantHolds, PTL

(* src/src/filn.c 3773: what MM_Macc takes back from M_mbuf when a macro's  *)
(* text is used up is what that macro produced, and never a part of what    *)
(* an outer one did.                                                        *)
THEOREM MarksStayInOrder == Spec => []MarksInOrder
<1>1. TypeInvariant => MarksInOrder
  BY DEF TypeInvariant
<1> QED  BY <1>1, TypeInvariantHolds, PTL

-----------------------------------------------------------------------------
(* What kills dcasm.                                                        *)

(* The names that the text of each name mentions.                           *)
Uses == [n \in Texts |-> {m \in Texts : Mentions(n, m)}]

(* The names that the text of n leads to, along what g says of each.        *)
Below(g, n) ==
  {m \in DOMAIN g : \A S \in SUBSET DOMAIN g :
                      g[n] \subseteq S /\ (\A k \in S : g[k] \subseteq S) => m \in S}

(* A line has no text's name, or that of one below n.                       *)
LineBelow(g, l, n) ==
  (l.k = "text" \/ Asking(l)) /\ l.n \in DOMAIN g => l.n \in Below(g, n)

(* A text that defines no name.                                             *)
Still(ls) == \A x \in DOMAIN ls : ls[x].k \notin {"define", "set", "undef"}

(* c[i] is the name whose text call i scans, or scans again.  All that call *)
(* i has to scan and has produced is below c[i], and so are the names of    *)
(* the calls within it.                                                     *)
Descends(c) ==
  /\ \A i \in 2..Len(frames) :
       \A x \in DOMAIN frames[i].text : LineBelow(Uses, frames[i].text[x], c[i])
  /\ \A i \in 2..Len(frames) : frames[i].name # NoName =>
       \A x \in (frames[i].mark + 1)..Len(mbuf) : LineBelow(Uses, mbuf[x], c[i])
  /\ \A i, j \in 2..Len(frames) : i < j => c[j] \in Below(Uses, c[i])

(* A name is defined by a line of a file only, when nothing else is being   *)
(* scanned.                                                                 *)
CallsStill ==
  \A i \in 1..Len(frames) :
    Still(frames[i].text) \/ (Len(frames) = 1 /\ Tail(frames[i].text) = <<>>)

DescentInvariant ==
  NamesFixed(files) =>
    /\ \A n \in DOMAIN macros : Still(macros[n].buf)
    /\ phase = "macc" => /\ Still(mbuf) /\ CallsStill
                         /\ \E c \in [2..Len(frames) -> DOMAIN Uses] : Descends(c)

(* Names below a name.                                                      *)
LEMMA BelowFirst ==
  ASSUME NEW T, NEW g \in [T -> SUBSET T], NEW n \in T
  PROVE  /\ g[n] \subseteq Below(g, n)
         /\ \A m \in Below(g, n) : \E k \in g[n] : m = k \/ m \in Below(g, k)
<1>1. g[n] \subseteq Below(g, n)
  BY DEF Below
<1> DEFINE S == {m \in T : \E k \in g[n] : m = k \/ m \in Below(g, k)}
<1>2. g[n] \subseteq S /\ S \in SUBSET DOMAIN g
  OBVIOUS
<1>3. ASSUME NEW m \in S
      PROVE  g[m] \subseteq S
  <2>1. PICK k \in g[n] : m = k \/ m \in Below(g, k)
    BY <1>3
  <2>2. k \in T /\ m \in T /\ g[m] \subseteq T
    BY <1>3
  <2>3. g[m] \subseteq Below(g, k)
    BY <2>1, <2>2 DEF Below
  <2> QED  BY <2>1, <2>2, <2>3
<1> HIDE DEF S
<1>4. Below(g, n) \subseteq S
  BY <1>2, <1>3 DEF Below
<1> QED  BY <1>1, <1>4 DEF S

LEMMA BelowBelow ==
  ASSUME NEW T, NEW g \in [T -> SUBSET T], NEW n \in T, NEW m \in Below(g, n)
  PROVE  m \in T /\ Below(g, m) \subseteq Below(g, n)
BY DEF Below

(* A name below itself is on a circle.                                      *)
LEMMA BelowItself ==
  ASSUME NEW T, NEW g \in [T -> SUBSET T], NEW n \in T, n \in Below(g, n)
  PROVE  \E ns \in SUBSET T : ns # {} /\ \A m \in ns : \E k \in ns : k \in g[m]
<1> DEFINE ns == {m \in Below(g, n) : n \in Below(g, m)}
<1>1. ns \in SUBSET T /\ n \in ns
  BY DEF Below
<1>2. ASSUME NEW m \in ns
      PROVE  \E k \in ns : k \in g[m]
  <2>1. m \in T /\ m \in Below(g, n) /\ n \in Below(g, m)
    BY <1>1, <1>2
  <2>2. PICK k \in g[m] : n = k \/ n \in Below(g, k)
    BY <2>1, BelowFirst
  <2>3. k \in Below(g, n)
    BY <2>1, <2>2, BelowFirst, BelowBelow
  <2>4. n \in Below(g, k)
    <3>1. CASE n = k
      BY <3>1
    <3> QED  BY <2>2, <3>1
  <2> QED  BY <2>2, <2>3, <2>4
<1> HIDE DEF ns
<1> QED  BY <1>1, <1>2

(* c[2] to c[L] are names, each below all before it.                        *)
Chain(T, g, c, L) ==
  c \in [2..L -> T] /\ \A i, j \in 2..L : i < j => c[j] \in Below(g, c[i])

(* A further name at the end of such a chain.                               *)
LEMMA ChainGrows ==
  ASSUME NEW T, NEW g \in [T -> SUBSET T], NEW L \in Nat \ {0},
         NEW c, Chain(T, g, c, L), NEW n \in T, L > 1 => n \in Below(g, c[L])
  PROVE  \E d : Chain(T, g, d, L + 1) /\ d[L + 1] = n /\ \A i \in 2..L : d[i] = c[i]
<1> PICK d : d = [i \in 2..(L + 1) |-> IF i = L + 1 THEN n ELSE c[i]]
  OBVIOUS
<1>1. c \in [2..L -> T] /\ \A i, j \in 2..L : i < j => c[j] \in Below(g, c[i])
  BY DEF Chain
<1>2. d \in [2..(L + 1) -> T] /\ d[L + 1] = n /\ \A i \in 2..L : d[i] = c[i]
  BY <1>1, SMTT(20)
<1>3. ASSUME NEW i \in 2..(L + 1), NEW j \in 2..(L + 1), i < j
      PROVE  d[j] \in Below(g, d[i])
  <2>1. i \in 2..L /\ L > 1 /\ L \in 2..L /\ d[i] = c[i] /\ c[i] \in T
    BY <1>1, <1>2, <1>3
  <2>2. CASE j = L + 1
    <3>1. n \in Below(g, c[L]) /\ d[j] = n
      BY <1>2, <2>1, <2>2
    <3>2. CASE i = L
      BY <2>1, <3>1, <3>2
    <3>3. CASE i # L
      <4>1. i < L
        BY <2>1, <3>3
      <4>2. c[L] \in Below(g, c[i])
        BY <1>1, <2>1, <4>1
      <4> QED  BY <2>1, <3>1, <4>2, BelowBelow
    <3> QED  BY <3>2, <3>3
  <2>3. CASE j # L + 1
    <3>1. j \in 2..L /\ d[j] = c[j]
      BY <1>2, <2>3
    <3> QED  BY <1>1, <1>3, <2>1, <3>1
  <2> QED  BY <2>2, <2>3
<1> QED  BY <1>2, <1>3 DEF Chain

(* A chain that is longer than there are names comes back to one.           *)
LEMMA ChainCircles ==
  ASSUME IsFiniteSet(Names), NEW T \in SUBSET Names, NEW g \in [T -> SUBSET T],
         NEW L \in Nat, Cardinality(Names) < L, NEW d, Chain(T, g, d, L + 1)
  PROVE  \E n \in T : n \in Below(g, n)
<1>1. /\ IsFiniteSet(2..(L + 1)) /\ Cardinality(2..(L + 1)) = L
  <2>1. 2 \in Int /\ L + 1 \in Int
    OBVIOUS
  <2>2. /\ IsFiniteSet(2..(L + 1))
        /\ Cardinality(2..(L + 1)) = IF 2 > L + 1 THEN 0 ELSE (L + 1) - 2 + 1
    BY <2>1, FS_Interval
  <2> QED  BY <2>2
<1>2. d \in [2..(L + 1) -> Names]
  BY DEF Chain
<1>3. PICK i, j \in 2..(L + 1) : i # j /\ d[i] = d[j]
  BY <1>1, <1>2, FS_PigeonHole
<1>4. d[i] \in Below(g, d[i]) /\ d[i] \in T
  BY <1>3 DEF Chain
<1> QED  BY <1>4

LEMMA UsesType == Uses \in [Texts -> SUBSET Texts] /\ DOMAIN Uses = Texts /\ Texts \subseteq Names
BY DEF Uses, Texts

LEMMA CircleIsCyclic == ASSUME NEW n \in Texts, n \in Below(Uses, n) PROVE Cyclic
<1>1. PICK ns \in SUBSET Texts : ns # {} /\ \A m \in ns : \E k \in ns : k \in Uses[m]
  BY UsesType, BelowItself
<1>2. \A m \in ns : \E k \in ns : Mentions(m, k)
  BY <1>1 DEF Uses
<1> QED  BY <1>1, <1>2 DEF Cyclic

LEMMA SameUses == ASSUME macros' = macros PROVE Uses' = Uses /\ Texts' = Texts
BY DEF Uses, Texts, Mentions

LEMMA TailLines ==
  ASSUME NEW s \in Seq(Line), s # <<>>
  PROVE  /\ 1 \in DOMAIN s /\ Head(s) = s[1]
         /\ \A x \in DOMAIN Tail(s) : x + 1 \in DOMAIN s /\ Tail(s)[x] = s[x + 1]
<1>1. /\ Tail(s) \in Seq(Line) /\ Len(Tail(s)) = Len(s) - 1
      /\ \A x \in 1..Len(Tail(s)) : Tail(s)[x] = s[x + 1]
  BY HeadTailProperties
<1>2. Len(s) \in Nat \ {0} /\ DOMAIN s = 1..Len(s) /\ DOMAIN Tail(s) = 1..Len(Tail(s))
  BY <1>1, EmptySeq, LenProperties
<1> QED  BY <1>1, <1>2

(* What the calls are when the next line has been taken.                    *)
LEMMA CallsAdvance ==
  ASSUME TextTypes, NEW ks, Scans(ks), CallsStill,
         NEW c \in [2..Len(frames) -> DOMAIN Uses], Descends(c)
  PROVE  /\ \A i \in 1..Len(frames) : /\ Still(Advance[i].text)
                                      /\ Advance[i].name = frames[i].name
                                      /\ Advance[i].mark = frames[i].mark
         /\ \A i \in 2..Len(frames) :
              /\ \A x \in DOMAIN Advance[i].text : LineBelow(Uses, Advance[i].text[x], c[i])
              /\ LineBelow(Uses, Scanned, c[i])
         /\ Scanned.k \in {"define", "set", "undef"} => Len(frames) = 1
<1> DEFINE L == Len(frames)
           s == Last(frames).text
<1>1. /\ phase = "macc" /\ s \in Seq(Line) /\ s # <<>> /\ Tail(s) \in Seq(Line)
      /\ Advance \in Seq(Calls) /\ Len(Advance) = L
      /\ \A i \in 1..(L - 1) : Advance[i] = frames[i]
      /\ Advance[L] = [Last(frames) EXCEPT !.text = Tail(@)]
  BY NextLine
<1>2. L \in Nat \ {0} /\ Last(frames) \in Calls /\ Last(frames) = frames[L]
  BY <1>1, InnermostCall DEF Last
<1>3. /\ Advance[L].text = Tail(s) /\ Advance[L].name = frames[L].name
      /\ Advance[L].mark = frames[L].mark
  BY <1>1, <1>2 DEF Calls
<1>4. /\ 1 \in DOMAIN s /\ Scanned = s[1]
      /\ \A x \in DOMAIN Tail(s) : x + 1 \in DOMAIN s /\ Tail(s)[x] = s[x + 1]
  BY <1>1, TailLines DEF Scanned
<1>5. \A i \in 1..L : Still(frames[i].text) \/ (L = 1 /\ Tail(frames[i].text) = <<>>)
  BY DEF CallsStill
<1> HIDE DEF L, s
<1>6. Still(s) \/ (L = 1 /\ Tail(s) = <<>>)
  BY <1>2, <1>5 DEF s
<1>7. Still(Tail(s))
  <2>1. CASE Still(s)
    BY <1>4, <2>1 DEF Still
  <2>2. CASE Tail(s) = <<>>
    BY <2>2 DEF Still
  <2> QED  BY <1>6, <2>1, <2>2
<1>8. Scanned.k \in {"define", "set", "undef"} => L = 1
  BY <1>4, <1>6 DEF Still
<1>9. ASSUME NEW i \in 1..L
      PROVE  /\ Still(Advance[i].text)
             /\ Advance[i].name = frames[i].name /\ Advance[i].mark = frames[i].mark
  <2>1. CASE i = L
    BY <1>3, <1>7, <2>1
  <2>2. CASE i # L
    <3>1. i \in 1..(L - 1) /\ L # 1
      BY <1>2, <2>2
    <3> QED  BY <1>1, <1>5, <3>1
  <2> QED  BY <2>1, <2>2
<1>10. ASSUME NEW i \in 2..L
       PROVE  \A x \in DOMAIN frames[i].text : LineBelow(Uses, frames[i].text[x], c[i])
  BY <1>10 DEF Descends, L
<1>11. L > 1 => LineBelow(Uses, Scanned, c[L])
  <2>1. SUFFICES ASSUME L > 1 PROVE LineBelow(Uses, Scanned, c[L])
    OBVIOUS
  <2>2. L \in 2..L
    BY <1>2, <2>1
  <2> QED  BY <1>2, <1>4, <1>10, <2>2 DEF s
<1>12. ASSUME NEW i \in 2..L
       PROVE  /\ \A x \in DOMAIN Advance[i].text : LineBelow(Uses, Advance[i].text[x], c[i])
              /\ LineBelow(Uses, Scanned, c[i])
  <2>1. CASE i = L
    <3>1. \A x \in DOMAIN s : LineBelow(Uses, s[x], c[L])
      BY <1>2, <1>10, <2>1 DEF s
    <3> QED  BY <1>3, <1>4, <2>1, <3>1
  <2>2. CASE i # L
    <3>1. i \in 1..(L - 1) /\ L \in 2..L /\ i < L
      BY <1>2, <2>2
    <3>2. \A x \in DOMAIN Advance[i].text : LineBelow(Uses, Advance[i].text[x], c[i])
      BY <1>1, <1>10, <3>1
    <3>3. c[L] \in Below(Uses, c[i]) /\ c[i] \in DOMAIN Uses
      BY <3>1 DEF Descends, L
    <3>4. Below(Uses, c[L]) \subseteq Below(Uses, c[i])
      BY <3>3, UsesType, BelowBelow
    <3>5. LineBelow(Uses, Scanned, c[L])
      BY <1>11, <3>1, <1>2
    <3> QED  BY <3>2, <3>4, <3>5 DEF LineBelow
  <2> QED  BY <2>1, <2>2
<1> QED  BY <1>8, <1>9, <1>12 DEF L

(* A line at the end of the buffer.                                         *)
LEMMA BelowGrows ==
  ASSUME TextTypes, Still(mbuf), NEW c \in [2..Len(frames) -> DOMAIN Uses], Descends(c),
         NEW l \in Line, l.k \notin {"define", "set", "undef"},
         \A i \in 2..Len(frames) : LineBelow(Uses, l, c[i]),
         NEW new, new = Append(mbuf, l)
  PROVE  /\ new \in Seq(Line) /\ Still(new)
         /\ \A i \in 2..Len(frames) : frames[i].name # NoName =>
              \A x \in (frames[i].mark + 1)..Len(new) : LineBelow(Uses, new[x], c[i])
<1>1. /\ mbuf \in Seq(Line) /\ DOMAIN mbuf = 1..Len(mbuf) /\ Len(mbuf) \in Nat
      /\ Len(new) = Len(mbuf) + 1 /\ DOMAIN new = 1..(Len(mbuf) + 1) /\ new \in Seq(Line)
      /\ new[Len(mbuf) + 1] = l /\ \A x \in 1..Len(mbuf) : new[x] = mbuf[x]
  <2>1. mbuf \in Seq(Line)
    BY DEF TextTypes
  <2>2. new \in Seq(Line)
    BY <2>1, AppendProperties
  <2> QED  BY <2>1, <2>2, AppendProperties, LenProperties
<1>2. Still(new)
  <2>1. ASSUME NEW x \in DOMAIN new
        PROVE  new[x].k \notin {"define", "set", "undef"}
    <3>1. CASE x = Len(mbuf) + 1
      BY <1>1, <3>1
    <3>2. CASE x # Len(mbuf) + 1
      <4>1. x \in DOMAIN mbuf /\ new[x] = mbuf[x]
        BY <1>1, <3>2
      <4> QED  BY <4>1 DEF Still
    <3> QED  BY <3>1, <3>2
  <2> QED  BY <2>1 DEF Still
<1>3. ASSUME NEW i \in 2..Len(frames), frames[i].name # NoName,
              NEW x \in (frames[i].mark + 1)..Len(new)
       PROVE  LineBelow(Uses, new[x], c[i])
  <2>1. CASE x = Len(mbuf) + 1
    BY <1>1, <2>1
  <2>2. CASE x # Len(mbuf) + 1
    <3>1. frames[i].mark \in Nat
      <4>1. i \in 1..Len(frames)
        OBVIOUS
      <4> QED  BY <4>1, EachCall
    <3>2. x \in (frames[i].mark + 1)..Len(mbuf) /\ x \in 1..Len(mbuf)
      BY <1>1, <2>2, <3>1
    <3>3. LineBelow(Uses, mbuf[x], c[i])
      BY <1>3, <3>2 DEF Descends
    <3> QED  BY <1>1, <3>2, <3>3
  <2> QED  BY <2>1, <2>2
<1> QED  BY <1>1, <1>2, <1>3

(* A line is written.                                                       *)
LEMMA DescentWrites ==
  ASSUME TextTypes, CallsStill, Still(mbuf),
         NEW c \in [2..Len(frames) -> DOMAIN Uses], Descends(c), MaccText \/ MaccCopy
  PROVE  /\ phase' = "macc" /\ macros' = macros /\ Still(mbuf)' /\ CallsStill'
         /\ c \in [2..Len(frames') -> DOMAIN Uses'] /\ Descends(c)'
<1>1. PICK ks : Scans(ks)
  BY DEF MaccText, MaccCopy
<1>2. /\ phase = "macc" /\ Scanned \in Line
      /\ Advance \in Seq(Calls) /\ Len(Advance) = Len(frames)
  BY <1>1, NextLine
<1>3. frames' = Advance /\ macros' = macros /\ phase' = phase
  BY DEF MaccText, MaccCopy
<1>4. Uses' = Uses
  BY <1>3, SameUses
<1>5. PICK l \in Line : /\ mbuf' = Append(mbuf, l)
                        /\ l.k \notin {"define", "set", "undef"}
                        /\ \/ l = Scanned
                           \/ l.k # "text" /\ ~Asking(l)
                           \/ l.n = NoName
  <2>1. CASE MaccText
    <3>1. Scanned.k = "text"
      BY <2>1 DEF MaccText, Scans, Scanned
    <3>2. CASE Counts(Scanned)
      <4>1. macros[Scanned.n].val \in Int
        BY <3>2 DEF TextTypes, Entries, Counts
      <4>2. Number(macros[Scanned.n].val) \in Line
        BY <4>1, NumberType
      <4>3. Number(macros[Scanned.n].val).k = "text" /\ Number(macros[Scanned.n].val).n = NoName
        BY DEF Number, Mark
      <4> QED  BY <2>1, <3>2, <4>2, <4>3 DEF MaccText
    <3>3. CASE ~Counts(Scanned)
      BY <1>2, <2>1, <3>1, <3>3 DEF MaccText
    <3> QED  BY <3>2, <3>3
  <2>2. CASE MaccCopy
    <3>1. Scanned.k \in Kinds \ {"text", "define", "set", "undef"}
      BY <2>2 DEF MaccCopy, Scans, Scanned
    <3>2. CASE Scanned.k \in {"if", "elif"}
      <4>1. Resolved(Scanned) \in Line
        BY <1>2, <3>2, ResolvedType
      <4>2. Resolved(Scanned).k = Scanned.k
        BY <1>2, <3>2, ResolvedType
      <4>3. Resolved(Scanned) = Scanned \/ ~Asking(Resolved(Scanned))
        BY <1>2 DEF Resolved, Line, Asking
      <4> QED  BY <2>2, <3>1, <3>2, <4>1, <4>2, <4>3 DEF MaccCopy
    <3>3. CASE Scanned.k \notin {"if", "elif"}
      BY <1>2, <2>2, <3>1, <3>3 DEF MaccCopy
    <3> QED  BY <3>2, <3>3
  <2> QED  BY <2>1, <2>2
<1>6. /\ \A i \in 1..Len(frames) : /\ Still(Advance[i].text)
                                   /\ Advance[i].name = frames[i].name
                                   /\ Advance[i].mark = frames[i].mark
      /\ \A i \in 2..Len(frames) :
           /\ \A x \in DOMAIN Advance[i].text : LineBelow(Uses, Advance[i].text[x], c[i])
           /\ LineBelow(Uses, Scanned, c[i])
  BY <1>1, CallsAdvance
<1>7. CallsStill'
  BY <1>2, <1>3, <1>6 DEF CallsStill
<1>8. \A i \in 2..Len(frames) : LineBelow(Uses, l, c[i])
  <2>1. NoName \notin DOMAIN Uses
    BY UsesType, ConstantsAssumption
  <2> QED  BY <1>5, <1>6, <2>1 DEF LineBelow
<1>9. /\ Still(mbuf') /\ \A i \in 2..Len(frames) : frames[i].name # NoName =>
           \A x \in (frames[i].mark + 1)..Len(mbuf') : LineBelow(Uses, mbuf'[x], c[i])
  <2>1. PICK new : new = Append(mbuf, l)
    OBVIOUS
  <2>2. Still(new) /\ \A i \in 2..Len(frames) : frames[i].name # NoName =>
           \A x \in (frames[i].mark + 1)..Len(new) : LineBelow(Uses, new[x], c[i])
    BY <1>5, <1>8, <2>1, BelowGrows
  <2> QED  BY <1>5, <2>1, <2>2
<1>10. ASSUME NEW i \in 2..Len(frames), NEW j \in 2..Len(frames), i < j
       PROVE  c[j] \in Below(Uses, c[i])
  BY <1>10 DEF Descends
<1>11. \A i \in 2..Len(frames) : i \in 1..Len(frames)
  OBVIOUS
<1>12. Descends(c)'
  BY <1>2, <1>3, <1>4, <1>6, <1>9, <1>10, <1>11 DEF Descends
<1> QED  BY <1>2, <1>3, <1>4, <1>7, <1>9, <1>12 DEF Still

(* A text that MTREE_Add and M_Undef leave is one there was.                *)
LEMMA EntryTexts ==
  ASSUME NEW e \in Entries, NEW atr \in Atrs, NEW val \in Int, NEW buf \in Seq(Line),
         Still(e.buf), Still(buf)
  PROVE  Still(MTREE_Add(e, atr, val, buf).buf) /\ Still(M_Undef(e).buf)
<1>1. Still(<<>>)
  BY DEF Still
<1>2. M_Undef(e).buf \in {e.buf, <<>>}
  BY DEF M_Undef, Entries
<1>3. [atr |-> atr, val |-> val, buf |-> buf].buf = buf
      /\ [atr |-> atr, val |-> val, buf |-> <<>>].buf = <<>>
      /\ [e EXCEPT !.atr = atr, !.val = val].buf = e.buf
  BY DEF Entries
<1>4. MTREE_Add(e, atr, val, buf).buf \in {e.buf, buf, <<>>}
  BY <1>3 DEF MTREE_Add
<1> QED  BY <1>1, <1>2, <1>4

(* No call of a name is open: nothing is claimed of the names.              *)
LEMMA NoDescent ==
  ASSUME Len(frames') = 1
  PROVE  \E c \in [2..Len(frames') -> DOMAIN Uses'] : Descends(c)'
<1>1. 2..Len(frames') = {}
  OBVIOUS
<1>2. PICK d : d = [i \in {} |-> NoName]
  OBVIOUS
<1>3. d \in [2..Len(frames') -> DOMAIN Uses']
  BY <1>1, <1>2
<1>4. Descends(d)'
  BY <1>1 DEF Descends
<1> QED  BY <1>3, <1>4

(* A line of a file defines a name, or removes it.                          *)
LEMMA DescentDefines ==
  ASSUME TextTypes, CallsStill, \A n \in DOMAIN macros : Still(macros[n].buf),
         NEW c \in [2..Len(frames) -> DOMAIN Uses], Descends(c), MaccDefine \/ MaccUndef
  PROVE  /\ phase' = "macc" /\ \A n \in DOMAIN macros' : Still(macros'[n].buf)
         /\ mbuf' = mbuf /\ CallsStill'
         /\ \E d \in [2..Len(frames') -> DOMAIN Uses'] : Descends(d)'
<1>1. PICK ks : Scans(ks) /\ ks \subseteq {"define", "set", "undef"}
  BY DEF MaccDefine, MaccUndef
<1>2. /\ phase = "macc" /\ Scanned \in Line /\ Scanned.k \in {"define", "set", "undef"}
      /\ Advance \in Seq(Calls) /\ Len(Advance) = Len(frames)
  BY <1>1, NextLine
<1>3. frames' = Advance /\ mbuf' = mbuf /\ phase' = phase
  BY DEF MaccDefine, MaccUndef
<1>4. Len(frames) = 1 /\ \A i \in 1..Len(frames) : Still(Advance[i].text)
  BY <1>1, <1>2, CallsAdvance
<1>5. CallsStill'
  BY <1>2, <1>3, <1>4 DEF CallsStill
<1>6. \E d \in [2..Len(frames') -> DOMAIN Uses'] : Descends(d)'
  BY <1>2, <1>3, <1>4, NoDescent
<1>7. Scanned.n \in DOMAIN macros /\ macros[Scanned.n] \in Entries /\ Still(macros[Scanned.n].buf)
  BY <1>2, LineFields DEF TextTypes
<1>8. PICK e : macros' = [macros EXCEPT ![Scanned.n] = e] /\ Still(e.buf)
  <2>1. CASE MaccUndef
    <3>1. Still(M_Undef(macros[Scanned.n]).buf)
      <4>1. Still(<<>>) /\ <<>> \in Seq(Line) /\ "set" \in Atrs /\ 0 \in Int
        BY EmptySeq DEF Still, Atrs
      <4> QED  BY <1>7, <4>1, EntryTexts
    <3> QED  BY <2>1, <3>1 DEF MaccUndef
  <2>2. CASE MaccDefine /\ Scanned.k = "set"
    <3>1. Still(<<>>) /\ <<>> \in Seq(Line) /\ "set" \in Atrs /\ Scanned.v \in Int
      BY <1>2, LineFields, EmptySeq DEF Still, Atrs
    <3>2. Still(MTREE_Add(macros[Scanned.n], "set", Scanned.v, <<>>).buf)
      BY <1>7, <3>1, EntryTexts
    <3>3. macros' = [macros EXCEPT ![Scanned.n]
                       = MTREE_Add(macros[Scanned.n], "set", Scanned.v, <<>>)]
      BY <2>2 DEF MaccDefine, Define
    <3> QED  BY <3>2, <3>3
  <2>3. CASE MaccDefine /\ Scanned.k # "set"
    <3> DEFINE l == [Number(Scanned.v) EXCEPT !.n = Scanned.to]
               b == <<l>>
    <3>1. Scanned.v \in Int /\ Scanned.to \in Names \cup {NoName}
      BY <1>2, LineFields
    <3>2. l \in Line /\ l.k = "text"
      <4>1. l \in Line
        BY <3>1, NumberType
      <4>2. Number(Scanned.v) = [k |-> "text", n |-> NoName, v |-> Scanned.v,
                                 h |-> "number", to |-> NoName]
        BY DEF Number, Mark
      <4> QED  BY <4>1, <4>2
    <3> HIDE DEF l
    <3>3. b \in Seq(Line) /\ Still(b)
      BY <3>2 DEF Still
    <3>4. Still(MTREE_Add(macros[Scanned.n], "def", 0, b).buf)
      <4>1. "def" \in Atrs /\ 0 \in Int
        BY DEF Atrs
      <4> HIDE DEF b
      <4> QED  BY <1>7, <3>3, <4>1, EntryTexts, Zenon
    <3>5. macros' = [macros EXCEPT ![Scanned.n] = MTREE_Add(macros[Scanned.n], "def", 0, b)]
      BY <2>3 DEF MaccDefine, Define, l
    <3> HIDE DEF b
    <3> QED  BY <3>4, <3>5
  <2> QED  BY <2>1, <2>2, <2>3
<1>9. \A n \in DOMAIN macros' : Still(macros'[n].buf)
  <2>1. ASSUME NEW n \in DOMAIN macros
        PROVE  Still(macros'[n].buf)
    <3>1. CASE n = Scanned.n
      BY <1>8, <3>1
    <3>2. CASE n # Scanned.n
      <4>1. macros'[n] = macros[n]
        BY <1>8, <3>2
      <4> QED  BY <4>1
    <3> QED  BY <3>1, <3>2
  <2>2. DOMAIN macros' = DOMAIN macros
    BY <1>8
  <2> QED  BY <2>1, <2>2
<1> QED  BY <1>2, <1>3, <1>5, <1>6, <1>9

(* A name is called, with the names within its text below it.               *)
LEMMA DescentCalls ==
  ASSUME TextTypes, CallsStill, \A n \in DOMAIN macros : Still(macros[n].buf), Still(mbuf),
         NEW c \in [2..Len(frames) -> DOMAIN Uses], Descends(c),
         MaccExpand \/ MaccAsk, phase' # "exit"
  PROVE  /\ macros' = macros /\ Still(mbuf') /\ CallsStill'
         /\ Len(frames') = Len(frames) + 1
         /\ \E d \in [2..(Len(frames) + 1) -> DOMAIN Uses] :
              Chain(Texts, Uses, d, Len(frames) + 1) /\ Descends(d)'
<1> DEFINE L == Len(frames)
           n == Scanned.n
           f == Call(macros[n].buf, n, Len(mbuf'))
<1>1. /\ \E ks : Scans(ks)
      /\ n \in Names /\ IsText(macros[n].atr) /\ macros' = macros
      /\ Scanned.k = "text" \/ Asking(Scanned)
  BY DEF MaccExpand, MaccAsk, Expands
<1>2. /\ phase = "macc" /\ Scanned \in Line
      /\ Advance \in Seq(Calls) /\ Len(Advance) = L /\ L \in Nat \ {0}
  BY <1>1, NextLine, InnermostCall
<1>3. n \in Texts /\ n \in DOMAIN Uses /\ DOMAIN Uses = Texts /\ n # NoName
  BY <1>1, UsesType, ConstantsAssumption DEF Texts
<1>4. /\ \A i \in 1..L : /\ Still(Advance[i].text) /\ Advance[i].name = frames[i].name
                         /\ Advance[i].mark = frames[i].mark
      /\ \A i \in 2..L :
           /\ \A x \in DOMAIN Advance[i].text : LineBelow(Uses, Advance[i].text[x], c[i])
           /\ LineBelow(Uses, Scanned, c[i])
  BY <1>1, CallsAdvance
<1>5. PICK callers \in Seq(Calls) :
        /\ Len(callers) = L
        /\ \A i \in 1..L : /\ callers[i].text = Advance[i].text
                           /\ callers[i].name = Advance[i].name
                           /\ callers[i].mark = Advance[i].mark
        /\ frames' = Append(callers, f)
        /\ mbuf' \in Seq(Line) /\ Still(mbuf')
        /\ \A i \in 2..L : frames[i].name # NoName =>
             \A x \in (frames[i].mark + 1)..Len(mbuf') : LineBelow(Uses, mbuf'[x], c[i])
  <2>1. CASE MaccExpand
    <3>1. frames' = Append(Advance, f) /\ mbuf' = mbuf
      BY <2>1 DEF MaccExpand, Enters
    <3>2. \A i \in 2..L : frames[i].name # NoName =>
             \A x \in (frames[i].mark + 1)..Len(mbuf) : LineBelow(Uses, mbuf[x], c[i])
      BY DEF Descends
    <3>3. mbuf' \in Seq(Line)
      BY <3>1 DEF TextTypes
    <3> HIDE DEF L, f
    <3> QED  BY <1>2, <3>1, <3>2, <3>3
  <2>2. CASE MaccAsk
    <3> DEFINE gs == [frames EXCEPT ![Len(frames)] = Asked]
    <3>1. /\ Bare \in Line /\ Bare.k \in {"if", "elif"} /\ ~Asking(Bare) /\ Asked \in Calls
          /\ Enters(gs, Append(mbuf, Bare))
      BY <2>2, AskTypes
    <3> HIDE DEF gs
    <3>2. mbuf' = Append(mbuf, Bare)
      BY <3>1 DEF Enters
    <3>3. frames' = Append(gs, f)
      BY <3>1, <3>2 DEF Enters
    <3>4. \A i \in 2..L : LineBelow(Uses, Bare, c[i])
      BY <3>1 DEF LineBelow
    <3>5. /\ mbuf' \in Seq(Line) /\ Still(mbuf')
          /\ \A i \in 2..L : frames[i].name # NoName =>
               \A x \in (frames[i].mark + 1)..Len(mbuf') : LineBelow(Uses, mbuf'[x], c[i])
      <4>1. PICK new : new = mbuf'
        OBVIOUS
      <4>2. Bare.k \notin {"define", "set", "undef"}
        BY <3>1
      <4>3. /\ new \in Seq(Line) /\ Still(new)
            /\ \A i \in 2..Len(frames) : frames[i].name # NoName =>
                 \A x \in (frames[i].mark + 1)..Len(new) : LineBelow(Uses, new[x], c[i])
        BY <3>1, <3>2, <3>4, <4>1, <4>2, BelowGrows
      <4> QED  BY <4>1, <4>3
    <3>6. /\ gs \in Seq(Calls) /\ Len(gs) = L
          /\ \A i \in 1..L : gs[i] = IF i = L THEN Asked ELSE frames[i]
      BY <1>2, <3>1, InnermostCall, ExceptSeq DEF TextTypes, gs
    <3>7. /\ Asked.text = Tail(Last(frames).text) /\ Asked.name = Last(frames).name
          /\ Asked.mark = Last(frames).mark
      BY <1>2, InnermostCall DEF Asked, Calls
    <3>8. /\ \A i \in 1..(L - 1) : Advance[i] = frames[i]
          /\ Advance[L].text = Tail(Last(frames).text) /\ Advance[L].name = Last(frames).name
          /\ Advance[L].mark = Last(frames).mark
      BY <1>1, <1>2, NextLine, InnermostCall DEF Calls
    <3> HIDE DEF L, f
    <3>9. ASSUME NEW i \in 1..L
          PROVE  /\ gs[i].text = Advance[i].text /\ gs[i].name = Advance[i].name
                 /\ gs[i].mark = Advance[i].mark
      <4>1. CASE i = L
        BY <3>6, <3>7, <3>8, <4>1
      <4>2. CASE i # L
        <5>1. i \in 1..(L - 1)
          BY <1>2, <4>2
        <5> QED  BY <3>6, <3>8, <4>2, <5>1
      <4> QED  BY <4>1, <4>2
    <3> QED  BY <3>3, <3>5, <3>6, <3>9
  <2> QED  BY <2>1, <2>2
<1>6. f.text = macros[n].buf /\ f.name = n /\ f.mark = Len(mbuf') /\ f \in Calls
      /\ Still(f.text) /\ Len(mbuf') \in Nat
  <2>1. /\ n \in DOMAIN macros /\ macros[n].buf \in Seq(Line) /\ Len(mbuf') \in Nat
    BY <1>1, <1>5, LenProperties DEF TextTypes, Entries
  <2> QED  BY <1>1, <2>1 DEF Call, Calls
<1> HIDE DEF f
<1>7. /\ Len(frames') = L + 1 /\ frames'[L + 1] = f
      /\ \A i \in 1..L : /\ frames'[i].text = Advance[i].text
                         /\ frames'[i].name = frames[i].name
                         /\ frames'[i].mark = frames[i].mark
  <2>1. /\ Len(frames') = Len(callers) + 1 /\ frames'[Len(callers) + 1] = f
        /\ \A i \in 1..Len(callers) : frames'[i] = callers[i]
    BY <1>5, <1>6, AppendProperties
  <2> QED  BY <1>2, <1>5, <1>4, <2>1
<1> HIDE DEF L
<1>8. CallsStill'
  <2>1. ASSUME NEW i \in 1..(L + 1)
        PROVE  Still(frames'[i].text)
    <3>1. CASE i = L + 1
      BY <1>6, <1>7, <3>1
    <3>2. CASE i # L + 1
      <4>1. i \in 1..L
        BY <1>2, <3>2
      <4> QED  BY <1>7, <1>4, <4>1
    <3> QED  BY <3>1, <3>2
  <2> QED  BY <1>7, <2>1 DEF CallsStill
<1>9. L > 1 => n \in Below(Uses, c[L])
  <2>1. L > 1 => L \in 2..L
    BY <1>2
  <2> QED  BY <1>1, <1>2, <1>3, <1>4, <2>1 DEF LineBelow
<1>10. Uses \in [Texts -> SUBSET Texts] /\ Chain(Texts, Uses, c, L)
  BY <1>3, UsesType DEF Descends, L, Chain
<1> HIDE DEF n
<1>11. PICK d : Chain(Texts, Uses, d, L + 1) /\ d[L + 1] = n /\ \A i \in 2..L : d[i] = c[i]
  BY <1>2, <1>3, <1>9, <1>10, ChainGrows
<1> USE DEF n
<1>12. Uses' = Uses
  BY <1>1, SameUses
<1>13. ASSUME NEW i \in 2..(L + 1)
       PROVE  /\ \A x \in DOMAIN frames'[i].text : LineBelow(Uses, frames'[i].text[x], d[i])
              /\ frames'[i].name # NoName =>
                   \A x \in (frames'[i].mark + 1)..Len(mbuf') : LineBelow(Uses, mbuf'[x], d[i])
  <2>1. CASE i = L + 1
    <3>1. ASSUME NEW x \in DOMAIN f.text, f.text[x].k = "text" \/ Asking(f.text[x]),
                 f.text[x].n \in Texts
          PROVE  f.text[x].n \in Below(Uses, n)
      <4>1. Mentions(n, f.text[x].n)
        BY <1>6, <3>1 DEF Mentions
      <4>2. f.text[x].n \in Uses[n]
        BY <1>3, <3>1, <4>1 DEF Uses
      <4> QED  BY <1>3, <4>2, UsesType, BelowFirst
    <3>2. \A x \in DOMAIN f.text : LineBelow(Uses, f.text[x], n)
      BY <1>3, <3>1 DEF LineBelow
    <3>3. (f.mark + 1)..Len(mbuf') = {}
      BY <1>6
    <3> QED  BY <1>7, <1>11, <2>1, <3>2, <3>3
  <2>2. CASE i # L + 1
    <3>1. i \in 2..L /\ i \in 1..L
      BY <1>2, <2>2
    <3>2. frames[i].name # NoName =>
            \A x \in (frames[i].mark + 1)..Len(mbuf') : LineBelow(Uses, mbuf'[x], c[i])
      BY <1>5, <3>1
    <3> QED  BY <1>7, <1>4, <1>11, <3>1, <3>2
  <2> QED  BY <2>1, <2>2
<1>14. Descends(d)'
  BY <1>5, <1>7, <1>11, <1>12, <1>13 DEF Descends, Chain
<1>15. d \in [2..(L + 1) -> DOMAIN Uses]
  BY <1>3, <1>11 DEF Chain
<1> QED  BY <1>1, <1>5, <1>7, <1>8, <1>11, <1>14, <1>15 DEF L

(* A call ends, or scans again what its text became.                        *)
LEMMA DescentReturns ==
  ASSUME TextTypes, MarksInOrder, CallsStill, Still(mbuf),
         NEW c \in [2..Len(frames) -> DOMAIN Uses], Descends(c),
         MaccReturn, phase' = "macc"
  PROVE  /\ macros' = macros /\ Still(mbuf)' /\ CallsStill'
         /\ \E d \in [2..Len(frames') -> DOMAIN Uses] : Descends(d)'
<1> DEFINE L == Len(frames)
           f == Last(frames)
<1>1. /\ phase = "macc" /\ f \in Calls /\ L \in Nat \ {0} /\ f = frames[L]
      /\ Front(frames) \in Seq(Calls) /\ Len(Front(frames)) = L - 1
      /\ \A i \in 1..(L - 1) : Front(frames)[i] = frames[i]
  BY InnermostCall DEF MaccReturn, Last
<1>2. macros' = macros
  BY DEF MaccReturn
<1>3. Uses' = Uses
  BY <1>2, SameUses
<1>4. /\ \A i \in 2..L : \A x \in DOMAIN frames[i].text : LineBelow(Uses, frames[i].text[x], c[i])
      /\ \A i \in 2..L : frames[i].name # NoName =>
           \A x \in (frames[i].mark + 1)..Len(mbuf) : LineBelow(Uses, mbuf[x], c[i])
      /\ \A i, j \in 2..L : i < j => c[j] \in Below(Uses, c[i])
  BY DEF Descends
<1>5. \A i \in 1..(L - 1) : Still(frames[i].text)
  BY <1>1 DEF CallsStill
<1>6. CASE f.name = NoName
  <2>1. EndCall
    BY <1>6 DEF MaccReturn
  <2>2. L > 1 /\ frames' = Front(frames) /\ mbuf' = mbuf
    BY <1>1, <2>1 DEF EndCall
  <2>3. Len(frames') = L - 1 /\ \A i \in 1..(L - 1) : frames'[i] = frames[i]
    BY <1>1, <2>2
  <2>4. Still(mbuf)' /\ CallsStill'
    BY <1>5, <2>2, <2>3 DEF CallsStill
  <2>5. PICK d : d = [i \in 2..(L - 1) |-> c[i]]
    OBVIOUS
  <2> HIDE DEF L, f
  <2>6. /\ d \in [2..(L - 1) -> DOMAIN Uses]
        /\ \A i \in 2..(L - 1) : d[i] = c[i] /\ i \in 2..L /\ i \in 1..(L - 1)
    <3>1. \A i \in 2..(L - 1) : i \in 2..L /\ i \in 1..(L - 1)
      BY <1>1
    <3>2. c \in [2..L -> DOMAIN Uses]
      BY DEF L
    <3> QED  BY <2>5, <3>1, <3>2
  <2>7. ASSUME NEW i \in 2..(L - 1)
        PROVE  /\ \A x \in DOMAIN frames'[i].text : LineBelow(Uses, frames'[i].text[x], d[i])
               /\ frames'[i].name # NoName =>
                    \A x \in (frames'[i].mark + 1)..Len(mbuf) : LineBelow(Uses, mbuf[x], d[i])
    BY <1>4, <2>3, <2>6
  <2>8. \A i, j \in 2..(L - 1) : i < j => d[j] \in Below(Uses, d[i])
    BY <1>4, <2>6
  <2>9. Descends(d)'
    BY <1>3, <2>2, <2>3, <2>7, <2>8 DEF Descends
  <2> QED  BY <1>2, <2>3, <2>4, <2>6, <2>9
<1>7. CASE f.name # NoName
  <2> DEFINE s == SubSeq(mbuf, f.mark + 1, Len(mbuf))
             e == Call(s, NoName, f.mark)
  <2>1. frames' = Append(Front(frames), e) /\ mbuf' = SubSeq(mbuf, 1, f.mark)
    BY <1>7 DEF MaccReturn
  <2>2. PICK m \in Nat : m = f.mark /\ m <= Len(mbuf)
    <3>1. L \in DOMAIN frames /\ f.at = 0
      BY <1>1, LenProperties DEF TextTypes, MaccReturn
    <3> QED  BY <1>1, <3>1 DEF MarksInOrder, InOrder, Reached, Calls
  <2>3. PICK k \in Nat : k = Len(mbuf)
    BY LenProperties DEF TextTypes
  <2>4. mbuf \in Seq(Line) /\ DOMAIN mbuf = 1..k /\ m <= k
    BY <2>2, <2>3, LenProperties DEF TextTypes
  <2>5. \A x \in 1..k : mbuf[x] \in Line
    BY <2>3, <2>4, ElementOfSeq
  <2>6. /\ s \in Seq(Line) /\ DOMAIN s = 1..(k - m)
        /\ \A x \in 1..(k - m) : s[x] = mbuf[m + x]
    <3>1. m + 1 \in Int /\ k \in Int /\ \A x \in (m + 1)..k : mbuf[x] \in Line
      BY <2>5
    <3>2. /\ SubSeq(mbuf, m + 1, k) \in Seq(Line)
          /\ Len(SubSeq(mbuf, m + 1, k)) = IF m + 1 <= k THEN k - (m + 1) + 1 ELSE 0
          /\ \A x \in 1..(k - (m + 1) + 1) : SubSeq(mbuf, m + 1, k)[x] = mbuf[(m + 1) + x - 1]
      BY <3>1, SubSeqProperties
    <3>3. s = SubSeq(mbuf, m + 1, k)
      BY <2>2, <2>3
    <3> HIDE DEF s
    <3>4. Len(s) = k - m
      BY <2>4, <3>2, <3>3
    <3>5. \A x \in 1..(k - m) : x \in 1..(k - (m + 1) + 1) /\ (m + 1) + x - 1 = m + x
      OBVIOUS
    <3>6. \A x \in 1..(k - m) : s[x] = mbuf[m + x]
      BY <3>2, <3>3, <3>5
    <3>7. s \in Seq(Line) /\ DOMAIN s = 1..Len(s)
      BY <3>2, <3>3, LenProperties
    <3> QED  BY <3>4, <3>6, <3>7
  <2>7. /\ mbuf' \in Seq(Line) /\ DOMAIN mbuf' = 1..m /\ Len(mbuf') = m
        /\ \A x \in 1..m : mbuf'[x] = mbuf[x]
    <3>1. 1 \in Int /\ m \in Int /\ \A x \in 1..m : mbuf[x] \in Line
      BY <2>4, <2>5
    <3>2. /\ SubSeq(mbuf, 1, m) \in Seq(Line)
          /\ Len(SubSeq(mbuf, 1, m)) = IF 1 <= m THEN m - 1 + 1 ELSE 0
          /\ \A x \in 1..(m - 1 + 1) : SubSeq(mbuf, 1, m)[x] = mbuf[1 + x - 1]
      BY <3>1, SubSeqProperties
    <3>3. mbuf' = SubSeq(mbuf, 1, m)
      BY <2>1, <2>2
    <3>4. Len(mbuf') = m /\ mbuf' \in Seq(Line)
      BY <3>2, <3>3
    <3>5. \A x \in 1..m : x \in 1..(m - 1 + 1) /\ 1 + x - 1 = x
      OBVIOUS
    <3>6. \A x \in 1..m : mbuf'[x] = mbuf[x]
      BY <3>2, <3>3, <3>5
    <3> QED  BY <3>4, <3>6, LenProperties
  <2>8. Still(mbuf)' /\ Still(s)
    <3>1. \A x \in 1..k : mbuf[x].k \notin {"define", "set", "undef"}
      BY <2>4 DEF Still
    <3>2. \A x \in 1..m : x \in 1..k
      BY <2>4
    <3>3. \A x \in 1..(k - m) : m + x \in 1..k
      OBVIOUS
    <3>4. Still(mbuf)'
      BY <2>7, <3>1, <3>2 DEF Still
    <3> HIDE DEF s
    <3> QED  BY <2>6, <3>1, <3>3, <3>4 DEF Still
  <2>9. e \in Calls /\ e.text = s /\ e.name = NoName
    BY <2>2, <2>6 DEF Call, Calls
  <2> HIDE DEF s, e
  <2>10. /\ Len(frames') = L /\ frames'[L] = e
         /\ \A i \in 1..(L - 1) : frames'[i] = frames[i]
    BY <1>1, <2>1, <2>9, AppendProperties
  <2> HIDE DEF L, f
  <2>11. CallsStill'
    <3>1. ASSUME NEW i \in 1..L
          PROVE  Still(frames'[i].text)
      <4>1. CASE i = L
        BY <2>8, <2>9, <2>10, <4>1
      <4>2. CASE i # L
        <5>1. i \in 1..(L - 1)
          BY <1>1, <4>2
        <5> QED  BY <1>5, <2>10, <5>1
      <4> QED  BY <4>1, <4>2
    <3> QED  BY <2>10, <3>1 DEF CallsStill
  <2>12. ASSUME NEW i \in 2..L
         PROVE  /\ \A x \in DOMAIN frames'[i].text : LineBelow(Uses, frames'[i].text[x], c[i])
                /\ frames'[i].name # NoName =>
                     \A x \in (frames'[i].mark + 1)..m : LineBelow(Uses, mbuf'[x], c[i])
    <3>1. CASE i = L
      <4>1. \A x \in (m + 1)..k : LineBelow(Uses, mbuf[x], c[i])
        BY <1>1, <1>4, <1>7, <2>2, <2>3, <3>1
      <4>2. \A x \in 1..(k - m) : m + x \in (m + 1)..k
        OBVIOUS
      <4>3. \A x \in DOMAIN s : LineBelow(Uses, s[x], c[i])
        BY <2>6, <4>1, <4>2
      <4> QED  BY <2>9, <2>10, <3>1, <4>3
    <3>2. CASE i # L
      <4>1. i \in 1..(L - 1) /\ i \in 1..Len(frames)
        BY <1>1, <3>2 DEF L
      <4>2. frames'[i] = frames[i] /\ frames[i].mark \in Nat
        BY <2>10, <4>1, EachCall
      <4>3. \A x \in (frames[i].mark + 1)..m : x \in (frames[i].mark + 1)..Len(mbuf) /\ x \in 1..m
        BY <2>3, <2>4, <4>2
      <4> QED  BY <1>4, <2>7, <4>2, <4>3
    <3> QED  BY <3>1, <3>2
  <2>13. Descends(c)'
    BY <1>3, <1>4, <2>7, <2>10, <2>12 DEF Descends
  <2> QED  BY <1>2, <2>8, <2>10, <2>11, <2>13 DEF L
<1> QED  BY <1>6, <1>7

(* The #if whose argument was asked for gets it.                            *)
LEMMA DescentAnswers ==
  ASSUME TextTypes, MarksInOrder, CallsStill, Still(mbuf),
         NEW c \in [2..Len(frames) -> DOMAIN Uses], Descends(c), MaccAnswer
  PROVE  /\ phase' = "macc" /\ macros' = macros /\ Still(mbuf') /\ CallsStill'
         /\ c \in [2..Len(frames') -> DOMAIN Uses'] /\ Descends(c)'
<1> DEFINE L == Len(frames)
           before == SubSeq(mbuf, 1, Last(frames).at - 1)
           ls == SubSeq(mbuf, Last(frames).at + 1, Len(mbuf))
           e == [Last(frames) EXCEPT !.at = 0]
<1>1. /\ Last(frames).at \in 1..Len(mbuf) /\ Last(frames).mark < Last(frames).at
      /\ mbuf[Last(frames).at] \in Line /\ mbuf[Last(frames).at].k \in {"if", "elif"}
      /\ e \in Calls /\ frames' = [frames EXCEPT ![L] = e]
      /\ before \in Seq(Line) /\ Len(before) = Last(frames).at - 1
      /\ \A x \in 1..(Last(frames).at - 1) : before[x] = mbuf[x]
      /\ ls \in Seq(Line) /\ Len(ls) = Len(mbuf) - Last(frames).at
      /\ \A x \in 1..Len(ls) : ls[x] = mbuf[Last(frames).at + x]
      /\ mbuf' = before \o Answer(mbuf[Last(frames).at], ls)
  BY AnswerTypes
<1>2. phase = "macc" /\ phase' = "macc" /\ macros' = macros
  BY DEF MaccAnswer
<1>3. /\ L \in 1..StackLimit /\ Last(frames) \in Calls /\ Last(frames) = frames[L]
      /\ frames \in Seq(Calls) /\ mbuf \in Seq(Line)
  BY <1>2, InnermostCall DEF TextTypes, Last
<1>4. /\ e.text = frames[L].text /\ e.name = frames[L].name /\ e.mark = frames[L].mark
  BY <1>3 DEF Calls
<1> HIDE DEF before, ls, e
<1>5. PICK p \in Nat, m \in Nat, k \in Nat :
        p = Last(frames).at - 1 /\ m = Last(frames).mark /\ k = Len(mbuf)
  BY <1>1, <1>3, LenProperties DEF Calls
<1>6. /\ Last(frames).at = p + 1 /\ p + 1 <= k /\ m <= p
      /\ Len(before) = p /\ \A x \in 1..p : before[x] = mbuf[x]
      /\ Len(ls) = k - (p + 1) /\ \A x \in 1..(k - (p + 1)) : ls[x] = mbuf[p + 1 + x]
  <2>1. Last(frames).at = p + 1 /\ p + 1 <= k /\ m <= p
    BY <1>1, <1>5
  <2>2. Len(before) = p /\ \A x \in 1..p : before[x] = mbuf[x]
    BY <1>1, <1>5
  <2>3. Len(ls) = k - (p + 1) /\ \A x \in 1..Len(ls) : ls[x] = mbuf[p + 1 + x]
    BY <1>1, <1>5, <2>1
  <2> QED  BY <2>1, <2>2, <2>3
<1>7. PICK l \in Line : l = mbuf[p + 1] /\ l.k \in {"if", "elif"}
  BY <1>1, <1>6
(* From where each line of the new argument comes.                          *)
<1>8. PICK a \in Line, rest \in Seq(Line) :
        /\ Answer(l, ls) = <<a>> \o rest /\ a.k \in {"if", "elif"}
        /\ \/ a = l
           \/ \E y \in (p + 2)..k : mbuf[y].k = "text" /\ a.n = mbuf[y].n
        /\ \A x \in 1..Len(rest) : \E y \in (p + 2)..k : rest[x] = mbuf[y]
  <2>1. PICK a \in Line, rest \in Seq(Line) :
          /\ Answer(l, ls) = <<a>> \o rest /\ a.k = l.k
          /\ \/ a = l /\ rest = ls
             \/ ls # <<>> /\ Head(ls).k = "text" /\ a.n = Head(ls).n /\ rest = Tail(ls)
    <3>1. l.k \in {"if", "elif"} /\ ls \in Seq(Line)
      BY <1>1, <1>7
    <3> QED  BY <3>1, AnswerLines
  <2>2. ASSUME NEW x \in 1..Len(ls)
        PROVE  p + 1 + x \in (p + 2)..k /\ ls[x] = mbuf[p + 1 + x]
    <3>1. x \in 1..(k - (p + 1))
      BY <1>6
    <3> QED  BY <1>6, <3>1
  <2>3. CASE a = l /\ rest = ls
    BY <1>7, <2>1, <2>2, <2>3
  <2>4. CASE ls # <<>> /\ Head(ls).k = "text" /\ a.n = Head(ls).n /\ rest = Tail(ls)
    <3>1. /\ 1 \in DOMAIN ls /\ Head(ls) = ls[1]
          /\ \A x \in DOMAIN rest : x + 1 \in DOMAIN ls /\ rest[x] = ls[x + 1]
      BY <1>1, <2>4, TailLines
    <3>2. DOMAIN ls = 1..Len(ls) /\ DOMAIN rest = 1..Len(rest)
      BY <1>1, LenProperties
    <3>3. \E y \in (p + 2)..k : mbuf[y].k = "text" /\ a.n = mbuf[y].n
      BY <2>2, <2>4, <3>1, <3>2
    <3>4. \A x \in 1..Len(rest) : x + 1 \in 1..Len(ls) /\ rest[x] = ls[x + 1]
      BY <3>1, <3>2
    <3>5. \A x \in 1..Len(rest) : \E y \in (p + 2)..k : rest[x] = mbuf[y]
      BY <2>2, <3>4
    <3> QED  BY <1>7, <2>1, <3>3, <3>5
  <2> QED  BY <2>1, <2>3, <2>4
<1>9. /\ mbuf' \in Seq(Line) /\ DOMAIN mbuf' = 1..Len(mbuf') /\ Len(mbuf') \in Nat
      /\ \A x \in 1..Len(mbuf') :
           \/ x \in 1..p /\ mbuf'[x] = mbuf[x]
           \/ x = p + 1 /\ mbuf'[x] = a
           \/ x > p + 1 /\ \E y \in (p + 2)..k : mbuf'[x] = mbuf[y]
  <2>1. PICK r \in Nat : r = Len(rest)
    BY LenProperties
  <2>2. PICK t \in Seq(Line) : t = <<a>> \o rest
    <3>1. <<a>> \in Seq(Line)
      OBVIOUS
    <3> QED  BY <3>1, ConcatProperties
  <2>3. /\ Len(t) = r + 1 /\ t[1] = a /\ \A x \in 1..r : t[x + 1] = rest[x]
    <3>1. <<a>> \in Seq(Line) /\ Len(<<a>>) = 1 /\ <<a>>[1] = a
      OBVIOUS
    <3>2. PICK u \in Seq(Line) : u = <<a>> /\ Len(u) = 1 /\ u[1] = a
      BY <3>1
    <3>3. /\ Len(u \o rest) = 1 + r
          /\ \A x \in 1..(1 + r) : (u \o rest)[x] = IF x <= 1 THEN u[x] ELSE rest[x - 1]
      BY <2>1, <3>2, ConcatProperties
    <3>4. \A x \in 1..r : x + 1 \in 1..(1 + r) /\ (x + 1) - 1 = x /\ ~(x + 1 <= 1)
      OBVIOUS
    <3> QED  BY <2>2, <3>2, <3>3, <3>4
  <2>4. mbuf' = before \o t /\ before \in Seq(Line)
    BY <1>1, <1>6, <1>7, <1>8, <2>2
  <2>5. /\ mbuf' \in Seq(Line) /\ Len(mbuf') = p + (r + 1)
        /\ \A x \in 1..(p + (r + 1)) : mbuf'[x] = IF x <= p THEN before[x] ELSE t[x - p]
    <3>1. PICK b \in Seq(Line) : b = before /\ Len(b) = p
      BY <1>6, <2>4
    <3>2. PICK q \in Nat : q = r + 1 /\ Len(t) = q
      BY <2>3
    <3>3. /\ b \o t \in Seq(Line) /\ Len(b \o t) = p + q
          /\ \A x \in 1..(p + q) : (b \o t)[x] = IF x <= p THEN b[x] ELSE t[x - p]
      <4>1. Len(b) = p
        BY <3>1
      <4>2. Len(t) = q
        BY <3>2
      <4> QED  BY <4>1, <4>2, ConcatProperties
    <3> QED  BY <2>4, <3>1, <3>2, <3>3
  <2>6. ASSUME NEW x \in 1..(p + (r + 1))
        PROVE  \/ x \in 1..p /\ mbuf'[x] = mbuf[x]
               \/ x = p + 1 /\ mbuf'[x] = a
               \/ x > p + 1 /\ \E y \in (p + 2)..k : mbuf'[x] = mbuf[y]
    <3>1. CASE x <= p
      BY <1>6, <2>5, <3>1
    <3>2. CASE x = p + 1
      BY <2>3, <2>5, <3>2
    <3>3. CASE x > p + 1
      <4>1. PICK z \in 1..r : z = x - p - 1
        BY <3>3
      <4>2. x - p = z + 1 /\ ~(x <= p)
        BY <3>3, <4>1
      <4>3. mbuf'[x] = t[z + 1] /\ t[z + 1] = rest[z]
        BY <2>3, <2>5, <4>2
      <4>4. \E y \in (p + 2)..k : rest[z] = mbuf[y]
        BY <1>8, <2>1
      <4> QED  BY <3>3, <4>3, <4>4
    <3> QED  BY <3>1, <3>2, <3>3
  <2> QED  BY <2>5, <2>6, LenProperties
<1>10. \A y \in 1..k : mbuf[y].k \notin {"define", "set", "undef"}
  BY <1>3, <1>5, LenProperties DEF Still
<1>11. Still(mbuf')
  <2>1. ASSUME NEW x \in 1..Len(mbuf')
        PROVE  mbuf'[x].k \notin {"define", "set", "undef"}
    <3>1. CASE x = p + 1 /\ mbuf'[x] = a
      BY <1>8, <3>1
    <3>2. CASE x \in 1..p /\ mbuf'[x] = mbuf[x]
      BY <1>6, <1>10, <3>2
    <3>3. CASE \E y \in (p + 2)..k : mbuf'[x] = mbuf[y]
      BY <1>6, <1>10, <3>3
    <3> QED  BY <1>9, <3>1, <3>2, <3>3
  <2> QED  BY <1>9, <2>1 DEF Still
<1>12. /\ Len(frames') = L
       /\ \A i \in 1..L : /\ frames'[i].text = frames[i].text /\ frames'[i].name = frames[i].name
                          /\ frames'[i].mark = frames[i].mark
  <2>1. /\ Len(frames') = L /\ \A i \in 1..L : frames'[i] = IF i = L THEN e ELSE frames[i]
    BY <1>1, <1>3, ExceptSeq
  <2> QED  BY <1>4, <2>1
<1> HIDE DEF L
<1>13. CallsStill'
  BY <1>12 DEF CallsStill, L
<1>14. ASSUME NEW i \in 2..L, frames[i].name # NoName,
              NEW x \in (frames[i].mark + 1)..Len(mbuf')
       PROVE  LineBelow(Uses, mbuf'[x], c[i])
  <2>1. frames[i].mark \in Nat /\ frames[i].mark <= p
    <3>1. i \in 1..Len(frames) /\ L \in 1..Len(frames) /\ L \in DOMAIN frames
      BY <1>3, LenProperties DEF L
    <3>2. frames[i].mark \in Nat /\ frames[L].mark = m
      BY <1>3, <1>5, <3>1, EachCall
    <3>3. CASE i = L
      BY <1>6, <3>2, <3>3
    <3>4. CASE i # L
      <4>1. i \in 1..(L - 1) /\ i \in DOMAIN frames
        BY <1>3, <3>1, <3>4, LenProperties
      <4>2. Reached(frames[i]) <= frames[L].mark
        BY <1>2, <3>1, <4>1 DEF MarksInOrder, InOrder
      <4>3. frames[i].at # 0 => frames[i].mark < frames[i].at
        BY <1>2, <4>1 DEF MarksInOrder, InOrder
      <4>4. frames[i].at \in Nat
        BY <3>1, EachCall DEF Calls
      <4>5. frames[i].mark <= frames[L].mark
        <5>1. PICK x1 \in Nat, x2 \in Nat, x3 \in Nat :
                x1 = frames[i].mark /\ x2 = frames[i].at /\ x3 = frames[L].mark
          BY <3>2, <4>4
        <5>2. (IF x2 = 0 THEN x1 ELSE x2) <= x3 /\ (x2 # 0 => x1 < x2)
          BY <4>2, <4>3, <5>1 DEF Reached
        <5> QED  BY <5>1, <5>2
      <4> QED  BY <1>6, <3>2, <4>5
    <3> QED  BY <3>3, <3>4
  <2>2. \A y \in (frames[i].mark + 1)..k : LineBelow(Uses, mbuf[y], c[i])
    BY <1>5, <1>14 DEF Descends, L
  <2>3. \A y \in (p + 1)..k : LineBelow(Uses, mbuf[y], c[i])
    BY <2>1, <2>2
  <2>4. LineBelow(Uses, a, c[i])
    <3>1. CASE a = l
      BY <1>6, <1>7, <2>3, <3>1
    <3>2. CASE \E y \in (p + 2)..k : mbuf[y].k = "text" /\ a.n = mbuf[y].n
      <4>1. PICK y \in (p + 2)..k : mbuf[y].k = "text" /\ a.n = mbuf[y].n
        BY <3>2
      <4>2. LineBelow(Uses, mbuf[y], c[i])
        BY <2>3
      <4> QED  BY <4>1, <4>2 DEF LineBelow
    <3> QED  BY <1>8, <3>1, <3>2
  <2>5. x \in 1..Len(mbuf')
    BY <1>9, <2>1
  <2>6. CASE x \in 1..p /\ mbuf'[x] = mbuf[x]
    <3>1. x \in (frames[i].mark + 1)..k
      BY <1>6, <2>1, <2>6
    <3> QED  BY <2>2, <2>6, <3>1
  <2>7. CASE x = p + 1 /\ mbuf'[x] = a
    BY <2>4, <2>7
  <2>8. CASE \E y \in (p + 2)..k : mbuf'[x] = mbuf[y]
    BY <2>3, <2>8
  <2> QED  BY <1>9, <2>5, <2>6, <2>7, <2>8
<1>15. Uses' = Uses
  BY <1>2, SameUses
<1>16. /\ \A i \in 2..L : \A x \in DOMAIN frames[i].text : LineBelow(Uses, frames[i].text[x], c[i])
       /\ \A i, j \in 2..L : i < j => c[j] \in Below(Uses, c[i])
       /\ \A i \in 2..L : i \in 1..L
  BY DEF Descends, L
<1>17. Descends(c)'
  BY <1>12, <1>14, <1>15, <1>16 DEF Descends
<1> QED  BY <1>2, <1>11, <1>12, <1>13, <1>15, <1>17 DEF L

(* MM_Macc.                                                                 *)
LEMMA DescentMacc ==
  ASSUME TextTypes, MarksInOrder, DescentInvariant, Macc
  PROVE  DescentInvariant'
<1>1. SUFFICES ASSUME NamesFixed(files)
               PROVE  DescentInvariant'
  BY DEF DescentInvariant, Macc, MaccText, MaccExpand, MaccAsk, MaccAnswer, MaccReturn,
         MaccDefine, MaccUndef, MaccCopy
<1>2. phase = "macc"
  BY DEF Macc, MaccText, MaccExpand, MaccAsk, MaccAnswer, MaccReturn, MaccDefine, MaccUndef,
         MaccCopy, Scans
<1>3. /\ \A n \in DOMAIN macros : Still(macros[n].buf)
      /\ Still(mbuf) /\ CallsStill
  BY <1>1, <1>2 DEF DescentInvariant
<1>4. PICK c \in [2..Len(frames) -> DOMAIN Uses] : Descends(c)
  BY <1>1, <1>2 DEF DescentInvariant
<1>5. CASE MaccText \/ MaccCopy
  BY <1>3, <1>4, <1>5, DescentWrites DEF DescentInvariant
<1>6. CASE MaccDefine \/ MaccUndef
  BY <1>3, <1>4, <1>6, DescentDefines DEF DescentInvariant, Still
<1>7. CASE MaccExpand \/ MaccAsk
  <2>1. macros' = macros /\ Uses' = Uses
    BY <1>7, SameUses DEF MaccExpand, MaccAsk
  <2>2. CASE phase' = "exit"
    BY <1>3, <2>1, <2>2 DEF DescentInvariant
  <2>3. CASE phase' # "exit"
    <3>1. /\ Still(mbuf') /\ CallsStill'
          /\ \E d \in [2..Len(frames') -> DOMAIN Uses'] : Descends(d)'
      BY <1>3, <1>4, <1>7, <2>1, <2>3, DescentCalls
    <3> QED  BY <1>3, <2>1, <3>1 DEF DescentInvariant, Still
  <2> QED  BY <2>2, <2>3
<1>8. CASE MaccAnswer
  BY <1>3, <1>4, <1>8, DescentAnswers DEF DescentInvariant, Still
<1>9. CASE MaccReturn
  <2>1. macros' = macros /\ Uses' = Uses
    BY <1>9, SameUses DEF MaccReturn
  <2>2. CASE phase' = "macc"
    <3>1. /\ Still(mbuf)' /\ CallsStill'
          /\ \E d \in [2..Len(frames') -> DOMAIN Uses'] : Descends(d)'
      BY <1>3, <1>4, <1>9, <2>1, <2>2, DescentReturns
    <3> QED  BY <1>3, <2>1, <3>1 DEF DescentInvariant
  <2>3. CASE phase' # "macc"
    BY <1>3, <2>1, <2>3 DEF DescentInvariant
  <2> QED  BY <2>2, <2>3
<1> QED  BY <1>5, <1>6, <1>7, <1>8, <1>9 DEF Macc

LEMMA RestLines ==
  ASSUME InputTypes, phase = "read"
  PROVE  /\ Last(inclStk).lin \in Nat
         /\ \A i \in 1..Len(Rest) : /\ Last(inclStk).lin + i \in 1..Len(Input)
                                    /\ Rest[i] = Input[Last(inclStk).lin + i]
<1>1. /\ Len(inclStk) \in 1..Len(inclStk)
      /\ inclStk[Len(inclStk)] \in [file : FileNames, lin : Nat]
      /\ Input \in Seq(Line)
  BY RestOfFile
<1>2. PICK k \in Nat : k = Last(inclStk).lin
  BY <1>1 DEF Last
<1>3. PICK n \in Nat : n = Len(Input)
  BY <1>1, LenProperties
<1>4. \A i \in (k + 1)..n : Input[i] \in Line
  BY <1>1, <1>3, ElementOfSeq
<1> DEFINE s == SubSeq(Input, k + 1, n)
<1>5. /\ Len(s) = IF k + 1 <= n THEN n - (k + 1) + 1 ELSE 0
      /\ \A i \in 1..(n - (k + 1) + 1) : s[i] = Input[(k + 1) + i - 1]
  BY <1>4, SubSeqProperties
<1>6. Rest = s
  BY <1>2, <1>3 DEF Rest
<1> HIDE DEF s
<1>7. ASSUME NEW i \in 1..Len(s)
      PROVE  k + i \in 1..n /\ s[i] = Input[k + i]
  <2>1. i \in 1..(n - (k + 1) + 1) /\ (k + 1) + i - 1 = k + i /\ k + i \in 1..n
    BY <1>5
  <2> QED  BY <1>5, <2>1
<1> QED  BY <1>2, <1>3, <1>6, <1>7

(* The line that ends a macro, or the one after the last.                   *)
LEMMA MacroStop ==
  ASSUME NEW rest \in Seq(Line), rest # <<>>,
         NEW ends, ends = {i \in DOMAIN rest : rest[i].k = "endmacro"}
  PROVE  \E stop \in Nat :
           /\ stop = (IF ends = {} THEN Len(rest) + 1 ELSE Min(ends))
           /\ stop \in 1..(Len(rest) + 1)
           /\ \A y \in 1..Len(rest) : y < stop => rest[y].k # "endmacro"
           /\ ends # {} => stop \in 1..Len(rest) /\ rest[stop].k = "endmacro"
<1>1. DOMAIN rest = 1..Len(rest)
  BY LenProperties
<1>2. PICK n \in Nat : n = Len(rest)
  BY LenProperties
<1>3. CASE ends = {}
  BY <1>1, <1>2, <1>3
<1>4. CASE ends # {}
  <2>1. ends \in SUBSET Nat
    BY <1>1
  <2>2. Min(ends) \in ends /\ Min(ends) \in 1..n
    BY <1>2, <1>4, MacroEndType
  <2>3. PICK e \in Nat : e = Min(ends)
    BY <2>1, <2>2
  <2>4. e \in ends /\ e \in 1..n /\ \A y \in ends : e <= y
    BY <1>4, <2>1, <2>2, <2>3, LeastOfNats
  <2>5. \A y \in 1..n : y < e => y \notin ends
    BY <2>4
  <2>6. e \in 1..(n + 1) /\ rest[e].k = "endmacro"
    BY <1>1, <2>4
  <2>7. \A y \in 1..n : y < e => rest[y].k # "endmacro"
    BY <1>1, <1>2, <2>5
  <2>8. e = (IF ends = {} THEN Len(rest) + 1 ELSE Min(ends))
    BY <1>4, <2>3
  <2> QED  BY <1>2, <2>4, <2>6, <2>7, <2>8
<1> QED  BY <1>3, <1>4

(* The lines that M_Macro reads up to there.                                *)
LEMMA MacroLines ==
  ASSUME NEW rest \in Seq(Line), NEW stop \in Nat, stop \in 1..(Len(rest) + 1)
  PROVE  /\ SubSeq(rest, 2, stop - 1) \in Seq(Line)
         /\ \A x \in DOMAIN SubSeq(rest, 2, stop - 1) :
              \E y \in Nat : /\ y = x + 1 /\ y \in 1..Len(rest) /\ y > 1 /\ y < stop
                             /\ SubSeq(rest, 2, stop - 1)[x] = rest[y]
<1>1. PICK n \in Nat : n = Len(rest)
  BY LenProperties
<1>2. PICK f \in Nat : f = stop - 1 /\ f <= n
  BY <1>1
<1>3. 2 \in Int /\ f \in Int /\ \A y \in 2..f : rest[y] \in Line
  <2>1. \A y \in 2..f : y \in 1..Len(rest)
    BY <1>1, <1>2
  <2> QED  BY <2>1, ElementOfSeq
<1> DEFINE s == SubSeq(rest, 2, f)
<1>4. /\ s \in Seq(Line) /\ Len(s) = IF 2 <= f THEN f - 2 + 1 ELSE 0
      /\ \A x \in 1..(f - 2 + 1) : s[x] = rest[2 + x - 1]
  BY <1>3, SubSeqProperties
<1>5. s = SubSeq(rest, 2, stop - 1)
  BY <1>2
<1> HIDE DEF s
<1>6. DOMAIN s = 1..Len(s)
  BY <1>4, LenProperties
<1>7. ASSUME NEW x \in DOMAIN s
      PROVE  \E y \in Nat : /\ y = x + 1 /\ y \in 1..n /\ y > 1 /\ y < stop
                            /\ s[x] = rest[y]
  <2>1. x \in 1..(f - 2 + 1)
    BY <1>4, <1>6
  <2>2. x \in Nat /\ x > 0 /\ x + 1 <= f /\ 2 + x - 1 = x + 1
    BY <2>1
  <2>3. s[x] = rest[x + 1]
    BY <1>4, <2>1, <2>2
  <2>4. x + 1 \in 1..n /\ x + 1 < stop /\ x + 1 > 1 /\ x + 1 \in Nat
    BY <1>2, <2>2
  <2> QED  BY <2>3, <2>4
<1> QED  BY <1>1, <1>4, <1>5, <1>7

(* The lines of a macro between its marks.                                  *)
LEMMA BodyLines ==
  ASSUME NEW ls \in Seq(Line), NEW n \in Nat, n = Len(ls)
  PROVE  /\ Len(Body(ls)) = n + 2 /\ Body(ls)[1].k = "S" /\ Body(ls)[n + 2].k = "E"
         /\ \A i \in 1..n : Body(ls)[i + 1] = ls[i]
<1> DEFINE s == <<Mark("S")>>
           e == <<Mark("E")>>
<1>1. /\ s \in Seq(Line) /\ Len(s) = 1 /\ s[1].k = "S"
      /\ e \in Seq(Line) /\ Len(e) = 1 /\ e[1].k = "E"
  BY MarkType DEF Kinds, Mark
<1> HIDE DEF s, e
<1>2. /\ s \o ls \in Seq(Line) /\ Len(s \o ls) = n + 1
      /\ \A i \in 1..(n + 1) : (s \o ls)[i] = IF i <= 1 THEN s[i] ELSE ls[i - 1]
  <2>1. /\ s \o ls \in Seq(Line) /\ Len(s \o ls) = Len(s) + Len(ls)
        /\ \A i \in 1..(Len(s) + Len(ls)) :
             (s \o ls)[i] = IF i <= Len(s) THEN s[i] ELSE ls[i - Len(s)]
    BY <1>1, ConcatProperties
  <2>2. Len(s) = 1 /\ Len(ls) = n /\ 1 + n = n + 1
    BY <1>1
  <2> QED  BY <2>1, <2>2
<1>3. /\ Len((s \o ls) \o e) = n + 2
      /\ \A i \in 1..(n + 2) : ((s \o ls) \o e)[i] =
           IF i <= n + 1 THEN (s \o ls)[i] ELSE e[i - (n + 1)]
  <2> DEFINE a == s \o ls
  <2>1. a \in Seq(Line) /\ Len(a) = n + 1
    BY <1>2
  <2> HIDE DEF a
  <2>2. /\ Len(a \o e) = Len(a) + Len(e)
        /\ \A i \in 1..(Len(a) + Len(e)) :
             (a \o e)[i] = IF i <= Len(a) THEN a[i] ELSE e[i - Len(a)]
    BY <1>1, <2>1, ConcatProperties
  <2>3. Len(a) + Len(e) = n + 2
    BY <1>1, <2>1
  <2>4. /\ Len(a \o e) = n + 2
        /\ \A i \in 1..(n + 2) : (a \o e)[i] = IF i <= n + 1 THEN a[i] ELSE e[i - (n + 1)]
    BY <2>1, <2>2, <2>3
  <2> QED  BY <2>4 DEF a
<1> DEFINE b == Body(ls)
<1>4. b = (s \o ls) \o e
  BY DEF Body, s, e
<1> HIDE DEF b
<1>5. b[1] = s[1] /\ b[n + 2] = e[1]
  BY <1>2, <1>3, <1>4
<1>6. ASSUME NEW i \in 1..n
      PROVE  b[i + 1] = ls[i]
  <2>1. i + 1 \in 1..(n + 2) /\ i + 1 \in 1..(n + 1)
    OBVIOUS
  <2> QED  BY <1>2, <1>3, <1>4, <2>1
<1> QED  BY <1>1, <1>3, <1>4, <1>5, <1>6 DEF b

LEMMA BodyStill ==
  ASSUME NEW ls \in Seq(Line), Still(ls)
  PROVE  Still(Body(ls))
<1>1. PICK n \in Nat : n = Len(ls)
  BY LenProperties
<1> DEFINE b == Body(ls)
<1>2. /\ Len(b) = n + 2 /\ b[1].k = "S" /\ b[n + 2].k = "E"
      /\ \A i \in 1..n : b[i + 1] = ls[i]
  BY <1>1, BodyLines
<1>3. DOMAIN ls = 1..n /\ DOMAIN b = 1..(n + 2)
  BY <1>1, <1>2, BodyType, LenProperties
<1> HIDE DEF b
<1>4. ASSUME NEW y \in 1..(n + 2)
      PROVE  b[y].k \notin {"define", "set", "undef"}
  <2>1. CASE y \in {1, n + 2}
    BY <1>2, <2>1
  <2>2. CASE y \notin {1, n + 2}
    <3>1. PICK x \in 1..n : y = x + 1
      <4>1. y - 1 \in 1..n /\ y = (y - 1) + 1
        BY <2>2
      <4> QED  BY <4>1
    <3> QED  BY <1>2, <1>3, <3>1 DEF Still
  <2> QED  BY <2>1, <2>2
<1> QED  BY <1>3, <1>4 DEF Still, b

(* A faulty body is one of the file; a macro that is not defines no name.   *)
LEMMA BodyOfFile ==
  ASSUME InputTypes, phase = "read", Rest # <<>>, Head(Rest).k = "macro",
         NEW stop \in Nat, stop \in 1..(Len(Rest) + 1),
         \A y \in 1..Len(Rest) : y < stop => Rest[y].k # "endmacro",
         NEW ls \in Seq(Line),
         \A x \in DOMAIN ls :
           \E y \in Nat : /\ y = x + 1 /\ y \in 1..Len(Rest) /\ y > 1 /\ y < stop
                          /\ ls[x] = Rest[y]
  PROVE  /\ (\E x \in DOMAIN ls : ls[x].k \in {"undef", "macro"}) => FaultyBody(files)
         /\ /\ ~(\E x \in DOMAIN ls : ls[x].k \in {"undef", "macro"})
            /\ stop \in 1..Len(Rest) /\ Rest[stop].k = "endmacro" /\ NamesFixed(files)
            => Still(Body(ls))
<1>1. PICK r \in Nat \ {0} : r = Len(Rest)
  BY RestOfFile, EmptySeq, LenProperties
<1>2. 1 \in 1..r /\ Rest[1].k = "macro" /\ Rest \in Seq(Line)
  <2>1. Rest \in Seq(Line)
    BY RestOfFile
  <2> QED  BY <1>1, <2>1
<1>3. PICK k \in Nat : k = Last(inclStk).lin
  BY RestLines
<1>4. PICK n \in Nat : n = Len(Input)
  BY RestOfFile, LenProperties
<1>5. /\ \A y \in 1..r : k + y \in 1..n /\ Rest[y] = Input[k + y]
      /\ Last(inclStk).file \in DOMAIN files /\ Input = files[Last(inclStk).file]
      /\ DOMAIN Input = 1..n
  <2>1. Input = files[Last(inclStk).file]
    BY DEF Input
  <2> QED  BY <1>1, <1>3, <1>4, <2>1, RestLines, RestOfFile, LenProperties
<1>6. ASSUME NEW j \in 1..r, j <= stop, NEW m \in (k + 2)..(k + j - 1)
      PROVE  Input[m].k # "endmacro"
  <2>1. PICK y \in Nat : m = k + y
    <3>1. m - k \in Nat /\ m = k + (m - k)
      OBVIOUS
    <3> QED  BY <3>1
  <2>2. y \in 1..r /\ y < stop
    BY <1>6, <2>1
  <2> QED  BY <1>1, <1>5, <2>1, <2>2
<1>7. ASSUME NEW j \in 1..r, j > 1
      PROVE  k + 1 \in DOMAIN Input /\ k + j \in DOMAIN Input /\ k + 1 < k + j
             /\ Input[k + 1].k = "macro" /\ Input[k + j] = Rest[j]
  <2>1. k + 1 \in 1..n /\ k + j \in 1..n /\ Rest[1] = Input[k + 1] /\ Rest[j] = Input[k + j]
    BY <1>2, <1>5
  <2> QED  BY <1>2, <1>5, <1>7, <2>1
<1>8. ASSUME NEW x \in DOMAIN ls, ls[x].k \in {"undef", "macro"}
      PROVE  FaultyBody(files)
  <2>1. PICK y \in Nat : y \in 1..r /\ y > 1 /\ y < stop /\ ls[x] = Rest[y]
    BY <1>1
  <2>2. PICK i, j \in Nat : i = k + 1 /\ j = k + y
    BY <2>1
  <2>3. /\ i \in DOMAIN Input /\ j \in DOMAIN Input /\ i < j
        /\ Input[i].k = "macro" /\ Input[j].k \in {"undef", "macro"}
    BY <1>7, <1>8, <2>1, <2>2
  <2>4. \A m \in (i + 1)..(j - 1) : Input[m].k # "endmacro"
    <3>1. i + 1 = k + 2 /\ j - 1 = k + y - 1 /\ y <= stop
      BY <2>1, <2>2
    <3> QED  BY <1>6, <2>1, <3>1
  <2> QED  BY <1>5, <2>3, <2>4 DEF FaultyBody
<1>9. ASSUME ~(\E x \in DOMAIN ls : ls[x].k \in {"undef", "macro"}),
             stop \in 1..r, Rest[stop].k = "endmacro", NamesFixed(files)
      PROVE  Still(Body(ls))
  <2>1. stop > 1
    <3>1. stop # 1
      BY <1>2, <1>9
    <3> QED  BY <1>9, <3>1
  <2>2. PICK i, j \in Nat : i = k + 1 /\ j = k + stop
    OBVIOUS
  <2>3. /\ i \in DOMAIN Input /\ j \in DOMAIN Input /\ i < j
        /\ Input[i].k = "macro" /\ Input[j].k = "endmacro"
    BY <1>7, <1>9, <2>1, <2>2
  <2>4. \A m \in (i + 1)..(j - 1) : Input[m].k # "endmacro"
    <3>1. i + 1 = k + 2 /\ j - 1 = k + stop - 1 /\ stop <= stop
      BY <2>2
    <3> QED  BY <1>6, <1>9, <3>1
  <2>5. \A m \in i..j : Input[m].k \notin {"define", "set"}
    <3>1. BodyAt(Input, i, j)
      BY <2>3, <2>4 DEF BodyAt
    <3> QED  BY <1>5, <1>9, <2>3, <3>1 DEF NamesFixed
  <2>6. ASSUME NEW x \in DOMAIN ls
        PROVE  ls[x].k \notin {"define", "set", "undef"}
    <3>1. PICK y \in Nat : y \in 1..r /\ y > 1 /\ y < stop /\ ls[x] = Rest[y]
      BY <1>1
    <3>2. ls[x] = Input[k + y]
      BY <1>5, <3>1
    <3>3. k + y \in i..j
      BY <2>2, <3>1
    <3>4. ls[x].k # "undef"
      BY <1>9
    <3> QED  BY <2>5, <3>2, <3>3, <3>4
  <2>7. Still(ls)
    BY <2>6 DEF Still
  <2> QED  BY <2>7, BodyStill
<1> QED  BY <1>1, <1>8, <1>9

(* Reading a line, a macro or the end of a file.                            *)
LEMMA DescentReads ==
  ASSUME InputTypes, TextTypes, DescentInvariant, GetLine
  PROVE  DescentInvariant'
<1>1. SUFFICES ASSUME NamesFixed(files)
               PROVE  DescentInvariant'
  BY DEF DescentInvariant, GetLine, ReadRaw, ReadExpand, ReadMacro, EndFile
<1>2. phase = "read"
  BY DEF GetLine, ReadRaw, ReadExpand, ReadMacro, EndFile, Reading
<1>3. \A n \in DOMAIN macros : Still(macros[n].buf)
  BY <1>1 DEF DescentInvariant
<1>4. Still(<<>>)
  BY DEF Still
<1>5. CASE ReadRaw \/ EndFile
  <2>1. macros' = macros /\ phase' # "macc"
    BY <1>2, <1>5 DEF ReadRaw, EndFile, expansion
  <2> QED  BY <1>3, <2>1 DEF DescentInvariant
<1>6. CASE ReadExpand
  <2>1. macros' = macros /\ mbuf' = <<>> /\ frames' = <<Call(<<Head(Rest)>>, NoName, 0)>>
    BY <1>6 DEF ReadExpand
  <2>2. PICK l \in Line : l = Head(Rest)
    BY <1>2, <1>6, RestOfFile, HeadTailProperties DEF ReadExpand
  <2>3. Tail(<<l>>) \in Seq(Line) /\ Len(Tail(<<l>>)) = 0
    BY HeadTailProperties
  <2>4. Len(frames') = 1 /\ frames'[1].text = <<l>>
    BY <2>2, <2>1 DEF Call
  <2>5. Len(frames') = 1 /\ Tail(frames'[1].text) = <<>>
    BY <2>3, <2>4, EmptySeq
  <2>6. CallsStill'
    BY <2>5 DEF CallsStill
  <2> QED  BY <1>3, <1>4, <2>1, <2>5, <2>6, NoDescent DEF DescentInvariant
<1>7. CASE ReadMacro
  <2> DEFINE ends == {i \in DOMAIN Rest : Rest[i].k = "endmacro"}
             end  == IF ends = {} THEN Len(Rest) + 1 ELSE Min(ends)
             ls   == SubSeq(Rest, 2, end - 1)
             n    == Head(Rest).n
             new  == MTREE_Add(macros[n], "mac", 0, Body(ls))
             dies == \E i \in DOMAIN ls : ls[i].k \in {"undef", "macro"}
  <2>1. Rest # <<>> /\ Head(Rest).k = "macro" /\ Rest \in Seq(Line)
    BY <1>2, <1>7, RestOfFile DEF ReadMacro
  <2>2. CASE dies \/ ends = {}
    <3>1. phase' # "macc" /\ macros' = macros
      BY <1>7, <2>2 DEF ReadMacro
    <3> QED  BY <1>3, <3>1 DEF DescentInvariant
  <2>3. CASE ~dies /\ ends # {}
    <3>1. /\ \/ /\ macros' = [macros EXCEPT ![n] = M_Undef(new)]
                /\ frames' = <<Call(new.buf, NoName, 0)>> /\ mbuf' = <<>>
             \/ macros' = [macros EXCEPT ![n] = new] /\ phase' = phase
      BY <1>7, <2>3 DEF ReadMacro
    <3>2. PICK stop \in Nat :
            /\ stop = end /\ stop \in 1..(Len(Rest) + 1)
            /\ \A y \in 1..Len(Rest) : y < stop => Rest[y].k # "endmacro"
            /\ stop \in 1..Len(Rest) /\ Rest[stop].k = "endmacro"
      BY <2>1, <2>3, MacroStop
    <3> HIDE DEF ends, end
    <3>3. /\ ls \in Seq(Line)
          /\ \A x \in DOMAIN ls :
               \E y \in Nat : /\ y = x + 1 /\ y \in 1..Len(Rest) /\ y > 1 /\ y < stop
                              /\ ls[x] = Rest[y]
      <4>1. ls = SubSeq(Rest, 2, stop - 1)
        BY <3>2
      <4> HIDE DEF ls
      <4> QED  BY <2>1, <3>2, <4>1, MacroLines
    <3> HIDE DEF ls
    <3>4. Still(Body(ls)) /\ Body(ls) \in Seq(Line)
      BY <1>1, <1>2, <2>1, <2>3, <3>2, <3>3, BodyOfFile, BodyType
    <3>5. n \in DOMAIN macros /\ macros[n] \in Entries /\ Still(macros[n].buf)
      <4>1. n \in Names \cup {NoName, Nameless}
        BY <2>1, HeadTailProperties, LineFields
      <4> HIDE DEF n
      <4> QED  BY <1>3, <4>1 DEF TextTypes
    <3> HIDE DEF n
    <3>6. Still(new.buf) /\ new \in Entries
      BY <3>4, <3>5, EntryTypes, EntryTexts DEF Atrs
    <3> HIDE DEF new
    <3>7. Still(M_Undef(new).buf)
      <4>1. "mac" \in Atrs /\ 0 \in Int
        BY DEF Atrs
      <4> QED  BY <3>4, <3>6, <4>1, EntryTexts
    <3>8. ASSUME NEW e, Still(e.buf), macros' = [macros EXCEPT ![n] = e]
          PROVE  \A m \in DOMAIN macros' : Still(macros'[m].buf)
      <4>1. ASSUME NEW m \in DOMAIN macros
            PROVE  Still(macros'[m].buf)
        <5>1. CASE m = n
          BY <3>5, <3>8, <5>1
        <5>2. CASE m # n
          <6>1. macros'[m] = macros[m]
            BY <3>8, <5>2
          <6> QED  BY <1>3, <6>1
        <5> QED  BY <5>1, <5>2
      <4>2. DOMAIN macros' = DOMAIN macros
        BY <3>8
      <4> QED  BY <4>1, <4>2
    <3>9. \A m \in DOMAIN macros' : Still(macros'[m].buf)
      BY <3>1, <3>6, <3>7, <3>8
    <3>10. CASE phase' = "macc"
      <4>1. frames' = <<Call(new.buf, NoName, 0)>> /\ mbuf' = <<>>
        BY <1>2, <3>1, <3>10
      <4>2. Len(frames') = 1 /\ frames'[1].text = new.buf
        BY <4>1 DEF Call
      <4>3. CallsStill'
        BY <3>6, <4>2 DEF CallsStill
      <4> QED  BY <1>4, <3>9, <4>1, <4>2, <4>3, NoDescent DEF DescentInvariant
    <3>11. CASE phase' # "macc"
      BY <3>9, <3>11 DEF DescentInvariant
    <3> QED  BY <3>10, <3>11
  <2> QED  BY <2>2, <2>3
<1> QED  BY <1>5, <1>6, <1>7 DEF GetLine

LEMMA InitDescent == Init => DescentInvariant
<1> SUFFICES ASSUME Init PROVE DescentInvariant
  OBVIOUS
<1>1. phase = "read" /\ macros = [n \in Names \cup {Nameless, NoName} |-> NoEntry]
  BY DEF Init
<1>2. Still(NoEntry.buf)
  BY DEF NoEntry, Still
<1> QED  BY <1>1, <1>2 DEF DescentInvariant

LEMMA DescentStep == TypeInvariant /\ DescentInvariant /\ [Next]_vars => DescentInvariant'
<1> SUFFICES ASSUME TypeInvariant, DescentInvariant, [Next]_vars PROVE DescentInvariant'
  OBVIOUS
<1>1. InputTypes /\ TextTypes /\ MarksInOrder
  BY TypeParts
<1>2. GetLine => DescentInvariant'
  BY <1>1, DescentReads
<1>3. Macc => DescentInvariant'
  BY <1>1, DescentMacc
<1>4. GetsMif => DescentInvariant'
  <2> SUFFICES ASSUME GetsMif PROVE DescentInvariant'
    OBVIOUS
  <2>1. phase = "read" /\ UNCHANGED <<files, macros>>
    BY DEF GetsMif, Text, SkipIf, SkipEndif, Skip, If, Elif, Else, Endif, MacroStart, MacroEnd,
           ExitMacro, Scan, Include, Report, Gets, Live, Obeys, Take, expansion
  <2>2. phase' # "macc"
    BY <2>1 DEF GetsMif, Text, SkipIf, SkipEndif, Skip, If, Elif, Else, Endif, MacroStart,
                MacroEnd, ExitMacro, Scan, Include, Report
  <2> QED  BY <2>1, <2>2 DEF DescentInvariant
<1>5. Stop \/ UNCHANGED vars => DescentInvariant'
  <2> SUFFICES ASSUME Stop \/ UNCHANGED vars PROVE DescentInvariant'
    OBVIOUS
  <2>1. UNCHANGED <<files, macros, frames, mbuf, phase>>
    BY DEF Stop, vars
  <2>2. Uses' = Uses
    BY <2>1, SameUses
  <2> QED  BY <2>1, <2>2 DEF DescentInvariant, Descends, CallsStill, Still
<1> QED  BY <1>2, <1>3, <1>4, <1>5 DEF Next

(* No name uses up the C stack but one defined in a circle.                 *)
LEMMA CallsCrash ==
  ASSUME IsFiniteSet(Names), Cardinality(Names) < StackLimit,
         TextTypes, DescentInvariant, NamesFixed(files),
         MaccExpand \/ MaccAsk, phase' # "exit", Len(frames) = StackLimit
  PROVE  Cyclic'
<1>1. phase = "macc"
  BY DEF MaccExpand, MaccAsk, Scans
<1>2. /\ CallsStill /\ Still(mbuf) /\ \A n \in DOMAIN macros : Still(macros[n].buf)
      /\ \E c \in [2..Len(frames) -> DOMAIN Uses] : Descends(c)
  BY <1>1 DEF DescentInvariant
<1>3. PICK d : Chain(Texts, Uses, d, StackLimit + 1)
  BY <1>2, DescentCalls
<1>4. \E n \in Texts : n \in Below(Uses, n)
  <2>1. Uses \in [Texts -> SUBSET Texts] /\ Texts \in SUBSET Names
    BY UsesType
  <2>2. StackLimit \in Nat
    BY LimitsNat
  <2> QED  BY <1>3, <2>1, <2>2, ChainCircles
<1>5. Cyclic
  BY <1>4, CircleIsCyclic
<1>6. macros' = macros
  BY DEF MaccExpand, MaccAsk
<1> QED  BY <1>5, <1>6 DEF Cyclic, Texts, Mentions

LEMMA LowWords == Low \in Nat /\ Low <= Room /\ (UNCHANGED messages => Low' = Low)
<1>1. Room \in Nat /\ Room >= 2
  BY ConstantsAssumption
<1>2. Low \in {Room, 2}
  <2>1. -ErrLblSkip - 1 = 2
    <3>1. ErrLblSkip \in Int /\ ErrLblSkip + 3 = 0
      BY DEF ErrLblSkip
    <3> QED  BY <3>1
  <2> QED  BY <2>1 DEF Low
<1>3. UNCHANGED messages => Low' = Low
  BY DEF Low
<1> QED  BY <1>1, <1>2, <1>3

LEMMA CrashStep ==
  ASSUME IsFiniteSet(Names), Cardinality(Names) < StackLimit
  PROVE  TypeInvariant /\ DescentInvariant /\ DiesOfThese /\ [Next]_vars => DiesOfThese'
<1> SUFFICES ASSUME TypeInvariant, DescentInvariant, DiesOfThese, [Next]_vars,
                    phase' = "crash", NamesFixed(files)'
             PROVE  \/ Cyclic'
                    \/ "MM_cnt" \in overwritten'
                    \/ Len(inclStk') > FILN_INCL_NUM
                    \/ FaultyBody(files')
                    \/ MM_cnt' <= -Low'
  BY DEF DiesOfThese
<1>1. InputTypes /\ TextTypes /\ MarksInOrder
  BY TypeParts
<1>2. Room \in Nat /\ Room >= 2 /\ MM_cnt \in Int /\ Len(inclStk) \in Nat
  BY <1>1, ConstantsAssumption, LenProperties DEF TextTypes, InputTypes
<1>3. CASE GetLine
  <2>1. ReadMacro /\ files' = files
    BY <1>3 DEF GetLine, ReadRaw, ReadExpand, ReadMacro, EndFile, Reading
  <2> DEFINE ends == {i \in DOMAIN Rest : Rest[i].k = "endmacro"}
             end  == IF ends = {} THEN Len(Rest) + 1 ELSE Min(ends)
             ls   == SubSeq(Rest, 2, end - 1)
  <2>2. /\ phase = "read" /\ Rest # <<>> /\ Head(Rest).k = "macro"
        /\ \E i \in DOMAIN ls : ls[i].k \in {"undef", "macro"}
    BY <2>1 DEF ReadMacro, Reading
  <2>3. Rest \in Seq(Line)
    BY <1>1, <2>2, RestOfFile
  <2>4. PICK stop \in Nat :
          /\ stop = end /\ stop \in 1..(Len(Rest) + 1)
          /\ \A y \in 1..Len(Rest) : y < stop => Rest[y].k # "endmacro"
    BY <2>2, <2>3, MacroStop
  <2> HIDE DEF ends, end
  <2>5. /\ ls \in Seq(Line)
        /\ \A x \in DOMAIN ls :
             \E y \in Nat : /\ y = x + 1 /\ y \in 1..Len(Rest) /\ y > 1 /\ y < stop
                            /\ ls[x] = Rest[y]
    <3>1. ls = SubSeq(Rest, 2, stop - 1)
      BY <2>4
    <3> HIDE DEF ls
    <3> QED  BY <2>3, <2>4, <3>1, MacroLines
  <2> HIDE DEF ls
  <2>6. FaultyBody(files)
    BY <1>1, <2>2, <2>4, <2>5, BodyOfFile
  <2> QED  BY <2>1, <2>6
<1>4. CASE Macc
  <2>4. NamesFixed(files) /\ phase' # "exit"
    BY <1>4 DEF Macc, MaccText, MaccExpand, MaccAsk, MaccAnswer, MaccReturn, MaccDefine, MaccUndef,
                MaccCopy
  <2>1. CASE MaccExpand \/ MaccAsk
    <3>1. PICK callers, written : Enters(callers, written)
      BY <2>1 DEF MaccExpand, MaccAsk
    <3>2. PICK cnt :
            /\ MM_cnt = FILN_MAC_NEST \/ cnt = MM_cnt
            /\ MM_cnt' = cnt + 1 /\ UNCHANGED messages
            /\ Len(frames) = StackLimit \/ cnt < -Room
      BY <3>1 DEF Enters, Outcome
    <3>3. CASE Len(frames) = StackLimit
      BY <1>1, <2>1, <3>3, <2>4, CallsCrash
    <3>4. CASE MM_cnt = FILN_MAC_NEST
      BY <3>1, <3>4 DEF Enters
    <3>5. CASE cnt = MM_cnt /\ cnt < -Room
      BY <1>2, <3>2, <3>5, LowWords
    <3> QED  BY <3>2, <3>3, <3>4, <3>5
  <2>2. CASE MaccReturn
    <3>1. /\ MM_cnt' = MM_cnt - 2 /\ Low' = Low /\ Low \in Nat /\ Low <= Room
          /\ overwritten \ {"errLblSkip"} \subseteq overwritten'
          /\ MM_cnt - 1 < -Low \/ MM_cnt - 2 < -Room \/ "MM_cnt" \in overwritten
      <4>1. FreeName /\ UNCHANGED messages
        BY <2>2 DEF MaccReturn, EndCall
      <4>2. Low' = Low /\ Low \in Nat /\ Low <= Room
        BY <4>1, LowWords
      <4> QED  BY <4>1, <4>2 DEF FreeName
    <3> QED  BY <1>2, <3>1
  <2>3. CASE MaccText \/ MaccAnswer \/ MaccDefine \/ MaccUndef \/ MaccCopy
    BY <2>3 DEF MaccText, MaccAnswer, MaccDefine, MaccUndef, MaccCopy, Scans
  <2> QED  BY <1>4, <2>1, <2>2, <2>3 DEF Macc
<1>5. CASE GetsMif
  <2>1. phase = "read"
    BY <1>5 DEF GetsMif, Text, SkipIf, SkipEndif, Skip, If, Elif, Else, Endif, MacroStart,
                MacroEnd, ExitMacro, Scan, Include, Report, Gets, Live, Obeys
  <2>2. Include
    BY <1>5, <2>1 DEF GetsMif, Text, SkipIf, SkipEndif, Skip, If, Elif, Else, Endif, MacroStart,
                      MacroEnd, ExitMacro, Scan, Report
  <2>3. /\ inclStk' = Append(inclStk, [file |-> Got.n, lin |-> 0])
        /\ ~(Len(inclStk) < FILN_INCL_NUM)
    BY <2>1, <2>2 DEF Include
  <2>4. Len(inclStk') = Len(inclStk) + 1
    BY <2>3, AppendProperties, <1>1 DEF InputTypes
  <2> QED  BY <1>2, <2>3, <2>4, LimitsNat
<1>6. CASE Stop \/ UNCHANGED vars
  <2>1. UNCHANGED <<files, macros, inclStk, MM_cnt, overwritten, messages, phase>>
    BY <1>6 DEF Stop, vars, names
  <2>2. \/ Cyclic
        \/ "MM_cnt" \in overwritten
        \/ Len(inclStk) > FILN_INCL_NUM
        \/ FaultyBody(files)
        \/ MM_cnt <= -Low
    BY <2>1 DEF DiesOfThese
  <2> QED  BY <2>1, <2>2 DEF Cyclic, Texts, Mentions, Low
<1> QED  BY <1>3, <1>4, <1>5, <1>6 DEF Next

-----------------------------------------------------------------------------
(* The names counted.                                                       *)

CountInvariant == (phase = "read" => frames = <<>>) /\ OnlyDepthOverruns

LEMMA RunningFinite ==
  ASSUME frames \in Seq(Calls)
  PROVE  /\ IsFiniteSet(Running) /\ Cardinality(Running) \in Nat
         /\ Running = {i \in 1..Len(frames) : frames[i].name # NoName}
<1>1. DOMAIN frames = 1..Len(frames) /\ Len(frames) \in Nat
  BY LenProperties
<1>2. IsFiniteSet(1..Len(frames))
  BY <1>1, FS_Interval
<1>3. Running \subseteq 1..Len(frames)
  BY <1>1 DEF Running
<1> QED  BY <1>1, <1>2, <1>3, FS_Subset, FS_CardinalityType DEF Running

(* The calls are of the same names.                                         *)
LEMMA SameRunning ==
  ASSUME frames' \in Seq(Calls), Len(frames') = Len(frames), frames \in Seq(Calls),
         \A i \in 1..Len(frames) : frames'[i].name = frames[i].name
  PROVE  Running' = Running
<1>1. DOMAIN frames = 1..Len(frames) /\ DOMAIN frames' = 1..Len(frames)
  BY LenProperties
<1> QED  BY <1>1 DEF Running

(* A name is called.                                                        *)
LEMMA RunningGrows ==
  ASSUME TextTypes, MaccExpand \/ MaccAsk, phase' # "exit"
  PROVE  Cardinality(Running') = Cardinality(Running) + 1
<1> DEFINE L == Len(frames)
           n == Scanned.n
           f == Call(macros[n].buf, n, Len(mbuf'))
<1>1. phase = "macc" /\ n \in Names /\ macros[n].buf \in Seq(Line)
  BY DEF MaccExpand, MaccAsk, Scans, Expands, TextTypes, Entries
<1>2. L \in Nat /\ L \in 1..StackLimit /\ frames \in Seq(Calls)
  BY <1>1, InnermostCall DEF TextTypes
<1>3. PICK callers \in Seq(Calls) :
        /\ Len(callers) = L /\ frames' = Append(callers, f)
        /\ \A i \in 1..L : callers[i].name = frames[i].name
        /\ mbuf' \in Seq(Line)
  <2>1. CASE MaccExpand
    <3>1. Scans({"text"}) /\ frames' = Append(Advance, f) /\ mbuf' = mbuf
      BY <2>1 DEF MaccExpand, Enters
    <3>2. /\ Advance \in Seq(Calls) /\ Len(Advance) = L
          /\ \A i \in 1..(L - 1) : Advance[i] = frames[i]
          /\ Advance[L].name = frames[L].name
      BY <3>1, <1>1, NextLine, InnermostCall DEF Calls, Last
    <3> HIDE DEF L, f
    <3>3. \A i \in 1..L : i \in 1..(L - 1) \/ i = L
      BY <1>2
    <3>4. \A i \in 1..L : Advance[i].name = frames[i].name
      BY <3>2, <3>3
    <3> QED  BY <3>1, <3>2, <3>4 DEF TextTypes
  <2>2. CASE MaccAsk
    <3> DEFINE gs == [frames EXCEPT ![Len(frames)] = Asked]
    <3>1. Asked \in Calls /\ Bare \in Line /\ Enters(gs, Append(mbuf, Bare))
      BY <2>2, AskTypes
    <3> HIDE DEF gs
    <3>2. mbuf' = Append(mbuf, Bare)
      BY <3>1 DEF Enters
    <3>3. frames' = Append(gs, f)
      BY <3>1, <3>2 DEF Enters
    <3>4. /\ gs \in Seq(Calls) /\ Len(gs) = L
          /\ \A i \in 1..L : gs[i] = IF i = L THEN Asked ELSE frames[i]
      BY <1>2, <3>1, InnermostCall, ExceptSeq DEF TextTypes, gs
    <3>5. Asked.name = frames[L].name
      BY <1>1, InnermostCall DEF Asked, Calls, Last
    <3>6. mbuf' \in Seq(Line)
      BY <3>1, <3>2, AppendProperties DEF TextTypes
    <3> HIDE DEF L, f
    <3>7. \A i \in 1..L : gs[i].name = frames[i].name
      BY <3>4, <3>5
    <3> QED  BY <3>3, <3>4, <3>6, <3>7
  <2> QED  BY <2>1, <2>2
<1>4. f \in Calls /\ f.name # NoName
  BY <1>1, <1>3, LenProperties, ConstantsAssumption DEF Call, Calls
<1> HIDE DEF f, n
<1>5. /\ frames' \in Seq(Calls) /\ Len(frames') = L + 1 /\ frames'[L + 1] = f
      /\ \A i \in 1..L : frames'[i].name = frames[i].name
  <2>1. /\ frames' \in Seq(Calls) /\ Len(frames') = Len(callers) + 1
        /\ frames'[Len(callers) + 1] = f
        /\ \A i \in 1..Len(callers) : frames'[i] = callers[i]
    BY <1>3, <1>4, AppendProperties
  <2> QED  BY <1>3, <2>1
<1>6. DOMAIN frames' = 1..(L + 1) /\ DOMAIN frames = 1..L
  BY <1>2, <1>5, LenProperties
<1> HIDE DEF L
<1>7. Running' = Running \cup {L + 1} /\ L + 1 \notin Running
  BY <1>2, <1>4, <1>5, <1>6 DEF Running
<1> QED  BY <1>2, <1>7, RunningFinite, FS_AddElement

(* What a call's end takes away.                                            *)
LEMMA RunningShrinks ==
  ASSUME TextTypes, MaccReturn
  PROVE  /\ Last(frames).name = NoName => Running' = Running
         /\ Last(frames).name # NoName => Cardinality(Running') = Cardinality(Running) - 1
<1> DEFINE L == Len(frames)
           f == Last(frames)
<1>1. /\ phase = "macc" /\ f \in Calls /\ L \in Nat \ {0} /\ f = frames[L]
      /\ Front(frames) \in Seq(Calls) /\ Len(Front(frames)) = L - 1
      /\ \A i \in 1..(L - 1) : Front(frames)[i] = frames[i]
      /\ frames \in Seq(Calls) /\ DOMAIN frames = 1..L
      /\ DOMAIN Front(frames) = 1..(L - 1)
  BY InnermostCall, LenProperties DEF MaccReturn, Last, TextTypes
<1>2. CASE f.name = NoName
  <2>1. frames' = Front(frames)
    BY <1>2 DEF MaccReturn, EndCall
  <2> HIDE DEF L, f
  <2>2. PICK k \in Nat : k = L - 1
    BY <1>1
  <2>3. /\ DOMAIN frames' = 1..k /\ DOMAIN frames = 1..(k + 1) /\ frames[k + 1].name = NoName
        /\ \A i \in 1..k : frames'[i] = frames[i]
    BY <1>1, <1>2, <2>1, <2>2
  <2>4. Running' = Running
    BY <2>3 DEF Running
  <2> QED  BY <1>2, <2>4 DEF f
<1>3. CASE f.name # NoName
  <2> DEFINE e == Call(SubSeq(mbuf, f.mark + 1, Len(mbuf)), NoName, f.mark)
             gs == Front(frames)
  <2>1. frames' = Append(gs, e)
    BY <1>3 DEF MaccReturn
  <2>2. e.name = NoName
    BY DEF Call
  <2> HIDE DEF e, gs, L, f
  <2>3. PICK k \in Nat : k = L - 1
    BY <1>1
  <2>4. /\ DOMAIN frames' = 1..(k + 1) /\ frames'[k + 1].name = NoName
        /\ \A i \in 1..k : frames'[i] = gs[i]
    BY <1>1, <2>1, <2>2, <2>3 DEF gs
  <2>5. Running' = Running \ {L} /\ L \in Running
    BY <1>1, <1>3, <2>3, <2>4 DEF Running, gs
  <2>6. IsFiniteSet(Running)
    BY <1>1, RunningFinite
  <2>7. Cardinality(Running \ {L}) = Cardinality(Running) - 1
    BY <2>5, <2>6, FS_RemoveElement
  <2> QED  BY <1>3, <2>5, <2>7 DEF f
<1> QED  BY <1>2, <1>3

LEMMA CountedStep == TextTypes /\ TextTypes' /\ CountInvariant /\ [Next]_vars => CountInvariant'
<1> SUFFICES ASSUME TextTypes, TextTypes', CountInvariant, [Next]_vars PROVE CountInvariant'
  OBVIOUS
<1>1. MM_cnt \in Int /\ (phase # "exit" => MM_cnt <= FILN_MAC_NEST) /\ frames \in Seq(Calls)
      /\ frames' \in Seq(Calls)
  BY DEF TextTypes
<1>2. ASSUME Running' = Running, MM_cnt' = MM_cnt, UNCHANGED overwritten
      PROVE  OnlyDepthOverruns'
  BY <1>2 DEF CountInvariant, OnlyDepthOverruns
<1>3. CASE GetsMif \/ ReadRaw \/ EndFile \/ Stop \/ UNCHANGED vars
  <2>1. UNCHANGED <<frames, MM_cnt, overwritten>> /\ (phase' = "read" => phase = "read")
    BY <1>3 DEF GetsMif, Text, SkipIf, SkipEndif, Skip, If, Elif, Else, Endif, MacroStart, MacroEnd,
                ExitMacro, Scan, Include, Report, Gets, Live, Obeys, Take, ReadRaw, EndFile, Reading,
                Stop, vars, expansion, names
  <2> QED  BY <1>2, <2>1 DEF CountInvariant, Running
<1>4. CASE ReadExpand \/ ReadMacro
  <2>1. /\ frames = <<>> /\ UNCHANGED <<MM_cnt, overwritten>>
        /\ \/ frames' = <<>>
           \/ phase' # "read" /\ \E text : frames' = <<Call(text, NoName, 0)>>
    BY <1>4 DEF CountInvariant, ReadExpand, ReadMacro, Reading, names
  <2>2. Running = {}
    BY <2>1 DEF Running
  <2>3. Running' = {}
    <3>1. CASE frames' = <<>>
      BY <3>1 DEF Running
    <3>2. CASE \E text : frames' = <<Call(text, NoName, 0)>>
      <4>1. PICK e : frames' = <<e>> /\ e.name = NoName
        BY <3>2 DEF Call
      <4> QED  BY <4>1 DEF Running
    <3> QED  BY <2>1, <3>1, <3>2
  <2> QED  BY <1>2, <2>1, <2>2, <2>3 DEF CountInvariant
<1>5. CASE MaccText \/ MaccCopy \/ MaccDefine \/ MaccUndef \/ MaccAnswer
  <2>1. phase = "macc" /\ UNCHANGED <<MM_cnt, overwritten, phase>>
    BY <1>5 DEF MaccText, MaccCopy, MaccDefine, MaccUndef, MaccAnswer, Scans, names
  <2>2. Len(frames) \in 1..Len(frames) /\ \A i \in 1..Len(frames) : frames[i] \in Calls
    BY <1>1, <2>1, InnermostCall, ElementOfSeq
  <2>3. /\ Len(frames') = Len(frames)
        /\ \A i \in 1..Len(frames) : frames'[i].name = frames[i].name
    <3>1. CASE MaccAnswer
      <4>1. frames' = [frames EXCEPT ![Len(frames)].at = 0]
        BY <3>1 DEF MaccAnswer
      <4> QED  BY <1>1, <2>2, <4>1 DEF Calls
    <3>2. CASE ~MaccAnswer
      <4>1. frames' = [frames EXCEPT ![Len(frames)].text = Tail(@)]
        BY <1>5, <3>2 DEF MaccText, MaccCopy, MaccDefine, MaccUndef, Advance
      <4> QED  BY <1>1, <2>2, <4>1 DEF Calls
    <3> QED  BY <3>1, <3>2
  <2> QED  BY <1>1, <1>2, <2>1, <2>3, SameRunning DEF CountInvariant
<1>6. CASE MaccExpand \/ MaccAsk
  <2>1. phase = "macc" /\ phase' # "read"
    BY <1>6 DEF MaccExpand, MaccAsk, Scans, Enters, Outcome
  <2>2. PICK callers, written : Enters(callers, written)
    BY <1>6 DEF MaccExpand, MaccAsk
  <2>3. CASE MM_cnt = FILN_MAC_NEST
    <3>1. "MM_cnt" \in overwritten'
      BY <2>2, <2>3 DEF Enters
    <3> QED  BY <2>1, <3>1 DEF CountInvariant, OnlyDepthOverruns
  <2>4. CASE MM_cnt # FILN_MAC_NEST
    <3>1. MM_cnt' = MM_cnt + 1 /\ overwritten \subseteq overwritten'
      BY <2>2, <2>4 DEF Enters
    <3>2. phase' # "exit"
      BY <1>1, <2>1, <2>2, <2>4, LimitsNat DEF Enters, Outcome
    <3>3. Cardinality(Running') = Cardinality(Running) + 1
      BY <1>6, <3>2, RunningGrows
    <3> QED  BY <1>1, <2>1, <3>1, <3>3, RunningFinite DEF CountInvariant, OnlyDepthOverruns
  <2> QED  BY <2>3, <2>4
<1>7. CASE MaccReturn
  <2>1. CASE Last(frames).name = NoName
    <3>1. UNCHANGED <<MM_cnt, overwritten>> /\ frames' = Front(frames)
          /\ (phase' = "read" => Len(frames) <= 1)
      BY <1>1, <1>7, <2>1, LenProperties DEF MaccReturn, EndCall, names
    <3>2. phase' = "read" => frames' = <<>>
      <4>1. Len(frames) \in 1..StackLimit /\ Len(Front(frames)) = Len(frames) - 1
            /\ Front(frames) \in Seq(Calls)
        BY <1>7, InnermostCall DEF MaccReturn
      <4>2. phase' = "read" => Len(Front(frames)) = 0
        BY <3>1, <4>1
      <4> QED  BY <3>1, <4>1, <4>2, EmptySeq
    <3> QED  BY <1>2, <1>7, <2>1, <3>1, <3>2, RunningShrinks DEF CountInvariant
  <2>2. CASE Last(frames).name # NoName
    <3>1. /\ MM_cnt' = MM_cnt - 2 /\ phase' # "read"
          /\ "MM_cnt" \notin overwritten' => "MM_cnt" \notin overwritten
      BY <1>7, <2>2 DEF MaccReturn, FreeName
    <3>2. Cardinality(Running') = Cardinality(Running) - 1
      BY <1>7, <2>2, RunningShrinks
    <3> QED  BY <1>1, <3>1, <3>2, RunningFinite DEF CountInvariant, OnlyDepthOverruns
  <2> QED  BY <2>1, <2>2
<1> QED  BY <1>3, <1>4, <1>5, <1>6, <1>7 DEF Next, GetLine, Macc

LEMMA InitCounted == Init => CountInvariant
<1> SUFFICES ASSUME Init PROVE CountInvariant
  OBVIOUS
<1>1. frames = <<>> /\ MM_cnt = 0
  BY DEF Init
<1>2. Running = {}
  BY <1>1 DEF Running
<1> QED  BY <1>1, <1>2, FS_EmptySet DEF CountInvariant, OnlyDepthOverruns

(* src/src/filn.c 3830, 3841: MM_cnt is counted down twice for each name    *)
(* and may fall below 0, but it never exceeds the number of names whose     *)
(* texts are being expanded, whatever was expanded before: a name is stored *)
(* behind MM_name only for more than FILN_MAC_NEST nested ones.             *)
THEOREM OverrunsAreDeep == Spec => []OnlyDepthOverruns
<1>1. TypeInvariant => TextTypes
  BY TypeParts
<1>2. StackInvariant /\ TypeInvariant /\ [Next]_vars => TypeInvariant'
  BY TypeStep
<1>3. TypeInvariant' => TextTypes'
  BY <1>1, PTL
<1>4. TypeInvariant /\ TypeInvariant' /\ CountInvariant /\ [Next]_vars => CountInvariant'
  BY <1>1, <1>3, CountedStep
<1>5. CountInvariant => OnlyDepthOverruns
  BY DEF CountInvariant
<1> QED  BY <1>4, <1>5, InitCounted, TypeInvariantHolds, PTL DEF Spec

(* src/src/filn.c 1137, 2968, 3830, 3838, 3841: dcasm dies of the #include  *)
(* that lands behind inclStk, of the message for a faulty macro body, of    *)
(* the name stored over MM_cnt by more nested names than MM_name holds, of  *)
(* names defined in a circle, be it through the condition of an #if, and of *)
(* the names freed before MM_name, and of nothing else, where the C stack   *)
(* holds more calls of MM_Macc than there are names and no macro body       *)
(* defines one.                                                             *)
THEOREM CrashesHaveCauses ==
  ASSUME IsFiniteSet(Names), Cardinality(Names) < StackLimit
  PROVE  Spec => []CrashCauses
<1>1. Init => DescentInvariant /\ DiesOfThese
  BY InitDescent DEF Init, DiesOfThese
<1>2. TypeInvariant /\ DescentInvariant /\ DiesOfThese /\ [Next]_vars
        => DescentInvariant' /\ DiesOfThese'
  BY DescentStep, CrashStep
<1>3. DiesOfThese /\ OnlyDepthOverruns => CrashCauses
  BY DEF CrashCauses
<1> QED  BY <1>1, <1>2, <1>3, OverrunsAreDeep, TypeInvariantHolds, PTL DEF Spec
=============================================================================
