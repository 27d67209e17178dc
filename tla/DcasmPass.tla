------------------------------ MODULE DcasmPass ------------------------------
(***************************************************************************)
(* The two passes of dcasm (src/src/dcasm.c, Main, Pass and Pass_Line) over *)
(* the macro-expanded source lines: pass 1 finds addresses and label        *)
(* values, memory is allocated from what it found, pass 2 writes the image, *)
(* which is then saved.                                                     *)
(*                                                                          *)
(* A line is a record: its "name:" prefix, its order, and its arguments.    *)
(* An expression is a name, "$" or nothing, plus a number.                  *)
(***************************************************************************)
EXTENDS LabelTable, Layout

CONSTANTS
  Names,           \* names a source may use for labels
  NoName,          \* no name: no "name:" prefix, or a plain number
  Here,            \* "$", the address of the line
  Sources,         \* the source texts: sequences of lines
  optEndianMode,   \* -b: 0 little, 1 big
  optAutoAlign,    \* -a: autoAlignMode as Main's options leave it (3 by default)
  Slack            \* bytes allocated beyond what pass 1 counted (0x20)

(* "none" is a line with no order (blank, comment, or just "name:"); "text" *)
(* starts with no order name: text of a stri, or an error.                  *)
Orders == {"none", "text", "rem", "equ", "dc", "ds", "org", "align", "auto_align",
           "endian", "stri", "stri_opt", "xdef", "end"}

Expr == [base : Names \cup {NoName, Here}, off : Int]

(* md: the size of dc and ds, the byte order of endian.  lead and body: the *)
(* leading blanks and other bytes of a text line.                           *)
Line == [lab : Names \cup {NoName}, odr : Orders, md : Mds, args : Seq(Expr),
         xs : Seq(Names), lead : Nat, body : Nat]

ASSUME ConstantsAssumption ==
  /\ NoName \notin Names /\ Here \notin Names /\ NoName # Here
  /\ Sources \subseteq Seq(Line)
  /\ optEndianMode \in {0, 1}
  /\ optAutoAlign \in 0..3
  /\ Slack \in Nat \ {0}

VARIABLES
  srcl,            \* the source lines
  phase,           \* what Main does next
  passNo,          \* 1 or 2
  pc,              \* the line Pass is at
  g_adr,           \* the address counter
  g_endianMode,
  autoAlignMode,
  striMode,        \* inside the text of a stri
  striOpt,
  labels,          \* the label table
  g_mem,           \* the image: addresses to bytes
  memSize,         \* the size of g_mem
  messages,        \* kinds of messages that reached the error stream
  file,            \* the saved image
  header,          \* the #define lines of the -h file
  pass1            \* history: the layout state pass 1 met each line in

vars == <<srcl, phase, passNo, pc, g_adr, g_endianMode, autoAlignMode, striMode,
          striOpt, labels, g_mem, memSize, messages, file, header, pass1>>

outputs == <<memSize, file, header>>

NoImage == <<>>
NotReached == [adr |-> 0, mode |-> -1, stri |-> FALSE, opt |-> 0, arg |-> 0]

-----------------------------------------------------------------------------
(* Expressions.                                                             *)

(* Expr: the value under label table tbl on a line at address top.  A name  *)
(* that is not in the table counts as 0.                                    *)
Value(e, top, tbl) ==
  e.off + (CASE e.base = NoName -> 0
             [] e.base = Here   -> top
             [] OTHER           -> tbl[e.base].val)

Undefined(e, tbl) == e.base \in Names /\ tbl[e.base].typ = NotInTree

(* GetArg(&s, imm, 1): a missing argument is 0.                             *)
Arg(ln, top, tbl) == IF ln.args = <<>> THEN 0 ELSE Value(ln.args[1], top, tbl)

-----------------------------------------------------------------------------
(* Layout: what a line does to the address.                                 *)

(* Pass_Line runs GenStriEnd: the line ends the text of a stri.             *)
EndsStri(ln) == ln.lab # NoName \/ ln.odr \notin {"none", "text"}

(* The address after GenStriEnd.                                            *)
OrderAdr(ln, adr, stri) == IF stri /\ EndsStri(ln) THEN adr + 1 ELSE adr

(* The text is part of a stri, not an error.                                *)
IsStriText(ln, stri) == ln.odr = "text" /\ stri /\ ~EndsStri(ln)

(* striOpt bit 0 strips leading blanks, bit 1 the newline.                  *)
Strips(opt) == (opt % 2) = 1
Joins(opt) == ((opt \div 2) % 2) = 1

Times(n, byte) == [i \in 1..n |-> byte]

(* The bytes of GenStri for a text line; 65 stands for its characters.      *)
TextBytes(ln, opt) ==
  (IF Strips(opt) THEN <<>> ELSE Times(ln.lead, 32))
  \o Times(ln.body, 65)
  \o (IF Joins(opt) THEN <<>> ELSE <<10>>)

TextLen(ln, opt) ==
  (IF Strips(opt) THEN 0 ELSE ln.lead) + ln.body + (IF Joins(opt) THEN 0 ELSE 1)

(* Where the first datum of a dc goes, and g_adr after the dc: pass1_dc     *)
(* leaves g_adr alone when there is no datum, gen_dc aligns it all the same. *)
DcStart(ln, adr, mode) == AutoAlign(adr, ln.md, mode)

(* Mutant: gen_dc writes where the line before ended.                       *)
DcEndUnaligned(ln, adr, mode, n) ==
  IF n = 1 /\ ln.args # <<>> THEN DcStart(ln, adr, mode) + Len(ln.args) * Size(ln.md)
  ELSE adr + Len(ln.args) * Size(ln.md)

DcEnd(ln, adr, mode, n) ==
  IF n = 1 /\ ln.args = <<>> THEN adr
  ELSE DcStart(ln, adr, mode) + Len(ln.args) * Size(ln.md)

(* g_adr after the line: adr is the address at its order, arg its argument. *)
NextAdr(ln, n, adr, arg, mode, stri, opt) ==
  CASE ln.odr = "dc"           -> DcEnd(ln, adr, mode, n)
    [] ln.odr = "ds"           -> GenDs(adr, arg, ln.md, mode)
    [] ln.odr = "org"          -> GenOrg(adr, arg)
    [] ln.odr = "align"        -> GenAlign(adr, arg)
    [] IsStriText(ln, stri) -> adr + TextLen(ln, opt)
    [] OTHER                   -> adr

-----------------------------------------------------------------------------
(* The image.                                                               *)

(* The addresses of bs are written; callocE's block is not checked against. *)
Poke(mem, adr, bs) ==
  LET to == adr + Len(bs) - 1
  IN  [a \in DOMAIN mem \cup adr..to |-> IF a \in adr..to THEN bs[a - adr + 1] ELSE mem[a]]

(* gen_dc: one putOne after another.                                        *)
PokeDc(mem, adr, vals, md, endian) ==
  LET n == Size(md)
  IN  Poke(mem, adr,
           [i \in 1..(Len(vals) * n) |->
              Bytes(vals[((i - 1) \div n) + 1], n, endian)[((i - 1) % n) + 1]])

-----------------------------------------------------------------------------
(* One line of a pass.                                                      *)

TheLine == srcl[pc]

(* Pass_Line's label: defined in pass 1, before a pending stri is ended.    *)
Labelled ==
  LET ln == TheLine
  IN  IF passNo = 1 /\ ln.lab # NoName
      THEN [labels EXCEPT ![ln.lab] = LBL_Add(@, g_adr, Label)]
      ELSE labels

(* GenStriEnd writes its NUL in pass 2.                                     *)
Terminated ==
  IF passNo = 2 /\ striMode /\ EndsStri(TheLine) THEN Poke(g_mem, g_adr, <<0>>) ELSE g_mem

If(cond, kind) == IF cond THEN {kind} ELSE {}

(* LBL_Add refuses the line's label.                                        *)
Overloaded(ln) ==
  passNo = 1 /\ ln.lab # NoName /\ LBL_AddFails(labels[ln.lab], Label)

(* srcl_error: Pass(n) calls srcl_errorSw(n - 1), so pass 1 prints nothing. *)
Report(kinds) ==
  messages' = IF passNo = 2
              THEN messages \cup kinds \cup If(Overloaded(TheLine), "overloaded")
              ELSE messages

(* GetArg steps over the end of a line's text after its last argument, and  *)
(* Pass_Line then looks for extra characters in whatever bytes follow.      *)
ExtraCharacters(ln) ==
  CASE passNo = 1 \/ ln.args = <<>> -> {{}}
    [] passNo = 2 /\ Len(ln.args) = 1 -> {{}, {"extra"}}
    [] OTHER -> {{"many", "extra"}}

UndefinedIn(ln) ==
  IF \E i \in DOMAIN ln.args : Undefined(ln.args[i], Labelled) THEN {"undefined"} ELSE {}

TheArg == Arg(TheLine, g_adr, Labelled)

(* What every line does first: it is remembered in pass 1, its label is     *)
(* added, a pending stri is ended, and g_adr moves on as its order says.    *)
Order(odr) ==
  LET ln == TheLine
  IN  /\ phase = "line"
      /\ pc <= Len(srcl)
      /\ ln.odr = odr
      /\ g_adr' = NextAdr(ln, passNo, OrderAdr(ln, g_adr, striMode), TheArg,
                          autoAlignMode, striMode, striOpt)
      /\ pass1' = IF passNo = 1
                  THEN [pass1 EXCEPT ![pc] =
                          [adr |-> g_adr, mode |-> autoAlignMode, stri |-> striMode,
                           opt |-> striOpt, arg |-> TheArg]]
                  ELSE pass1
      /\ UNCHANGED <<srcl, phase, passNo, outputs>>

EndStri == striMode' = (striMode /\ ~EndsStri(TheLine))

NextLine == pc' = pc + 1

-----------------------------------------------------------------------------
(* The orders.                                                              *)

NoOrder ==
  /\ \E odr \in {"none", "rem"} : Order(odr)
  /\ Report({})
  /\ NextLine /\ EndStri /\ labels' = Labelled /\ g_mem' = Terminated
  /\ UNCHANGED <<g_endianMode, autoAlignMode, striOpt>>

(* GenStri writes the text and a NUL it does not count.                     *)
StriText ==
  /\ Order("text")
  /\ IsStriText(TheLine, striMode)
  /\ g_mem' = IF passNo = 2
              THEN Poke(g_mem, g_adr, Append(TextBytes(TheLine, striOpt), 0))
              ELSE g_mem
  /\ NextLine
  /\ UNCHANGED <<g_endianMode, autoAlignMode, striMode, striOpt, labels, messages>>

(* "Not order name", "No order name".                                       *)
StrayText ==
  /\ Order("text")
  /\ ~IsStriText(TheLine, striMode)
  /\ Report({"order"})
  /\ NextLine /\ EndStri /\ labels' = Labelled /\ g_mem' = Terminated
  /\ UNCHANGED <<g_endianMode, autoAlignMode, striOpt>>

(* Mutant: the value is stored by name, though LBL_Add refused the label.   *)
EquLabelsByName(ln) ==
  IF passNo = 1 /\ ln.lab # NoName THEN [Labelled EXCEPT ![ln.lab].val = TheArg] ELSE Labelled

(* Pass 1 gives the line's own label the value, unless LBL_Add refused it.  *)
EquLabels(ln) ==
  IF passNo = 1 /\ ln.lab # NoName /\ ~Overloaded(ln)
  THEN [Labelled EXCEPT ![ln.lab].val = TheArg]
  ELSE Labelled

Equ ==
  /\ Order("equ")
  /\ labels' = EquLabels(TheLine)
  /\ \E extra \in ExtraCharacters(TheLine) :
       Report(UndefinedIn(TheLine) \cup extra
              \cup If(passNo = 1 /\ (TheLine.lab = NoName \/ Overloaded(TheLine)), "equ"))
  /\ NextLine /\ EndStri /\ g_mem' = Terminated
  /\ UNCHANGED <<g_endianMode, autoAlignMode, striOpt>>

DcValues(ln) == [i \in DOMAIN ln.args |-> Value(ln.args[i], g_adr, Labelled)]

OutOfRange(ln) == \E i \in DOMAIN ln.args : ~InRange(DcValues(ln)[i], ln.md)

(* pass1_dc counts, gen_dc writes.                                          *)
Dc ==
  /\ Order("dc")
  /\ LET ln == TheLine
         start == DcStart(ln, OrderAdr(ln, g_adr, striMode), autoAlignMode)
     IN  /\ g_mem' = IF passNo = 2
                     THEN PokeDc(Terminated, start, DcValues(ln), ln.md, g_endianMode)
                     ELSE Terminated
         /\ Report(IF passNo = 1 THEN If(ln.args = <<>>, "dc")
                   ELSE UndefinedIn(ln) \cup If(OutOfRange(ln), "range"))
  /\ NextLine /\ EndStri /\ labels' = Labelled
  /\ UNCHANGED <<g_endianMode, autoAlignMode, striOpt>>

(* ds, org, align and auto_align: one argument, which some values of make   *)
(* them complain.                                                           *)
BadArgument(ln) ==
  CASE ln.odr = "ds"         -> TheArg < 0
    [] ln.odr = "org"        -> OrderAdr(ln, g_adr, striMode) > TheArg
    [] ln.odr = "align"      -> TheArg \notin 1..MaxAlign
    [] ln.odr = "auto_align" -> TheArg \notin {0, 2, 4, 8}

Argument ==
  /\ \E extra \in ExtraCharacters(TheLine) :
       Report(UndefinedIn(TheLine) \cup extra \cup If(BadArgument(TheLine), TheLine.odr))
  /\ NextLine /\ EndStri /\ labels' = Labelled /\ g_mem' = Terminated
  /\ UNCHANGED g_endianMode

Ds == Order("ds") /\ Argument /\ UNCHANGED <<autoAlignMode, striOpt>>

Org == Order("org") /\ Argument /\ UNCHANGED <<autoAlignMode, striOpt>>

Align == Order("align") /\ Argument /\ UNCHANGED <<autoAlignMode, striOpt>>

SetAutoAlign ==
  /\ Order("auto_align")
  /\ Argument
  /\ autoAlignMode' = GenAutoAlign(TheArg, autoAlignMode)
  /\ UNCHANGED striOpt

Endian ==
  /\ Order("endian")
  /\ g_endianMode' = TheLine.md
  /\ Report({})
  /\ NextLine /\ EndStri /\ labels' = Labelled /\ g_mem' = Terminated
  /\ UNCHANGED <<autoAlignMode, striOpt>>

Stri ==
  /\ Order("stri")
  /\ striMode' = TRUE
  /\ Report({})
  /\ NextLine /\ labels' = Labelled /\ g_mem' = Terminated
  /\ UNCHANGED <<g_endianMode, autoAlignMode, striOpt>>

StriOpt ==
  /\ Order("stri_opt")
  /\ striOpt' = TheArg
  /\ \E extra \in ExtraCharacters(TheLine) : Report(UndefinedIn(TheLine) \cup extra)
  /\ NextLine /\ EndStri /\ labels' = Labelled /\ g_mem' = Terminated
  /\ UNCHANGED <<g_endianMode, autoAlignMode>>

XdefLabels(ln) ==
  IF passNo = 1 THEN [n \in Names |-> XdefEntry(Labelled[n], n, ln.xs)] ELSE Labelled

XdefOrder ==
  /\ Order("xdef")
  /\ labels' = XdefLabels(TheLine)
  /\ Report(If(passNo = 1 /\ TheLine.xs = <<>>, "xdef"))
  /\ NextLine /\ EndStri /\ g_mem' = Terminated
  /\ UNCHANGED <<g_endianMode, autoAlignMode, striOpt>>

(* Pass_Line returns 1 and Pass leaves its loop.                            *)
End ==
  /\ Order("end")
  /\ pc' = Len(srcl) + 1
  /\ Report({})
  /\ EndStri /\ labels' = Labelled /\ g_mem' = Terminated
  /\ UNCHANGED <<g_endianMode, autoAlignMode, striOpt>>

PassLine ==
  \/ NoOrder \/ StriText \/ StrayText \/ Equ \/ Dc \/ Ds \/ Org \/ Align
  \/ SetAutoAlign \/ Endian \/ Stri \/ StriOpt \/ XdefOrder \/ End

-----------------------------------------------------------------------------
(* Main.                                                                    *)

(* Mutant: pass 1 does not count the NUL of a stri the source ends in.      *)
EndPassUncounted ==
  /\ phase = "line"
  /\ pc = Len(srcl) + 1
  /\ phase' = IF passNo = 1 THEN "alloc" ELSE "save"
  /\ g_adr' = IF striMode /\ passNo = 2 THEN g_adr + 1 ELSE g_adr
  /\ g_mem' = IF striMode /\ passNo = 2 THEN Poke(g_mem, g_adr, <<0>>) ELSE g_mem
  /\ striMode' = FALSE
  /\ UNCHANGED <<srcl, passNo, pc, g_endianMode, autoAlignMode, striOpt, labels,
                 messages, outputs, pass1>>

(* The end of Pass: a stri that reaches the end of the source.              *)
EndPass ==
  /\ phase = "line"
  /\ pc = Len(srcl) + 1
  /\ phase' = IF passNo = 1 THEN "alloc" ELSE "save"
  /\ g_adr' = IF striMode THEN g_adr + 1 ELSE g_adr
  /\ g_mem' = IF striMode /\ passNo = 2 THEN Poke(g_mem, g_adr, <<0>>) ELSE g_mem
  /\ striMode' = FALSE
  /\ pass1' = IF passNo = 1
              THEN [pass1 EXCEPT ![pc] =
                      [adr |-> g_adr, mode |-> autoAlignMode, stri |-> striMode,
                       opt |-> striOpt, arg |-> 0]]
              ELSE pass1
  /\ UNCHANGED <<srcl, passNo, pc, g_endianMode, autoAlignMode, striOpt, labels,
                 messages, outputs>>

(* Mutant: g_mem is allocated without clearing it.                          *)
BeginPass2Malloc ==
  /\ phase = "alloc"
  /\ memSize' = g_adr + Slack
  /\ g_mem' = [a \in 0..(g_adr + Slack - 1) |-> 205]
  /\ phase' = "line" /\ passNo' = 2 /\ pc' = 1
  /\ g_adr' = 0
  /\ g_endianMode' = optEndianMode
  /\ UNCHANGED <<srcl, autoAlignMode, striMode, striOpt, labels, messages, file,
                 header, pass1>>

(* g_mem is allocated and Pass(2) begins: it sets g_endianMode and g_adr,   *)
(* and leaves autoAlignMode and striOpt as pass 1 left them.                *)
BeginPass2 ==
  /\ phase = "alloc"
  /\ memSize' = g_adr + Slack
  /\ g_mem' = [a \in 0..(g_adr + Slack - 1) |-> 0]
  /\ phase' = "line" /\ passNo' = 2 /\ pc' = 1
  /\ g_adr' = 0
  /\ g_endianMode' = optEndianMode
  /\ UNCHANGED <<srcl, autoAlignMode, striMode, striOpt, labels, messages, file,
                 header, pass1>>

(* FIL_SaveE(oname, g_mem, g_adr) and gen_hdr: the bytes up to g_adr, and   *)
(* the labels of typ 3.                                                     *)
Save ==
  /\ phase = "save"
  /\ phase' = "done"
  /\ file' = [a \in 0..(g_adr - 1) \cap DOMAIN g_mem |-> g_mem[a]]
  /\ header' = {<<n, labels[n].val>> : n \in {m \in Names : labels[m].typ = XdefLabel}}
  /\ UNCHANGED <<srcl, passNo, pc, g_adr, g_endianMode, autoAlignMode, striMode, striOpt,
                 labels, g_mem, memSize, messages, pass1>>

Finished == phase = "done" /\ UNCHANGED vars

Init ==
  /\ srcl \in Sources
  /\ phase = "line" /\ passNo = 1 /\ pc = 1
  /\ g_adr = 0
  /\ g_endianMode = optEndianMode
  /\ autoAlignMode = optAutoAlign
  /\ striMode = FALSE
  /\ striOpt = 1
  /\ labels = [n \in Names |-> NoEntry]
  /\ g_mem = NoImage
  /\ memSize = 0
  /\ messages = {}
  /\ file = NoImage
  /\ header = {}
  /\ pass1 = [i \in 1..(Len(srcl) + 1) |-> NotReached]

Next == PassLine \/ EndPass \/ BeginPass2 \/ Save \/ Finished

Spec == Init /\ [][Next]_vars
=============================================================================
