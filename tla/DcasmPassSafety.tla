-------------------------- MODULE DcasmPassSafety --------------------------
(***************************************************************************)
(* What the two passes of module DcasmPass must guarantee.                  *)
(***************************************************************************)
EXTENDS DcasmPass

(* The fields of a line's layout state.                                     *)
LayoutState == [adr : Int, mode : -1..3, stri : BOOLEAN, opt : Int, arg : Int]

(* Every variable of the passes has its type.                               *)
TypeOK ==
  /\ srcl \in Sources
  /\ phase \in {"line", "alloc", "save", "done"}
  /\ passNo \in {1, 2}
  /\ pc \in 1..(Len(srcl) + 1)
  /\ g_adr \in Int
  /\ g_endianMode \in Mds
  /\ autoAlignMode \in 0..3
  /\ striMode \in BOOLEAN
  /\ striOpt \in Int
  /\ labels \in [Names -> Entry]
  /\ memSize \in Int
  /\ pass1 \in [1..(Len(srcl) + 1) -> LayoutState]

-----------------------------------------------------------------------------
(* The sources both passes lay out alike.                                   *)

(* The argument of line i names nothing but labels of line i or before: the *)
(* value pass 1 saw is the one pass 2 will see.                             *)
BackwardArgument(src, i) ==
  src[i].args # <<>> =>
    src[i].args[1].base \in {NoName, Here} \cup {src[j].lab : j \in 1..i}

Layouts == {"ds", "org", "align", "auto_align", "stri_opt"}

Constant(ln) == ln.args # <<>> /\ ln.args[1].base = NoName

SetsMode(ln) == ln.odr = "auto_align" /\ Constant(ln) /\ ln.args[1].off \in {0, 2, 4, 8}

SetsOpt(ln) == ln.odr = "stri_opt" /\ Constant(ln)

KeepsMode(ln) ==
  ln.odr = "auto_align" => SetsMode(ln) /\ GenAutoAlign(ln.args[1].off, 0) = optAutoAlign

KeepsOpt(ln) == ln.odr = "stri_opt" => SetsOpt(ln) /\ ln.args[1].off = 1

ModeFixed(src) == \A i \in DOMAIN src : KeepsMode(src[i])
OptFixed(src) == \A i \in DOMAIN src : KeepsOpt(src[i])

ModeSetBefore(src, i) == \E j \in 1..(i - 1) : SetsMode(src[j])
OptSetBefore(src, i) == \E j \in 1..(i - 1) : SetsOpt(src[j])

(* auto_align and stri_opt either never change the options, or are given    *)
(* before the first order they bear on: Pass does not restore them.         *)
ModeSettled(src) ==
  \/ ModeFixed(src)
  \/ \A i \in DOMAIN src : src[i].odr \in {"dc", "ds"} /\ src[i].md # 0 => ModeSetBefore(src, i)

OptSettled(src) ==
  \/ OptFixed(src)
  \/ \A i \in DOMAIN src : src[i].odr = "text" => OptSetBefore(src, i)

(* The sources for which pass 2 repeats pass 1.                             *)
WellFormed(src) ==
  /\ \A i \in DOMAIN src : src[i].odr \in Layouts => BackwardArgument(src, i)
  /\ \A i \in DOMAIN src : src[i].odr = "dc" => src[i].args # <<>>
  /\ ModeSettled(src)
  /\ OptSettled(src)

Reached(i) == pass1[i].mode # NotReached.mode

-----------------------------------------------------------------------------
(* Pass 2 finds every line of a well-formed source at the address where     *)
(* pass 1 found it, and inside or outside a stri as pass 1 did: the label   *)
(* values pass 1 left are addresses of the image (Pass, Pass_Line).         *)
PassesAgree ==
  WellFormed(srcl) /\ passNo = 2 /\ phase = "line" =>
    /\ Reached(pc)
    /\ g_adr = pass1[pc].adr
    /\ striMode = pass1[pc].stri

(* Pass 2 of a well-formed source writes only inside the block Main         *)
(* allocated from the size pass 1 counted, the uncounted NUL of GenStri     *)
(* included, and the saved size fits the block.                             *)
WritesInBounds ==
  WellFormed(srcl) /\ passNo = 2 =>
    /\ DOMAIN g_mem = 0..(memSize - 1)
    /\ phase \in {"save", "done"} => g_adr <= memSize - Slack

BindOnce ==
  \A n \in Names :
    /\ Bound(labels[n]) => Bound(labels'[n]) /\ labels'[n].val = labels[n].val
    /\ passNo = 2 => labels'[n] = labels[n]

(* A name's value never changes once "name:" has defined it, and pass 2     *)
(* changes no label at all (LBL_Add, and the pass 1 guards of Pass_Line).   *)
LabelsBindOnce == [][BindOnce]_vars

(* The first line reached that defines n, and the xdefs of n.               *)
Defines(i, n) == Reached(i) /\ srcl[i].lab = n
FirstDefinition(i, n) == Defines(i, n) /\ \A j \in 1..(i - 1) : ~Defines(j, n)
Exports(i, n) == Reached(i) /\ srcl[i].odr = "xdef" /\ n \in {srcl[i].xs[k] : k \in DOMAIN srcl[i].xs}
ExportedOnce(n) ==
  \A i, j \in DOMAIN srcl : \A k \in DOMAIN srcl[i].xs : \A m \in DOMAIN srcl[j].xs :
    srcl[i].xs[k] = n /\ srcl[j].xs[m] = n => i = j /\ k = m

(* In the finished image of a well-formed source a label that is no equ is  *)
(* the address at which pass 2 met its first line, wherever the xdef that   *)
(* names it stands and however often the name is defined again.  (A second  *)
(* xdef before the definition takes it away: LBL_Add makes its typ 3.)      *)
LabelIsAddress ==
  WellFormed(srcl) /\ phase = "done" =>
    \A i \in DOMAIN srcl : \A n \in Names :
      FirstDefinition(i, n) /\ srcl[i].odr # "equ" /\ ExportedOnce(n) =>
        Bound(labels[n]) /\ labels[n].val = pass1[i].adr

(* The -h file defines the labels that are both defined and exported, in    *)
(* whichever order the two happened (LBL_Add, gen_hdr).                     *)
HeaderListsExports ==
  phase = "done" =>
    \A n \in Names : ExportedOnce(n) =>
      (<<n, labels[n].val>> \in header <=>
         (\E i \in DOMAIN srcl : Defines(i, n)) /\ (\E i \in DOMAIN srcl : Exports(i, n)))

(* The byte order in force at line i.                                       *)
EndianAt(i) ==
  LET set == {j \in 1..(i - 1) : srcl[j].odr = "endian"}
  IN  IF set = {} THEN optEndianMode
      ELSE srcl[CHOOSE j \in set : \A k \in set : k <= j].md

(* The number the n bytes of the file from adr hold, as a signed integer.   *)
Stored(adr, n, endian) ==
  LET byte(k) == file[adr + (IF endian = 0 THEN n - k ELSE k - 1)]
      num[k \in 1..n] == IF k = 1 THEN IF byte(1) >= 128 THEN byte(1) - 256 ELSE byte(1)
                         ELSE num[k - 1] * 256 + byte(k)
  IN  num[n]

Modulus(md) == CASE md = 0 -> 256 [] md = 1 -> 65536 [] md = 2 -> 65536 * 65536

(* It is v, or v as an unsigned number; 64-bit values are signed.           *)
Holds(adr, md, endian, v) ==
  LET got == Stored(adr, Size(md), endian)
  IN  \/ got = v
      \/ got < 0 /\ v >= 0 /\ md < 3 /\ got + Modulus(md) = v

DcLineStart(i) == DcStart(srcl[i], OrderAdr(srcl[i], pass1[i].adr, pass1[i].stri), pass1[i].mode)

(* Datum k of the dc of line i, under the final labels, and its address.    *)
Datum(i, k) == Value(srcl[i].args[k], pass1[i].adr, labels)
DatumAdr(i, k) == DcLineStart(i) + (k - 1) * Size(srcl[i].md)

(* The values an expression can have: val_t has 64 bits.                    *)
FitsVal(v) == Shr(v, 7) \in -128..127

(* When a well-formed source is finished without a message, each datum of   *)
(* each dc can be read back from the file: at its place, in the byte order  *)
(* then in force, it is the value of its expression under the final labels  *)
(* (putOne, gen_dc, GenStri's uncounted NUL, FIL_SaveE).                    *)
SilentImageExact ==
  WellFormed(srcl) /\ phase = "done" /\ messages = {} =>
    \A i \in DOMAIN srcl : Reached(i) /\ srcl[i].odr = "dc" =>
      \A k \in DOMAIN srcl[i].args :
        FitsVal(Datum(i, k)) =>
          Holds(DatumAdr(i, k), srcl[i].md, EndianAt(i), Datum(i, k))

(* The addresses of the image that hold data of a line met in layout state  *)
(* s, the NUL that ends a stri before the line included.                    *)
DataAt(ln, s) ==
  LET start == OrderAdr(ln, s.adr, s.stri)
  IN  (IF s.stri /\ EndsStri(ln) THEN {s.adr} ELSE {})
      \cup (CASE ln.odr = "dc" -> DcStart(ln, start, s.mode)..(DcEnd(ln, start, s.mode, 2) - 1)
              [] IsStriText(ln, s.stri) -> s.adr..(s.adr + TextLen(ln, s.opt) - 1)
              [] OTHER -> {})

DataOf(i) == DataAt(srcl[i], pass1[i])

(* Everything else in the file is 0: the gaps of ds, org, align and the     *)
(* alignment of dc, whatever was written around them; and text of a stri is *)
(* never overwritten by a NUL.                                              *)
GapsAreZero ==
  WellFormed(srcl) /\ phase = "done" =>
    /\ \A a \in DOMAIN file :
         (\A i \in DOMAIN srcl : Reached(i) => a \notin DataOf(i)) => file[a] = 0
    /\ \A i \in DOMAIN srcl : Reached(i) /\ IsStriText(srcl[i], pass1[i].stri) =>
         \A a \in DataOf(i) : file[a] # 0

-----------------------------------------------------------------------------
(* Why the passes agree: pass 1 remembers a run of one layout function, and  *)
(* pass 2 applies the same function to the same arguments.                  *)

CurrentLayout ==
  [adr |-> g_adr, mode |-> autoAlignMode, stri |-> striMode, opt |-> striOpt]

(* The layout state after line ln in pass n, from s and the argument arg.   *)
Moved(ln, n, s, arg) ==
  [adr  |-> NextAdr(ln, n, OrderAdr(ln, s.adr, s.stri), arg, s.mode, s.stri, s.opt),
   mode |-> IF ln.odr = "auto_align" THEN GenAutoAlign(arg, s.mode) ELSE s.mode,
   stri |-> ln.odr = "stri" \/ (s.stri /\ ~EndsStri(ln)),
   opt  |-> IF ln.odr = "stri_opt" THEN arg ELSE s.opt]

Remembered(i) ==
  [adr |-> pass1[i].adr, mode |-> pass1[i].mode, stri |-> pass1[i].stri, opt |-> pass1[i].opt]

(* The layout state pass 1 meets line i in, the line it is at included.     *)
Pass1Layout(i) ==
  IF passNo = 1 /\ phase = "line" /\ i = pc THEN CurrentLayout ELSE Remembered(i)

NextPc(src, i) == IF src[i].odr = "end" THEN Len(src) + 1 ELSE i + 1

(* Pass 1 goes through the lines in order and has run all before its own.   *)
Front ==
  passNo = 1 /\ phase = "line" =>
    /\ \A i \in 1..(Len(srcl) + 1) : Reached(i) => i < pc
    /\ pc <= Len(srcl) => \A i \in 1..(pc - 1) : Reached(i) /\ srcl[i].odr # "end"

ReachedInOrder == \A i \in DOMAIN srcl : Reached(i) => \A j \in 1..i : Reached(j)

(* What pass 1 remembers is a run of Moved from the initial layout.         *)
Trace ==
  /\ Pass1Layout(1) = [adr |-> 0, mode |-> optAutoAlign, stri |-> FALSE, opt |-> 1]
  /\ \A i \in DOMAIN srcl :
       Reached(i) => Pass1Layout(NextPc(srcl, i)) = Moved(srcl[i], 1, Remembered(i), pass1[i].arg)

LabelsBound ==
  \A i \in DOMAIN srcl : Reached(i) /\ srcl[i].lab # NoName => Bound(labels[srcl[i].lab])

(* A backward argument keeps the value pass 1 saw.                          *)
ArgumentsKept ==
  \A i \in DOMAIN srcl : Reached(i) /\ srcl[i].odr \in Layouts /\ BackwardArgument(srcl, i) =>
    pass1[i].arg = Arg(srcl[i], pass1[i].adr, labels)

OptionsKept ==
  /\ ModeFixed(srcl) => /\ autoAlignMode = optAutoAlign
                  /\ \A i \in 1..(Len(srcl) + 1) : Reached(i) => pass1[i].mode = optAutoAlign
  /\ OptFixed(srcl) => /\ striOpt = 1
                 /\ \A i \in 1..(Len(srcl) + 1) : Reached(i) => pass1[i].opt = 1

(* Pass 2 is at a line pass 1 reached, with the same options once they are  *)
(* set.                                                                     *)
InStep ==
  /\ phase = "alloc" => striMode = FALSE
  /\ WellFormed(srcl) /\ passNo = 2 /\ phase = "line" /\ pc <= Len(srcl) =>
       /\ ModeSetBefore(srcl, pc) => autoAlignMode = pass1[pc].mode
       /\ OptSetBefore(srcl, pc) => striOpt = pass1[pc].opt

(* The inductive invariant behind PassesAgree.                              *)
AgreementInvariant ==
  /\ Front /\ ReachedInOrder /\ Trace /\ LabelsBound /\ ArgumentsKept
  /\ OptionsKept /\ InStep /\ PassesAgree

-----------------------------------------------------------------------------
(* Why the image fits its block: addresses only grow, so that none is past   *)
(* the one pass 1 ended at, and pass 2 ends there too.                      *)

(* The address pass 1 has come to.                                          *)
TopAdr == IF passNo = 1 /\ phase = "line" THEN g_adr ELSE pass1[Len(srcl) + 1].adr

AddressesGrow ==
  /\ g_adr \in Nat
  /\ \A i \in 1..(Len(srcl) + 1) : Reached(i) => pass1[i].adr \in Nat /\ pass1[i].adr <= TopAdr
  /\ \A i, j \in 1..(Len(srcl) + 1) :
       Reached(i) /\ Reached(j) /\ i <= j => pass1[i].adr <= pass1[j].adr

(* What pass 1 counted, the NUL of a stri the source ends in included.      *)
Counted ==
  pass1[Len(srcl) + 1].adr + IF pass1[Len(srcl) + 1].stri THEN 1 ELSE 0

SizeKept ==
  /\ passNo = 2 \/ phase # "line" => Reached(Len(srcl) + 1)
  /\ phase = "alloc" => passNo = 1 /\ g_adr = Counted
  /\ phase \in {"save", "done"} => passNo = 2
  /\ passNo = 2 => memSize = Counted + Slack
  /\ WellFormed(srcl) /\ passNo = 2 => DOMAIN g_mem = 0..(memSize - 1)
  /\ WellFormed(srcl) /\ phase \in {"save", "done"} => g_adr = Counted

(* The inductive invariant behind WritesInBounds.                           *)
BoundsInvariant == AddressesGrow /\ SizeKept

(* What pass 2 has written so far: data of the lines it has passed, and 0.  *)
Passed(i) == Reached(i) /\ (phase = "line" => i < pc)

ImageSoFar ==
  WellFormed(srcl) /\ passNo = 2 =>
    /\ \A a \in DOMAIN g_mem :
         (\A i \in DOMAIN srcl : Passed(i) => a \notin DataOf(i)) => g_mem[a] = 0
    /\ \A i \in DOMAIN srcl : Passed(i) /\ IsStriText(srcl[i], pass1[i].stri) =>
         \A a \in DataOf(i) : a \in 0..(g_adr - 1) /\ g_mem[a] # 0

(* Pass 1 runs no line after an end.                                        *)
EndStops ==
  \A i, j \in DOMAIN srcl : Reached(i) /\ srcl[i].odr = "end" /\ Reached(j) => j <= i

(* The inductive invariant behind GapsAreZero.                              *)
ImageInvariant ==
  /\ EndStops
  /\ ImageSoFar
  /\ phase = "done" => file = [a \in 0..(g_adr - 1) \cap DOMAIN g_mem |-> g_mem[a]]

(* The byte order pass 2 is in, the data it has written so far, and whether *)
(* it has reported those that do not fit.                                   *)
OrderInForce == phase = "line" /\ pc <= Len(srcl) => g_endianMode = EndianAt(pc)

DatumPlaced(i, k) ==
  LET n == Size(srcl[i].md)
      bytes == Bytes(Datum(i, k), n, EndianAt(i))
  IN  \A b \in 1..n : /\ DatumAdr(i, k) + b - 1 \in 0..(g_adr - 1)
                       /\ g_mem[DatumAdr(i, k) + b - 1] = bytes[b]

DataPlaced ==
  WellFormed(srcl) /\ passNo = 2 =>
    \A i \in DOMAIN srcl : Passed(i) /\ srcl[i].odr = "dc" =>
      \A k \in DOMAIN srcl[i].args :
        DatumPlaced(i, k) /\ (InRange(Datum(i, k), srcl[i].md) \/ "range" \in messages)

(* The inductive invariant behind SilentImageExact.                         *)
DataInvariant == OrderInForce /\ DataPlaced

(* What the label table knows of a name exported at most once: whether it   *)
(* has been defined, whether it has been exported, and where.               *)
LabelHistory ==
  \A n \in Names : ExportedOnce(n) =>
    /\ Bound(labels[n]) <=> \E i \in DOMAIN srcl : Defines(i, n)
    /\ labels[n].typ \in {Xdef, XdefLabel} <=> \E i \in DOMAIN srcl : Exports(i, n)
    /\ \A i \in DOMAIN srcl :
         FirstDefinition(i, n) /\ srcl[i].odr # "equ" => labels[n].val = pass1[i].adr

(* The inductive invariant behind LabelIsAddress and HeaderListsExports.    *)
LabelInvariant ==
  /\ LabelHistory
  /\ phase = "done" =>
       header = {<<n, labels[n].val>> : n \in {m \in Names : labels[m].typ = XdefLabel}}

-----------------------------------------------------------------------------
(* What the sources and documents of dcasm say and the passes do not do.    *)

(* "Pass1: get the addresses" (Main): for a source that names no label it   *)
(* does not know yet in an order that moves the address, and has no empty   *)
(* dc and no stri_opt, pass 2 meets each line at the address pass 1 gave it. *)
Pass1FindsAddresses ==
  /\ \A i \in DOMAIN srcl : srcl[i].odr \in Layouts => BackwardArgument(srcl, i)
  /\ \A i \in DOMAIN srcl : srcl[i].odr = "dc" => srcl[i].args # <<>>
  /\ OptFixed(srcl)
  /\ passNo = 2 /\ phase = "line"
  => g_adr = pass1[pc].adr

(* "LBL: equ N  makes N the value of LBL": in a run without messages.       *)
EquHasItsValue ==
  WellFormed(srcl) /\ phase = "done" /\ messages = {} =>
    \A i \in DOMAIN srcl : \A n \in Names :
      FirstDefinition(i, n) /\ srcl[i].odr = "equ" =>
        labels[n].val = Arg(srcl[i], pass1[i].adr, labels)

(* "ds.<b|w|l|q> N  reserves N of them".                                    *)
DsReserves ==
  WellFormed(srcl) /\ phase = "done" =>
    \A i \in DOMAIN srcl : Reached(i) /\ srcl[i].odr = "ds" /\ pass1[i].arg >= 0 =>
      pass1[i + 1].adr >= pass1[i].adr + pass1[i].arg * Size(srcl[i].md)

(* "'%s' is overloaded": a name defined twice is reported.                  *)
RedefinitionReported ==
  phase = "done" /\ (\E i, j \in DOMAIN srcl : \E n \in Names :
                       i # j /\ Defines(i, n) /\ Defines(j, n))
  => "overloaded" \in messages
=============================================================================
