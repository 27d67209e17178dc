---------------------------- MODULE MCDcasmPass ----------------------------
(***************************************************************************)
(* Small sources for DcasmPass: every source of up to two lines of all      *)
(* kinds, and longer ones over lines that interact through the layout state *)
(* (alignment, stri, sizes), through the label table, or in the image.      *)
(***************************************************************************)
EXTENDS DcasmPassSafety

CONSTANTS a, b, MaxLayout, MaxLabels, MaxImage

Num(n) == [base |-> NoName, off |-> n]
Ref(n) == [base |-> n, off |-> 0]
Top == [base |-> Here, off |-> 0]

Blank == [lab |-> NoName, odr |-> "none", md |-> 0, args |-> <<>>, xs |-> <<>>,
          lead |-> 0, body |-> 0]
At(n, ln) == [ln EXCEPT !.lab = n]
Data(md, args) == [Blank EXCEPT !.odr = "dc", !.md = md, !.args = args]
Space(md, e) == [Blank EXCEPT !.odr = "ds", !.md = md, !.args = <<e>>]
Do(odr, args) == [Blank EXCEPT !.odr = odr, !.args = args]
Text(lead, body) == [Blank EXCEPT !.odr = "text", !.lead = lead, !.body = body]
Export(xs) == [Blank EXCEPT !.odr = "xdef", !.xs = xs]
ByteOrder(md) == [Blank EXCEPT !.odr = "endian", !.md = md]

LayoutLines ==
  { Data(0, <<Num(1)>>), At(a, Data(1, <<Ref(a), Num(-2)>>)), Data(2, <<Num(259)>>),
    At(a, Blank), Space(1, Num(1)), Space(0, Ref(a)),
    Do("auto_align", <<Num(2)>>), Do("stri", <<>>), Text(1, 2),
    Do("stri_opt", <<Num(2)>>) }

LabelLines ==
  { At(a, Blank), At(b, Data(0, <<Ref(a)>>)), At(a, Do("equ", <<Num(3)>>)),
    At(b, Do("equ", <<Ref(a)>>)), Export(<<a>>), Export(<<a, b>>), Space(0, Ref(b)),
    Do("end", <<>>) }

ImageLines ==
  { ByteOrder(1), ByteOrder(0), Data(0, <<Num(1), Num(-1)>>), Data(1, <<Num(40000), Top>>),
    Data(2, <<Num(-259)>>), Data(3, <<Num(259)>>), Data(0, <<Num(256)>>),
    Data(1, <<Num(-40000)>>), Do("org", <<Num(6)>>), Do("align", <<Num(4)>>),
    Do("stri", <<>>), Text(0, 1), Text(2, 1) }

OddLines ==
  { Data(1, <<>>), At(b, Data(1, <<Ref(b)>>)), Space(2, Num(-1)), Space(3, Num(1)),
    Do("org", <<Ref(b)>>), Do("align", <<Num(0)>>), Do("auto_align", <<Num(8)>>),
    Do("auto_align", <<Num(3)>>), At(b, Text(0, 1)), Do("equ", <<Num(1)>>),
    Do("rem", <<>>), Do("stri_opt", <<Num(0)>>) }

AllLines == LayoutLines \cup LabelLines \cup ImageLines \cup OddLines

MCNames == {a, b}
MCSources ==
  (UNION {[1..k -> AllLines] : k \in 0..2})
  \cup [1..MaxLayout -> LayoutLines]
  \cup [1..MaxLabels -> LabelLines]
  \cup [1..MaxImage -> ImageLines]
=============================================================================
