---------------------------- MODULE MCSourceText ----------------------------
(***************************************************************************)
(* Instances.  Expressions: every operator over every kind of leaf, every  *)
(* pair of levels in both nestings, signs above and below, string          *)
(* comparisons; each notation of numbers; every short text of arguments.   *)
(* Files: short texts in every encoding, with and without its mark, CR and *)
(* option; every short mixture of quotes, comments and line joins; lines   *)
(* of the length that just fits and does not.                              *)
(***************************************************************************)
EXTENDS SourceText

Leaf(text, v)   == [text |-> text, v |-> v, bad |-> 0, for |-> "both"]
Of(who, leaf)   == [leaf EXCEPT !.for = who]
Unknown == [text |-> <<"u">>, v |-> 0, bad |-> 4, for |-> "both"]

MCHere == 5
MCLabels == <<"x">> :> 2

Few  == {Leaf(<<"0">>, 0), Leaf(<<"3">>, 3), Unknown}
Many == Few \cup {Leaf(<<"x">>, 2), Leaf(<<"$", "b">>, 11), Leaf(<<"1", "b">>, 1),
                  Of("dcasm", Leaf(<<"*">>, MCHere)), Of("dcasm", Leaf(<<"$">>, MCHere)),
                  Of("dcasm", Leaf(<<"%", "1", "1">>, 3)),
                  Of("filn", Leaf(<<"d", "e", "f", " ", "x">>, 1)),
                  Of("filn", Leaf(<<"d", "e", "f", "(", "u", ")">>, 0))}

\* strings in the order of the dictionary
Words == << <<>>, <<"a">>, <<"a", "b">>, <<"b">> >>
Str(i) == Of("filn", Leaf(<<"\"">> \o Words[i] \o <<"\"">>, i))

Ops  == UNION {Level[k] : k \in 1 .. Top}
OneOf == {"/", "-", "<<", "<=", "!=", "&", "^", "|", "&&", "||"}
Signs == {"-", "+", "~", "!"}

MCTrees == { e \in
     { Node(op, l, r) : op \in Ops, l \in Many, r \in Many }
       \cup { Node(op, Node(po, a, b), c) : op \in OneOf, po \in OneOf, a \in Few, b \in Few, c \in Few }
       \cup { Node(op, a, Node(po, b, c)) : op \in OneOf, po \in OneOf, a \in Few, b \in Few, c \in Few }
       \cup { Sign(s, Node(op, l, r)) : s \in Signs, op \in OneOf, l \in Few, r \in Few }
       \cup { Node(op, Sign(s, l), Sign(z, r)) : s \in Signs, z \in Signs, op \in OneOf, l \in Few, r \in Few }
       \cup { Sign(s, Sign(z, l)) : s \in Signs, z \in Signs, l \in Many }
       \cup { Node(op, Node(c, Str(i), Str(j)), l) :
                op \in OneOf, c \in Level[4] \cup Level[5], i \in 1 .. 4, j \in 1 .. 4, l \in Few }
       \cup { Node(op, l, Node(c, Str(i), Str(j))) :
                op \in OneOf, c \in Level[4] \cup Level[5], i \in 1 .. 4, j \in 1 .. 4, l \in Few } :
     Defined(e) }

\* d digits of a base and what they are worth
Digits(d) == {"0", "1", "2", "a", "b", "_"} \cap (DigitsOf(d) \cup {"_"})
Worthy(s, base) == FoldLeft(LAMBDA v, c : IF c = "_" THEN v ELSE v * base + (CHOOSE i \in 0 .. 15 : HexDigit[i + 1] = c), 0, s)
Num(b, base, pre, post, macro) ==
  LET s == pre \o b \o post
  IN [text |-> s, v |-> Worthy(b, base), macro |-> macro,
      clash |-> post = <<"h">>
                /\ \/ base = 2
                   \/ "b" \in ToSet(b) /\ ("2" \notin ToSet(b) \/ (b[1] = "0" /\ b[2] = "b"))]
Word3(base) == { b \in UNION {[1 .. n -> Digits(base)] : n \in 1 .. 3} : b[1] # "_" }
Led(base) == { b \in Word3(base) : isdigit(b[1]) }

MCNumbers ==
  { Num(b, 10, <<>>, <<>>, TRUE) : b \in Word3(10) }
  \cup { Num(b, 2, <<>>, <<"b">>, TRUE) : b \in Word3(2) }
  \cup { Num(b, 16, <<>>, <<"h">>, TRUE) : b \in Led(16) \ Led(2) }
  \cup { Num(b, 2, <<>>, <<"h">>, TRUE) : b \in Led(2) }
  \cup { Num(b, 16, <<"$">>, <<>>, TRUE) : b \in Word3(16) }
  \cup { Num(b, 16, <<"0", "x">>, <<>>, TRUE) : b \in Word3(16) }
  \cup { Num(b, 2, <<"0", "b">>, <<>>, TRUE) : b \in Word3(2) }
  \cup { Num(b, 2, <<"%">>, <<>>, FALSE) : b \in Word3(2) }

MCLines == { Append(s, "\n") :
             s \in UNION {[1 .. n -> {"1", "x", "+", "(", ",", "\"", ";", "\\", " "}] : n \in 0 .. 3}
                   \cup UNION {[1 .. n -> {"1", ",", "\"", "'", ";", "\\"}] : n \in 4 .. 5} }

----------------------------------------------------------------------------

\* hiragana A, katakana SO (its second byte is a \ in Shift JIS), a kanji whose first byte
\* is above 9F there and whose bytes in EUC-JP are a character of UTF-8, half-width kana A
MCKuten == {[u |-> 12354, jis |-> 9250, sjis |-> <<130, 160>>, eucjp |-> <<164, 162>>],
            [u |-> 12477, jis |-> 9533, sjis |-> <<131, 92>>, eucjp |-> <<165, 189>>],
            [u |-> 28478, jis |-> 24353, sjis |-> <<224, 64>>, eucjp |-> <<223, 161>>],
            [u |-> 65393, jis |-> 177, sjis |-> <<177>>, eucjp |-> <<142, 177>>]}
Japan == {r.u : r \in MCKuten}

File(t, enc, bom, crlf, cut, opt) ==
  [text |-> t, enc |-> enc, bom |-> bom, crlf |-> crlf, cut |-> cut, opt |-> opt]

Kinds == {<<enc, TRUE>> : enc \in Unicode} \cup {<<enc, FALSE>> : enc \in {"utf8", "utf16le", "sjis", "eucjp"}}
Opts  == {"none", "utf8", "sjis", "eucjp"}

Short(S) == {<<>>} \cup {<<a>> : a \in S} \cup {<<a, b>> : a \in S, b \in S}
\* a text of UTF-16LE that began with NUL would be taken for UTF-32LE: code points beyond TLC's
Texts == { a \o b : a \in { t \in Short({97, 0, 12354, 12477, 28478, 65393, 128512, 955}) : t # <<>> => t[1] # 0 },
                    b \in {<<>>, <<LF>>, <<LF, 97, LF>>, <<LF, LF>>} }

Encodable(t, enc) == enc \in Unicode \/ \A i \in DOMAIN t : t[i] < 128 \/ t[i] \in Japan

EncodingFiles ==
  { f \in { File(t, k[1], k[2], crlf, cut, opt) :
              t \in Texts, k \in Kinds, crlf \in BOOLEAN, cut \in {0, 1}, opt \in Opts } :
      /\ Encodable(f.text, f.enc)
      /\ f.cut = 1 => f.enc \notin {"utf8", "sjis", "eucjp"} /\ f.text # <<>> /\ ~f.crlf
      /\ f.crlf => LF \in ToSet(f.text) /\ f.opt \in {"none", "utf8"} }
  \cup { File(<<97, LF>>, "utf8", FALSE, FALSE, 0, "asc") }

Tokens == {<<97>>, <<34>>, <<39>>, <<59>>, <<47>>, <<42>>, <<47, 42>>, <<42, 47>>, <<92>>, <<LF>>, <<32>>, <<12477>>}
CommentTexts(n) == { FlattenSeq(s) \o <<LF>> : s \in UNION {[1 .. k -> Tokens] : k \in 0 .. n} }
Woven == { FlattenSeq(<<a, b, c, d>>) \o <<LF>> :
             a \in Tokens, b \in {<<47, 42>>, <<92, LF>>}, c \in {<<>>, <<42, 47>>, <<LF, 42, 47>>, <<59>>}, d \in {x \o y : x \in Tokens, y \in Tokens} }

CommentFiles ==
  { File(t, "utf8", FALSE, FALSE, 0, "none") : t \in CommentTexts(3) \cup Woven }
  \cup { File(t, enc, FALSE, FALSE, 0, "none") : t \in CommentTexts(2), enc \in {"sjis", "eucjp"} }
  \cup { File([i \in 1 .. n |-> IF i = n THEN LF ELSE 97], "utf8", FALSE, FALSE, 0, "none") : n \in 11 .. 16 }

MCFiles == EncodingFiles \cup CommentFiles
=============================================================================
