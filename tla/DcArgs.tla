------------------------------- MODULE DcArgs -------------------------------
(***************************************************************************)
(* The arguments of an assembler line (src/src/dcasm.c): pass 1 counts     *)
(* them, pass 2 reads them again and puts their values, from the same text *)
(* by loops of their own.  A text ends with a newline; past it lies the    *)
(* NUL, and what is past that belongs to nobody but strdupE's padding.     *)
(* A character of a string is stood for by the text that names it.         *)
(* cesc is cescMode: \ escapes in strings.                                 *)
(***************************************************************************)
EXTENDS StrExprEval

Octal == DigitsOf(8)
EndsLine == {";", NUL, "\n"}

\* a newline is a blank too
StrSkipSpc(t, p) == IF p > Len(t) THEN p ELSE After(t, p, Blanks)

\* at most n characters of S from p on
Run(t, p, S, n) == CHOOSE e \in p .. p + n :
                     /\ \A i \in p .. e - 1 : At(t, i) \in S
                     /\ e = p + n \/ At(t, e) \notin S

\* where the character that starts at p ends
GetCh(t, p, cesc) ==
  LET c == At(t, p + 1)
  IN CASE ~(cesc /\ At(t, p) = "\\") -> IF At(t, p) = NUL THEN p ELSE p + 1
       [] c = NUL    -> p + 1
       [] c \in Octal -> Run(t, p + 2, Octal, 3)
       [] c = "x"    -> Run(t, p + 2, DigitsOf(16), 2)
       [] c = "X"    -> Run(t, p + 2, DigitsOf(16), 8)
       [] OTHER      -> p + 2

RECURSIVE CountString(_, _, _, _), CountFrom(_, _, _, _, _), CountNext(_, _, _, _), PutString(_, _, _, _),
          PutFrom(_, _, _, _, _, _), PutNext(_, _, _, _), LinSepFrom(_, _, _, _)

\* mutant: pass 1 counts characters where pass 2 reads escapes
CountStringPlain(t, s, i, cesc) ==
  CASE At(t, s) = NUL  -> [i |-> i, p |-> s]
    [] At(t, s) = "\"" -> [i |-> i, p |-> s + 1]
    [] OTHER           -> CountString(t, s + 1, i + 1, cesc)

CountString(t, s, i, cesc) ==
  CASE At(t, s) = NUL  -> [i |-> i, p |-> s]
    [] At(t, s) = "\"" -> [i |-> i, p |-> s + 1]
    [] OTHER           -> CountString(t, GetCh(t, s, cesc), i + 1, cesc)

CountOne(t, s, i, en, cesc) ==
  IF At(t, s) = "\"" THEN CountString(t, s + 1, i, cesc)
  ELSE [i |-> i + 1, p |-> StrExpr(t, s, en).nxt]

\* a comma after the argument a, and there are more
CountNext(t, a, en, cesc) ==
  LET e == StrSkipSpc(t, a.p)
  IN IF At(t, e) = "," THEN CountFrom(t, e + 1, a.i, en, cesc) ELSE [a EXCEPT !.p = e]

CountFrom(t, p, i, en, cesc) ==
  LET s == StrSkipSpc(t, p)
  IN IF At(t, s) \in EndsLine THEN [i |-> i, p |-> s]
     ELSE CountNext(t, CountOne(t, s, i, en, cesc), en, cesc)

\* and it leaves the pointer one short
CountArg(t, p, en, cesc) == [CountFrom(t, p, 0, en, cesc) EXCEPT !.p = @ - 1]

PutString(t, s, had, cesc) ==
  LET e == GetCh(t, s, cesc)
  IN CASE At(t, s) = NUL  -> [vals |-> had.vals, errs |-> had.errs, p |-> s]
       [] At(t, s) = "\"" -> [vals |-> had.vals, errs |-> had.errs, p |-> s + 1]
       [] OTHER -> PutString(t, e, [had EXCEPT !.vals = Append(@, [c |-> SubSeq(t, s, e - 1), v |-> 0])], cesc)

PutValue(x, vals, errs) ==
  [vals |-> Append(vals, [c |-> <<>>, v |-> x.v]), errs |-> errs \cup ({x.err} \ {0}), p |-> x.nxt]
PutOne(t, s, vals, errs, en, cesc) ==
  IF At(t, s) = "\"" THEN PutString(t, s + 1, [vals |-> vals, errs |-> errs], cesc)
  ELSE PutValue(StrExpr(t, s, en), vals, errs)

PutNext(t, a, en, cesc) ==
  LET e == StrSkipSpc(t, a.p)
  IN IF At(t, e) = "," THEN PutFrom(t, e + 1, a.vals, a.errs, en, cesc) ELSE [a EXCEPT !.p = e]

PutFrom(t, p, vals, errs, en, cesc) ==
  LET s == StrSkipSpc(t, p)
  IN IF At(t, s) \in EndsLine THEN [vals |-> vals, errs |-> errs, p |-> s]
     ELSE PutNext(t, PutOne(t, s, vals, errs, en, cesc), en, cesc)

gen_dc(t, p, en, cesc) == PutFrom(t, p, <<>>, {}, en, cesc)

\* mutant: the end of the text is passed over with the character after the argument
ArgEndPast(t, x, e) ==
  [v |-> x.v, errs |-> ({x.err} \ {0}) \cup (IF At(t, e) = "," THEN {5} ELSE {}),
   p |-> IF At(t, e) = NUL THEN e + 2 ELSE e + 1]

\* what the argument x leaves, when the character after it is at e
ArgEnd(t, x, e) ==
  [v |-> x.v, errs |-> ({x.err} \ {0}) \cup (IF At(t, e) = "," THEN {5} ELSE {}), p |-> e + 1]
ArgAt(t, x) == ArgEnd(t, x, StrSkipSpc(t, x.nxt))

\* one argument, as every caller wants it: none is 0 without a word, and the
\* character after it is passed over whatever it is
GetArg(t, p, en) ==
  LET s == StrSkipSpc(t, p)
  IN IF At(t, s) \in EndsLine THEN [v |-> 0, errs |-> {}, p |-> s] ELSE ArgAt(t, StrExpr(t, s, en))

----------------------------------------------------------------------------
(* With the option that makes ; separate statements, a line is cut first.  *)

\* mutant: a ; ends the statement inside quotes, too
LinSepQuoteless(t, p, k, piece) ==
  LET c == At(t, p)
  IN CASE c = NUL           -> [piece |-> Append(piece, "\n"), p |-> p]
       [] c \in {"\n", ";"} -> [piece |-> Append(piece, "\n"), p |-> p + 1]
       [] OTHER             -> LinSepFrom(t, p + 1, k, Append(piece, c))

\* one piece from p on: k is the quote it is in, if any
LinSepFrom(t, p, k, piece) ==
  LET c == At(t, p)
  IN CASE c = NUL                -> [piece |-> Append(piece, "\n"), p |-> p]
       [] c = "\n" \/ (k = NUL /\ c = ";") -> [piece |-> Append(piece, "\n"), p |-> p + 1]
       [] c \in {"\"", "'"} /\ k \in {NUL, c} ->
            LinSepFrom(t, p + 1, IF k = c THEN NUL ELSE c, Append(piece, c))
       [] k # NUL /\ c = "\\" /\ At(t, p + 1) # NUL ->
            LinSepFrom(t, p + 2, k, piece \o <<c, At(t, p + 1)>>)
       [] OTHER -> LinSepFrom(t, p + 1, k, Append(piece, c))

LinSep(t, p) == LinSepFrom(t, p, NUL, <<>>)

RECURSIVE Pieces(_, _)
Pieces(t, p) == IF At(t, p) = NUL THEN <<>>
                ELSE LET a == LinSep(t, p) IN <<a.piece>> \o Pieces(t, a.p)
=============================================================================
