------------------------------ MODULE FilnExpr ------------------------------
(***************************************************************************)
(* The evaluator of the preprocessor, M_Expr of src/src/filn.c: #if, #elif *)
(* and #set after macro expansion.  st holds p (M_ep), sym (M_sym), sv     *)
(* (M_val), str and str2 (M_expr_str, M_expr_str2: a string operand        *)
(* waiting for its comparison), skip (errLblSkip), last (Expr0_nam, of     *)
(* this line), msgs, the messages given, and v, what the function that ran *)
(* last returned.  set is the values of the #set names, defs the other     *)
(* names the macro table holds.                                            *)
(***************************************************************************)
EXTENDS Numerals

Spaces == {" "}
SymKigo == {"_", "@", "."}
\* the two-character symbols of M_GetSym0; "!" and "=" only with "="
MTwoChars == {"&&", "||", "<<", "<=", ">>", ">=", "//", "/=", "!=", "=="}

Say(st, m) == [st EXCEPT !.msgs = @ \cup {m}]

\* a token; a name or a string is left in sv, $ starts a number (opt_mot_doll)
M_GetSym(t, st) ==
  LET p   == After(t, st.p, Spaces)
      c   == At(t, p)
      dig == M_GetSymDigit(t, p, FALSE)
      e   == After(t, p, Alpha \cup SymKigo \cup DigitsOf(10))
      q   == After(t, p + 1, Alpha \cup DigitsOf(10) \cup {" "})
      d   == After(t, p + 1, DigitsOf(16) \cup {"_"})
  IN CASE c \in Alpha \cup SymKigo -> [st EXCEPT !.p = e, !.sym = "A", !.sv = SubSeq(t, p, e - 1)]
       [] isdigit(c) -> [st EXCEPT !.p = dig.p, !.sym = "0", !.sv = dig.v]
       [] c = "\"" -> [st EXCEPT !.p = IF At(t, q) = "\"" THEN q + 1 ELSE q, !.sym = "\"",
                                 !.sv = SubSeq(t, p, IF At(t, q) = "\"" THEN q ELSE q - 1)]
       [] c = "$" -> [st EXCEPT !.p = d, !.sym = "0", !.sv = Worth(t, p + 1, d, 16)]
       [] c = NUL -> [st EXCEPT !.p = p, !.sym = NUL]
       [] c \o At(t, p + 1) \in MTwoChars -> [st EXCEPT !.p = p + 2, !.sym = c \o At(t, p + 1)]
       [] OTHER -> [st EXCEPT !.p = p + 1, !.sym = c]

Next1(t, st, v) == [M_GetSym(t, st) EXCEPT !.v = v]

\* the order of strcmp; the strings have their quotes with them
ByteOrder == <<" ", "\"">> \o HexDigit
StrLess(a, b) ==
  \E i \in 1 .. Len(b) :
    /\ \A j \in 1 .. i - 1 : j <= Len(a) /\ a[j] = b[j]
    /\ i = Len(a) + 1 \/ (i <= Len(a) /\ \E m, n \in DOMAIN ByteOrder :
                            m < n /\ a[i] = ByteOrder[m] /\ b[i] = ByteOrder[n])

None == <<>>  \* an empty M_expr_str: no string waits

\* defined NAME or defined(NAME), after the word
IsDefined(st, names) == Bit(st.sym = "A" /\ st.sv \in names)
Complain(st, sym, m) == IF st.sym = sym THEN st ELSE Say(st, m)
DefinedPar(t, st, names) ==
  Next1(t, Complain(M_GetSym(t, st), ")", "defined"), IsDefined(st, names))
DefinedAt(t, st, names) ==
  IF st.sym = "(" THEN DefinedPar(t, M_GetSym(t, st), names) ELSE Next1(t, st, IsDefined(st, names))
M_ChkDefined(t, st, names) == DefinedAt(t, M_GetSym(t, st), names)

\* mutant: an unknown name is told wherever it stands
NameLoud(t, st, set, defs) ==
  CASE st.sv = <<"d", "e", "f">> -> M_ChkDefined(t, st, DOMAIN set \cup defs)
    [] st.sv \in DOMAIN set -> Next1(t, st, set[st.sv])
    [] OTHER -> Next1(t, Say(st, "undefined"), 0)

\* the value of a name: an unknown one is reported unless && or || stands before
\* it, or the same name came before it on this line, reported or not
Name(t, st, set, defs) ==
  CASE st.sv = <<"d", "e", "f">> -> M_ChkDefined(t, st, DOMAIN set \cup defs)
    [] st.sv \in DOMAIN set -> Next1(t, st, set[st.sv])
    [] st.sv \in defs -> Next1(t, Say(st, "prgerr"), 0)
    [] OTHER -> Next1(t, [(IF st.skip \/ st.last = st.sv THEN st ELSE Say(st, "undefined"))
                          EXCEPT !.last = st.sv], 0)

\* the comparison of the strings str2 and str, as the right side left them
Strings(op, st) ==
  LET a == st.str2
      b == st.str
      c == CASE op = ">"  -> StrLess(b, a) [] op = "<"  -> StrLess(a, b)
             [] op = ">=" -> ~StrLess(a, b) [] op = "<=" -> ~StrLess(b, a)
  IN [st EXCEPT !.v = Bit(c), !.str = None, !.str2 = None]

Equal(op, st, l) ==
  LET eq == IF st.str # None THEN st.str2 = st.str ELSE l.v = st.v
  IN [st EXCEPT !.v = Bit(eq = (op = "==")), !.str = None, !.str2 = None]

\* before the right side: a string moves to the one str2 there is, which a
\* comparison within the right side clears; && and || switch messages off
Waiting(st) ==
  [st EXCEPT !.skip = @ \/ st.sym \in {"&&", "||"},
             !.str2 = IF st.sym \in Level[4] \cup Level[5] /\ st.str # None THEN st.str ELSE @]

RECURSIVE M_Expr0(_, _, _, _), M_Operand(_, _, _, _), M_ExprAt(_, _, _, _, _), M_Turn(_, _, _, _, _)

\* l op r; after the right side of && and || messages are given as before it
MJoined(op, l, r) ==
  CASE op \in Level[4] /\ l.str # None -> Strings(op, r)
    [] op \in Level[5] -> Equal(op, r, l)
    [] OTHER -> [r EXCEPT !.v = Binary(op, l.v, @), !.skip = l.skip]

ParEnd(t, st) == Next1(t, Complain(st, ")", "paren"), st.v)

\* M_Expr1 .. M_ExprA
M_ExprAt(k, t, st, set, defs) ==
  IF k = 0 THEN M_Expr0(t, st, set, defs)
  ELSE M_Turn(k, t, M_ExprAt(k - 1, t, st, set, defs), set, defs)

\* a division by zero leaves the loop
M_Turn(k, t, l, set, defs) ==
  IF l.sym \notin Level[k] THEN l
  ELSE LET r == M_ExprAt(k - 1, t, Waiting(l), set, defs)
       IN IF l.sym \in {"/", "%"} /\ r.v = 0 THEN [Say(r, "zero") EXCEPT !.v = 0]
          ELSE M_Turn(k, t, MJoined(l.sym, l, r), set, defs)

\* what starts with the token st has come to
M_Operand(t, st, set, defs) ==
  CASE st.sym = "A" -> Name(t, st, set, defs)
    [] st.sym = "0" -> Next1(t, st, st.sv)
    [] st.sym = "(" -> ParEnd(t, M_ExprAt(Top, t, st, set, defs))
    [] st.sym \in {"-", "+", "~", "!"} -> [M_Expr0(t, st, set, defs) EXCEPT !.v = Unary(st.sym, @)]
    [] st.sym = "\"" -> Next1(t, [st EXCEPT !.str = st.sv], 0)
    [] st.sym = NUL -> Next1(t, st, 0)
    [] OTHER -> Say(st, "unexpected")

M_Expr0(t, st, set, defs) ==
  M_Operand(t, [M_GetSym(t, [st EXCEPT !.str = None]) EXCEPT !.v = 0], set, defs)

\* left: what M_ChkEol is given to complain about
MAnswer(st) == [v |-> st.v, msgs |-> st.msgs, left |-> st.sym # NUL /\ st.sym # "//"]
M_Expr(t, set, defs) ==
  MAnswer(M_ExprAt(Top, t, [p |-> 1, sym |-> NUL, sv |-> 0, str |-> None, str2 |-> None,
                           skip |-> FALSE, last |-> None, msgs |-> {}, v |-> 0], set, defs))
=============================================================================
