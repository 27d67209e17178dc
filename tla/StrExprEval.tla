---------------------------- MODULE StrExprEval ----------------------------
(***************************************************************************)
(* The evaluator of src/src/strexpr.c: a recursive descent over the text   *)
(* of an argument, one character or token ahead.  st is the state of the   *)
(* file's static variables: p (ch_p), sym, sv (sym_val), err (expr_err),   *)
(* and v, what the function that ran last returned.  en is what the        *)
(* assembler lends: here (g_adrLinTop) and val, the values of the names    *)
(* GetLblVal4StrExpr finds.                                                *)
(***************************************************************************)
EXTENDS Numerals

Blanks == {" ", "\n"}
TwoChars == {">>", ">=", "<<", "<=", "==", "!=", "&&", "||"}

\* the code of the first error stays, except that an unknown name overrides it
Fail(st, code) == [st EXCEPT !.err = IF @ = 0 THEN code ELSE @]

sym_get(t, st, en) ==
  LET p    == After(t, st.p, Blanks)
      ch   == At(t, p)
      dig  == get_dig(t, p)
      e    == CHOOSE i \in p .. Len(t) + 1 :
                ~isNAMECHR(At(t, i)) /\ \A j \in p .. i - 1 : isNAMECHR(t[j])
      name == SubSeq(t, p, e - 1)
  IN CASE isdigit(ch) -> [st EXCEPT !.p = dig.p, !.sym = "0", !.sv = dig.v]
       [] isNAMETOP(ch) /\ name \in DOMAIN en.val ->
            [st EXCEPT !.p = e, !.sym = "0", !.sv = en.val[name]]
       [] isNAMETOP(ch) /\ name \notin DOMAIN en.val ->
            [st EXCEPT !.p = e, !.sym = "0", !.sv = 0, !.err = 4]
       [] ch \o At(t, p + 1) \in TwoChars ->
            [st EXCEPT !.p = p + 2, !.sym = ch \o At(t, p + 1)]
       [] OTHER -> [st EXCEPT !.p = IF ch = NUL THEN p ELSE p + 1, !.sym = ch]

Operand(t, st, en, v) == [sym_get(t, st, en) EXCEPT !.v = v]

\* mutant: -, / and % take their sides the other way round, as if read from the right
JoinedBackwards(op, l, st) ==
  IF op \in {"/", "%"} /\ st.v = 0 THEN [Fail(st, 3) EXCEPT !.v = 0]
  ELSE [st EXCEPT !.v = IF op = "-" THEN Binary(op, @, l) ELSE Binary(op, l, @)]

\* mutant: && and || drop the errors of any left side
JoinedForgetful(op, l, st) ==
  CASE op \in {"/", "%"} /\ st.v = 0 -> [Fail(st, 3) EXCEPT !.v = 0]
    [] op \in {"&&", "||"}          -> [st EXCEPT !.v = Binary(op, l, @), !.err = 0]
    [] OTHER                         -> [st EXCEPT !.v = Binary(op, l, @)]

\* l op r, where st is the state after r: && and || drop the errors of a true left side
Joined(op, l, st) ==
  CASE op \in {"/", "%"} /\ st.v = 0 -> [Fail(st, 3) EXCEPT !.v = 0]
    [] op \in {"&&", "||"} /\ l # 0  -> [st EXCEPT !.v = Binary(op, l, @), !.err = 0]
    [] OTHER                         -> [st EXCEPT !.v = Binary(op, l, @)]

RECURSIVE expr0(_, _, _), OperandAt(_, _, _), Expr(_, _, _, _), Turn(_, _, _, _)

\* expr1 .. expr9 and expr are this loop, at the levels 1 .. Top of the operators
Expr(k, t, st, en) ==
  IF k = 0 THEN expr0(t, st, en) ELSE Turn(k, t, Expr(k - 1, t, st, en), en)

Turn(k, t, st, en) ==
  IF st.sym \notin Level[k] THEN st
  ELSE Turn(k, t, Joined(st.sym, st.v, Expr(k - 1, t, st, en)), en)

\* the number n of its own notation, and the parenthesis st ends
Numeral(t, st, en, n) == Operand(t, [st EXCEPT !.p = n.p], en, n.v)
Closed(t, st, en) == IF st.sym # ")" THEN Fail(st, 2) ELSE Operand(t, st, en, st.v)

OperandAt(t, st, en) ==
  CASE st.sym = "0" -> Operand(t, st, en, st.sv)
    [] st.sym = "*" -> Operand(t, st, en, en.here)
    [] st.sym = "$" /\ isxdigit(At(t, st.p)) -> Numeral(t, st, en, get_dig16(t, st.p))
    [] st.sym = "$" /\ ~isxdigit(At(t, st.p)) -> Operand(t, st, en, en.here)
    [] st.sym = "%" /\ At(t, st.p) \in {"0", "1"} -> Numeral(t, st, en, get_dig2(t, st.p))
    [] st.sym = "%" /\ At(t, st.p) \notin {"0", "1"} -> Operand(t, Fail(st, 1), en, 0)
    [] st.sym \in {"-", "+", "~", "!"} -> [expr0(t, st, en) EXCEPT !.v = Unary(st.sym, @)]
    [] st.sym = "(" -> Closed(t, Expr(Top, t, st, en), en)
    [] OTHER -> Fail(st, 1)

expr0(t, st, en) == OperandAt(t, [sym_get(t, st, en) EXCEPT !.v = 0], en)

\* what StrExpr gives back: the value, the error code and where the next text is:
\* one character before ch_p, the last of what was looked ahead at
Answer(t, st) == [v |-> st.v, err |-> st.err, nxt |-> IF At(t, st.p) # NUL THEN st.p - 1 ELSE st.p]
StrExpr(t, p, en) ==
  Answer(t, Expr(Top, t, [p |-> p, sym |-> NUL, sv |-> 0, err |-> 0, v |-> 0], en))
=============================================================================
