---------------------------- MODULE Expressions ----------------------------
(***************************************************************************)
(* The two evaluators and the argument loops at work: a job is an          *)
(* expression, a number or an assembler line, and its step hands it to the *)
(* code that reads it.  What the expression means (ExprTrees), what the    *)
(* number says (its notation in dcasm.txt) and what the other pass makes   *)
(* of the line are what the answers are compared with.                     *)
(***************************************************************************)
EXTENDS ExprTrees, DcArgs, FilnExpr

CONSTANTS
  Trees,    \* expressions; only those without a leaf of dcasm's own are also filn's
  Numbers,  \* records [text, v, clash, macro]: a notation, its value, whether it ends in h and
            \* means something else to the code, whether filn has it
  Lines,    \* texts of arguments, each ended by a newline
  Here,     \* g_adrLinTop
  Labels    \* the labels of pass 2 that are numbers, and the #set names of filn

VARIABLES job, out
evalVars == <<job, out>>

NoAnswer == [kind |-> "none"]
Pass1Env == [here |-> Here, val |-> <<>>]
Pass2Env == [here |-> Here, val |-> Labels]

RECURSIVE Leaves(_)
Leaves(e) == IF IsLeaf(e) THEN {e} ELSE UNION {Leaves(e.kids[i]) : i \in DOMAIN e.kids}
ForFiln(e)  == \A leaf \in Leaves(e) : leaf.for # "dcasm"
ForDcasm(e) == \A leaf \in Leaves(e) : leaf.for # "filn"

EvalInit ==
  /\ job \in [kind : {"tree"}, e : Trees] \cup [kind : {"number"}, n : Numbers]
             \cup [kind : {"line"}, t : Lines, cesc : BOOLEAN]
  /\ out = NoAnswer

EvaluateTree ==
  /\ job.kind = "tree" /\ out = NoAnswer
  /\ LET t == Text(Top, job.e)
     IN out' = [kind |-> "tree", str |-> StrExpr(Append(t, "\n"), 1, Pass2Env),
                mac |-> M_Expr(t, Labels, {})]
  /\ UNCHANGED job

EvaluateNumber ==
  /\ job.kind = "number" /\ out = NoAnswer
  /\ out' = [kind |-> "number", str |-> StrExpr(Append(job.n.text, "\n"), 1, Pass2Env),
             mac |-> M_Expr(job.n.text, Labels, {})]
  /\ UNCHANGED job

\* the arguments of dc in both passes, cut into statements, and as the one of equ or org
PassLine ==
  /\ job.kind = "line" /\ out = NoAnswer
  /\ LET pieces == Pieces(job.t, 1)
     IN out' = [kind |-> "line",
                one |-> CountArg(job.t, 1, Pass1Env, job.cesc),
                two |-> gen_dc(job.t, 1, Pass2Env, job.cesc),
                piece |-> gen_dc(Head(pieces), 1, Pass2Env, job.cesc),
                arg |-> GetArg(job.t, 1, Pass2Env)]
  /\ UNCHANGED job

EvalNext == EvaluateTree \/ EvaluateNumber \/ PassLine

EvalSpec == EvalInit /\ [][EvalNext]_evalVars

----------------------------------------------------------------------------
\* Precedence and associativity: the text of a tree with no parenthesis to
\* spare gets the value of the tree, from both evaluators (from filn's when it
\* had nothing to say: after a division by zero it reads no further).
ValueIsC ==
  out.kind = "tree" =>
    /\ ForDcasm(job.e) => out.str.v = Value(job.e)
    /\ ForFiln(job.e) /\ out.mac.msgs \subseteq {"undefined"} => out.mac.v = Value(job.e)

\* The assembler's evaluator: an error code is of something wrong in the
\* expression, and 0 says nothing is wrong after the last && or || whose left
\* side was true (these drop what was wrong up to their right side).
ErrorsKept ==
  out.kind = "tree" /\ ForDcasm(job.e) =>
    /\ out.str.err \in LastFaults(job.e) \cup {0}
    /\ out.str.err = 0 => LastFaults(job.e) = {}

\* The preprocessor's evaluator: a division by zero is always reported, an
\* unknown name exactly when one stands outside the right sides of && and ||
\* and none inside one, and the whole text is read unless a division stops it.
MessagesSound ==
  out.kind = "tree" /\ ForFiln(job.e) =>
    /\ ("zero" \in out.mac.msgs) = (3 \in Faults(job.e))
    /\ 4 \in Loud(job.e) \ Quiet(job.e) /\ 3 \notin Faults(job.e) => "undefined" \in out.mac.msgs
    /\ "undefined" \in out.mac.msgs => 4 \in Loud(job.e)
    /\ out.mac.left => 3 \in Faults(job.e)

\* The notations of dcasm.txt:73-75, and 011b for a binary number, are read as
\* meant, by both, but for those that end in h and mean something else to the code
\* (NumeralsAsDocumented): 011h, in the text a binary number, and hex numbers that
\* look binary (a b and no digit from 2 to 9, or 0b in front).
NumeralsRead ==
  out.kind = "number" /\ ~job.n.clash =>
    /\ out.str.v = job.n.v /\ out.str.err = 0
    /\ job.n.macro => out.mac.v = job.n.v /\ out.mac.msgs = {} /\ ~out.mac.left

\* dcasm.txt:74-75: with an h after it a number is hexadecimal, Intel's 0h, and one
\* of binary digits binary, Intel's 011h.
NumeralsAsDocumented == out.kind = "number" => out.str.v = job.n.v

\* Pass 1 counts as many arguments as pass 2 puts, although their labels have
\* no value yet, and both stop at the same place: the addresses agree.
PassesCountAlike ==
  out.kind = "line" => out.one.i = Len(out.two.vals) /\ out.one.p = out.two.p - 1

\* No pointer leaves the line: dc stops at the NUL at the latest, and the one
\* argument of the other orders one byte after it, in strdupE's padding.
LineNotLeft ==
  out.kind = "line" => out.two.p \in 1 .. Len(job.t) + 1 /\ out.arg.p \in 1 .. Len(job.t) + 2

\* Cutting a line at its separators leaves dc the same values and the same
\* errors, unless a \ in a string is an escape for the one and not the other,
\* or stands before the newline (which LinSep then copies and adds its own to).
PiecesKeepArgs ==
  /\ out.kind = "line"
  /\ IF job.cesc THEN At(job.t, Len(job.t) - 1) # "\\" ELSE "\\" \notin ToSet(job.t)
  =>
    out.piece.vals = out.two.vals /\ out.piece.errs = out.two.errs
=============================================================================
