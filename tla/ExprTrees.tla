------------------------------ MODULE ExprTrees ------------------------------
(***************************************************************************)
(* What an expression means, apart from how it is read: trees with the     *)
(* operators at their nodes, the value C gives them, what is wrong in      *)
(* them, and the text that stands for one with no parenthesis to spare.    *)
(* Leaves: [text, v, bad, for], where bad is the error code of reading it  *)
(* or 0, and for says which evaluator has it.                              *)
(***************************************************************************)
EXTENDS Numerals

Node(op, l, r) == [op |-> op, kids |-> <<l, r>>]
Sign(op, l)    == [op |-> op, kids |-> <<l>>]

IsLeaf(e) == "text" \in DOMAIN e
IsSign(e) == ~IsLeaf(e) /\ Len(e.kids) = 1

RECURSIVE Value(_), Text(_, _), Faults(_), LastFaults(_), Loud(_), Defined(_)

\* the value C gives it, 0 for a division by zero and for a leaf that is no value
Value(e) ==
  IF IsLeaf(e) THEN e.v
  ELSE IF IsSign(e) THEN Unary(e.op, Value(e.kids[1]))
  ELSE LET l == Value(e.kids[1])
           r == Value(e.kids[2])
       IN IF e.op \in {"/", "%"} /\ r = 0 THEN 0 ELSE Binary(e.op, l, r)

\* C says what it is: no shift by less than 0 or too much or of a negative number, no overflow
Defined(e) ==
  IF IsLeaf(e) THEN TRUE
  ELSE /\ \A i \in DOMAIN e.kids : Defined(e.kids[i])
       /\ e.op \in {"<<", ">>"} =>
            Value(e.kids[2]) \in 0 .. Width - 1 /\ Value(e.kids[1]) >= 0
       /\ e.op \in {"*", "<<"} =>
            LET l == Value(e.kids[1])
                r == Value(e.kids[2])
            IN Value(e) = (IF e.op = "*" THEN l * r ELSE l * 2 ^ r)

DividesByZero(e) == e.op \in {"/", "%"} /\ ~IsSign(e) /\ Value(e.kids[2]) = 0
Zero(e) == IF DividesByZero(e) THEN {3} ELSE {}

\* the error codes of all that is wrong in it
Faults(e) ==
  IF IsLeaf(e) THEN {e.bad} \ {0}
  ELSE UNION {Faults(e.kids[i]) : i \in DOMAIN e.kids} \cup Zero(e)

\* a && or || in it has a true left side
RECURSIVE Forgives(_)
Forgives(e) == ~IsLeaf(e) /\ (\/ e.op \in {"&&", "||"} /\ Value(e.kids[1]) # 0
                              \/ \E i \in DOMAIN e.kids : Forgives(e.kids[i]))

\* what is wrong after the last such operator in it was done
LastFaults(e) ==
  IF IsLeaf(e) THEN Faults(e)
  ELSE IF IsSign(e) THEN LastFaults(e.kids[1])
  ELSE IF e.op \in {"&&", "||"} /\ Value(e.kids[1]) # 0 THEN {}
  ELSE IF Forgives(e.kids[2]) THEN LastFaults(e.kids[2]) \cup Zero(e)
  ELSE LastFaults(e.kids[1]) \cup Faults(e.kids[2]) \cup Zero(e)

\* what is wrong outside the right sides of && and ||
Loud(e) ==
  IF IsLeaf(e) THEN Faults(e)
  ELSE Loud(e.kids[1]) \cup
       (IF IsSign(e) \/ e.op \in {"&&", "||"} THEN {} ELSE Loud(e.kids[2]))

\* what is wrong inside the right sides of && and ||
RECURSIVE Quiet(_)
Quiet(e) ==
  IF IsLeaf(e) THEN {}
  ELSE UNION {Quiet(e.kids[i]) : i \in DOMAIN e.kids} \cup
       (IF e.op \in {"&&", "||"} THEN Faults(e.kids[2]) ELSE {})

LevelOf(e) == IF IsLeaf(e) \/ IsSign(e) THEN 0 ELSE CHOOSE k \in 1 .. Top : e.op \in Level[k]

Pairs == {<<"<", "<">>, <<">", ">">>, <<">", "=">>, <<"<", "=">>, <<"=", "=">>, <<"!", "=">>,
          <<"&", "&">>, <<"|", "|">>}
Spelled(op) == IF \E q \in Pairs : q[1] \o q[2] = op
               THEN CHOOSE q \in Pairs : q[1] \o q[2] = op ELSE <<op>>

\* its text where an operand of level k may stand
Text(k, e) ==
  IF LevelOf(e) > k THEN <<"(">> \o Text(Top, e) \o <<")">>
  ELSE IF IsLeaf(e) THEN e.text
  ELSE IF IsSign(e) THEN Spelled(e.op) \o Text(0, e.kids[1])
  ELSE Text(LevelOf(e), e.kids[1]) \o Spelled(e.op) \o Text(LevelOf(e) - 1, e.kids[2])
=============================================================================
