------------------------------ MODULE Numerals ------------------------------
(***************************************************************************)
(* Characters, and the numbers and names in a line of source, for both     *)
(* evaluators: src/src/strexpr.c (the assembler) and src/src/filn.c (the   *)
(* preprocessor).  A text is a sequence of one-character strings and a     *)
(* pointer into it an index; what the C code finds at the end is the NUL.  *)
(* Letters are lower case: the code treats both cases of a digit alike.    *)
(***************************************************************************)
EXTENDS Integers, Sequences, FiniteSets, SequencesExt

CONSTANT Width \* of val_t in bits (64 in the code)

ASSUME WidthAssumption == Width \in Nat \ {0}

NUL == ""
At(t, p) == IF p \in 1 .. Len(t) THEN t[p] ELSE NUL

HexDigit == <<"0", "1", "2", "3", "4", "5", "6", "7", "8", "9", "a", "b", "c", "d", "e", "f">>
DigitsOf(base) == {HexDigit[i] : i \in 1 .. base}
Alpha == {"a", "b", "c", "d", "e", "f", "h", "n", "u", "x"}  \* the letters the inputs use

isdigit(c)  == c \in DigitsOf(10)
isxdigit(c) == c \in DigitsOf(16)
isalnum(c)  == c \in DigitsOf(10) \cup Alpha
isNAMETOP(c) == c \in Alpha \cup {"_", "@", "."}
isNAMECHR(c) == isNAMETOP(c) \/ isdigit(c) \/ c = "$"

\* the first position from p on whose character is not in S
After(t, p, S) == CHOOSE e \in p .. Len(t) + 1 :
                    At(t, e) \notin S /\ \A i \in p .. e - 1 : t[i] \in S

\* two's complement in Width bits
Wrap(n) == ((n + 2 ^ (Width - 1)) % 2 ^ Width) - 2 ^ (Width - 1)

\* the digits of that base in t[p .. e - 1], the other characters left out
Worth(t, p, e, base) ==
  Wrap(FoldLeft(LAMBDA v, c : v * base + (CHOOSE d \in 0 .. base - 1 : HexDigit[d + 1] = c), 0,
                SelectSeq(SubSeq(t, p, e - 1), LAMBDA c : c \in DigitsOf(base))))

\* the rest of the word after a number is passed over
Word(t, p) == After(t, p, DigitsOf(10) \cup Alpha \cup {"_"})

Number(v, p) == [v |-> v, p |-> p]

\* digits of base, with _ among them, from p on; the rest of the word is dropped
DigitsFrom(t, p, base) ==
  LET e == After(t, p, DigitsOf(base) \cup {"_"})
  IN Number(Worth(t, p, e, base), Word(t, e))

get_dig2(t, p)  == DigitsFrom(t, p, 2)
get_dig16(t, p) == DigitsFrom(t, p, 16)

\* mutant: any b makes the number binary
GuessedBinary(t, p, plain) ==
  LET e   == After(t, p, DigitsOf(16) \cup {"_"})
      bin == "b" \in ToSet(SubSeq(t, p, e - 1))
      hex == At(t, e) = "h"
  IN Number(Worth(t, p, e, IF bin THEN 2 ELSE IF hex THEN 16 ELSE plain),
            Word(t, IF ~bin /\ hex THEN e + 1 ELSE e))

\* A number without prefix: its base is known when its word is read.  A b is a
\* hex digit and makes it binary at once, unless a digit from 2 to 9 comes too.
Guessed(t, p, plain) ==
  LET e   == After(t, p, DigitsOf(16) \cup {"_"})
      run == ToSet(SubSeq(t, p, e - 1))
      bin == "b" \in run /\ run \cap (DigitsOf(10) \ {"0", "1"}) = {}
      hex == At(t, e) = "h"
  IN Number(Worth(t, p, e, IF bin THEN 2 ELSE IF hex THEN 16 ELSE plain),
            Word(t, IF ~bin /\ hex THEN e + 1 ELSE e))

get_dig(t, p) ==
  CASE At(t, p) = "0" /\ At(t, p + 1) = "x" -> DigitsFrom(t, p + 2, 16)
    [] At(t, p) = "0" /\ At(t, p + 1) = "b" -> DigitsFrom(t, p + 2, 2)
    [] OTHER -> Guessed(t, p, 10)

\* the same in the preprocessor; with -o8 a leading 0 makes it octal
M_GetSymDigit(t, p, oct) ==
  CASE At(t, p) = "0" /\ At(t, p + 1) = "x" -> DigitsFrom(t, p + 2, 16)
    [] At(t, p) = "0" /\ At(t, p + 1) = "b" -> DigitsFrom(t, p + 2, 2)
    [] oct /\ At(t, p) = "0" /\ isdigit(At(t, p + 1)) -> Guessed(t, p + 1, 8)
    [] OTHER -> Guessed(t, p, 10)

----------------------------------------------------------------------------
(* The operations of C on val_t (int64_t).                                 *)

Bits == INSTANCE Bitwise

Bit(b) == IF b THEN 1 ELSE 0
Unsigned(v) == v % 2 ^ Width
Abs(n) == IF n < 0 THEN -n ELSE n
Quot(l, n) == LET q == Abs(l) \div Abs(n) IN IF (l < 0) # (n < 0) THEN -q ELSE q

\* a shift by less than 0 or at least the width is undefined in C: the inputs have none
Binary(op, l, n) ==
  Wrap(CASE op = "*"  -> l * n
         [] op = "/"  -> Quot(l, n)
         [] op = "%"  -> l - n * Quot(l, n)
         [] op = "+"  -> l + n
         [] op = "-"  -> l - n
         [] op = "<<" -> IF n \in 0 .. Width - 1 THEN l * 2 ^ n ELSE 0
         [] op = ">>" -> IF n \in 0 .. Width - 1 THEN l \div 2 ^ n ELSE 0
         [] op = ">"  -> Bit(l > n)
         [] op = "<"  -> Bit(l < n)
         [] op = ">=" -> Bit(l >= n)
         [] op = "<=" -> Bit(l <= n)
         [] op = "==" -> Bit(l = n)
         [] op = "!=" -> Bit(l # n)
         [] op = "&"  -> Bits!&(Unsigned(l), Unsigned(n))
         [] op = "^"  -> Bits!^^(Unsigned(l), Unsigned(n))
         [] op = "|"  -> Bits!|(Unsigned(l), Unsigned(n))
         [] op = "&&" -> Bit(l # 0 /\ n # 0)
         [] op = "||" -> Bit(l # 0 \/ n # 0))

Unary(op, l) ==
  Wrap(CASE op = "-" -> -l [] op = "+" -> l [] op = "~" -> -1 - l [] op = "!" -> Bit(l = 0))

\* the binary operators, from those that bind most to those that bind least:
\* expr1 .. expr of strexpr.c, M_Expr1 .. M_ExprA of filn.c
Level == << {"*", "/", "%"}, {"+", "-"}, {"<<", ">>"}, {">", "<", ">=", "<="}, {"==", "!="},
            {"&"}, {"^"}, {"|"}, {"&&"}, {"||"} >>
Top == Len(Level)
=============================================================================
