--------------------------- MODULE NestingProofs ---------------------------
(***************************************************************************)
(* Where macro bodies are closed, whatever MM_Macc makes of a line is       *)
(* nested: so is what Filn_GetsMif reads, every macro is left as it was     *)
(* entered, and FilnMif implements Conditional.  For every set of files and *)
(* all limits.                                                              *)
(*                                                                          *)
(* The expansion of a line is a text that no single variable holds until it *)
(* is complete: mbuf has its beginning, and every call of MM_Macc has a     *)
(* part of the rest.  So the invariant says of each part that it leads from *)
(* one place of the nested text to another.                                 *)
(***************************************************************************)
EXTENDS FilnMifProofs

(* A place in a text: the #ifs that are open there, and how many were open  *)
(* where each of the macros around it starts.                               *)
Places ==
  {p \in [ifs : Nat, macs : Seq(Nat)] :
     \A i \in 1..Len(p.macs) : p.macs[i] <= p.ifs /\ \A j \in 1..i : p.macs[j] <= p.macs[i]}

(* From p a line with directive k leads to q.  A macro has no branch and no *)
(* end of an #if that is not its own, and ends where its #ifs have ended.   *)
Follows(k, p, q) ==
  /\ k \in {"endif", "else", "elif"} /\ p.macs # <<>> => Last(p.macs) < p.ifs
  /\ k = "E" => p.macs # <<>> /\ Last(p.macs) = p.ifs
  /\ q.ifs = CASE k = "if" -> p.ifs + 1
               [] k = "endif" /\ p.ifs > 0 -> p.ifs - 1
               [] OTHER -> p.ifs
  /\ q.macs = CASE k = "S" -> Append(p.macs, p.ifs)
                [] k = "E" -> Front(p.macs)
                [] OTHER -> p.macs

(* From p the lines ls lead to q.                                           *)
Leads(ls, p, q) ==
  \E r \in [0..Len(ls) -> Places] :
    /\ r[0] = p /\ r[Len(ls)] = q
    /\ \A i \in 1..Len(ls) : Follows(ls[i].k, r[i - 1], r[i])

-----------------------------------------------------------------------------
LEMMA LeadsEnds ==
  ASSUME NEW ls \in Seq(Line), NEW p, NEW q, Leads(ls, p, q)
  PROVE  p \in Places /\ q \in Places
<1>1. Len(ls) \in Nat
  BY LenProperties
<1>2. PICK r \in [0..Len(ls) -> Places] : r[0] = p /\ r[Len(ls)] = q
  BY DEF Leads
<1> QED  BY <1>1, <1>2

LEMMA LeadsNowhere ==
  ASSUME NEW p \in Places
  PROVE  /\ Leads(<<>>, p, p)
         /\ \A q : Leads(<<>>, p, q) => q = p
<1>1. Len(<<>>) = 0
  OBVIOUS
<1>2. Leads(<<>>, p, p)
  <2> DEFINE r == [i \in 0..0 |-> p]
  <2>1. r \in [0..Len(<<>>) -> Places] /\ r[0] = p /\ r[Len(<<>>)] = p
    BY <1>1
  <2>2. 1..Len(<<>>) = {}
    BY <1>1
  <2> HIDE DEF r
  <2> QED  BY <2>1, <2>2 DEF Leads
<1>3. \A q : Leads(<<>>, p, q) => q = p
  BY <1>1 DEF Leads
<1> QED  BY <1>2, <1>3

(* One more line at the end.                                                *)
LEMMA LeadsOn ==
  ASSUME NEW ls \in Seq(Line), NEW l \in Line, NEW p, NEW q, NEW u \in Places,
         Leads(ls, p, q), Follows(l.k, q, u)
  PROVE  Leads(Append(ls, l), p, u)
<1>1. PICK r \in [0..Len(ls) -> Places] :
        /\ r[0] = p /\ r[Len(ls)] = q
        /\ \A i \in 1..Len(ls) : Follows(ls[i].k, r[i - 1], r[i])
  BY DEF Leads
<1>2. PICK n \in Nat : n = Len(ls)
  BY LenProperties
<1> DEFINE ms == Append(ls, l)
           t  == [i \in 0..(n + 1) |-> IF i <= n THEN r[i] ELSE u]
<1>3. /\ Len(ms) = n + 1 /\ ms[n + 1] = l /\ \A i \in 1..n : ms[i] = ls[i]
  BY <1>2, AppendProperties
<1>4. t \in [0..(n + 1) -> Places]
  BY <1>1, <1>2
<1>5. t[0] = p /\ t[n + 1] = u
  BY <1>1, <1>2
<1>6. ASSUME NEW i \in 1..(n + 1)
      PROVE  Follows(ms[i].k, t[i - 1], t[i])
  <2>1. CASE i = n + 1
    <3>1. t[i - 1] = q /\ t[i] = u /\ ms[i] = l
      BY <1>1, <1>2, <1>3, <2>1
    <3> HIDE DEF t, ms
    <3> QED  BY <3>1
  <2>2. CASE i # n + 1
    <3>1. i \in 1..n /\ t[i - 1] = r[i - 1] /\ t[i] = r[i] /\ ms[i] = ls[i]
      BY <1>3, <2>2
    <3> HIDE DEF t, ms
    <3> QED  BY <1>1, <1>2, <3>1
  <2> QED  BY <2>1, <2>2
<1> HIDE DEF t, ms
<1>7. Leads(ms, p, u)
  BY <1>3, <1>4, <1>5, <1>6 DEF Leads
<1> QED  BY <1>7 DEF ms

(* The first line, and what it leads to.                                    *)
LEMMA LeadsFirst ==
  ASSUME NEW ls \in Seq(Line), ls # <<>>, NEW p, NEW q, Leads(ls, p, q)
  PROVE  \E u \in Places : Follows(Head(ls).k, p, u) /\ Leads(Tail(ls), u, q)
<1>1. PICK r \in [0..Len(ls) -> Places] :
        /\ r[0] = p /\ r[Len(ls)] = q
        /\ \A i \in 1..Len(ls) : Follows(ls[i].k, r[i - 1], r[i])
  BY DEF Leads
<1>2. PICK n \in Nat : Len(ls) = n + 1
  <2>1. Len(ls) \in Nat \ {0}
    BY EmptySeq
  <2>2. Len(ls) - 1 \in Nat /\ Len(ls) = (Len(ls) - 1) + 1
    BY <2>1
  <2> QED  BY <2>2
<1>3. /\ Tail(ls) \in Seq(Line) /\ Len(Tail(ls)) = n
      /\ \A i \in 1..n : Tail(ls)[i] = ls[i + 1]
  BY <1>2, HeadTailProperties
<1>4. Head(ls) = ls[1]
  OBVIOUS
<1> DEFINE t == [i \in 0..n |-> r[i + 1]]
<1>5. t \in [0..n -> Places] /\ t[0] = r[1] /\ t[n] = q /\ r[1] \in Places
  BY <1>1, <1>2
<1>6. Follows(Head(ls).k, p, r[1])
  <2>1. 1 \in 1..Len(ls) /\ 1 - 1 = 0
    BY <1>2
  <2> QED  BY <1>1, <1>4, <2>1
<1>7. ASSUME NEW i \in 1..n
      PROVE  Follows(Tail(ls)[i].k, t[i - 1], t[i])
  <2>1. i + 1 \in 1..Len(ls) /\ t[i - 1] = r[(i + 1) - 1] /\ t[i] = r[i + 1]
        /\ Tail(ls)[i] = ls[i + 1]
    BY <1>2, <1>3
  <2> HIDE DEF t
  <2> QED  BY <1>1, <2>1
<1> HIDE DEF t
<1>8. Leads(Tail(ls), r[1], q)
  BY <1>3, <1>5, <1>7 DEF Leads
<1> QED  BY <1>5, <1>6, <1>8

(* Lines cut in two.                                                        *)
LEMMA LeadsSplit ==
  ASSUME NEW ls \in Seq(Line), NEW p, NEW q, Leads(ls, p, q), NEW m \in 0..Len(ls)
  PROVE  \E u \in Places : Leads(SubSeq(ls, 1, m), p, u) /\ Leads(SubSeq(ls, m + 1, Len(ls)), u, q)
<1>1. PICK r \in [0..Len(ls) -> Places] :
        /\ r[0] = p /\ r[Len(ls)] = q
        /\ \A i \in 1..Len(ls) : Follows(ls[i].k, r[i - 1], r[i])
  BY DEF Leads
<1>2. PICK n \in Nat : n = Len(ls)
  BY LenProperties
<1>3. m \in Nat /\ m <= n /\ \A i \in 1..n : ls[i] \in Line
  BY <1>2, ElementOfSeq
<1> DEFINE a == SubSeq(ls, 1, m)
           b == SubSeq(ls, m + 1, n)
           s == [i \in 0..m |-> r[i]]
           t == [i \in 0..(n - m) |-> r[m + i]]
<1>4. Len(a) = m /\ \A i \in 1..m : a[i] = ls[i]
  <2>1. \A i \in 1..m : ls[i] \in Line
    BY <1>3
  <2>2. /\ Len(a) = IF 1 <= m THEN m - 1 + 1 ELSE 0
        /\ \A i \in 1..(m - 1 + 1) : a[i] = ls[1 + i - 1]
    BY <1>3, <2>1, SubSeqProperties
  <2> HIDE DEF a
  <2> QED  BY <1>3, <2>2
<1>5. Len(b) = n - m /\ \A i \in 1..(n - m) : b[i] = ls[m + i]
  <2>1. \A i \in (m + 1)..n : ls[i] \in Line
    BY <1>3
  <2>2. /\ Len(b) = IF m + 1 <= n THEN n - (m + 1) + 1 ELSE 0
        /\ \A i \in 1..(n - (m + 1) + 1) : b[i] = ls[(m + 1) + i - 1]
    BY <1>3, <2>1, SubSeqProperties
  <2> HIDE DEF b
  <2> QED  BY <1>3, <2>2
<1>6. /\ s \in [0..m -> Places] /\ s[0] = p /\ s[m] = r[m] /\ r[m] \in Places
      /\ t \in [0..(n - m) -> Places] /\ t[0] = r[m] /\ t[n - m] = q
  BY <1>1, <1>2, <1>3
<1>7. ASSUME NEW i \in 1..m
      PROVE  Follows(a[i].k, s[i - 1], s[i])
  <2>1. i \in 1..Len(ls) /\ s[i - 1] = r[i - 1] /\ s[i] = r[i] /\ a[i] = ls[i]
    BY <1>2, <1>3, <1>4
  <2> HIDE DEF s, a
  <2> QED  BY <1>1, <2>1
<1>8. ASSUME NEW i \in 1..(n - m)
      PROVE  Follows(b[i].k, t[i - 1], t[i])
  <2>1. m + i \in 1..Len(ls) /\ t[i - 1] = r[(m + i) - 1] /\ t[i] = r[m + i] /\ b[i] = ls[m + i]
    BY <1>2, <1>3, <1>5
  <2> HIDE DEF t, b
  <2> QED  BY <1>1, <2>1
<1> HIDE DEF a, b, s, t
<1>9. Leads(a, p, r[m])
  BY <1>3, <1>4, <1>6, <1>7 DEF Leads
<1>10. Leads(b, r[m], q)
  BY <1>3, <1>5, <1>6, <1>8 DEF Leads
<1> QED  BY <1>2, <1>6, <1>9, <1>10 DEF a, b

(* And put together.                                                        *)
LEMMA LeadsJoin ==
  ASSUME NEW a \in Seq(Line), NEW b \in Seq(Line), NEW p, NEW u, NEW q,
         Leads(a, p, u), Leads(b, u, q)
  PROVE  Leads(a \o b, p, q)
<1>1. PICK n \in Nat, m \in Nat : n = Len(a) /\ m = Len(b)
  BY LenProperties
<1>2. PICK s \in [0..n -> Places] :
        s[0] = p /\ s[n] = u /\ \A i \in 1..n : Follows(a[i].k, s[i - 1], s[i])
  BY <1>1 DEF Leads
<1>3. PICK t \in [0..m -> Places] :
        t[0] = u /\ t[m] = q /\ \A i \in 1..m : Follows(b[i].k, t[i - 1], t[i])
  BY <1>1 DEF Leads
<1> DEFINE r == [i \in 0..(n + m) |-> IF i <= n THEN s[i] ELSE t[i - n]]
           c == a \o b
<1>4. /\ Len(c) = n + m /\ \A i \in 1..n : c[i] = a[i]
      /\ \A i \in 1..m : c[n + i] = b[i]
  <2>1. Len(c) = n + m /\ \A i \in 1..(n + m) : c[i] = IF i <= n THEN a[i] ELSE b[i - n]
    BY <1>1, ConcatProperties
  <2> HIDE DEF c
  <2>2. \A i \in 1..m : n + i \in 1..(n + m) /\ ~(n + i <= n) /\ (n + i) - n = i
    OBVIOUS
  <2> QED  BY <2>1, <2>2
<1>5. /\ r \in [0..(n + m) -> Places] /\ \A i \in 0..n : r[i] = s[i]
      /\ \A i \in 0..m : r[n + i] = t[i]
  BY <1>2, <1>3
<1> HIDE DEF r, c
<1>6. r[0] = p /\ r[n + m] = q
  BY <1>2, <1>3, <1>5
<1>7. ASSUME NEW i \in 1..(n + m)
      PROVE  Follows(c[i].k, r[i - 1], r[i])
  <2>1. CASE i <= n
    <3>1. i \in 1..n /\ i \in 0..n /\ i - 1 \in 0..n
      BY <2>1
    <3> QED  BY <1>2, <1>4, <1>5, <3>1
  <2>2. CASE ~(i <= n)
    <3>1. PICK j \in 1..m : i = n + j
      <4>1. i - n \in 1..m /\ i = n + (i - n)
        BY <2>2
      <4> QED  BY <4>1
    <3>2. PICK d \in 0..m : d = j - 1 /\ i - 1 = n + d
      <4>1. j - 1 \in 0..m /\ i - 1 = n + (j - 1)
        BY <3>1
      <4> QED  BY <4>1
    <3>3. c[i] = b[j] /\ r[i] = t[j] /\ r[i - 1] = t[j - 1]
      BY <1>4, <1>5, <3>1, <3>2
    <3> QED  BY <1>3, <3>3
  <2> QED  BY <2>1, <2>2
<1>8. Leads(c, p, q)
  BY <1>4, <1>5, <1>6, <1>7 DEF Leads
<1> QED  BY <1>8 DEF c

(* An #if that gets its argument: the lines lead where they led.            *)
LEMMA AnswerLeads ==
  ASSUME NEW l \in Line, l.k \in {"if", "elif"}, NEW ls \in Seq(Line), NEW before \in Seq(Line),
         NEW p, NEW u, NEW w \in Places, NEW q,
         Leads(before, p, u), Follows(l.k, u, w), Leads(ls, w, q)
  PROVE  Leads(before \o Answer(l, ls), p, q)
<1>1. PICK a \in Line, rest \in Seq(Line) :
        /\ Answer(l, ls) = <<a>> \o rest /\ a.k = l.k
        /\ \/ rest = ls
           \/ ls # <<>> /\ Head(ls).k = "text" /\ rest = Tail(ls)
  BY AnswerLines
<1>2. Leads(rest, w, q)
  <2>1. CASE rest = ls
    BY <2>1
  <2>2. CASE ls # <<>> /\ Head(ls).k = "text" /\ rest = Tail(ls)
    <3>1. PICK v \in Places : Follows("text", w, v) /\ Leads(Tail(ls), v, q)
      BY <2>2, LeadsFirst
    <3>2. v = w
      BY <3>1 DEF Follows, Places
    <3> QED  BY <2>2, <3>1, <3>2
  <2> QED  BY <1>1, <2>1, <2>2
<1>3. Leads(Append(before, a), p, w) /\ Append(before, a) \in Seq(Line)
  <2>1. Follows(a.k, u, w)
    BY <1>1
  <2> QED  BY <2>1, LeadsOn, AppendProperties
<1>4. Leads(Append(before, a) \o rest, p, q)
  BY <1>2, <1>3, LeadsJoin
<1>5. Append(before, a) \o rest = before \o (<<a>> \o rest)
  <2>1. Append(before, a) = before \o <<a>> /\ <<a>> \in Seq(Line)
    BY AppendIsConcat
  <2> QED  BY <2>1, ConcatAssociative
<1> QED  BY <1>1, <1>4, <1>5

-----------------------------------------------------------------------------
(* The bodies of macros.                                                    *)

(* A text that leads from everywhere to where it started.                   *)
Neutral(ls) == \A p \in Places : Leads(ls, p, p)

Count(ls, i, k) == Cardinality({j \in 1..i : ls[j].k = k})

LEMMA CountStep ==
  ASSUME NEW ls, NEW k, NEW i \in Nat
  PROVE  /\ Count(ls, 0, k) = 0 /\ Count(ls, i, k) \in Nat
         /\ Count(ls, i + 1, k) = Count(ls, i, k) + (IF ls[i + 1].k = k THEN 1 ELSE 0)
<1> DEFINE S == {j \in 1..i : ls[j].k = k}
           T == {j \in 1..(i + 1) : ls[j].k = k}
<1>1. IsFiniteSet(S) /\ Cardinality(S) \in Nat
  <2>1. IsFiniteSet(1..i)
    BY FS_Interval
  <2>2. S \in SUBSET (1..i)
    OBVIOUS
  <2> HIDE DEF S
  <2> QED  BY <2>1, <2>2, FS_Subset, FS_CardinalityType
<1>2. CASE ls[i + 1].k = k
  <2>1. T = S \cup {i + 1} /\ i + 1 \notin S
    BY <1>2
  <2> HIDE DEF S, T
  <2>2. Cardinality(T) = Cardinality(S) + 1
    BY <1>1, <2>1, FS_AddElement
  <2>3. Cardinality({j \in 1..0 : ls[j].k = k}) = 0
    <3>1. {j \in 1..0 : ls[j].k = k} = {}
      OBVIOUS
    <3> QED  BY <3>1, FS_EmptySet
  <2> QED  BY <1>1, <1>2, <2>2, <2>3 DEF Count, S, T
<1>3. CASE ls[i + 1].k # k
  <2>1. T = S
    BY <1>3
  <2> HIDE DEF S, T
  <2>3. Cardinality({j \in 1..0 : ls[j].k = k}) = 0
    <3>1. {j \in 1..0 : ls[j].k = k} = {}
      OBVIOUS
    <3> QED  BY <3>1, FS_EmptySet
  <2> QED  BY <1>1, <1>3, <2>1, <2>3 DEF Count, S, T
<1> QED  BY <1>2, <1>3

LEMMA OpenStep ==
  ASSUME NEW ls, NEW i \in Nat
  PROVE  /\ OpenAfter(ls, 0) = 0 /\ OpenAfter(ls, i) \in Int
         /\ OpenAfter(ls, i + 1) = CASE ls[i + 1].k = "if" -> OpenAfter(ls, i) + 1
                                    [] ls[i + 1].k = "endif" -> OpenAfter(ls, i) - 1
                                    [] OTHER -> OpenAfter(ls, i)
<1>1. \A m : OpenAfter(ls, m) = Count(ls, m, "if") - Count(ls, m, "endif")
  BY DEF OpenAfter, Count
<1>2. /\ Count(ls, 0, "if") = 0 /\ Count(ls, i, "if") \in Nat
      /\ Count(ls, i + 1, "if") = Count(ls, i, "if") + (IF ls[i + 1].k = "if" THEN 1 ELSE 0)
  BY CountStep
<1>3. /\ Count(ls, 0, "endif") = 0 /\ Count(ls, i, "endif") \in Nat
      /\ Count(ls, i + 1, "endif")
           = Count(ls, i, "endif") + (IF ls[i + 1].k = "endif" THEN 1 ELSE 0)
  BY CountStep
<1> QED  BY <1>1, <1>2, <1>3

(* The place inside a macro that starts at p, with m #ifs of its own open.  *)
Inside(p, m) == [ifs |-> p.ifs + m, macs |-> Append(p.macs, p.ifs)]

LEMMA InsideMacro ==
  ASSUME NEW p \in Places, NEW m \in Nat
  PROVE  /\ Inside(p, m) \in Places /\ Inside(p, m).macs # <<>>
         /\ Last(Inside(p, m).macs) = p.ifs /\ Front(Inside(p, m).macs) = p.macs
<1>1. p.ifs \in Nat /\ p.macs \in Seq(Nat)
  BY DEF Places
<1>2. PICK n \in Nat : n = Len(p.macs)
  BY <1>1, LenProperties
<1> DEFINE a == Append(p.macs, p.ifs)
<1>3. /\ a \in Seq(Nat) /\ a # <<>> /\ Len(a) = n + 1 /\ a[n + 1] = p.ifs
      /\ \A i \in 1..n : a[i] = p.macs[i]
  <2>1. ASSUME NEW s \in Seq(Nat), NEW e \in Nat
        PROVE  /\ Append(s, e) \in Seq(Nat) /\ Append(s, e) # <<>>
               /\ Len(Append(s, e)) = Len(s) + 1 /\ Append(s, e)[Len(s) + 1] = e
               /\ \A i \in 1..Len(s) : Append(s, e)[i] = s[i]
    BY AppendProperties
  <2>2. /\ a \in Seq(Nat) /\ a # <<>> /\ Len(a) = Len(p.macs) + 1
        /\ a[Len(p.macs) + 1] = p.ifs
        /\ \A i \in 1..Len(p.macs) : a[i] = p.macs[i]
    BY <1>1, <2>1, Zenon
  <2> HIDE DEF a
  <2> QED  BY <1>2, <2>2, Zenon
<1>4. \A i \in 1..n : /\ p.macs[i] \in Nat /\ p.macs[i] <= p.ifs
                      /\ \A j \in 1..i : p.macs[j] <= p.macs[i]
  BY <1>1, <1>2, ElementOfSeq DEF Places
<1>5. Last(a) = p.ifs
  BY <1>3 DEF Last
<1>6. Front(a) = p.macs
  <2> HIDE DEF a
  <2>1. /\ Front(a) \in Seq(Nat) /\ Len(Front(a)) = Len(a) - 1
        /\ \A i \in 1..(Len(a) - 1) : Front(a)[i] = a[i]
    BY <1>3, FrontOfSeq
  <2>2. Len(Front(a)) = Len(p.macs) /\ \A i \in 1..Len(Front(a)) : Front(a)[i] = p.macs[i]
    BY <1>2, <1>3, <2>1
  <2> QED  BY <1>1, <2>1, <2>2, SeqEqual
<1>7. Inside(p, m) \in Places
  <2>1. Inside(p, m) \in [ifs : Nat, macs : Seq(Nat)]
        /\ Inside(p, m).macs = a /\ Inside(p, m).ifs = p.ifs + m
    BY <1>1, <1>3 DEF Inside
  <2>2. ASSUME NEW i \in 1..(n + 1)
        PROVE  a[i] <= p.ifs + m /\ \A j \in 1..i : a[j] <= a[i]
    <3> HIDE DEF a
    <3>1. CASE i = n + 1
      <4>1. \A j \in 1..n : a[j] <= p.ifs
        BY <1>3, <1>4
      <4>2. ASSUME NEW j \in 1..i
            PROVE  a[j] <= a[i]
        <5>1. CASE j = n + 1
          BY <1>1, <1>3, <3>1, <5>1
        <5>2. CASE j # n + 1
          <6>1. j \in 1..n
            BY <3>1, <5>2
          <6> QED  BY <1>3, <3>1, <4>1, <6>1
        <5> QED  BY <5>1, <5>2
      <4> QED  BY <1>1, <1>3, <3>1, <4>2
    <3>2. CASE i # n + 1
      <4>1. i \in 1..n /\ \A j \in 1..i : j \in 1..n
        BY <3>2
      <4>2. a[i] <= p.ifs + m
        BY <1>1, <1>3, <1>4, <4>1
      <4> QED  BY <1>3, <1>4, <4>1, <4>2
    <3> QED  BY <3>1, <3>2
  <2> HIDE DEF a
  <2> QED  BY <1>3, <2>1, <2>2 DEF Places
<1> QED  BY <1>3, <1>5, <1>6, <1>7 DEF Inside

(* Between its marks a closed text without marks is neutral.                *)
LEMMA BodyNeutral ==
  ASSUME NEW ls \in Seq(Line), Closed(ls), \A i \in 1..Len(ls) : ls[i].k \notin {"S", "E"}
  PROVE  Neutral(Body(ls))
<1> SUFFICES ASSUME NEW p \in Places
             PROVE  Leads(Body(ls), p, p)
  BY DEF Neutral
<1>1. PICK n \in Nat : n = Len(ls)
  BY LenProperties
<1>2. p.ifs \in Nat /\ p.macs \in Seq(Nat)
  BY DEF Places
<1> DEFINE b == Body(ls)
           r == [i \in 0..(n + 2) |-> IF i \in {0, n + 2} THEN p
                                      ELSE Inside(p, OpenAfter(ls, i - 1))]
<1>3. /\ Len(b) = n + 2 /\ b[1].k = "S" /\ b[n + 2].k = "E"
      /\ \A i \in 1..n : b[i + 1] = ls[i]
  BY <1>1, BodyLines
<1>4. /\ OpenAfter(ls, 0) = 0 /\ OpenAfter(ls, n) = 0
      /\ \A i \in 0..n : OpenAfter(ls, i) \in Nat
      /\ \A i \in 1..n : ls[i].k \in {"else", "elif"} => OpenAfter(ls, i) > 0
  <2>1. OpenAfter(ls, 0) = 0 /\ \A i \in 0..n : OpenAfter(ls, i) \in Int
    BY OpenStep
  <2>2. OpenAfter(ls, n) = 0
    BY <1>1 DEF Closed
  <2>3. ASSUME NEW i \in 1..n
        PROVE  OpenAfter(ls, i) >= IF ls[i].k \in {"else", "elif"} THEN 1 ELSE 0
    BY <1>1, LenProperties DEF Closed
  <2>4. ASSUME NEW i \in 0..n
        PROVE  OpenAfter(ls, i) \in Nat
    <3>1. CASE i = 0
      BY <2>1, <3>1
    <3>2. CASE i # 0
      <4>1. i \in 1..n
        BY <3>2
      <4>2. OpenAfter(ls, i) >= 0
        BY <2>1, <2>3, <4>1
      <4> QED  BY <2>1, <4>2
    <3> QED  BY <3>1, <3>2
  <2>5. ASSUME NEW i \in 1..n, ls[i].k \in {"else", "elif"}
        PROVE  OpenAfter(ls, i) > 0
    <3>1. OpenAfter(ls, i) >= 1 /\ OpenAfter(ls, i) \in Nat
      BY <2>3, <2>4, <2>5
    <3> QED  BY <3>1
  <2> QED  BY <2>1, <2>2, <2>4, <2>5
<1>5. r \in [0..(n + 2) -> Places]
  <2>1. ASSUME NEW i \in 0..(n + 2), i \notin {0, n + 2}
        PROVE  Inside(p, OpenAfter(ls, i - 1)) \in Places
    <3>1. i - 1 \in 0..n
      BY <2>1
    <3> QED  BY <1>4, <3>1, InsideMacro
  <2> QED  BY <2>1
<1>6. /\ r[0] = p /\ r[n + 2] = p
      /\ \A i \in 0..n : r[i + 1] = Inside(p, OpenAfter(ls, i))
  OBVIOUS
<1>7. ASSUME NEW i \in 1..(n + 2)
      PROVE  Follows(b[i].k, r[i - 1], r[i])
  <2> HIDE DEF r, b
  <2>1. CASE i = 1
    <3>1. r[0] = p /\ r[1] = Inside(p, 0)
      BY <1>4, <1>6
    <3> QED  BY <1>2, <1>3, <2>1, <3>1 DEF Follows, Inside
  <2>2. CASE i = n + 2
    <3>1. r[n + 1] = Inside(p, 0) /\ r[n + 2] = p /\ i - 1 = n + 1
      BY <1>4, <1>6, <2>2
    <3>2. Inside(p, 0).macs # <<>> /\ Last(Inside(p, 0).macs) = p.ifs /\ Front(Inside(p, 0).macs) = p.macs
      BY InsideMacro
    <3>3. Inside(p, 0).ifs = p.ifs
      BY <1>2 DEF Inside
    <3> QED  BY <1>3, <2>2, <3>1, <3>2, <3>3 DEF Follows
  <2>3. CASE i \notin {1, n + 2}
    <3>1. PICK j \in 1..n : i = j + 1
      <4>1. i - 1 \in 1..n /\ i = (i - 1) + 1
        BY <2>3
      <4> QED  BY <4>1
    <3>2. PICK m \in Nat : j = m + 1 /\ m \in 0..n /\ m + 1 \in 1..n
      <4>1. j - 1 \in Nat /\ j = (j - 1) + 1 /\ j - 1 \in 0..n
        OBVIOUS
      <4> QED  BY <4>1
    <3> DEFINE x == OpenAfter(ls, m)
               y == OpenAfter(ls, m + 1)
    <3>3. x \in Nat /\ y \in Nat
      BY <1>4, <3>2
    <3>4. r[i - 1] = Inside(p, x) /\ r[i] = Inside(p, y) /\ b[i] = ls[m + 1]
      BY <1>3, <1>6, <3>1, <3>2
    <3>5. y = CASE ls[m + 1].k = "if" -> x + 1 [] ls[m + 1].k = "endif" -> x - 1 [] OTHER -> x
      BY OpenStep
    <3>6. ls[m + 1].k \notin {"S", "E"} /\ (ls[m + 1].k \in {"else", "elif"} => y > 0)
      BY <1>1, <1>4, <3>2
    <3>7. /\ Last(Inside(p, x).macs) = p.ifs
          /\ Inside(p, x).ifs = p.ifs + x /\ Inside(p, y).ifs = p.ifs + y
          /\ Inside(p, x).macs = Inside(p, y).macs
      BY <3>3, InsideMacro DEF Inside
    <3> DEFINE k == ls[m + 1].k
               u == Inside(p, x)
               w == Inside(p, y)
    <3> HIDE DEF x, y
    <3>8. y = (IF k = "if" THEN x + 1 ELSE IF k = "endif" THEN x - 1 ELSE x)
      BY <3>5
    <3>9. k \in {"endif", "else", "elif"} => u.ifs > p.ifs
      BY <1>2, <3>3, <3>6, <3>7, <3>8
    <3>10. w.ifs = CASE k = "if" -> u.ifs + 1
                     [] k = "endif" /\ u.ifs > 0 -> u.ifs - 1
                     [] OTHER -> u.ifs
      <4>1. k = "endif" => u.ifs > 0
        BY <1>2, <3>9, <3>3, <3>7
      <4>2. u.ifs = p.ifs + x /\ w.ifs = p.ifs + y
        BY <3>7
      <4> HIDE DEF k, u, w
      <4>3. CASE k = "if"
        BY <1>2, <3>3, <3>8, <4>2, <4>3
      <4>4. CASE k = "endif"
        BY <1>2, <3>3, <3>8, <4>1, <4>2, <4>4
      <4>5. CASE k \notin {"if", "endif"}
        BY <1>2, <3>3, <3>8, <4>2, <4>5
      <4> QED  BY <4>3, <4>4, <4>5
    <3>11. u.macs = w.macs /\ Last(u.macs) = p.ifs /\ k \notin {"S", "E"}
      BY <3>6, <3>7
    <3> HIDE DEF k, u, w
    <3>12. Follows(k, u, w)
      BY <3>9, <3>10, <3>11 DEF Follows
    <3> QED  BY <3>4, <3>12 DEF k, u, w
  <2> QED  BY <2>1, <2>2, <2>3
<1> HIDE DEF b, r
<1> QED  BY <1>3, <1>5, <1>6, <1>7 DEF Leads, b

(* Most lines lead nowhere else, and from everywhere.                       *)
LEMMA StaysThere ==
  ASSUME NEW p \in Places, NEW q \in Places, NEW k, k \notin {"if", "endif", "S", "E"}
  PROVE  Follows(k, p, q) => q = p
BY DEF Follows, Places

LEMMA PlainNeutral ==
  ASSUME NEW l \in Line, l.k \notin {"if", "elif", "else", "endif", "S", "E"}
  PROVE  Neutral(<<>>) /\ Neutral(<<l>>)
<1> SUFFICES ASSUME NEW p \in Places
             PROVE  Leads(<<>>, p, p) /\ Leads(<<l>>, p, p)
  BY DEF Neutral
<1>1. Leads(<<>>, p, p) /\ <<>> \in Seq(Line)
  BY LeadsNowhere, EmptySeq
<1>2. Follows(l.k, p, p)
  BY DEF Follows
<1>3. Leads(Append(<<>>, l), p, p)
  BY <1>1, <1>2, LeadsOn
<1>4. Append(<<>>, l) = <<l>>
  OBVIOUS
<1> QED  BY <1>1, <1>3, <1>4

-----------------------------------------------------------------------------
(* The invariant.                                                           *)

(* Every text that a name stands for is neutral.                            *)
TextsNeutral == \A n \in DOMAIN macros : Neutral(macros[n].buf)

(* MacrosNest, and a branch that is skipped is one of the macro being read. *)
Bracketed ==
  /\ \A i \in 1..mifCur : mifStk[i] # 0
  /\ \A i \in 1..mifMacCur : /\ mifMacStk[i] <= mifCur
                             /\ \A j \in 1..i : mifMacStk[j] <= mifMacStk[i]
  /\ Dead /\ mifMacCur > 0 => mifMacStk[mifMacCur] < mifCur

(* The stacks are those of a place.  In a skipped branch there are more #ifs *)
(* and macros than the stacks hold, and those macros start within it; while *)
(* the end of a macro is looked for, scan counts the macros more than they. *)
At(p) ==
  /\ mifMacCur <= Len(p.macs)
  /\ \A i \in 1..mifMacCur : p.macs[i] = mifMacStk[i]
  /\ scan = NoScan => /\ p.ifs = mifCur + mifChkSnc
                      /\ Len(p.macs) > mifMacCur => Dead
                      /\ \A i \in 1..Len(p.macs) : i > mifMacCur => mifCur <= p.macs[i]
  /\ scan # NoScan => Len(p.macs) = mifMacCur + scan

(* What is in buf and what the calls fs still have to do lead from p out of *)
(* every macro.                                                             *)
TextsLead(fs, buf, p) ==
  \E r \in [0..Len(fs) -> Places] :
    /\ r[0].macs = <<>> /\ Leads(buf, p, r[Len(fs)])
    /\ \A i \in 1..Len(fs) : Leads(fs[i].text, r[i], r[i - 1])
CallsLead(p) == TextsLead(frames, mbuf, p)

(* So do the lines not yet taken.                                           *)
LinesLead(p) == \E q \in Places : Leads(MM_ptr, p, q) /\ q.macs = <<>>

NestInvariant ==
  ClosedMacros(files) =>
    /\ TextsNeutral /\ Bracketed /\ "PrgErr" \notin messages
    /\ phase = "eof" => mifMacCur = 0 /\ scan = NoScan
    /\ phase = "macc" => \E p \in Places : At(p) /\ CallsLead(p)
    /\ phase = "read" => \E p \in Places : At(p) /\ LinesLead(p)

-----------------------------------------------------------------------------
(* MM_Macc.                                                                 *)

(* The texts of the calls when the innermost one has taken its next line.   *)
LEMMA AdvancedTexts ==
  ASSUME TextTypes, NEW ks, Scans(ks)
  PROVE  /\ Advance \in Seq(Calls) /\ Len(Advance) = Len(frames)
         /\ \A i \in 1..(Len(frames) - 1) : Advance[i].text = frames[i].text
         /\ Advance[Len(frames)].text = Tail(Last(frames).text)
<1>1. /\ Advance \in Seq(Calls) /\ Len(Advance) = Len(frames) /\ phase = "macc"
      /\ \A i \in 1..(Len(frames) - 1) : Advance[i] = frames[i]
      /\ Advance[Len(frames)] = [Last(frames) EXCEPT !.text = Tail(@)]
  BY NextLine
<1>2. Last(frames) \in Calls
  BY <1>1, InnermostCall
<1> QED  BY <1>1, <1>2 DEF Calls

(* The calls gs have taken the next line, and written what leads where it   *)
(* does.                                                                    *)
LEMMA LineTaken ==
  ASSUME TextTypes, NEW ks, Scans(ks), NEW p \in Places, CallsLead(p),
         NEW gs \in Seq(Calls), Len(gs) = Len(frames),
         \A i \in 1..(Len(frames) - 1) : gs[i].text = frames[i].text,
         gs[Len(frames)].text = Tail(Last(frames).text), NEW new,
         \A u, w \in Places : Leads(mbuf, p, u) /\ Follows(Scanned.k, u, w) => Leads(new, p, w)
  PROVE  TextsLead(gs, new, p)
<1>1. PICK r \in [0..Len(frames) -> Places] :
        /\ r[0].macs = <<>> /\ Leads(mbuf, p, r[Len(frames)])
        /\ \A i \in 1..Len(frames) : Leads(frames[i].text, r[i], r[i - 1])
  BY DEF CallsLead, TextsLead
<1>2. phase = "macc" /\ Last(frames).text \in Seq(Line) /\ Last(frames).text # <<>>
  BY NextLine
<1>3. PICK n \in Nat : n = Len(frames) /\ n > 0
  BY <1>2, InnermostCall
<1>4. Last(frames) = frames[n]
  BY <1>3 DEF Last
<1>5. Leads(Last(frames).text, r[n], r[n - 1])
  BY <1>1, <1>3, <1>4
<1>6. PICK u \in Places : Follows(Scanned.k, r[n], u) /\ Leads(Tail(Last(frames).text), u, r[n - 1])
  BY <1>2, <1>5, LeadsFirst DEF Scanned
<1>7. Leads(new, p, u)
  BY <1>1, <1>3, <1>6
<1> DEFINE t == [i \in 0..n |-> IF i = n THEN u ELSE r[i]]
<1>8. /\ t \in [0..n -> Places] /\ t[n] = u /\ t[0] = r[0]
      /\ \A i \in 0..(n - 1) : t[i] = r[i]
  BY <1>1, <1>3
<1> HIDE DEF t
<1>9. ASSUME NEW i \in 1..n
      PROVE  Leads(gs[i].text, t[i], t[i - 1])
  <2>1. CASE i = n
    <3>1. t[i] = u /\ t[i - 1] = r[n - 1]
      BY <1>3, <1>8, <2>1
    <3> QED  BY <1>3, <1>6, <2>1, <3>1
  <2>2. CASE i # n
    <3>1. i \in 1..(n - 1) /\ i - 1 \in 0..(n - 1) /\ i \in 1..n /\ i \in 0..(n - 1)
      BY <1>3, <2>2
    <3>2. t[i] = r[i] /\ t[i - 1] = r[i - 1] /\ gs[i].text = frames[i].text
      BY <1>3, <1>8, <3>1
    <3> QED  BY <1>1, <1>3, <3>1, <3>2
  <2> QED  BY <2>1, <2>2
<1>10. Len(gs) = n /\ t[0].macs = <<>> /\ Leads(new, p, t[n])
  BY <1>1, <1>3, <1>7, <1>8
<1> QED  BY <1>8, <1>9, <1>10 DEF TextsLead

(* One that only moves on to the next line.                                 *)
LEMMA LinePassed ==
  ASSUME TextTypes, NEW ks, Scans(ks), NEW p \in Places, CallsLead(p), frames' = Advance,
         \A u, w \in Places : Leads(mbuf, p, u) /\ Follows(Scanned.k, u, w) => Leads(mbuf', p, w)
  PROVE  CallsLead(p)'
<1>1. /\ Advance \in Seq(Calls) /\ Len(Advance) = Len(frames)
      /\ \A i \in 1..(Len(frames) - 1) : Advance[i].text = frames[i].text
      /\ Advance[Len(frames)].text = Tail(Last(frames).text)
  BY AdvancedTexts
<1>2. TextsLead(Advance, mbuf', p)
  BY <1>1, LineTaken
<1> QED  BY <1>2 DEF CallsLead

(* A call more.                                                             *)
LEMMA CallMade ==
  ASSUME NEW p, NEW gs \in Seq(Calls), NEW new, TextsLead(gs, new, p),
         NEW c \in Calls, Neutral(c.text)
  PROVE  TextsLead(Append(gs, c), new, p)
<1>1. PICK n \in Nat : n = Len(gs)
  BY LenProperties
<1>2. PICK r \in [0..n -> Places] :
        /\ r[0].macs = <<>> /\ Leads(new, p, r[n])
        /\ \A i \in 1..n : Leads(gs[i].text, r[i], r[i - 1])
  BY <1>1 DEF TextsLead
<1> DEFINE t == [i \in 0..(n + 1) |-> IF i = n + 1 THEN r[n] ELSE r[i]]
           hs == Append(gs, c)
<1>3. /\ t \in [0..(n + 1) -> Places] /\ t[n + 1] = r[n] /\ r[n] \in Places
      /\ \A i \in 0..n : t[i] = r[i]
  BY <1>2
<1>4. Len(hs) = n + 1 /\ hs[n + 1] = c /\ \A i \in 1..n : hs[i] = gs[i]
  BY <1>1, AppendProperties
<1> HIDE DEF t, hs
<1>5. ASSUME NEW i \in 1..(n + 1)
      PROVE  Leads(hs[i].text, t[i], t[i - 1])
  <2>1. CASE i = n + 1
    <3>1. t[i] = r[n] /\ t[i - 1] = r[n] /\ hs[i] = c
      BY <1>3, <1>4, <2>1
    <3> QED  BY <1>3, <3>1 DEF Neutral
  <2>2. CASE i # n + 1
    <3>1. i \in 1..n /\ i \in 0..n /\ i - 1 \in 0..n
      BY <2>2
    <3> QED  BY <1>2, <1>3, <1>4, <3>1
  <2> QED  BY <2>1, <2>2
<1>6. t[0].macs = <<>> /\ Leads(new, p, t[n + 1])
  BY <1>2, <1>3
<1>7. TextsLead(hs, new, p)
  BY <1>3, <1>4, <1>5, <1>6 DEF TextsLead
<1> QED  BY <1>7 DEF hs

(* A call returns: for a line it leaves what it wrote, for a macro that is  *)
(* to be scanned again.                                                     *)
LEMMA CallReturns ==
  ASSUME TextTypes, MarksInOrder, MaccReturn, NEW p \in Places, CallsLead(p)
  PROVE  /\ phase' = "macc" => CallsLead(p)'
         /\ phase' = "read" => LinesLead(p)'
<1>1. PICK r \in [0..Len(frames) -> Places] :
        /\ r[0].macs = <<>> /\ Leads(mbuf, p, r[Len(frames)])
        /\ \A i \in 1..Len(frames) : Leads(frames[i].text, r[i], r[i - 1])
  BY DEF CallsLead, TextsLead
<1> DEFINE f == Last(frames)
<1>2. /\ phase = "macc" /\ f \in Calls /\ f.text = <<>> /\ f.at = 0
      /\ Front(frames) \in Seq(Calls) /\ Len(Front(frames)) = Len(frames) - 1
      /\ \A i \in 1..(Len(frames) - 1) : Front(frames)[i] = frames[i]
  BY InnermostCall DEF MaccReturn
<1>3. PICK n \in Nat : Len(frames) = n + 1 /\ n + 1 \in 1..Len(frames)
  <2>1. Len(frames) \in 1..StackLimit /\ StackLimit \in Nat
    BY <1>2, InnermostCall, LimitsNat
  <2>2. PICK m \in Nat : m = Len(frames)
    BY <2>1
  <2>3. m - 1 \in Nat /\ m = (m - 1) + 1
    BY <2>1, <2>2
  <2> QED  BY <2>2, <2>3
<1>4. Len(Front(frames)) = n /\ \A i \in 1..n : Front(frames)[i] = frames[i]
  BY <1>2, <1>3
<1>5. f = frames[n + 1]
  BY <1>3 DEF Last
<1>6. r[n + 1] = r[n] /\ r[n] \in Places
  <2>1. Leads(<<>>, r[n + 1], r[n])
    <3>1. (n + 1) - 1 = n
      OBVIOUS
    <3> QED  BY <1>1, <1>2, <1>3, <1>5, <3>1
  <2>2. r[n + 1] \in Places /\ r[n] \in Places
    BY <1>1, <1>3
  <2> QED  BY <2>1, <2>2, LeadsNowhere
<1> HIDE DEF f
<1>7. Leads(mbuf, p, r[n]) /\ mbuf \in Seq(Line)
  BY <1>1, <1>3, <1>6 DEF TextTypes
<1> DEFINE t == [i \in 0..n |-> r[i]]
<1>8. t \in [0..n -> Places] /\ \A i \in 0..n : t[i] = r[i]
  BY <1>1, <1>3
<1> HIDE DEF t
<1>9. ASSUME NEW i \in 1..n
      PROVE  Leads(Front(frames)[i].text, r[i], r[i - 1])
  BY <1>1, <1>3, <1>4
<1>10. CASE f.name = NoName
  <2>1. EndCall
    BY <1>10 DEF MaccReturn, f
  <2>2. CASE n > 0
    <3>1. frames' = Front(frames) /\ UNCHANGED <<mbuf, phase>>
      BY <1>3, <2>1, <2>2 DEF EndCall
    <3>2. ASSUME NEW i \in 1..n
          PROVE  Leads(frames'[i].text, t[i], t[i - 1])
      <4>1. i \in 0..n /\ i - 1 \in 0..n
        OBVIOUS
      <4> QED  BY <1>8, <1>9, <3>1, <4>1
    <3>3. Len(frames') = n /\ t[0].macs = <<>> /\ Leads(mbuf', p, t[n])
      BY <1>1, <1>4, <1>7, <1>8, <3>1
    <3>4. CallsLead(p)'
      BY <1>8, <3>2, <3>3 DEF CallsLead, TextsLead
    <3> QED  BY <1>2, <3>1, <3>4
  <2>3. CASE ~(n > 0)
    <3>1. n = 0
      BY <2>3
    <3>2. MM_ptr' = mbuf /\ phase' = "read"
      BY <1>3, <2>1, <3>1 DEF EndCall
    <3>3. Leads(MM_ptr', p, r[0]) /\ r[0] \in Places /\ r[0].macs = <<>>
      BY <1>1, <1>6, <1>7, <3>1, <3>2
    <3> QED  BY <3>2, <3>3 DEF LinesLead
  <2> QED  BY <2>2, <2>3
<1>11. CASE f.name # NoName
  <2> DEFINE seg == SubSeq(mbuf, f.mark + 1, Len(mbuf))
             c == Call(seg, NoName, f.mark)
  <2>1. FreeName /\ frames' = Append(Front(frames), c) /\ mbuf' = SubSeq(mbuf, 1, f.mark)
    BY <1>11 DEF MaccReturn, f
  <2>2. f.mark \in 0..Len(mbuf)
    <3>1. n + 1 \in DOMAIN frames /\ Len(mbuf) \in Nat
      BY <1>3, <1>7, LenProperties DEF TextTypes
    <3>2. f.mark <= Len(mbuf) /\ f.mark \in Nat
      BY <1>2, <1>5, <3>1 DEF MarksInOrder, InOrder, Reached, Calls
    <3> QED  BY <3>1, <3>2
  <2>3. PICK u \in Places : Leads(SubSeq(mbuf, 1, f.mark), p, u) /\ Leads(seg, u, r[n])
    BY <1>7, <2>2, LeadsSplit
  <2>4. c \in Calls /\ c.text = seg
    <3>1. seg \in Seq(Line)
      BY <1>7, <2>2, LenProperties, ElementOfSeq, SubSeqProperties
    <3> QED  BY <1>2, <3>1 DEF c, Call, Calls
  <2> HIDE DEF seg, c
  <2> DEFINE w == [i \in 0..(n + 1) |-> IF i = n + 1 THEN u ELSE r[i]]
  <2>5. /\ w \in [0..(n + 1) -> Places] /\ w[n + 1] = u
        /\ \A i \in 0..n : w[i] = r[i]
    BY <1>1, <1>3
  <2> HIDE DEF w
  <2>6. /\ Len(frames') = n + 1 /\ frames'[n + 1] = c
        /\ \A i \in 1..n : frames'[i] = Front(frames)[i]
    BY <1>2, <1>4, <2>1, <2>4, AppendProperties
  <2>7. ASSUME NEW i \in 1..(n + 1)
        PROVE  Leads(frames'[i].text, w[i], w[i - 1])
    <3>1. CASE i = n + 1
      <4>1. w[i] = u /\ w[i - 1] = r[n] /\ frames'[i] = c
        BY <2>5, <2>6, <3>1
      <4> QED  BY <2>3, <2>4, <4>1
    <3>2. CASE i # n + 1
      <4>1. i \in 1..n /\ i \in 0..n /\ i - 1 \in 0..n
        BY <3>2
      <4> QED  BY <1>9, <2>5, <2>6, <4>1
    <3> QED  BY <3>1, <3>2
  <2>8. w[0].macs = <<>> /\ Leads(mbuf', p, w[n + 1])
    BY <1>1, <2>1, <2>3, <2>5
  <2>9. CallsLead(p)'
    BY <2>5, <2>6, <2>7, <2>8 DEF CallsLead, TextsLead
  <2>10. phase' # "read"
    BY <2>1 DEF FreeName
  <2> QED  BY <2>9, <2>10
<1> QED  BY <1>10, <1>11

(* An #if gets its argument.                                                *)
LEMMA ArgumentCame ==
  ASSUME TextTypes, MarksInOrder, MaccAnswer, NEW p \in Places, CallsLead(p)
  PROVE  CallsLead(p)'
<1> DEFINE c == [Last(frames) EXCEPT !.at = 0]
<1>1. PICK at \in Nat : at = Last(frames).at
  BY AnswerTypes
<1>2. PICK n \in Nat : n = Len(mbuf)
  BY AnswerTypes
<1> DEFINE before == SubSeq(mbuf, 1, at - 1)
           ls == SubSeq(mbuf, at + 1, n)
           l == mbuf[at]
<1>3. /\ phase = "macc" /\ at \in 1..n /\ l \in Line /\ l.k \in {"if", "elif"}
      /\ c \in Calls /\ frames' = [frames EXCEPT ![Len(frames)] = c]
      /\ before \in Seq(Line) /\ ls \in Seq(Line) /\ mbuf' = before \o Answer(l, ls)
  BY <1>1, <1>2, AnswerTypes
<1>4. mbuf \in Seq(Line) /\ frames \in Seq(Calls)
  BY DEF TextTypes
<1>5. ASSUME NEW q, Leads(mbuf, p, q)
      PROVE  Leads(mbuf', p, q)
  <2> DEFINE s == SubSeq(mbuf, at, n)
  <2>1. PICK u \in Places : Leads(before, p, u) /\ Leads(s, u, q)
    <3>1. PICK m \in 0..n : m = at - 1 /\ m + 1 = at
      BY <1>3
    <3>2. \E u \in Places : Leads(SubSeq(mbuf, 1, m), p, u) /\ Leads(SubSeq(mbuf, m + 1, n), u, q)
      BY <1>2, <1>4, <1>5, LeadsSplit
    <3> QED  BY <3>1, <3>2
  <2>2. s \in Seq(Line) /\ s # <<>> /\ Head(s) = l /\ Tail(s) = ls
    <3>1. at \in 1..Len(mbuf) /\ n \in at..Len(mbuf)
      BY <1>2, <1>3
    <3>2. /\ s \in Seq(Line)
          /\ Len(s) = IF at <= n THEN n - at + 1 ELSE 0
      <4>1. \A i \in at..n : mbuf[i] \in Line
        BY <1>2, <1>3, <1>4, ElementOfSeq
      <4> QED  BY <4>1, <3>1, SubSeqProperties
    <3>3. Len(s) # 0
      BY <1>3, <3>2
    <3> QED  BY <1>2, <1>4, <3>1, <3>2, <3>3, HeadTailOfSubSeq
  <2> HIDE DEF s, before, ls, l
  <2>3. PICK w \in Places : Follows(l.k, u, w) /\ Leads(ls, w, q)
    BY <2>1, <2>2, LeadsFirst
  <2> QED  BY <1>3, <2>1, <2>3, AnswerLeads
<1> HIDE DEF before, ls, l
<1>6. PICK r \in [0..Len(frames) -> Places] :
        /\ r[0].macs = <<>> /\ Leads(mbuf, p, r[Len(frames)])
        /\ \A i \in 1..Len(frames) : Leads(frames[i].text, r[i], r[i - 1])
  BY DEF CallsLead, TextsLead
<1>7. PICK m \in Nat : m = Len(frames) /\ m \in 1..m
  BY <1>3, InnermostCall
<1>8. c.text = frames[m].text
  <2>1. Last(frames) \in Calls /\ Last(frames) = frames[m]
    BY <1>3, <1>7, InnermostCall DEF Last
  <2> QED  BY <2>1 DEF Calls
<1>9. Len(frames') = m /\ \A i \in 1..m : frames'[i] = IF i = m THEN c ELSE frames[i]
  BY <1>3, <1>4, <1>7, ExceptSeq
<1> HIDE DEF c
<1>10. \A i \in 1..m : Leads(frames'[i].text, r[i], r[i - 1])
  BY <1>6, <1>7, <1>8, <1>9
<1> QED  BY <1>5, <1>6, <1>7, <1>9, <1>10 DEF CallsLead, TextsLead

(* The texts of names stay neutral.                                         *)
LEMMA EntryNeutral ==
  ASSUME NEW e \in Entries, Neutral(e.buf), NEW atr \in Atrs, NEW val \in Int,
         NEW buf \in Seq(Line), Neutral(buf), Neutral(<<>>)
  PROVE  Neutral(MTREE_Add(e, atr, val, buf).buf) /\ Neutral(M_Undef(e).buf)
<1>1. M_Undef(e).buf \in {e.buf, <<>>}
  BY DEF M_Undef, Entries
<1>2. [atr |-> atr, val |-> val, buf |-> buf].buf = buf
      /\ [atr |-> atr, val |-> val, buf |-> <<>>].buf = <<>>
      /\ [e EXCEPT !.atr = atr, !.val = val].buf = e.buf
  BY DEF Entries
<1>3. MTREE_Add(e, atr, val, buf).buf \in {e.buf, buf, <<>>}
  BY <1>2 DEF MTREE_Add
<1> QED  BY <1>1, <1>3

LEMMA PlaceUnmoved ==
  ASSUME NEW p, At(p), UNCHANGED <<stacks, scan>>
  PROVE  At(p)'
BY DEF At, stacks, Dead

(* MM_Macc, where macro bodies are closed.                                  *)
LEMMA MaccNests ==
  ASSUME TypeInvariant, NestInvariant, Macc
  PROVE  NestInvariant'
<1> SUFFICES ASSUME ClosedMacros(files)
             PROVE  NestInvariant'
  <2>1. UNCHANGED files
    BY DEF Macc, MaccText, MaccExpand, MaccAsk, MaccAnswer, MaccReturn, MaccDefine, MaccUndef,
           MaccCopy
  <2> QED  BY <2>1 DEF NestInvariant
<1>1. TextTypes /\ MarksInOrder
  BY TypeParts
<1>2. /\ UNCHANGED <<files, stacks, scan>> /\ phase = "macc"
      /\ phase' \in {"read", "macc", "exit", "crash"}
      /\ messages' \subseteq messages \cup {"macronest", "redefined"}
  BY DEF Macc, MaccText, MaccExpand, MaccAsk, MaccAnswer, MaccReturn, MaccDefine, MaccUndef,
         MaccCopy, Scans, Define, Say, EndCall, FreeName, Enters, Outcome
<1>3. TextsNeutral /\ Bracketed /\ "PrgErr" \notin messages
  BY DEF NestInvariant
<1>4. PICK p \in Places : At(p) /\ CallsLead(p)
  BY <1>2 DEF NestInvariant
<1>5. At(p)' /\ Bracketed'
  BY <1>2, <1>3, <1>4, PlaceUnmoved DEF Bracketed, stacks, Dead
<1>6. Neutral(<<>>) /\ \A v \in Int, n \in Names \cup {NoName} : Neutral(<<[Number(v) EXCEPT !.n = n]>>)
  <2>1. ASSUME NEW v \in Int, NEW n \in Names \cup {NoName}
        PROVE  Neutral(<<[Number(v) EXCEPT !.n = n]>>)
    <3>1. [Number(v) EXCEPT !.n = n] \in Line /\ [Number(v) EXCEPT !.n = n].k = "text"
      BY NumberType DEF Number, Mark
    <3> QED  BY <3>1, PlainNeutral
  <2>2. Mark("text") \in Line /\ Mark("text").k = "text"
    BY MarkType DEF Mark, Kinds
  <2> QED  BY <2>1, <2>2, PlainNeutral
<1>7. ASSUME NEW l \in Line, l.k = Scanned.k, mbuf' = Append(mbuf, l),
             NEW u \in Places, NEW w \in Places, Leads(mbuf, p, u), Follows(Scanned.k, u, w)
      PROVE  Leads(mbuf', p, w)
  BY <1>1, <1>7, LeadsOn DEF TextTypes
<1>8. CASE MaccText
  <2>1. Scans({"text"}) /\ frames' = Advance /\ UNCHANGED macros
    BY <1>8 DEF MaccText
  <2>2. Scanned \in Line /\ Scanned.k = "text"
    BY <1>1, <2>1, NextLine
  <2> DEFINE l == IF Counts(Scanned) THEN Number(macros[Scanned.n].val) ELSE Scanned
  <2>3. l \in Line /\ l.k = Scanned.k
    <3>1. CASE Counts(Scanned)
      <4>1. macros[Scanned.n].val \in Int
        BY <1>1, <3>1 DEF Counts, TextTypes, Entries
      <4> QED  BY <2>2, <3>1, <4>1, NumberType DEF Number, Mark
    <3> QED  BY <2>2, <3>1
  <2>4. mbuf' = Append(mbuf, l)
    BY <1>8 DEF MaccText
  <2> HIDE DEF l
  <2>5. CallsLead(p)'
    BY <1>1, <1>4, <1>7, <2>1, <2>3, <2>4, LinePassed
  <2> QED  BY <1>2, <1>3, <1>5, <2>1, <2>5, <1>8 DEF NestInvariant, TextsNeutral, MaccText
<1>9. CASE MaccCopy
  <2>1. /\ Scans(Kinds \ {"text", "define", "set", "undef"})
        /\ frames' = Advance /\ UNCHANGED macros
    BY <1>9 DEF MaccCopy
  <2>2. Scanned \in Line
    BY <1>1, <2>1, NextLine
  <2> DEFINE l == IF Scanned.k \in {"if", "elif"} THEN Resolved(Scanned) ELSE Scanned
  <2>3. l \in Line /\ l.k = Scanned.k
    <3>1. CASE Scanned.k \in {"if", "elif"}
      BY <1>1, <2>2, <3>1, ResolvedType
    <3>2. CASE Scanned.k \notin {"if", "elif"}
      BY <2>2, <3>2
    <3> QED  BY <3>1, <3>2
  <2>4. mbuf' = Append(mbuf, l)
    BY <1>9 DEF MaccCopy
  <2> HIDE DEF l
  <2>5. CallsLead(p)'
    BY <1>1, <1>4, <1>7, <2>1, <2>3, <2>4, LinePassed
  <2> QED  BY <1>2, <1>3, <1>5, <2>1, <2>5, <1>9 DEF NestInvariant, TextsNeutral, MaccCopy
<1>10. CASE MaccDefine \/ MaccUndef
  <2>1. PICK ks \in {{"define", "set"}, {"undef"}} : Scans(ks)
    BY <1>10 DEF MaccDefine, MaccUndef
  <2>2. /\ frames' = Advance /\ UNCHANGED <<mbuf, phase>>
        /\ Scanned \in Line /\ Scanned.k \in {"define", "set", "undef"}
    BY <1>1, <1>10, <2>1, NextLine DEF MaccDefine, MaccUndef
  <2>3. CallsLead(p)'
    <3>1. ASSUME NEW u \in Places, NEW w \in Places, Leads(mbuf, p, u), Follows(Scanned.k, u, w)
          PROVE  Leads(mbuf', p, w)
      <4>1. w = u
        BY <2>2, <3>1, StaysThere
      <4> QED  BY <2>2, <3>1, <4>1
    <3> QED  BY <1>1, <1>4, <2>1, <2>2, <3>1, LinePassed
  <2>4. Scanned.n \in DOMAIN macros /\ macros[Scanned.n] \in Entries /\ Scanned.v \in Int
        /\ Scanned.to \in Names \cup {NoName} /\ Neutral(macros[Scanned.n].buf)
    BY <1>1, <1>3, <2>2, LineFields DEF TextTypes, TextsNeutral
  <2>5. ASSUME NEW e, Neutral(e.buf), macros' = [macros EXCEPT ![Scanned.n] = e]
        PROVE  TextsNeutral'
    BY <1>3, <2>5 DEF TextsNeutral
  <2>6. TextsNeutral'
    <3>1. CASE MaccUndef
      <4>1. macros' = [macros EXCEPT ![Scanned.n] = M_Undef(macros[Scanned.n])]
        BY <3>1 DEF MaccUndef
      <4>2. Neutral(M_Undef(macros[Scanned.n]).buf)
        BY <1>6, <2>4, EmptySeq, EntryNeutral DEF Atrs
      <4> QED  BY <2>5, <4>1, <4>2
    <3>2. CASE MaccDefine /\ Scanned.k = "set"
      <4> DEFINE e == MTREE_Add(macros[Scanned.n], "set", Scanned.v, <<>>)
      <4>1. macros' = [macros EXCEPT ![Scanned.n] = e]
        BY <3>2 DEF MaccDefine, Define
      <4>2. Neutral(e.buf)
        BY <1>6, <2>4, EmptySeq, EntryNeutral DEF Atrs
      <4> HIDE DEF e
      <4> QED  BY <2>5, <4>1, <4>2
    <3>3. CASE MaccDefine /\ Scanned.k # "set"
      <4> DEFINE b == <<[Number(Scanned.v) EXCEPT !.n = Scanned.to]>>
                 e == MTREE_Add(macros[Scanned.n], "def", 0, b)
      <4>1. macros' = [macros EXCEPT ![Scanned.n] = e]
        BY <3>3 DEF MaccDefine, Define
      <4>2. b \in Seq(Line) /\ Neutral(b)
        BY <1>6, <2>4, NumberType
      <4> HIDE DEF b
      <4>3. Neutral(e.buf)
        <5>1. 0 \in Int /\ "def" \in Atrs /\ Neutral(<<>>)
          BY <1>6 DEF Atrs
        <5> QED  BY <2>4, <4>2, <5>1, EntryNeutral, Zenon
      <4> HIDE DEF e
      <4> QED  BY <2>5, <4>1, <4>3
    <3> QED  BY <1>10, <3>1, <3>2, <3>3
  <2> QED  BY <1>2, <1>3, <1>5, <2>2, <2>3, <2>6 DEF NestInvariant
(* Calls that have taken the line, and one for the text of its name.        *)
<1>11. ASSUME NEW gs \in Seq(Calls), NEW new \in Seq(Line), Enters(gs, new), Scanned.n \in Names,
              TextsLead(gs, new, p), UNCHANGED macros
       PROVE  NestInvariant'
  <2> DEFINE c == Call(macros[Scanned.n].buf, Scanned.n, Len(new))
  <2>1. phase' \in {"macc", "exit", "crash"}
    BY <1>11 DEF Enters, Outcome
  <2>2. phase' = "macc" => frames' = Append(gs, c) /\ mbuf' = new
    BY <1>11 DEF Enters
  <2>3. c \in Calls /\ Neutral(c.text)
    <3>1. macros[Scanned.n] \in Entries /\ Neutral(macros[Scanned.n].buf) /\ Len(new) \in Nat
      BY <1>1, <1>3, <1>11, LenProperties DEF TextTypes, TextsNeutral
    <3> QED  BY <1>11, <3>1 DEF Call, Calls, Entries
  <2> HIDE DEF c
  <2>4. TextsLead(Append(gs, c), new, p)
    BY <1>11, <2>3, CallMade
  <2>5. phase' = "macc" => CallsLead(p)'
    BY <2>2, <2>4 DEF CallsLead
  <2>6. TextsNeutral'
    BY <1>3, <1>11 DEF TextsNeutral
  <2> QED  BY <1>2, <1>3, <1>5, <2>1, <2>5, <2>6 DEF NestInvariant
<1>12. CASE MaccExpand
  <2>1. /\ Scans({"text"}) /\ Scanned.n \in Names /\ UNCHANGED macros /\ Enters(Advance, mbuf)
    BY <1>12 DEF MaccExpand, Expands
  <2>2. Scanned \in Line /\ Scanned.k = "text" /\ mbuf \in Seq(Line)
    BY <1>1, <2>1, NextLine DEF TextTypes
  <2>3. /\ Advance \in Seq(Calls) /\ Len(Advance) = Len(frames)
        /\ \A i \in 1..(Len(frames) - 1) : Advance[i].text = frames[i].text
        /\ Advance[Len(frames)].text = Tail(Last(frames).text)
    BY <1>1, <2>1, AdvancedTexts
  <2>4. \A u, w \in Places : Leads(mbuf, p, u) /\ Follows(Scanned.k, u, w) => Leads(mbuf, p, w)
    BY <2>2, StaysThere
  <2>5. TextsLead(Advance, mbuf, p)
    BY <1>1, <1>4, <2>1, <2>3, <2>4, LineTaken
  <2> QED  BY <1>11, <2>1, <2>2, <2>3, <2>5
<1>13. CASE MaccAsk
  <2> DEFINE gs == [frames EXCEPT ![Len(frames)] = Asked]
             new == Append(mbuf, Bare)
  <2>1. /\ Scans({"if", "elif"}) /\ phase = "macc" /\ Scanned.n \in Names
        /\ Bare \in Line /\ Bare.k = Scanned.k /\ Asked \in Calls
        /\ Enters(gs, new) /\ UNCHANGED macros
    BY <1>1, <1>13, AskTypes
  <2>2. frames \in Seq(Calls) /\ mbuf \in Seq(Line) /\ new \in Seq(Line)
    BY <1>1, <2>1, AppendProperties DEF TextTypes
  <2>3. /\ gs \in Seq(Calls) /\ Len(gs) = Len(frames)
        /\ \A i \in 1..(Len(frames) - 1) : gs[i].text = frames[i].text
        /\ gs[Len(frames)] = Asked
    <3>1. PICK n \in Nat : n = Len(frames) /\ n \in 1..n
      BY <1>1, <2>1, InnermostCall
    <3>2. /\ gs \in Seq(Calls) /\ Len(gs) = n
          /\ \A i \in 1..n : gs[i] = IF i = n THEN Asked ELSE frames[i]
      BY <2>1, <2>2, <3>1, ExceptSeq
    <3> HIDE DEF gs
    <3>3. \A i \in 1..(n - 1) : i \in 1..n /\ i # n
      OBVIOUS
    <3> QED  BY <3>1, <3>2, <3>3
  <2>4. Asked.text = Tail(Last(frames).text)
    <3>1. Last(frames) \in Calls
      BY <1>1, <2>1, InnermostCall
    <3> QED  BY <3>1 DEF Asked, Calls
  <2>5. \A u, w \in Places : Leads(mbuf, p, u) /\ Follows(Scanned.k, u, w) => Leads(new, p, w)
    BY <2>1, <2>2, LeadsOn
  <2> HIDE DEF gs, new
  <2>6. TextsLead(gs, new, p)
    BY <1>1, <1>4, <2>1, <2>3, <2>4, <2>5, LineTaken
  <2> QED  BY <1>11, <2>1, <2>2, <2>3, <2>6
<1>14. CASE MaccAnswer
  <2>1. UNCHANGED <<macros, messages, phase>>
    BY <1>14 DEF MaccAnswer
  <2>2. TextsNeutral'
    BY <1>3, <2>1 DEF TextsNeutral
  <2>3. CallsLead(p)'
    BY <1>1, <1>4, <1>14, ArgumentCame
  <2> QED  BY <1>2, <1>3, <1>5, <2>1, <2>2, <2>3 DEF NestInvariant
<1>15. CASE MaccReturn
  <2>1. UNCHANGED <<macros, messages>>
    BY <1>15 DEF MaccReturn
  <2>2. TextsNeutral'
    BY <1>3, <2>1 DEF TextsNeutral
  <2>3. /\ phase' = "macc" => CallsLead(p)'
        /\ phase' = "read" => LinesLead(p)'
    BY <1>1, <1>4, <1>15, CallReturns
  <2> QED  BY <1>2, <1>3, <1>5, <2>1, <2>2, <2>3 DEF NestInvariant
<1> QED  BY <1>8, <1>9, <1>10, <1>12, <1>13, <1>14, <1>15 DEF Macc

-----------------------------------------------------------------------------
(* Filn_GetLineMac.                                                         *)

(* Outside macros a line of a file leads somewhere outside macros.          *)
LEMMA LineOutside ==
  ASSUME NEW p \in Places, p.macs = <<>>, NEW l \in Line, l.k \notin {"S", "E"}
  PROVE  \E q \in Places : Leads(<<l>>, p, q) /\ q.macs = <<>>
<1> DEFINE q == [ifs |-> CASE l.k = "if" -> p.ifs + 1
                           [] l.k = "endif" /\ p.ifs > 0 -> p.ifs - 1
                           [] OTHER -> p.ifs,
                 macs |-> <<>>]
<1>1. p.ifs \in Nat
  BY DEF Places
<1>2. q.ifs \in Nat
  BY <1>1
<1>3. q \in Places
  <2>1. q \in [ifs : Nat, macs : Seq(Nat)] /\ Len(q.macs) = 0
    BY <1>2, EmptySeq
  <2> HIDE DEF q
  <2> QED  BY <2>1 DEF Places
<1>4. Follows(l.k, p, q)
  BY DEF Follows
<1>5. Leads(<<>>, p, p) /\ <<>> \in Seq(Line)
  BY LeadsNowhere, EmptySeq
<1> HIDE DEF q
<1>6. Leads(Append(<<>>, l), p, q)
  BY <1>3, <1>4, <1>5, LeadsOn
<1>7. Append(<<>>, l) = <<l>> /\ q.macs = <<>>
  BY DEF q
<1> QED  BY <1>3, <1>6, <1>7

(* The place where no line is left to take: outside macros.                 *)
LEMMA PlaceOutside ==
  ASSUME TypeInvariant, StackInvariant, NestInvariant, ClosedMacros(files), Reading
  PROVE  /\ mifMacCur = 0 /\ scan = NoScan
         /\ \E p \in Places : At(p) /\ LinesLead(p) /\ p.macs = <<>>
<1>1. phase = "read" /\ MM_ptr = <<>>
  BY DEF Reading
<1>2. PICK p \in Places : At(p) /\ LinesLead(p)
  BY <1>1 DEF NestInvariant
<1>3. p.macs = <<>>
  BY <1>1, <1>2, LeadsNowhere DEF LinesLead
<1>4. mifMacCur = 0
  BY <1>2, <1>3 DEF At, StackInvariant, StackTypes
<1>5. scan = NoScan
  BY <1>4 DEF StackInvariant, StackDiscipline
<1> QED  BY <1>2, <1>3, <1>4, <1>5

(* What M_Macro makes of the lines of a macro.                              *)
LEMMA MacroNeutral ==
  ASSUME TypeInvariant, ClosedMacros(files), phase = "read",
         Rest # <<>>, Head(Rest).k = "macro",
         NEW ends, ends = {i \in DOMAIN Rest : Rest[i].k = "endmacro"}, ends # {}
  PROVE  /\ SubSeq(Rest, 2, Min(ends) - 1) \in Seq(Line)
         /\ Neutral(Body(SubSeq(Rest, 2, Min(ends) - 1)))
<1>1. InputTypes
  BY TypeParts
<1>2. Last(inclStk).file \in DOMAIN files /\ Input \in Seq(Line) /\ Rest \in Seq(Line)
  BY <1>1, RestOfFile
<1>3. PICK k \in Nat : k = Last(inclStk).lin
  BY <1>1, RestLines
<1>4. PICK n \in Nat : n = Len(Input)
  BY <1>2, LenProperties
<1>5. /\ DOMAIN Rest = 1..Len(Rest) /\ Len(Rest) \in Nat
      /\ \A i \in 1..Len(Rest) : k + i \in 1..n /\ Rest[i] = Input[k + i]
  BY <1>1, <1>2, <1>3, <1>4, RestLines, LenProperties
<1>6. PICK e \in Nat : e = Min(ends)
  <2>1. Min(ends) \in 1..Len(Rest)
    BY <1>2, MacroEndType
  <2>2. Min(ends) \in Nat
    BY <1>5, <2>1
  <2> QED  BY <2>2
<1>7. e \in 1..Len(Rest) /\ Rest[e].k = "endmacro" /\ \A y \in ends : e <= y
  <2>1. ends \in SUBSET Nat
    BY <1>5
  <2>2. Min(ends) \in ends /\ \A y \in ends : Min(ends) <= y
    BY <2>1, LeastOfNats
  <2> QED  BY <1>5, <1>6, <2>2
<1>8. 1 \in 1..Len(Rest) /\ Rest[1].k = "macro" /\ e > 1
  <2>1. 1 \in 1..Len(Rest) /\ Rest[1].k = "macro"
    BY <1>5, <1>7
  <2>2. e # 1
    BY <1>7, <2>1
  <2> QED  BY <1>7, <2>1, <2>2
<1> DEFINE i == k + 1
           j == k + e
           ls == SubSeq(Input, i + 1, j - 1)
<1>9. /\ i \in 1..n /\ j \in 1..n /\ i < j
      /\ Input[i].k = "macro" /\ Input[j].k = "endmacro"
  BY <1>5, <1>7, <1>8
<1>10. ASSUME NEW m \in (i + 1)..(j - 1)
       PROVE  Input[m].k # "endmacro"
  <2>1. PICK x \in Nat : m = k + x
    <3>1. m - k \in Nat /\ m = k + (m - k)
      OBVIOUS
    <3> QED  BY <3>1
  <2>2. x \in 1..Len(Rest) /\ x < e
    BY <1>7, <2>1
  <2>3. x \notin ends
    BY <1>7, <2>2
  <2> QED  BY <1>5, <2>1, <2>2, <2>3
<1>11. BodyAt(Input, i, j)
  BY <1>9, <1>10 DEF BodyAt
<1>12. Input = files[Last(inclStk).file] /\ DOMAIN Input = 1..n
  BY <1>2, <1>4, LenProperties DEF Input
<1>13. /\ Closed(ls)
       /\ \A x \in 1..n : Input[x].k \notin {"S", "E"}
  <2> HIDE DEF i, j
  <2> QED  BY <1>2, <1>9, <1>11, <1>12 DEF ClosedMacros
<1>14. ASSUME NEW x \in (i + 1)..(j - 1)
       PROVE  Input[x] \in Line /\ x \in 1..n
  <2>1. x \in 1..Len(Input) /\ x \in 1..n
    BY <1>4, <1>9
  <2> QED  BY <1>2, <2>1, ElementOfSeq
<1>15. /\ ls \in Seq(Line)
       /\ \A x \in 1..Len(ls) : ls[x].k \notin {"S", "E"}
  <2> DEFINE a == i + 1
             b == j - 1
  <2>1. a \in Int /\ b \in Int /\ \A x \in a..b : Input[x] \in Line
    BY <1>14
  <2> HIDE DEF a, b
  <2>2. /\ SubSeq(Input, a, b) \in Seq(Line)
        /\ Len(SubSeq(Input, a, b)) = IF a <= b THEN b - a + 1 ELSE 0
        /\ \A x \in 1..(b - a + 1) : SubSeq(Input, a, b)[x] = Input[a + x - 1]
    BY <2>1, SubSeqProperties
  <2>3. ls = SubSeq(Input, a, b)
    BY DEF a, b
  <2>4. ASSUME NEW x \in 1..Len(ls)
        PROVE  ls[x].k \notin {"S", "E"}
    <3> HIDE DEF ls
    <3>1. x \in 1..(b - a + 1) /\ a + x - 1 \in a..b
      BY <2>1, <2>2, <2>3
    <3>2. a + x - 1 \in 1..n
      BY <1>14, <3>1 DEF a, b
    <3> QED  BY <1>13, <2>2, <2>3, <3>1, <3>2
  <2> QED  BY <2>2, <2>3, <2>4
<1>16. Neutral(Body(ls))
  <2> HIDE DEF ls
  <2> QED  BY <1>13, <1>15, BodyNeutral
<1>17. SubSeq(Rest, 2, Min(ends) - 1) = ls
  <2>1. PICK f \in Nat : f = e - 1 /\ f > 0
    BY <1>8
  <2>2. Len(Rest) = n - k
    <3>1. Rest = SubSeq(Input, k + 1, n)
      BY <1>3, <1>4 DEF Rest
    <3>2. \A x \in (k + 1)..n : Input[x] \in Line
      BY <1>2, <1>4, ElementOfSeq
    <3>3. Len(SubSeq(Input, k + 1, n)) = IF k + 1 <= n THEN n - (k + 1) + 1 ELSE 0
      BY <3>2, SubSeqProperties
    <3> QED  BY <1>9, <3>1, <3>3
  <2>3. /\ k + 1 \in 1..Len(Input) /\ n \in 1..Len(Input)
        /\ 2 \in 1..(n - (k + 1) + 1) /\ f \in 1..(n - (k + 1) + 1)
    BY <1>4, <1>7, <1>9, <2>1, <2>2
  <2>4. SubSeq(SubSeq(Input, k + 1, n), 2, f) = SubSeq(Input, (k + 1) + 2 - 1, (k + 1) + f - 1)
    BY <1>2, <2>3, SubSeqOfSubSeq
  <2>5. (k + 1) + 2 - 1 = i + 1 /\ (k + 1) + f - 1 = j - 1
    BY <2>1
  <2>6. SubSeq(Rest, 2, Min(ends) - 1) = SubSeq(SubSeq(Input, k + 1, n), 2, f)
    BY <1>3, <1>4, <1>6, <2>1 DEF Rest
  <2> QED  BY <2>4, <2>5, <2>6
<1> QED  BY <1>15, <1>16, <1>17

(* Reading a line, a macro or the end of a file.                            *)
LEMMA ReadNests ==
  ASSUME TypeInvariant, StackInvariant, NestInvariant, GetLine
  PROVE  NestInvariant'
<1> SUFFICES ASSUME ClosedMacros(files)
             PROVE  NestInvariant'
  <2>1. UNCHANGED files
    BY DEF GetLine, ReadRaw, ReadExpand, ReadMacro, EndFile
  <2> QED  BY <2>1 DEF NestInvariant
<1>1. InputTypes /\ TextTypes
  BY TypeParts
<1>2. Reading /\ phase = "read" /\ MM_ptr = <<>> /\ UNCHANGED <<files, stacks, scan>>
  BY DEF GetLine, ReadRaw, ReadExpand, ReadMacro, EndFile, Reading
<1>3. PICK p \in Places : At(p) /\ LinesLead(p) /\ p.macs = <<>>
  BY <1>2, PlaceOutside
<1>4. mifMacCur = 0 /\ scan = NoScan /\ mifMacCur' = 0 /\ scan' = NoScan
  BY <1>2, PlaceOutside DEF stacks
<1>5. TextsNeutral /\ Bracketed /\ "PrgErr" \notin messages
  BY DEF NestInvariant
<1>6. At(p)' /\ Bracketed'
  BY <1>2, <1>3, <1>5, PlaceUnmoved DEF Bracketed, stacks, Dead
<1>7. Rest # <<>> => /\ Head(Rest) \in Line
                     /\ \E q \in Places : Leads(<<Head(Rest)>>, p, q) /\ q.macs = <<>>
  <2> SUFFICES ASSUME Rest # <<>>
               PROVE  /\ Head(Rest) \in Line
                      /\ \E q \in Places : Leads(<<Head(Rest)>>, p, q) /\ q.macs = <<>>
    OBVIOUS
  <2>1. Rest \in Seq(Line) /\ Input \in Seq(Line) /\ Last(inclStk).file \in DOMAIN files
    BY <1>1, <1>2, RestOfFile
  <2>2. Head(Rest) \in Line /\ Head(Rest) = Rest[1] /\ 1 \in 1..Len(Rest)
    BY <2>1, HeadTailProperties, EmptySeq
  <2>3. PICK i \in DOMAIN Input : Rest[1] = Input[i]
    BY <1>1, <1>2, <2>1, <2>2, RestLines, LenProperties
  <2>4. Head(Rest).k \notin {"S", "E"}
    BY <2>1, <2>2, <2>3 DEF ClosedMacros, Input
  <2> QED  BY <1>3, <2>2, <2>4, LineOutside
<1>8. CASE ReadRaw
  <2>1. /\ MM_ptr' = <<Head(Rest)>> /\ Rest # <<>>
        /\ UNCHANGED <<phase, messages, macros>>
    BY <1>8 DEF ReadRaw, expansion
  <2>2. LinesLead(p)'
    BY <1>7, <2>1 DEF LinesLead
  <2> QED  BY <1>2, <1>5, <1>6, <2>1, <2>2 DEF NestInvariant, TextsNeutral
<1>9. CASE ReadExpand
  <2>1. /\ frames' = <<Call(<<Head(Rest)>>, NoName, 0)>> /\ mbuf' = <<>> /\ phase' = "macc"
        /\ Rest # <<>> /\ UNCHANGED <<messages, macros>>
    BY <1>9 DEF ReadExpand
  <2>2. PICK q \in Places : Leads(<<Head(Rest)>>, p, q) /\ q.macs = <<>>
    BY <1>7, <2>1
  <2> DEFINE r == [i \in 0..1 |-> IF i = 0 THEN q ELSE p]
  <2>3. r \in [0..1 -> Places] /\ r[0] = q /\ r[1] = p
    OBVIOUS
  <2> HIDE DEF r
  <2>4. Len(frames') = 1 /\ frames'[1].text = <<Head(Rest)>>
    BY <2>1 DEF Call
  <2>5. Leads(mbuf', p, r[1])
    BY <2>1, <2>3, LeadsNowhere
  <2>6. ASSUME NEW i \in 1..1
        PROVE  Leads(frames'[i].text, r[i], r[i - 1])
    <3>1. i = 1 /\ i - 1 = 0
      OBVIOUS
    <3> QED  BY <2>2, <2>3, <2>4, <3>1
  <2>7. CallsLead(p)'
    BY <2>2, <2>3, <2>4, <2>5, <2>6 DEF CallsLead, TextsLead
  <2> QED  BY <1>2, <1>5, <1>6, <2>1, <2>7 DEF NestInvariant, TextsNeutral
<1>10. CASE ReadMacro
  <2> DEFINE ends == {i \in DOMAIN Rest : Rest[i].k = "endmacro"}
             end  == IF ends = {} THEN Len(Rest) + 1 ELSE Min(ends)
             ls   == SubSeq(Rest, 2, end - 1)
             n    == Head(Rest).n
             new  == MTREE_Add(macros[n], "mac", 0, Body(ls))
             dies == \E i \in DOMAIN ls : ls[i].k \in {"undef", "macro"}
  <2>1. Rest # <<>> /\ Head(Rest).k = "macro" /\ UNCHANGED MM_ptr
    BY <1>10 DEF ReadMacro
  <2>2. CASE dies \/ ends = {}
    <3>1. /\ phase' \in {"crash", "exit"} /\ UNCHANGED macros
          /\ messages' \subseteq messages \cup {"endmacro"}
      BY <1>10, <2>2 DEF ReadMacro, Say
    <3>2. TextsNeutral'
      BY <1>5, <3>1 DEF TextsNeutral
    <3> QED  BY <1>5, <1>6, <3>1, <3>2 DEF NestInvariant
  <2>3. CASE ~(dies \/ ends = {})
    <3>1. end = Min(ends)
      BY <2>3
    <3>2. ls \in Seq(Line) /\ Neutral(Body(ls))
      <4>1. /\ SubSeq(Rest, 2, Min(ends) - 1) \in Seq(Line)
            /\ Neutral(Body(SubSeq(Rest, 2, Min(ends) - 1)))
        <5>1. ends # {}
          BY <2>3
        <5> HIDE DEF ends, ls
        <5> QED  BY <1>2, <2>1, <5>1, MacroNeutral DEF ends
      <4> QED  BY <3>1, <4>1
    <3>3. n \in DOMAIN macros /\ macros[n] \in Entries /\ Neutral(macros[n].buf)
      <4>1. n \in Names \cup {NoName, Nameless}
        BY <1>7, <2>1, LineFields
      <4> HIDE DEF n
      <4> QED  BY <1>1, <1>5, <4>1 DEF TextTypes, TextsNeutral
    <3>4. Neutral(<<>>)
      <4>1. Mark("text") \in Line /\ Mark("text").k = "text"
        BY MarkType DEF Mark, Kinds
      <4> QED  BY <4>1, PlainNeutral
    <3>5. new \in Entries /\ Neutral(new.buf)
      <4> HIDE DEF ls, n
      <4>1. Body(ls) \in Seq(Line) /\ "mac" \in Atrs /\ 0 \in Int
        BY <3>2, BodyType DEF Atrs
      <4>2. new \in Entries
        BY <3>3, <4>1, EntryTypes
      <4>3. Neutral(new.buf)
        BY <3>2, <3>3, <3>4, <4>1, EntryNeutral, Zenon
      <4> QED  BY <4>2, <4>3
    <3>6. ASSUME NEW e, Neutral(e.buf), macros' = [macros EXCEPT ![n] = e]
          PROVE  TextsNeutral'
      BY <1>5, <3>6 DEF TextsNeutral
    <3>7. messages' \subseteq messages \cup {"redefined"}
      BY <1>10, <2>3 DEF ReadMacro, Say
    <3>8. CASE n # Nameless
      <4>1. macros' = [macros EXCEPT ![n] = new] /\ UNCHANGED phase
        BY <1>10, <2>3, <3>8 DEF ReadMacro
      <4>2. TextsNeutral'
        <5> HIDE DEF new, n
        <5> QED  BY <3>5, <3>6, <4>1
      <4>3. LinesLead(p)'
        BY <1>3, <2>1 DEF LinesLead
      <4> QED  BY <1>2, <1>5, <1>6, <3>7, <4>1, <4>2, <4>3 DEF NestInvariant
    <3>9. CASE n = Nameless
      <4>1. /\ macros' = [macros EXCEPT ![n] = M_Undef(new)]
            /\ frames' = <<Call(new.buf, NoName, 0)>> /\ mbuf' = <<>> /\ phase' = "macc"
        BY <1>10, <2>3, <3>9 DEF ReadMacro
      <4>2. TextsNeutral'
        <5> HIDE DEF new, n
        <5>1. Neutral(M_Undef(new).buf)
          BY <3>4, <3>5 DEF M_Undef, Entries
        <5> QED  BY <3>6, <4>1, <5>1
      <4> DEFINE r == [i \in 0..1 |-> p]
      <4>3. r \in [0..1 -> Places] /\ r[0] = p /\ r[1] = p
        OBVIOUS
      <4> HIDE DEF r, new
      <4>4. Len(frames') = 1 /\ frames'[1].text = new.buf
        BY <4>1 DEF Call
      <4>5. Leads(mbuf', p, r[1])
        BY <4>1, <4>3, LeadsNowhere
      <4>6. ASSUME NEW i \in 1..1
            PROVE  Leads(frames'[i].text, r[i], r[i - 1])
        <5>1. i = 1 /\ i - 1 = 0
          OBVIOUS
        <5> QED  BY <3>5, <4>3, <4>4, <5>1 DEF Neutral
      <4>7. CallsLead(p)'
        BY <1>3, <4>3, <4>4, <4>5, <4>6 DEF CallsLead, TextsLead
      <4> QED  BY <1>5, <1>6, <3>7, <4>1, <4>2, <4>7 DEF NestInvariant
    <3> QED  BY <3>8, <3>9
  <2> QED  BY <2>2, <2>3
<1>11. CASE EndFile
  <2>1. /\ phase' \in {"read", "eof"} /\ UNCHANGED <<MM_ptr, messages, macros>>
    BY <1>4, <1>11 DEF EndFile, expansion
  <2>2. LinesLead(p)' /\ TextsNeutral'
    BY <1>3, <1>5, <2>1 DEF LinesLead, TextsNeutral
  <2> QED  BY <1>4, <1>5, <1>6, <2>1, <2>2 DEF NestInvariant
<1> QED  BY <1>8, <1>9, <1>10, <1>11 DEF GetLine

-----------------------------------------------------------------------------
(* Filn_GetsMif.                                                            *)

LEMMA PlaceFields ==
  ASSUME NEW p \in Places
  PROVE  /\ p.ifs \in Nat /\ p.macs \in Seq(Nat) /\ Len(p.macs) \in Nat
         /\ \A i \in 1..Len(p.macs) : /\ p.macs[i] \in Nat /\ p.macs[i] <= p.ifs
                                      /\ \A j \in 1..i : p.macs[j] <= p.macs[i]
         /\ p.macs # <<>> <=> Len(p.macs) > 0
         /\ p.macs # <<>> => Last(p.macs) = p.macs[Len(p.macs)]
<1>1. p.ifs \in Nat /\ p.macs \in Seq(Nat)
  BY DEF Places
<1>2. Len(p.macs) \in Nat /\ \A i \in 1..Len(p.macs) : p.macs[i] \in Nat
  BY <1>1, LenProperties, ElementOfSeq
<1>3. p.macs # <<>> <=> Len(p.macs) > 0
  BY <1>1, EmptySeq
<1> QED  BY <1>1, <1>2, <1>3 DEF Places, Last

(* Where lines are not skipped, and where a branch of this level ends, the  *)
(* stacks are exactly those of the place.                                   *)
Exactly(p) ==
  /\ mifChkSnc = 0 /\ p.ifs = mifCur /\ Len(p.macs) = mifMacCur
  /\ \A i \in 1..mifMacCur : p.macs[i] = mifMacStk[i]
  /\ p.macs # <<>> <=> mifMacCur > 0
  /\ mifMacCur > 0 => Last(p.macs) = mifMacStk[mifMacCur]

LEMMA PlaceLive ==
  ASSUME StackInvariant, NEW p \in Places, At(p), scan = NoScan, ~Dead
  PROVE  Exactly(p)
<1>1. mifChkSnc = 0 /\ mifMacCur \in Nat /\ mifCur \in Nat
  BY NestNat DEF StackInvariant, StackDiscipline, StackTypes
<1>2. Len(p.macs) = mifMacCur /\ p.ifs = mifCur
  BY <1>1, PlaceFields DEF At
<1> QED  BY <1>1, <1>2, PlaceFields DEF At, Exactly

LEMMA PlaceBranch ==
  ASSUME StackInvariant, NEW p \in Places, At(p), scan = NoScan, mifChkSnc = 0,
         NEW k \in {"elif", "else", "endif"}, NEW u, Follows(k, p, u)
  PROVE  Exactly(p) /\ (mifMacCur > 0 => mifMacStk[mifMacCur] < mifCur)
<1>1. mifMacCur \in Nat /\ mifCur \in Nat
  BY NestNat DEF StackInvariant, StackTypes
<1>2. p.ifs = mifCur /\ (p.macs # <<>> => Last(p.macs) < p.ifs)
  BY <1>1 DEF At, Follows
<1>3. Len(p.macs) = mifMacCur
  <2>1. CASE Len(p.macs) > mifMacCur
    <3>1. Len(p.macs) \in 1..Len(p.macs) /\ p.macs # <<>> /\ Last(p.macs) = p.macs[Len(p.macs)]
      BY <1>1, <2>1, PlaceFields
    <3>2. mifCur <= Last(p.macs) /\ Last(p.macs) \in Nat
      BY <2>1, <3>1, PlaceFields DEF At
    <3> QED  BY <1>1, <1>2, <3>1, <3>2
  <2>2. CASE ~(Len(p.macs) > mifMacCur)
    BY <1>1, <2>2, PlaceFields DEF At
  <2> QED  BY <2>1, <2>2
<1>4. \A i \in 1..mifMacCur : p.macs[i] = mifMacStk[i]
  BY DEF At
<1>5. p.macs # <<>> <=> mifMacCur > 0
  BY <1>3, PlaceFields
<1>6. mifMacCur > 0 => Last(p.macs) = mifMacStk[mifMacCur]
  BY <1>1, <1>3, <1>4, <1>5, PlaceFields
<1> QED  BY <1>2, <1>3, <1>4, <1>5, <1>6 DEF Exactly

(* Stacks that are exactly those of a place are at it.                      *)
LEMMA SettledPlace ==
  ASSUME StackInvariant', NEW u \in Places, Exactly(u)', scan' = NoScan
  PROVE  At(u)'
<1>1. mifMacCur' \in Nat /\ mifCur' \in Nat
  BY NestNat DEF StackInvariant, StackTypes
<1>2. /\ mifChkSnc' = 0 /\ u.ifs = mifCur' /\ Len(u.macs) = mifMacCur'
      /\ \A i \in 1..mifMacCur' : u.macs[i] = mifMacStk'[i]
  BY DEF Exactly
<1>3. /\ mifMacCur' <= Len(u.macs) /\ ~(Len(u.macs) > mifMacCur')
      /\ u.ifs = mifCur' + mifChkSnc'
      /\ \A i \in 1..Len(u.macs) : ~(i > mifMacCur')
  BY <1>1, <1>2
<1>4. /\ Len(u.macs) > mifMacCur' => Dead'
      /\ \A i \in 1..Len(u.macs) : i > mifMacCur' => mifCur' <= u.macs[i]
  BY <1>3
<1> QED  BY <1>2, <1>3, <1>4 DEF At

(* The next line, and where it leads.                                       *)
LEMMA LineGot ==
  ASSUME TypeInvariant, NestInvariant, ClosedMacros(files), phase = "read", MM_ptr # <<>>, Take
  PROVE  \E p, u \in Places : At(p) /\ Follows(Got.k, p, u) /\ LinesLead(u)'
<1>1. MM_ptr \in Seq(Line) /\ MM_ptr' = Tail(MM_ptr)
  BY TypeParts DEF TextTypes, Take
<1>2. PICK p \in Places, q \in Places : At(p) /\ Leads(MM_ptr, p, q) /\ q.macs = <<>>
  BY DEF NestInvariant, LinesLead
<1>3. PICK u \in Places : Follows(Got.k, p, u) /\ Leads(Tail(MM_ptr), u, q)
  BY <1>1, <1>2, LeadsFirst DEF Got
<1> QED  BY <1>1, <1>2, <1>3 DEF LinesLead

LEMMA SkipNests ==
  ASSUME StackInvariant, Bracketed, NEW p \in Places, NEW u \in Places,
         At(p), Follows(Got.k, p, u), Text \/ SkipIf \/ SkipEndif \/ Skip
  PROVE  Bracketed' /\ At(u)'
<1>1. /\ scan = NoScan /\ UNCHANGED <<scan, mifCur, mifStk, mifMacCur, mifMacStk>>
      /\ mifMacCur \in Nat /\ mifCur \in Nat /\ mifChkSnc \in Nat
  BY NestNat DEF Text, SkipIf, SkipEndif, Skip, Gets, StackInvariant, StackTypes, stacks
<1>2. Bracketed'
  BY <1>1 DEF Bracketed, Dead
<1>3. /\ mifMacCur <= Len(p.macs) /\ \A i \in 1..mifMacCur : p.macs[i] = mifMacStk[i]
      /\ p.ifs = mifCur + mifChkSnc /\ (Len(p.macs) > mifMacCur => Dead)
      /\ \A i \in 1..Len(p.macs) : i > mifMacCur => mifCur <= p.macs[i]
  BY <1>1 DEF At
<1>4. ASSUME u.macs = p.macs, u.ifs = mifCur + mifChkSnc'
      PROVE  At(u)'
  BY <1>1, <1>3, <1>4 DEF At, Dead
<1>5. CASE Text
  <2>1. Got.k = "text" /\ mifChkSnc' = mifChkSnc
    BY <1>5 DEF Text, Gets, Got, stacks
  <2>2. u = p
    BY <2>1, StaysThere
  <2> QED  BY <1>2, <1>3, <1>4, <2>1, <2>2
<1>6. CASE SkipIf
  <2>1. Got.k = "if" /\ mifChkSnc' = mifChkSnc + 1
    BY <1>6 DEF SkipIf, Gets, Got
  <2>2. u.macs = p.macs /\ u.ifs = p.ifs + 1
    BY <2>1 DEF Follows
  <2> QED  BY <1>1, <1>2, <1>3, <1>4, <2>1, <2>2
<1>7. CASE SkipEndif
  <2>1. Got.k = "endif" /\ mifChkSnc > 0 /\ mifChkSnc' = mifChkSnc - 1
    BY <1>7 DEF SkipEndif, Gets, Got
  <2>2. p.ifs > 0
    BY <1>1, <1>3, <2>1
  <2>3. u.macs = p.macs /\ u.ifs = p.ifs - 1
    BY <2>1, <2>2 DEF Follows
  <2> QED  BY <1>1, <1>2, <1>3, <1>4, <2>1, <2>3
<1>8. CASE Skip
  <2>1. Dead /\ mifChkSnc' = mifChkSnc /\ Got.k \notin {"if", "endif"}
    BY <1>8 DEF Skip, Gets, Got, stacks
  <2>2. u.ifs = p.ifs
    BY <2>1 DEF Follows
  <2>3. CASE Got.k \notin {"S", "E"}
    <3>1. u.macs = p.macs
      BY <2>1, <2>3 DEF Follows
    <3> QED  BY <1>2, <1>3, <1>4, <2>1, <2>2, <3>1
  <2>4. CASE Got.k = "S"
    <3>1. u.macs = Append(p.macs, p.ifs)
      BY <2>4 DEF Follows
    <3>2. PICK n \in Nat : n = Len(p.macs)
      BY PlaceFields
    <3>3. Len(u.macs) = n + 1 /\ u.macs[n + 1] = p.ifs /\ \A i \in 1..n : u.macs[i] = p.macs[i]
      BY <3>1, <3>2, PlaceFields, AppendProperties
    <3>4. mifCur <= p.ifs
      BY <1>1, <1>3
    <3>5. \A i \in 1..mifMacCur : u.macs[i] = mifMacStk[i]
      BY <1>1, <1>3, <3>2, <3>3
    <3>6. ASSUME NEW i \in 1..(n + 1), i > mifMacCur
          PROVE  mifCur <= u.macs[i]
      <4>1. CASE i = n + 1
        BY <3>3, <3>4, <4>1
      <4>2. CASE i # n + 1
        <5>1. i \in 1..n
          BY <4>2
        <5> QED  BY <1>3, <3>2, <3>3, <3>6, <5>1
      <4> QED  BY <4>1, <4>2
    <3>7. mifMacCur <= n + 1
      BY <1>1, <1>3, <3>2
    <3> QED  BY <1>1, <1>2, <1>3, <2>1, <2>2, <3>3, <3>5, <3>6, <3>7 DEF At, Dead
  <2>5. CASE Got.k = "E"
    <3>1. u.macs = Front(p.macs) /\ p.macs # <<>> /\ Last(p.macs) = p.ifs
      BY <2>5 DEF Follows
    <3>2. PICK n \in Nat : Len(p.macs) = n + 1
      <4>1. PICK m \in Nat : m = Len(p.macs) /\ m > 0
        BY <3>1, PlaceFields
      <4>2. m - 1 \in Nat /\ m = (m - 1) + 1
        BY <4>1
      <4> QED  BY <4>1, <4>2
    <3>3. Len(u.macs) = n /\ \A i \in 1..n : u.macs[i] = p.macs[i]
      <4>1. /\ Len(Front(p.macs)) = Len(p.macs) - 1
            /\ \A i \in 1..(Len(p.macs) - 1) : Front(p.macs)[i] = p.macs[i]
        BY <3>1, PlaceFields, FrontOfSeq
      <4> QED  BY <3>1, <3>2, <4>1
    <3>4. mifMacCur # n + 1
      <4> SUFFICES ASSUME mifMacCur = n + 1
                   PROVE  FALSE
        OBVIOUS
      <4>1. mifMacStk[mifMacCur] < mifCur
        BY <1>1, <2>1 DEF Bracketed
      <4>2. mifMacStk[mifMacCur] = p.ifs
        BY <1>1, <1>3, <3>1, <3>2, PlaceFields
      <4> QED  BY <1>1, <1>3, <4>1, <4>2
    <3>5. mifMacCur <= n
      BY <1>1, <1>3, <3>2, <3>4
    <3>6. \A i \in 1..n : i \in 1..Len(p.macs)
      BY <3>2
    <3>7. \A i \in 1..mifMacCur : i \in 1..n
      BY <1>1, <3>5
    <3> QED  BY <1>1, <1>2, <1>3, <2>1, <2>2, <3>3, <3>5, <3>6, <3>7 DEF At, Dead
  <2> QED  BY <2>3, <2>4, <2>5
<1> QED  BY <1>5, <1>6, <1>7, <1>8

LEMMA BranchNests ==
  ASSUME StackInvariant, StackInvariant', Bracketed, NEW p \in Places, NEW u \in Places,
         At(p), Follows(Got.k, p, u), If \/ Elif \/ Else \/ Endif
  PROVE  Bracketed' /\ (phase' = "read" => At(u)')
<1>1. /\ scan = NoScan /\ scan' = NoScan /\ mifChkSnc' = 0
      /\ UNCHANGED <<mifMacCur, mifMacStk>>
  BY DEF If, Elif, Else, Endif, Obeys, Live, Gets
<1>2. /\ mifMacCur \in Nat /\ mifCur \in Nat /\ mifCur <= FILN_IF_NEST
      /\ mifStk \in [0..FILN_IF_NEST -> 0..3] /\ mifStk[0] = 0
      /\ \A i \in 0..FILN_IF_NEST : i # mifCur => mifStk[i] <= 1
      /\ \A i \in 1..mifMacCur : mifMacStk[i] \in Nat
      /\ FILN_IF_NEST \in Nat
  BY NestNat DEF StackInvariant, StackTypes, StackDiscipline
<1>3. /\ \A i \in 1..mifCur : mifStk[i] # 0
      /\ \A i \in 1..mifMacCur : /\ mifMacStk[i] <= mifCur
                                 /\ \A j \in 1..i : mifMacStk[j] <= mifMacStk[i]
  BY DEF Bracketed
<1>4. CASE If
  <2>1. Got.k = "if" /\ ~Dead
    BY <1>4 DEF If, Live, Gets, Got
  <2>2. Exactly(p)
    BY <1>1, <2>1, PlaceLive
  <2>3. u.macs = p.macs /\ u.ifs = mifCur + 1
    BY <2>1, <2>2 DEF Follows, Exactly
  <2>4. CASE mifCur >= FILN_IF_NEST
    <3>1. phase' = "exit" /\ UNCHANGED <<mifCur, mifStk>>
      BY <1>4, <2>4 DEF If
    <3> QED  BY <1>1, <3>1 DEF Bracketed, Dead
  <2>5. CASE ~(mifCur >= FILN_IF_NEST)
    <3>1. PICK s \in {1, 2} : mifStk' = [mifStk EXCEPT ![mifCur + 1] = s]
      BY <1>4, <2>5 DEF If
    <3>2. mifCur' = mifCur + 1
      BY <1>4, <2>5 DEF If
    <3>3. \A i \in 1..mifCur' : mifStk'[i] # 0
      <4>1. ASSUME NEW i \in 1..(mifCur + 1)
            PROVE  mifStk'[i] # 0
        <5>1. i \in 0..FILN_IF_NEST
          BY <1>2, <2>5
        <5>2. CASE i = mifCur + 1
          BY <1>2, <3>1, <5>1, <5>2
        <5>3. CASE i # mifCur + 1
          <6>1. i \in 1..mifCur
            BY <1>2, <5>3
          <6> QED  BY <1>2, <1>3, <3>1, <5>1, <5>3, <6>1
        <5> QED  BY <5>2, <5>3
      <4> QED  BY <3>2, <4>1
    <3>4. \A i \in 1..mifMacCur : mifMacStk[i] <= mifCur' /\ mifMacStk[i] < mifCur'
      BY <1>2, <1>3, <3>2
    <3>5. mifMacCur > 0 => mifMacStk[mifMacCur] < mifCur'
      BY <1>2, <3>4
    <3>6. Bracketed'
      BY <1>1, <1>3, <3>3, <3>4, <3>5 DEF Bracketed
    <3>7. Exactly(u)'
      BY <1>1, <2>2, <2>3, <3>2 DEF Exactly
    <3> QED  BY <1>1, <3>6, <3>7, SettledPlace
  <2> QED  BY <2>4, <2>5
<1>5. CASE Elif \/ Else
  <2>1. Got.k \in {"elif", "else"} /\ UNCHANGED mifCur
    BY <1>5 DEF Elif, Else, Obeys, Live, Gets, Got
  <2>2. mifChkSnc = 0
    <3>1. ~Dead \/ mifChkSnc = 0
      BY <1>5 DEF Elif, Else, Obeys, Live
    <3>2. mifChkSnc \in Nat /\ (mifChkSnc > 0 => Dead)
      BY DEF StackInvariant, StackDiscipline, StackTypes
    <3> QED  BY <3>1, <3>2
  <2>3. Exactly(p) /\ (mifMacCur > 0 => mifMacStk[mifMacCur] < mifCur)
    BY <1>1, <2>1, <2>2, PlaceBranch
  <2>4. u.macs = p.macs /\ u.ifs = p.ifs
    BY <2>1 DEF Follows
  <2>5. Exactly(u)'
    BY <1>1, <2>1, <2>3, <2>4 DEF Exactly
  <2>6. UNCHANGED mifStk \/ \E s \in {1, 2, 3} : mifStk' = [mifStk EXCEPT ![mifCur] = s]
    <3>1. mifStk[mifCur] \in 0..3
      BY <1>2
    <3>2. CASE Elif
      <4>1. mifStk[mifCur] = 0 => UNCHANGED mifStk
        BY <3>2 DEF Elif
      <4>2. mifStk[mifCur] = 1 => mifStk' = [mifStk EXCEPT ![mifCur] = 3]
        BY <3>2 DEF Elif, Branch
      <4>3. mifStk[mifCur] = 2 => mifStk' = [mifStk EXCEPT ![mifCur] = IF Truth(Got) THEN 1 ELSE 2]
        BY <3>2 DEF Elif, Branch
      <4>4. mifStk[mifCur] = 3 => UNCHANGED mifStk
        BY <3>2 DEF Elif
      <4> QED  BY <3>1, <4>1, <4>2, <4>3, <4>4
    <3>3. CASE Else
      BY <3>1, <3>3 DEF Else, Branch
    <3> QED  BY <1>5, <3>2, <3>3
  <2>7. \A i \in 1..mifCur : mifStk'[i] # 0
    BY <1>2, <1>3, <2>6
  <2>8. Bracketed'
    BY <1>1, <1>3, <2>1, <2>3, <2>7 DEF Bracketed
  <2> QED  BY <1>1, <2>5, <2>8, SettledPlace
<1>6. CASE Endif
  <2>1. Got.k = "endif" /\ mifStk' = [mifStk EXCEPT ![mifCur] = 0]
    BY <1>6 DEF Endif, Obeys, Live, Gets, Got, Branch
  <2>2. mifChkSnc = 0
    <3>1. ~Dead \/ mifChkSnc = 0
      BY <1>6 DEF Endif, Obeys, Live
    <3>2. mifChkSnc \in Nat /\ (mifChkSnc > 0 => Dead)
      BY DEF StackInvariant, StackDiscipline, StackTypes
    <3> QED  BY <3>1, <3>2
  <2>3. Exactly(p) /\ (mifMacCur > 0 => mifMacStk[mifMacCur] < mifCur)
    BY <1>1, <2>1, <2>2, PlaceBranch
  <2>4. u.macs = p.macs /\ u.ifs = IF mifCur > 0 THEN mifCur - 1 ELSE mifCur
    BY <1>2, <2>1, <2>3 DEF Follows, Exactly
  <2>5. mifCur' = IF mifCur > 0 THEN mifCur - 1 ELSE mifCur
    BY <1>2, <1>6 DEF Endif
  <2>6. Exactly(u)'
    BY <1>1, <2>3, <2>4, <2>5 DEF Exactly
  <2>7. PICK c \in Nat : c = mifCur'
    BY <1>2, <2>5
  <2>8. ~Dead'
    BY <1>2, <2>1, <2>5 DEF Dead
  <2>9. \A i \in 1..c : i \in 1..mifCur /\ i # mifCur
    BY <1>2, <2>5, <2>7
  <2>10. \A i \in 1..c : mifStk'[i] # 0
    BY <1>2, <1>3, <2>1, <2>9
  <2>11. \A i \in 1..mifMacCur : mifMacStk[i] <= c
    <3>1. ASSUME NEW i \in 1..mifMacCur
          PROVE  mifMacStk[i] <= c
      <4>1. mifMacCur \in 1..mifMacCur /\ mifMacStk[i] <= mifMacStk[mifMacCur]
        BY <1>2, <1>3
      <4>2. mifMacStk[mifMacCur] < mifCur /\ mifMacStk[mifMacCur] \in Nat /\ mifMacStk[i] \in Nat
        BY <1>2, <2>3, <4>1
      <4> QED  BY <1>2, <2>5, <2>7, <4>1, <4>2
    <3> QED  BY <3>1
  <2>12. Bracketed'
    BY <1>1, <1>3, <2>7, <2>8, <2>10, <2>11 DEF Bracketed
  <2> QED  BY <1>1, <2>6, <2>12, SettledPlace
<1> QED  BY <1>4, <1>5, <1>6

(* The innermost macro ends where the #ifs are those it started with.       *)
LEMMA MacroEnds ==
  ASSUME StackInvariant, StackInvariant', NEW p \in Places, NEW u \in Places, Follows("E", p, u),
         Len(p.macs) = mifMacCur, \A i \in 1..mifMacCur : p.macs[i] = mifMacStk[i],
         LeaveMacro, mifChkSnc' = 0, UNCHANGED mifMacStk
  PROVE  mifMacCur > 0 /\ mifMacStk[mifMacCur] = p.ifs /\ Exactly(u)'
<1>1. u.macs = Front(p.macs) /\ u.ifs = p.ifs /\ p.macs # <<>> /\ Last(p.macs) = p.ifs
  BY DEF Follows
<1>2. PICK n \in Nat : Len(p.macs) = n + 1
  <2>1. PICK m \in Nat : m = Len(p.macs) /\ m > 0
    BY <1>1, PlaceFields
  <2>2. m - 1 \in Nat /\ m = (m - 1) + 1
    BY <2>1
  <2> QED  BY <2>1, <2>2
<1>3. /\ u.macs \in Seq(Nat) /\ Len(u.macs) = n
      /\ \A i \in 1..n : u.macs[i] = p.macs[i]
  <2>1. /\ Front(p.macs) \in Seq(Nat) /\ Len(Front(p.macs)) = Len(p.macs) - 1
        /\ \A i \in 1..(Len(p.macs) - 1) : Front(p.macs)[i] = p.macs[i]
    BY <1>1, PlaceFields, FrontOfSeq
  <2>2. Len(p.macs) - 1 = n
    BY <1>2
  <2> QED  BY <1>1, <2>1, <2>2
<1>4. mifMacCur = n + 1 /\ mifMacCur' = n /\ mifCur' = mifMacStk[mifMacCur]
  BY <1>2 DEF LeaveMacro
<1>5. mifMacStk[mifMacCur] = p.ifs
  BY <1>1, <1>2, <1>4, PlaceFields
<1>6. \A i \in 1..n : u.macs[i] = mifMacStk'[i]
  BY <1>3, <1>4
<1>7. u.macs # <<>> <=> n > 0
  BY <1>3, PlaceFields
<1>8. n > 0 => Last(u.macs) = mifMacStk'[n]
  BY <1>3, <1>6, <1>7, PlaceFields
<1> QED  BY <1>1, <1>3, <1>4, <1>5, <1>6, <1>7, <1>8 DEF Exactly

LEMMA MacroNests ==
  ASSUME StackInvariant, StackInvariant', Bracketed, NEW p \in Places, NEW u \in Places,
         At(p), Follows(Got.k, p, u), MacroStart \/ MacroEnd \/ Scan
  PROVE  /\ Bracketed' /\ (phase' = "read" => At(u)')
         /\ MacroEnd => mifMacCur # 0
<1>1. UNCHANGED mifStk
  BY DEF MacroStart, MacroEnd, Scan
<1>2. /\ mifMacCur \in Nat /\ mifCur \in Nat /\ mifCur <= FILN_IF_NEST
      /\ mifMacCur <= FILN_IF_NEST /\ FILN_IF_NEST \in Nat
      /\ mifStk \in [0..FILN_IF_NEST -> 0..3]
      /\ \A i \in 0..FILN_IF_NEST : i # mifCur => mifStk[i] <= 1
      /\ mifMacStk \in [1..FILN_IF_NEST -> 0..FILN_IF_NEST]
      /\ \A i \in 1..mifMacCur : mifMacStk[i] \in Nat
      /\ mifChkSnc \in Nat /\ scan \in Nat \cup {NoScan}
  BY NestNat DEF StackInvariant, StackTypes, StackDiscipline
<1>3. /\ \A i \in 1..mifCur : mifStk[i] # 0
      /\ \A i \in 1..mifMacCur : /\ mifMacStk[i] <= mifCur
                                 /\ \A j \in 1..i : mifMacStk[j] <= mifMacStk[i]
  BY DEF Bracketed
<1>4. CASE MacroStart
  <2>1. /\ Got.k = "S" /\ ~Dead /\ scan = NoScan /\ scan' = NoScan
        /\ mifChkSnc' = 0 /\ UNCHANGED mifCur
    BY <1>4 DEF MacroStart, Live, Gets, Got
  <2>2. Exactly(p)
    BY <2>1, PlaceLive
  <2>3. ~Dead' /\ ~MacroEnd
    BY <1>1, <2>1 DEF Dead, MacroEnd, Live, Gets, Got
  <2>4. CASE mifMacCur = FILN_IF_NEST
    <3>1. phase' = "exit" /\ UNCHANGED <<mifMacCur, mifMacStk>>
      BY <1>4, <2>4 DEF MacroStart
    <3> QED  BY <1>1, <1>3, <2>1, <2>3, <3>1 DEF Bracketed
  <2>5. CASE mifMacCur # FILN_IF_NEST
    <3>1. mifMacCur' = mifMacCur + 1 /\ mifMacStk' = [mifMacStk EXCEPT ![mifMacCur + 1] = mifCur]
      BY <1>4, <2>5 DEF MacroStart
    <3>2. PICK n \in Nat : n = mifMacCur /\ n < FILN_IF_NEST
      BY <1>2, <2>5
    <3>3. /\ mifMacStk'[n + 1] = mifCur
          /\ \A i \in 1..n : mifMacStk'[i] = mifMacStk[i]
      BY <1>2, <3>1, <3>2
    <3>4. u.macs = Append(p.macs, mifCur) /\ u.ifs = mifCur /\ Len(p.macs) = n
      BY <2>1, <2>2, <3>2 DEF Follows, Exactly
    <3>5. /\ u.macs # <<>> /\ Len(u.macs) = n + 1 /\ u.macs[n + 1] = mifCur
          /\ \A i \in 1..n : u.macs[i] = p.macs[i]
      <4>1. p.macs \in Seq(Nat) /\ mifCur \in Nat
        BY <1>2, PlaceFields
      <4>2. /\ Append(p.macs, mifCur) # <<>> /\ Len(Append(p.macs, mifCur)) = Len(p.macs) + 1
            /\ \A i \in 1..Len(p.macs) : Append(p.macs, mifCur)[i] = p.macs[i]
            /\ Append(p.macs, mifCur)[Len(p.macs) + 1] = mifCur
        BY <4>1, AppendProperties
      <4> QED  BY <3>4, <4>2
    <3>6. \A i \in 1..(n + 1) : u.macs[i] = mifMacStk'[i]
      <4>1. ASSUME NEW i \in 1..(n + 1)
            PROVE  u.macs[i] = mifMacStk'[i]
        <5>1. CASE i = n + 1
          BY <3>3, <3>5, <5>1
        <5>2. CASE i # n + 1
          <6>1. i \in 1..n
            BY <5>2
          <6> QED  BY <2>2, <3>2, <3>3, <3>5, <6>1 DEF Exactly
        <5> QED  BY <5>1, <5>2
      <4> QED  BY <4>1
    <3>7. Exactly(u)'
      <4>1. Last(u.macs) = mifCur
        BY <3>5 DEF Last
      <4> QED  BY <2>1, <3>1, <3>2, <3>3, <3>4, <3>5, <3>6, <4>1 DEF Exactly
    <3>8. ASSUME NEW i \in 1..(n + 1)
          PROVE  /\ mifMacStk'[i] <= mifCur'
                 /\ \A j \in 1..i : mifMacStk'[j] <= mifMacStk'[i]
      <4>1. \A j \in 1..(n + 1) : mifMacStk'[j] = u.macs[j]
        BY <3>6
      <4>2. /\ u.macs[i] <= u.ifs /\ \A j \in 1..i : u.macs[j] <= u.macs[i]
        BY <3>5, PlaceFields
      <4>3. \A j \in 1..i : j \in 1..(n + 1)
        OBVIOUS
      <4> QED  BY <2>1, <3>4, <4>1, <4>2, <4>3
    <3>9. Bracketed'
      BY <1>1, <1>3, <2>1, <2>3, <3>1, <3>2, <3>8 DEF Bracketed
    <3> QED  BY <2>1, <2>3, <3>7, <3>9, SettledPlace
  <2> QED  BY <2>4, <2>5
<1>5. CASE MacroEnd
  <2>1. /\ Got.k = "E" /\ ~Dead /\ scan = NoScan /\ scan' = NoScan
        /\ mifChkSnc' = 0 /\ UNCHANGED mifMacStk
    BY <1>5 DEF MacroEnd, Live, Gets, Got
  <2>2. Exactly(p)
    BY <2>1, PlaceLive
  <2>3. mifMacCur # 0
    BY <1>2, <2>1, <2>2 DEF Follows, Exactly
  <2>4. LeaveMacro
    BY <1>5, <2>3 DEF MacroEnd
  <2>5. mifMacStk[mifMacCur] = p.ifs /\ Exactly(u)'
    BY <2>1, <2>2, <2>4, MacroEnds DEF Exactly
  <2>6. mifCur' = mifCur /\ mifMacCur' = mifMacCur - 1
    BY <2>2, <2>4, <2>5 DEF LeaveMacro, Exactly
  <2>7. ~Dead'
    BY <1>1, <2>1, <2>6 DEF Dead
  <2>8. PICK n \in Nat : n = mifMacCur' /\ mifMacCur = n + 1
    BY <1>2, <2>3, <2>6
  <2>9. \A i \in 1..n : i \in 1..mifMacCur
    <3>1. \A i \in 1..n : i \in 1..(n + 1)
      OBVIOUS
    <3> QED  BY <2>8, <3>1, Zenon
  <2>10. Bracketed'
    BY <1>1, <1>3, <2>1, <2>6, <2>7, <2>8, <2>9 DEF Bracketed
  <2> QED  BY <2>1, <2>3, <2>5, <2>10, SettledPlace
<1>6. CASE Scan
  <2>1. /\ phase = "read" /\ scan # NoScan /\ UNCHANGED <<mifMacStk, mifChkSnc>>
        /\ Len(p.macs) = mifMacCur + scan /\ mifMacCur <= Len(p.macs)
        /\ \A i \in 1..mifMacCur : p.macs[i] = mifMacStk[i]
    BY <1>6 DEF Scan, At
  <2>2. ~Dead /\ mifChkSnc = 0 /\ mifMacCur > 0 /\ scan \in Nat /\ ~MacroEnd
    BY <1>2, <2>1 DEF StackInvariant, StackDiscipline, MacroEnd, Live, Gets
  <2>3. CASE Got.k = "E" /\ scan = 0
    <3>1. scan' = NoScan /\ LeaveMacro
      BY <1>6, <2>3 DEF Scan
    <3>2. mifMacStk[mifMacCur] = p.ifs /\ Exactly(u)'
      BY <1>2, <2>1, <2>2, <2>3, <3>1, MacroEnds
    <3>3. mifCur' = mifMacStk[mifMacCur] /\ mifMacCur' = mifMacCur - 1
      BY <3>1 DEF LeaveMacro
    <3>4. mifMacCur \in 1..mifMacCur /\ mifCur' \in Nat /\ mifCur' <= mifCur
      BY <1>2, <1>3, <2>2, <3>3
    <3>5. ~Dead'
      <4>1. mifStk[mifCur'] < 2
        <5>1. mifCur' \in 0..FILN_IF_NEST /\ mifStk[mifCur'] \in 0..3
          BY <1>2, <3>4
        <5>2. CASE mifCur' = mifCur
          BY <2>2, <5>1, <5>2 DEF Dead
        <5>3. CASE mifCur' # mifCur
          BY <1>2, <5>1, <5>3
        <5> QED  BY <5>2, <5>3
      <4>2. mifStk[mifCur'] \in 0..3
        BY <1>2, <3>4
      <4> QED  BY <1>1, <4>1, <4>2 DEF Dead
    <3>6. PICK n \in Nat : n = mifMacCur' /\ mifMacCur = n + 1
      BY <1>2, <2>2, <3>3
    <3>7. \A i \in 1..n : i \in 1..mifMacCur
      <4>1. \A i \in 1..n : i \in 1..(n + 1)
        OBVIOUS
      <4> QED  BY <3>6, <4>1, Zenon
    <3>8. \A i \in 1..mifCur' : i \in 1..mifCur
      BY <1>2, <3>4
    <3>9. \A i \in 1..n : mifMacStk[i] <= mifCur'
      BY <1>3, <3>3, <3>4, <3>7
    <3>10. Bracketed'
      BY <1>1, <1>3, <2>1, <3>5, <3>6, <3>7, <3>8, <3>9 DEF Bracketed
    <3> QED  BY <2>2, <3>1, <3>2, <3>10, SettledPlace
  <2>4. CASE ~(Got.k = "E" /\ scan = 0)
    <3>1. /\ scan' = CASE Got.k = "S" -> scan + 1 [] Got.k = "E" -> scan - 1 [] OTHER -> scan
          /\ UNCHANGED <<mifCur, mifMacCur>>
      BY <1>6, <2>4 DEF Scan
    <3>2. Bracketed'
      BY <1>1, <2>1, <3>1 DEF Bracketed, Dead
    <3>3. PICK n \in Nat : n = Len(p.macs)
      BY PlaceFields
    <3>4. CASE Got.k = "S"
      <4>1. u.macs = Append(p.macs, p.ifs)
        BY <3>4 DEF Follows
      <4>2. Len(u.macs) = n + 1 /\ \A i \in 1..n : u.macs[i] = p.macs[i]
        BY <3>3, <4>1, PlaceFields, AppendProperties
      <4>3. \A i \in 1..mifMacCur : i \in 1..n
        BY <1>2, <2>1, <3>3
      <4>4. scan' = scan + 1
        BY <3>1, <3>4
      <4>5. Len(u.macs) = mifMacCur' + scan' /\ mifMacCur' <= Len(u.macs) /\ scan' # NoScan
        <5>1. mifMacCur' = mifMacCur /\ n = mifMacCur + scan
          BY <2>1, <3>1, <3>3
        <5>2. PICK m \in Nat, k \in Nat : m = mifMacCur /\ k = scan
          BY <1>2, <2>2
        <5> QED  BY <4>2, <4>4, <5>1, <5>2 DEF NoScan
      <4> QED  BY <2>1, <2>2, <3>1, <3>2, <4>2, <4>3, <4>5 DEF At
    <3>5. CASE Got.k = "E"
      <4>1. u.macs = Front(p.macs) /\ p.macs # <<>>
        BY <3>5 DEF Follows
      <4>2. Len(u.macs) = n - 1 /\ \A i \in 1..(n - 1) : u.macs[i] = p.macs[i]
        <5>1. /\ Len(Front(p.macs)) = Len(p.macs) - 1
              /\ \A i \in 1..(Len(p.macs) - 1) : Front(p.macs)[i] = p.macs[i]
          BY <4>1, PlaceFields, FrontOfSeq
        <5> QED  BY <3>3, <4>1, <5>1
      <4>3. scan' = scan - 1 /\ scan > 0
        BY <2>2, <2>4, <3>1, <3>5
      <4>4. \A i \in 1..mifMacCur : i \in 1..(n - 1)
        BY <1>2, <2>1, <2>2, <3>3, <4>3
      <4>5. Len(u.macs) = mifMacCur' + scan' /\ mifMacCur' <= Len(u.macs) /\ scan' # NoScan
        <5>1. mifMacCur' = mifMacCur /\ n = mifMacCur + scan
          BY <2>1, <3>1, <3>3
        <5>2. PICK m \in Nat, k \in Nat : m = mifMacCur /\ k = scan
          BY <1>2, <2>2
        <5> QED  BY <4>2, <4>3, <5>1, <5>2 DEF NoScan
      <4> QED  BY <2>1, <2>2, <3>1, <3>2, <4>2, <4>4, <4>5 DEF At
    <3>6. CASE Got.k \notin {"S", "E"}
      <4>1. u.macs = p.macs /\ scan' = scan
        BY <3>1, <3>6 DEF Follows
      <4> QED  BY <2>1, <2>2, <3>1, <3>2, <4>1 DEF At
    <3> QED  BY <3>4, <3>5, <3>6
  <2> QED  BY <2>3, <2>4
<1> QED  BY <1>4, <1>5, <1>6

LEMMA OtherNests ==
  ASSUME StackInvariant, StackInvariant', Bracketed, NEW p \in Places, NEW u \in Places,
         At(p), Follows(Got.k, p, u), ExitMacro \/ Include \/ Report
  PROVE  Bracketed' /\ At(u)'
<1>1. /\ ~Dead /\ scan = NoScan /\ Got.k \in {"exitmacro", "include", "error", "endmacro"}
      /\ mifChkSnc' = 0 /\ UNCHANGED <<mifCur, mifStk, mifMacCur, mifMacStk>>
  BY DEF ExitMacro, Include, Report, Live, Gets, Got
<1>2. Exactly(p)
  BY <1>1, PlaceLive
<1>3. u = p
  BY <1>1, StaysThere
<1>4. Bracketed'
  BY <1>1 DEF Bracketed, Dead
<1>5. Exactly(u)'
  BY <1>1, <1>2, <1>3 DEF Exactly
<1>6. CASE scan' = NoScan
  BY <1>4, <1>5, <1>6, SettledPlace
<1>7. CASE scan' # NoScan
  <2>1. scan' = 0 /\ mifMacCur \in Nat
    BY <1>1, <1>7, NestNat DEF ExitMacro, Include, Report, StackInvariant, StackTypes
  <2>2. Len(u.macs) = mifMacCur' /\ \A i \in 1..mifMacCur' : u.macs[i] = mifMacStk'[i]
    BY <1>5 DEF Exactly
  <2>3. mifMacCur' \in Nat
    BY <1>1, <2>1
  <2>4. Len(u.macs) = mifMacCur' + scan' /\ mifMacCur' <= Len(u.macs)
    <3>1. PICK m \in Nat : m = mifMacCur'
      BY <2>3
    <3>2. m + 0 = m /\ m <= m
      OBVIOUS
    <3> QED  BY <2>1, <2>2, <3>1, <3>2, Zenon
  <2> QED  BY <1>4, <1>7, <2>2, <2>4 DEF At
<1> QED  BY <1>6, <1>7

(* Filn_GetsMif says "PrgErr" only where a macro ends that was not entered. *)
LEMMA GetsSays ==
  ASSUME StackInvariant, GetsMif, "PrgErr" \notin messages, MacroEnd => mifMacCur # 0
  PROVE  "PrgErr" \notin messages'
<1>1. ASSUME NEW ms, Complain(Got, ms), "PrgErr" \notin ms
      PROVE  "PrgErr" \notin messages'
  <2>1. messages' \subseteq messages \cup Complaints(Got) \cup ms \cup {"kept back"}
    BY <1>1 DEF Complain
  <2> QED  BY <1>1, <2>1 DEF Complaints
<1>2. CASE Text \/ SkipIf \/ SkipEndif \/ Skip \/ Scan
  BY <1>2 DEF Text, SkipIf, SkipEndif, Skip, Scan
<1>3. CASE If \/ Elif
  <2>1. CASE If
    <3>1. Complain(Got, {}) \/ Complain(Got, {"ifnest"})
      BY <2>1 DEF If
    <3> QED  BY <1>1, <3>1
  <2>2. CASE Elif
    <3>1. mifStk[mifCur] \in 0..3
      BY DEF StackInvariant, StackTypes
    <3>2. Complain(Got, {}) \/ Complain(Got, {"excessive"}) \/ UNCHANGED messages
      <4>1. CASE mifStk[mifCur] = 0
        BY <2>2, <4>1 DEF Elif
      <4>2. CASE mifStk[mifCur] = 1
        BY <2>2, <4>2 DEF Elif
      <4>3. CASE mifStk[mifCur] = 2
        BY <2>2, <4>3 DEF Elif
      <4>4. CASE mifStk[mifCur] = 3
        BY <2>2, <4>4 DEF Elif
      <4> QED  BY <3>1, <4>1, <4>2, <4>3, <4>4
    <3> QED  BY <1>1, <3>2
  <2> QED  BY <1>3, <2>1, <2>2
<1>4. CASE Else \/ Endif
  BY <1>4 DEF Else, Endif, Say
<1>5. CASE MacroStart \/ MacroEnd
  BY <1>5 DEF MacroStart, MacroEnd, Say
<1>6. CASE ExitMacro \/ Include \/ Report
  BY <1>6 DEF ExitMacro, Include, Report, Say
<1> QED  BY <1>2, <1>3, <1>4, <1>5, <1>6 DEF GetsMif

LEMMA GetsNests ==
  ASSUME TypeInvariant, StackInvariant, StackInvariant', NestInvariant, GetsMif
  PROVE  NestInvariant'
<1> USE DEF Gets, Live, Obeys
<1>1. phase = "read" /\ MM_ptr # <<>> /\ Take
  BY DEF GetsMif, Text, SkipIf, SkipEndif, Skip, If, Elif, Else, Endif,
         MacroStart, MacroEnd, ExitMacro, Scan, Include, Report
<1>2. phase' \in {"read", "exit", "crash"} /\ UNCHANGED <<files, macros>>
  <2>1. UNCHANGED <<files, macros>>
    BY <1>1 DEF Take, expansion
  <2>2. GetsMif => phase' = phase \/ phase' \in {"read", "exit", "crash"}
    BY DEF GetsMif, Text, SkipIf, SkipEndif, Skip, If, Elif, Else, Endif,
           MacroStart, MacroEnd, ExitMacro, Scan, Include, Report
  <2> QED  BY <1>1, <2>1, <2>2
<1> SUFFICES ASSUME ClosedMacros(files)
             PROVE  NestInvariant'
  BY <1>2 DEF NestInvariant
<1>3. TextsNeutral /\ Bracketed /\ "PrgErr" \notin messages
  BY DEF NestInvariant
<1>4. PICK p \in Places, u \in Places : At(p) /\ Follows(Got.k, p, u) /\ LinesLead(u)'
  BY <1>1, LineGot
<1>5. /\ Bracketed' /\ (phase' = "read" => At(u)')
      /\ MacroEnd => mifMacCur # 0
  <2>1. CASE Text \/ SkipIf \/ SkipEndif \/ Skip
    <3>1. ~MacroEnd
      BY <2>1 DEF Text, SkipIf, SkipEndif, Skip, MacroEnd
    <3> QED  BY <1>3, <1>4, <2>1, <3>1, SkipNests
  <2>2. CASE If \/ Elif \/ Else \/ Endif
    <3>1. ~MacroEnd
      BY <2>2 DEF If, Elif, Else, Endif, MacroEnd
    <3> QED  BY <1>3, <1>4, <2>2, <3>1, BranchNests
  <2>3. CASE MacroStart \/ MacroEnd \/ Scan
    BY <1>3, <1>4, <2>3, MacroNests
  <2>4. CASE ExitMacro \/ Include \/ Report
    <3>1. ~MacroEnd
      BY <2>4 DEF ExitMacro, Include, Report, MacroEnd
    <3> QED  BY <1>3, <1>4, <2>4, <3>1, OtherNests
  <2> QED  BY <2>1, <2>2, <2>3, <2>4 DEF GetsMif
<1>6. "PrgErr" \notin messages'
  BY <1>3, <1>5, GetsSays
<1>7. TextsNeutral'
  BY <1>2, <1>3 DEF TextsNeutral
<1> QED  BY <1>2, <1>4, <1>5, <1>6, <1>7 DEF NestInvariant

-----------------------------------------------------------------------------
LEMMA InitNests == Init => NestInvariant
<1> SUFFICES ASSUME Init PROVE NestInvariant
  OBVIOUS
<1>1. /\ mifCur = 0 /\ mifMacCur = 0 /\ mifChkSnc = 0 /\ scan = NoScan /\ phase = "read"
      /\ MM_ptr = <<>> /\ messages = {}
      /\ macros = [n \in Names \cup {Nameless, NoName} |-> NoEntry]
      /\ mifStk = [i \in 0..FILN_IF_NEST |-> 0]
  BY DEF Init
<1>2. TextsNeutral
  <2>1. Mark("text") \in Line /\ Mark("text").k = "text"
    BY MarkType DEF Mark, Kinds
  <2>2. Neutral(<<>>)
    BY <2>1, PlainNeutral
  <2> QED  BY <1>1, <2>2 DEF TextsNeutral, NoEntry
<1>3. Bracketed
  BY <1>1, NestNat DEF Bracketed, Dead
<1> DEFINE p == [ifs |-> 0, macs |-> <<>>]
<1>4. p \in Places /\ p.macs = <<>> /\ p.ifs = 0 /\ Len(p.macs) = 0
  BY EmptySeq DEF Places
<1> HIDE DEF p
<1>5. At(p)
  BY <1>1, <1>4 DEF At
<1>6. LinesLead(p)
  BY <1>1, <1>4, LeadsNowhere DEF LinesLead
<1> QED  BY <1>1, <1>2, <1>3, <1>4, <1>5, <1>6 DEF NestInvariant

LEMMA NestStep ==
  TypeInvariant /\ StackInvariant /\ StackInvariant' /\ NestInvariant /\ [Next]_vars
    => NestInvariant'
<1> SUFFICES ASSUME TypeInvariant, StackInvariant, StackInvariant', NestInvariant, [Next]_vars
             PROVE  NestInvariant'
  OBVIOUS
<1>1. CASE GetLine
  BY <1>1, ReadNests
<1>2. CASE Macc
  BY <1>2, MaccNests
<1>3. CASE GetsMif
  BY <1>3, GetsNests
<1>4. CASE Stop \/ UNCHANGED vars
  <2>1. UNCHANGED vars
    BY <1>4 DEF Stop
  <2> QED  BY <2>1 DEF vars, names, NestInvariant, TextsNeutral, Bracketed, Dead, At, CallsLead,
                       LinesLead
<1> QED  BY <1>1, <1>2, <1>3, <1>4 DEF Next

Invariants == StackInvariant /\ TypeInvariant /\ NestInvariant

LEMMA NestInvariantHolds == Spec => []Invariants
<1>1. Init => Invariants
  BY InitStacks, InitTypes, InitNests DEF Invariants
<1>2. Invariants /\ [Next]_vars => Invariants'
  BY StackStep, TypeStep, NestStep DEF Invariants
<1> QED  BY <1>1, <1>2, PTL DEF Spec

-----------------------------------------------------------------------------
(* FilnMif as nested conditionals.                                          *)

States == {"chosen", "waiting", "over"}

StateOf(i) ==
  IF i > mifCur THEN "over"
  ELSE CASE mifStk[i] = 1 -> "chosen" [] mifStk[i] = 2 -> "waiting" [] OTHER -> "over"

(* What the sequences of Conditional are, for closed macros.                *)
Conditionals ==
  /\ OpenIfs \in Seq(States) /\ Len(OpenIfs) = mifCur + mifChkSnc
  /\ \A i \in 1..(mifCur + mifChkSnc) : OpenIfs[i] = StateOf(i)
  /\ MacroMarks \in Seq(Nat) /\ Len(MacroMarks) = mifMacCur
  /\ \A i \in 1..mifMacCur : MacroMarks[i] = mifMacStk[i]
  /\ LinesKept = out

LEMMA FunctionIsSeq ==
  ASSUME NEW S, NEW n \in Nat, NEW f \in [1..n -> S]
  PROVE  f \in Seq(S) /\ Len(f) = n
<1>1. f \in Seq(S)
  BY SeqDef
<1>2. PICK m \in Nat : m = Len(f) /\ DOMAIN f = 1..m
  BY <1>1, LenProperties
<1>3. 1..m = 1..n
  BY <1>2
<1>4. m = n
  <2>1. m > 0 => m \in 1..n
    BY <1>3
  <2>2. n > 0 => n \in 1..m
    BY <1>3
  <2> QED  BY <2>1, <2>2
<1> QED  BY <1>1, <1>2, <1>4

LEMMA ReadAsConditionals == StackInvariant /\ ClosedMacros(files) => Conditionals
<1> SUFFICES ASSUME StackInvariant, ClosedMacros(files)
             PROVE  Conditionals
  OBVIOUS
<1>1. PICK n \in Nat : n = mifCur + mifChkSnc
  BY NestNat DEF StackInvariant, StackTypes
<1>2. PICK m \in Nat : m = mifMacCur /\ m <= FILN_IF_NEST
  BY NestNat DEF StackInvariant, StackTypes
<1>3. OpenIfs = [i \in 1..n |-> StateOf(i)]
  BY <1>1 DEF OpenIfs, StateOf
<1>4. \A i \in 1..n : StateOf(i) \in States
  BY DEF StateOf, States
<1>5. OpenIfs \in [1..n -> States] /\ \A i \in 1..n : OpenIfs[i] = StateOf(i)
  BY <1>3, <1>4
<1>6. MacroMarks = [i \in 1..m |-> mifMacStk[i]]
  BY <1>2 DEF MacroMarks
<1>7. \A i \in 1..m : mifMacStk[i] \in Nat
  BY <1>2, NestNat DEF StackInvariant, StackTypes
<1>8. MacroMarks \in [1..m -> Nat] /\ \A i \in 1..m : MacroMarks[i] = mifMacStk[i]
  BY <1>6, <1>7
<1>9. /\ OpenIfs \in Seq(States) /\ Len(OpenIfs) = n
      /\ MacroMarks \in Seq(Nat) /\ Len(MacroMarks) = m
  BY <1>5, <1>8, FunctionIsSeq
<1> QED  BY <1>1, <1>2, <1>5, <1>8, <1>9 DEF Conditionals, LinesKept

(* Sequences that grow, are cut and change at their end.                    *)
LEMMA Grown ==
  ASSUME NEW S, NEW s \in Seq(S), NEW e \in S, NEW t \in Seq(S), NEW n \in Nat,
         Len(s) = n, Len(t) = n + 1, \A i \in 1..n : t[i] = s[i], t[n + 1] = e
  PROVE  t = Append(s, e)
<1>1. /\ Append(s, e) \in Seq(S) /\ Len(Append(s, e)) = n + 1
      /\ \A i \in 1..n : Append(s, e)[i] = s[i]
      /\ Append(s, e)[n + 1] = e
  BY AppendProperties
<1>2. ASSUME NEW i \in 1..(n + 1)
      PROVE  t[i] = Append(s, e)[i]
  <2>1. i = n + 1 \/ i \in 1..n
    OBVIOUS
  <2> QED  BY <1>1, <2>1
<1>3. Len(t) = Len(Append(s, e)) /\ \A i \in 1..Len(t) : t[i] = Append(s, e)[i]
  BY <1>1, <1>2
<1> QED  BY <1>1, <1>3, SeqEqual

LEMMA Cut ==
  ASSUME NEW S, NEW s \in Seq(S), NEW t \in Seq(S), NEW n \in 0..Len(s),
         Len(t) = n, \A i \in 1..n : t[i] = s[i]
  PROVE  t = SubSeq(s, 1, n)
<1>1. n \in Nat /\ \A i \in 1..n : s[i] \in S
  <2>1. Len(s) \in Nat
    BY LenProperties
  <2>2. \A i \in 1..n : i \in 1..Len(s)
    BY <2>1
  <2> QED  BY <2>1, <2>2, ElementOfSeq
<1>2. /\ SubSeq(s, 1, n) \in Seq(S)
      /\ Len(SubSeq(s, 1, n)) = IF 1 <= n THEN n - 1 + 1 ELSE 0
      /\ \A i \in 1..(n - 1 + 1) : SubSeq(s, 1, n)[i] = s[1 + i - 1]
  BY <1>1, SubSeqProperties
<1>3. Len(SubSeq(s, 1, n)) = n /\ \A i \in 1..n : SubSeq(s, 1, n)[i] = s[i]
  BY <1>1, <1>2
<1> QED  BY <1>2, <1>3, SeqEqual

LEMMA Changed ==
  ASSUME NEW S, NEW s \in Seq(S), NEW e \in S, NEW t \in Seq(S), NEW n \in 1..Len(s),
         Len(t) = Len(s), \A i \in 1..Len(s) : t[i] = IF i = n THEN e ELSE s[i]
  PROVE  t = [s EXCEPT ![n] = e]
<1>1. /\ [s EXCEPT ![n] = e] \in Seq(S) /\ Len([s EXCEPT ![n] = e]) = Len(s)
      /\ \A j \in 1..Len(s) : [s EXCEPT ![n] = e][j] = IF j = n THEN e ELSE s[j]
  BY ExceptSeq
<1>2. \A i \in 1..Len(t) : t[i] = [s EXCEPT ![n] = e][i]
  BY <1>1
<1> QED  BY <1>1, <1>2, SeqEqual

(* Only the innermost entry stops lines, so it says whether any does.       *)
LEMMA LiveUnlessDead ==
  ASSUME StackInvariant, Bracketed, Conditionals
  PROVE  /\ C!Top = mifCur + mifChkSnc
         /\ C!Live <=> ~Dead
         /\ ~Dead => mifChkSnc = 0
<1>1. /\ mifCur \in 0..FILN_IF_NEST /\ mifChkSnc \in Nat /\ FILN_IF_NEST \in Nat
      /\ mifStk \in [0..FILN_IF_NEST -> 0..3] /\ mifStk[0] = 0
      /\ \A i \in 0..FILN_IF_NEST : i # mifCur => mifStk[i] <= 1
      /\ mifChkSnc > 0 => Dead
  BY NestNat DEF StackInvariant, StackTypes, StackDiscipline
<1>2. PICK c \in Nat, n \in Nat : c = mifCur /\ n = mifCur + mifChkSnc
  BY <1>1
<1>3. C!Top = n /\ (C!Live <=> \A i \in 1..n : StateOf(i) = "chosen")
  BY <1>2 DEF C!Top, C!Live, Conditionals
<1>4. ~Dead => mifChkSnc = 0
  BY <1>1
<1>5. ASSUME ~Dead, NEW i \in 1..n
      PROVE  StateOf(i) = "chosen"
  <2>1. i \in 1..c /\ i \in 0..FILN_IF_NEST
    BY <1>1, <1>2, <1>4, <1>5
  <2>2. mifStk[i] \in 0..3 /\ mifStk[i] # 0
    BY <1>1, <1>2, <2>1 DEF Bracketed
  <2>3. mifStk[i] <= 1
    <3>1. CASE i = mifCur
      BY <1>5, <2>2, <3>1 DEF Dead
    <3>2. CASE i # mifCur
      BY <1>1, <2>1, <3>2
    <3> QED  BY <3>1, <3>2
  <2>4. mifStk[i] = 1
    BY <2>2, <2>3
  <2> QED  BY <1>2, <2>1, <2>4 DEF StateOf
<1>6. ASSUME Dead
      PROVE  \E i \in 1..n : StateOf(i) # "chosen"
  <2>1. mifCur # 0 /\ mifStk[mifCur] \in {2, 3}
    BY <1>1, <1>6 DEF Dead
  <2>2. c \in 1..n
    BY <1>1, <1>2, <2>1
  <2>3. StateOf(c) # "chosen"
    BY <1>2, <2>1 DEF StateOf
  <2> QED  BY <2>2, <2>3
<1> QED  BY <1>2, <1>3, <1>4, <1>5, <1>6

(* What changes nothing of the stacks and keeps no line.                    *)
LEMMA NothingChanged ==
  ASSUME UNCHANGED <<files, out, mifCur, mifStk, mifMacCur, mifMacStk, mifChkSnc>>
  PROVE  UNCHANGED C!vars
BY DEF C!vars, OpenIfs, MacroMarks, LinesKept

(* The hypotheses of a step.                                                *)
Readable == StackInvariant /\ Bracketed /\ Conditionals

LEMMA TextRefines ==
  ASSUME Readable, Readable', TypeInvariant, ClosedMacros(files), Text
  PROVE  [C!Next]_(C!vars)
<1>1. /\ UNCHANGED <<files, mifCur, mifStk, mifMacCur, mifMacStk, mifChkSnc>>
      /\ Got \in Line /\ out \in Seq(Line)
      /\ out' = IF MM_mifChk THEN out ELSE Append(out, Got)
  <2>1. MM_ptr \in Seq(Line) /\ out \in Seq(Line) /\ MM_ptr # <<>>
    BY TypeParts DEF TextTypes, Text, Gets
  <2>2. Got \in Line
    BY <2>1, HeadTailProperties DEF Got
  <2> QED  BY <2>1, <2>2 DEF Text, Take, stacks
<1>2. CASE MM_mifChk
  BY <1>1, <1>2, NothingChanged
<1>3. CASE ~MM_mifChk
  <2>1. C!Live
    BY <1>3, LiveUnlessDead DEF Readable, MM_mifChk
  <2>2. LinesKept = out /\ LinesKept' = Append(out, Got)
    BY <1>1, <1>3 DEF Readable, Conditionals
  <2>3. PICK n \in Nat : n = Len(out)
    BY <1>1, LenProperties
  <2>4. /\ Len(Append(out, Got)) = n + 1 /\ Append(out, Got)[n + 1] = Got
        /\ \A i \in 1..n : Append(out, Got)[i] = out[i]
        /\ Append(out, Got) \in Seq(Line)
    BY <1>1, <2>3, AppendProperties
  <2>5. SubSeq(Append(out, Got), 1, n) = out
    <3> DEFINE a == Append(out, Got)
    <3>1. n \in 0..Len(a) /\ \A i \in 1..n : out[i] = a[i]
      BY <2>4
    <3> HIDE DEF a
    <3>2. a \in Seq(Line)
      BY <2>4 DEF a
    <3>3. out = SubSeq(a, 1, n)
      BY <1>1, <2>3, <3>1, <3>2, Cut
    <3> QED  BY <3>3 DEF a
  <2>6. UNCHANGED <<OpenIfs, MacroMarks>>
    BY <1>1 DEF OpenIfs, MacroMarks
  <2>7. C!Keep
    BY <1>1, <2>1, <2>2, <2>3, <2>4, <2>5, <2>6 DEF C!Keep
  <2> QED  BY <2>7 DEF C!Next
<1> QED  BY <1>2, <1>3

(* An #if, obeyed or counted only.                                          *)
LEMMA IfRefines ==
  ASSUME Readable, Readable', SkipIf \/ If
  PROVE  [C!Next]_(C!vars)
<1>1. /\ UNCHANGED <<files, out, mifMacCur, mifMacStk>>
      /\ mifCur \in Nat /\ mifCur <= FILN_IF_NEST /\ mifChkSnc \in Nat /\ FILN_IF_NEST \in Nat
      /\ mifStk \in [0..FILN_IF_NEST -> 0..3]
  BY NestNat DEF SkipIf, If, Take, Readable, StackInvariant, StackTypes
<1>2. UNCHANGED <<MacroMarks, LinesKept>>
  BY <1>1 DEF MacroMarks, LinesKept
<1>3. PICK c \in Nat, n \in Nat : c = mifCur /\ n = mifCur + mifChkSnc
  BY <1>1
<1>4. /\ OpenIfs \in Seq(States) /\ Len(OpenIfs) = n
      /\ \A i \in 1..n : OpenIfs[i] = StateOf(i)
  BY <1>3 DEF Readable, Conditionals
<1>5. CASE SkipIf
  <2>1. Dead /\ mifChkSnc' = mifChkSnc + 1 /\ UNCHANGED <<mifCur, mifStk>>
    BY <1>5 DEF SkipIf
  <2>2. mifCur' + mifChkSnc' = n + 1
    BY <1>1, <1>3, <2>1
  <2>3. /\ OpenIfs' \in Seq(States) /\ Len(OpenIfs') = n + 1
        /\ \A i \in 1..(n + 1) : OpenIfs'[i] = StateOf(i)'
    BY <2>2 DEF Readable, Conditionals
  <2>4. \A i \in 1..n : StateOf(i)' = StateOf(i)
    BY <2>1 DEF StateOf
  <2>5. StateOf(n + 1)' = "over"
    BY <1>1, <1>3, <2>1 DEF StateOf
  <2>6. "over" \in States
    BY DEF States
  <2>7. /\ OpenIfs'[n + 1] = "over"
        /\ \A i \in 1..n : OpenIfs'[i] = OpenIfs[i]
    <3>1. n + 1 \in 1..(n + 1) /\ \A i \in 1..n : i \in 1..(n + 1)
      OBVIOUS
    <3> QED  BY <1>4, <2>3, <2>4, <2>5, <3>1
  <2>8. OpenIfs' = Append(OpenIfs, "over")
    BY <1>4, <2>3, <2>6, <2>7, Grown
  <2>9. ~C!Live
    BY <2>1, LiveUnlessDead DEF Readable
  <2>10. C!If(TRUE)
    BY <1>2, <2>8, <2>9 DEF C!If
  <2> QED  BY <2>10 DEF C!Next
<1>6. CASE If
  <2>1. ~Dead /\ mifChkSnc' = 0
    BY <1>6 DEF If, Live
  <2>2. C!Live /\ mifChkSnc = 0
    BY <2>1, LiveUnlessDead DEF Readable
  <2>3. c = n
    BY <1>3, <2>2
  <2>4. CASE mifCur >= FILN_IF_NEST
    <3>1. UNCHANGED <<mifCur, mifStk>>
      BY <1>6, <2>4 DEF If
    <3> QED  BY <1>1, <2>1, <2>2, <3>1, NothingChanged
  <2>5. CASE ~(mifCur >= FILN_IF_NEST)
    <3>1. mifCur' = n + 1 /\ mifCur = n
      BY <1>3, <1>6, <2>3, <2>5 DEF If
    <3>2. PICK b \in BOOLEAN : mifStk' = [mifStk EXCEPT ![n + 1] = IF b THEN 1 ELSE 2]
      <4>1. mifStk' = [mifStk EXCEPT ![mifCur + 1] = IF Truth(Got) THEN 1 ELSE 2]
        BY <1>6, <2>5 DEF If
      <4>2. CASE Truth(Got)
        <5>1. mifStk' = [mifStk EXCEPT ![n + 1] = IF TRUE THEN 1 ELSE 2]
          BY <3>1, <4>1, <4>2
        <5> QED  BY <5>1
      <4>3. CASE ~Truth(Got)
        <5>1. mifStk' = [mifStk EXCEPT ![n + 1] = IF FALSE THEN 1 ELSE 2]
          BY <3>1, <4>1, <4>3
        <5> QED  BY <5>1
      <4> QED  BY <4>2, <4>3
    <3>3. mifCur' + mifChkSnc' = n + 1
      BY <2>1, <3>1
    <3>4. /\ OpenIfs' \in Seq(States) /\ Len(OpenIfs') = n + 1
          /\ \A i \in 1..(n + 1) : OpenIfs'[i] = StateOf(i)'
      BY <3>3 DEF Readable, Conditionals
    <3>5. n + 1 \in 0..FILN_IF_NEST
      BY <1>1, <2>5, <3>1
    <3>6. \A i \in 1..n : StateOf(i)' = StateOf(i)
      <4>1. ASSUME NEW i \in 1..n
            PROVE  StateOf(i)' = StateOf(i)
        <5>1. mifStk'[i] = mifStk[i] /\ ~(i > mifCur) /\ ~(i > mifCur')
          BY <1>1, <3>1, <3>2, <3>5
        <5> QED  BY <5>1 DEF StateOf
      <4> QED  BY <4>1
    <3> DEFINE e == IF b THEN "chosen" ELSE "waiting"
    <3>7. StateOf(n + 1)' = e
      <4>1. mifStk'[n + 1] = (IF b THEN 1 ELSE 2) /\ ~(n + 1 > mifCur')
        BY <1>1, <3>1, <3>2, <3>5
      <4> QED  BY <4>1 DEF StateOf
    <3>8. e \in States
      BY DEF States
    <3> HIDE DEF e
    <3>9. /\ OpenIfs'[n + 1] = e
          /\ \A i \in 1..n : OpenIfs'[i] = OpenIfs[i]
      <4>1. n + 1 \in 1..(n + 1) /\ \A i \in 1..n : i \in 1..(n + 1)
        OBVIOUS
      <4> QED  BY <1>4, <3>4, <3>6, <3>7, <4>1
    <3>10. OpenIfs' = Append(OpenIfs, e)
      BY <1>4, <3>4, <3>8, <3>9, Grown
    <3>11. C!If(b)
      BY <1>2, <2>2, <3>10 DEF C!If, e
    <3> QED  BY <3>11 DEF C!Next
  <2> QED  BY <2>4, <2>5
<1> QED  BY <1>5, <1>6

(* The conditionals are cut back to the first m.                            *)
LEMMA CutBack ==
  ASSUME Readable, Readable', NEW m \in Nat, m <= mifCur + mifChkSnc,
         mifCur' + mifChkSnc' = m, \A i \in 1..m : StateOf(i)' = StateOf(i)
  PROVE  OpenIfs' = SubSeq(OpenIfs, 1, m)
<1>1. PICK n \in Nat : n = mifCur + mifChkSnc
  BY NestNat DEF Readable, StackInvariant, StackTypes
<1>2. /\ OpenIfs \in Seq(States) /\ Len(OpenIfs) = n
      /\ \A i \in 1..n : OpenIfs[i] = StateOf(i)
  BY <1>1 DEF Readable, Conditionals
<1>3. /\ OpenIfs' \in Seq(States) /\ Len(OpenIfs') = m
      /\ \A i \in 1..m : OpenIfs'[i] = StateOf(i)'
  BY DEF Readable, Conditionals
<1>4. m \in 0..Len(OpenIfs) /\ \A i \in 1..m : i \in 1..n
  BY <1>1, <1>2
<1>5. \A i \in 1..m : OpenIfs'[i] = OpenIfs[i]
  BY <1>2, <1>3, <1>4
<1> QED  BY <1>2, <1>3, <1>4, <1>5, Cut

Shown(s) == CASE s = 1 -> "chosen" [] s = 2 -> "waiting" [] OTHER -> "over"

(* The innermost conditional gets a new state.                              *)
LEMMA BranchShown ==
  ASSUME Readable, Readable', mifChkSnc = 0, mifChkSnc' = 0, mifCur # 0, NEW s \in 0..3,
         Branch(s), UNCHANGED mifCur
  PROVE  /\ C!Top > 0 /\ OpenIfs[C!Top] = Shown(mifStk[mifCur])
         /\ OpenIfs' = [OpenIfs EXCEPT ![C!Top] = Shown(s)]
<1>1. PICK n \in Nat : n = mifCur /\ n = mifCur + mifChkSnc /\ n \in 1..n
  BY NestNat DEF Readable, StackInvariant, StackTypes
<1>2. /\ OpenIfs \in Seq(States) /\ Len(OpenIfs) = n
      /\ \A i \in 1..n : OpenIfs[i] = StateOf(i)
  BY <1>1 DEF Readable, Conditionals
<1>3. n = mifCur' + mifChkSnc'
  BY <1>1
<1>4. /\ OpenIfs' \in Seq(States) /\ Len(OpenIfs') = n
      /\ \A i \in 1..n : OpenIfs'[i] = StateOf(i)'
  BY <1>3 DEF Readable, Conditionals
<1>5. /\ mifStk \in [0..FILN_IF_NEST -> 0..3] /\ mifStk' = [mifStk EXCEPT ![n] = s]
      /\ n <= FILN_IF_NEST /\ FILN_IF_NEST \in Nat
  BY <1>1, NestNat DEF Readable, StackInvariant, StackTypes, Branch
<1>6. StateOf(n) = Shown(mifStk[n]) /\ StateOf(n)' = Shown(s)
  BY <1>1, <1>5 DEF StateOf, Shown
<1>7. \A i \in 1..n : i # n => StateOf(i)' = StateOf(i)
  <2>1. ASSUME NEW i \in 1..n, i # n
        PROVE  mifStk'[i] = mifStk[i] /\ ~(i > mifCur)
    BY <1>1, <1>5, <2>1
  <2> QED  BY <2>1 DEF StateOf
<1>8. Shown(s) \in States
  BY DEF Shown, States
<1> DEFINE e == Shown(s)
<1>9. \A i \in 1..Len(OpenIfs) : OpenIfs'[i] = IF i = n THEN e ELSE OpenIfs[i]
  BY <1>2, <1>4, <1>6, <1>7
<1>10. e \in States /\ n \in 1..Len(OpenIfs) /\ Len(OpenIfs') = Len(OpenIfs)
  BY <1>1, <1>2, <1>4, <1>8
<1> HIDE DEF e
<1>11. OpenIfs' = [OpenIfs EXCEPT ![n] = e]
  BY <1>2, <1>4, <1>9, <1>10, Changed
<1>12. C!Top = n /\ n > 0
  BY <1>1, <1>2 DEF C!Top
<1> QED  BY <1>1, <1>2, <1>6, <1>11, <1>12 DEF e

LEMMA BranchRefines ==
  ASSUME Readable, Readable', Elif \/ Else
  PROVE  [C!Next]_(C!vars)
<1>1. /\ UNCHANGED <<files, out, mifCur, mifMacCur, mifMacStk>> /\ mifChkSnc' = 0
      /\ ~Dead \/ mifChkSnc = 0
  BY DEF Elif, Else, Obeys, Live, Take
<1>2. mifChkSnc = 0
  BY <1>1, LiveUnlessDead DEF Readable
<1>3. UNCHANGED <<MacroMarks, LinesKept>>
  BY <1>1 DEF MacroMarks, LinesKept
<1>4. mifCur \in Nat /\ mifStk \in [0..FILN_IF_NEST -> 0..3] /\ mifStk[mifCur] \in 0..3
  BY NestNat DEF Readable, StackInvariant, StackTypes
<1>5. CASE UNCHANGED mifStk
  BY <1>1, <1>2, <1>5, NothingChanged
<1>6. ASSUME NEW s \in 1..3, Branch(s), mifCur # 0, (mifStk[mifCur] = 2) <=> (s # 3)
      PROVE  C!Next
  <2>1. s \in 0..3
    OBVIOUS
  <2>2. /\ C!Top > 0 /\ OpenIfs[C!Top] = Shown(mifStk[mifCur])
        /\ OpenIfs' = [OpenIfs EXCEPT ![C!Top] = Shown(s)]
    BY <1>1, <1>2, <1>6, <2>1, BranchShown
  <2>3. (OpenIfs[C!Top] = "waiting") <=> (mifStk[mifCur] = 2)
    BY <1>4, <2>2 DEF Shown
  <2>4. Shown(s) = IF s # 3 THEN (IF s = 1 THEN "chosen" ELSE "waiting") ELSE "over"
    BY DEF Shown
  <2>5. C!Elif(s = 1)
    BY <1>3, <1>6, <2>2, <2>3, <2>4 DEF C!Elif, C!Branch
  <2> QED  BY <2>5 DEF C!Next
<1>7. mifCur = 0 => mifStk[mifCur] = 0
  BY DEF Readable, StackInvariant, StackDiscipline
<1>8. mifCur # 0 => mifStk[mifCur] # 0
  <2>1. mifCur # 0 => mifCur \in 1..mifCur
    BY <1>4
  <2> QED  BY <2>1 DEF Readable, Bracketed
<1>9. CASE Elif
  <2>1. mifStk[mifCur] = 0 => UNCHANGED mifStk
    BY <1>9 DEF Elif
  <2>2. mifStk[mifCur] = 3 => UNCHANGED mifStk
    BY <1>9 DEF Elif
  <2>3. CASE mifStk[mifCur] = 1
    <3>1. Branch(3) /\ mifCur # 0 /\ 3 \in 1..3
      BY <1>7, <1>9, <2>3 DEF Elif
    <3> QED  BY <1>6, <2>3, <3>1
  <2>4. CASE mifStk[mifCur] = 2
    <3>1. Branch(IF Truth(Got) THEN 1 ELSE 2) /\ mifCur # 0
      BY <1>7, <1>9, <2>4 DEF Elif
    <3>2. PICK s \in 1..3 : Branch(s) /\ s # 3
      <4>1. 1 \in 1..3 /\ 2 \in 1..3 /\ (Branch(1) \/ Branch(2))
        BY <3>1
      <4> QED  BY <4>1
    <3> QED  BY <1>6, <2>4, <3>1, <3>2
  <2> QED  BY <1>4, <1>5, <2>1, <2>2, <2>3, <2>4
<1>10. CASE Else
  <2>1. mifStk[mifCur] = 0 => UNCHANGED mifStk
    BY <1>10 DEF Else
  <2>2. CASE mifStk[mifCur] = 2
    <3>1. Branch(1) /\ mifCur # 0 /\ 1 \in 1..3 /\ 1 # 3
      BY <1>7, <1>10, <2>2 DEF Else
    <3> QED  BY <1>6, <2>2, <3>1
  <2>3. CASE mifStk[mifCur] \in {1, 3}
    <3>1. Branch(3) /\ mifCur # 0 /\ 3 \in 1..3
      BY <1>7, <1>10, <2>3 DEF Else
    <3> QED  BY <1>6, <2>3, <3>1
  <2> QED  BY <1>4, <1>5, <2>1, <2>2, <2>3
<1> QED  BY <1>9, <1>10

(* An #endif, obeyed or that of a skipped #if.                              *)
LEMMA EndifRefines ==
  ASSUME Readable, Readable', SkipEndif \/ Endif
  PROVE  [C!Next]_(C!vars)
<1>1. /\ UNCHANGED <<files, out, mifMacCur, mifMacStk>>
      /\ mifCur \in Nat /\ mifCur <= FILN_IF_NEST /\ mifChkSnc \in Nat /\ FILN_IF_NEST \in Nat
      /\ mifStk \in [0..FILN_IF_NEST -> 0..3] /\ mifStk[0] = 0
  BY NestNat DEF SkipEndif, Endif, Take, Readable, StackInvariant, StackTypes, StackDiscipline
<1>2. UNCHANGED <<MacroMarks, LinesKept>>
  BY <1>1 DEF MacroMarks, LinesKept
<1>3. C!Top = mifCur + mifChkSnc
  BY LiveUnlessDead DEF Readable
<1>4. ASSUME NEW m \in Nat, mifCur + mifChkSnc = m + 1, mifCur' + mifChkSnc' = m,
             \A i \in 1..m : StateOf(i)' = StateOf(i)
      PROVE  C!Next
  <2>1. OpenIfs' = SubSeq(OpenIfs, 1, m)
    BY <1>4, CutBack
  <2>2. C!Top > 0 /\ C!Top - 1 = m
    BY <1>3, <1>4
  <2>3. C!Endif
    BY <1>2, <2>1, <2>2 DEF C!Endif
  <2> QED  BY <2>3 DEF C!Next
<1>5. CASE SkipEndif
  <2>1. mifChkSnc > 0 /\ mifChkSnc' = mifChkSnc - 1 /\ UNCHANGED <<mifCur, mifStk>>
    BY <1>5 DEF SkipEndif
  <2>2. PICK m \in Nat : mifCur + mifChkSnc = m + 1 /\ mifCur' + mifChkSnc' = m
    <3>1. mifCur + mifChkSnc - 1 \in Nat
      BY <1>1, <2>1
    <3> QED  BY <1>1, <2>1, <3>1
  <2>3. \A i \in 1..m : StateOf(i)' = StateOf(i)
    BY <2>1 DEF StateOf
  <2> QED  BY <1>4, <2>2, <2>3
<1>6. CASE Endif
  <2>1. mifChkSnc' = 0 /\ mifStk' = [mifStk EXCEPT ![mifCur] = 0] /\ (~Dead \/ mifChkSnc = 0)
    BY <1>6 DEF Endif, Obeys, Live, Branch
  <2>2. mifChkSnc = 0
    BY <2>1, LiveUnlessDead DEF Readable
  <2>3. CASE mifCur = 0
    <3>1. UNCHANGED mifCur
      BY <1>6, <2>3 DEF Endif
    <3>2. mifStk' = mifStk
      BY <1>1, <2>1, <2>3
    <3> QED  BY <1>1, <2>1, <2>2, <3>1, <3>2, NothingChanged
  <2>4. CASE mifCur # 0
    <3>1. PICK m \in Nat : mifCur = m + 1
      <4>1. mifCur - 1 \in Nat /\ mifCur = (mifCur - 1) + 1
        BY <1>1, <2>4
      <4> QED  BY <4>1
    <3>2. mifCur' = m
      BY <1>6, <2>4, <3>1 DEF Endif
    <3>3. \A i \in 1..m : StateOf(i)' = StateOf(i)
      <4>1. ASSUME NEW i \in 1..m
            PROVE  mifStk'[i] = mifStk[i] /\ ~(i > mifCur) /\ ~(i > mifCur')
        BY <1>1, <2>1, <3>1, <3>2
      <4> QED  BY <4>1 DEF StateOf
    <3>4. mifCur + mifChkSnc = m + 1 /\ mifCur' + mifChkSnc' = m
      BY <2>1, <2>2, <3>1, <3>2
    <3> QED  BY <1>4, <3>3, <3>4
  <2> QED  BY <2>3, <2>4
<1> QED  BY <1>5, <1>6

(* The start of a macro, and its end, at its mark or after #exitmacro.      *)
LEMMA LeaveRefines ==
  ASSUME Readable, Readable', ~Dead, mifMacCur # 0, LeaveMacro, mifChkSnc' = 0,
         UNCHANGED <<files, out, mifStk, mifMacStk>>
  PROVE  C!Next
<1>1. /\ mifCur \in Nat /\ mifMacCur \in Nat
      /\ mifStk \in [0..FILN_IF_NEST -> 0..3]
      /\ \A i \in 1..mifMacCur : mifMacStk[i] \in Nat
  BY NestNat DEF Readable, StackInvariant, StackTypes
<1>2. PICK k \in Nat : mifMacCur = k + 1
  <2>1. mifMacCur - 1 \in Nat /\ mifMacCur = (mifMacCur - 1) + 1
    BY <1>1
  <2> QED  BY <2>1
<1>3. mifCur' = mifMacStk[k + 1] /\ mifMacCur' = k
  BY <1>2 DEF LeaveMacro
<1>4. C!Live /\ C!Top = mifCur /\ mifChkSnc = 0
  BY <1>1, LiveUnlessDead DEF Readable
<1>5. PICK m \in Nat : m = mifMacStk[k + 1] /\ m <= mifCur
  <2>1. k + 1 \in 1..mifMacCur
    BY <1>2
  <2> QED  BY <1>1, <2>1 DEF Readable, Bracketed
<1>6. OpenIfs' = SubSeq(OpenIfs, 1, m)
  <2>1. m <= mifCur + mifChkSnc /\ mifCur' + mifChkSnc' = m
    BY <1>1, <1>3, <1>4, <1>5
  <2>2. ASSUME NEW i \in 1..m
        PROVE  ~(i > mifCur) /\ ~(i > mifCur')
    BY <1>1, <1>3, <1>5
  <2>3. \A i \in 1..m : StateOf(i)' = StateOf(i)
    BY <2>2 DEF StateOf
  <2> QED  BY <2>1, <2>3, CutBack
<1>7. /\ MacroMarks \in Seq(Nat) /\ Len(MacroMarks) = k + 1
      /\ \A i \in 1..(k + 1) : MacroMarks[i] = mifMacStk[i]
  BY <1>2 DEF Readable, Conditionals
<1>8. /\ MacroMarks' \in Seq(Nat) /\ Len(MacroMarks') = k
      /\ \A i \in 1..k : MacroMarks'[i] = mifMacStk[i]
  BY <1>3 DEF Readable, Conditionals
<1>9. MacroMarks' = SubSeq(MacroMarks, 1, k)
  <2>1. k \in 0..Len(MacroMarks) /\ \A i \in 1..k : i \in 1..(k + 1)
    BY <1>7
  <2>2. \A i \in 1..k : MacroMarks'[i] = MacroMarks[i]
    BY <1>7, <1>8, <2>1
  <2> QED  BY <1>7, <1>8, <2>1, <2>2, Cut
<1>10. MacroMarks # <<>> /\ MacroMarks[Len(MacroMarks)] = m /\ Len(MacroMarks) - 1 = k
  <2>1. k + 1 \in 1..(k + 1) /\ (k + 1) - 1 = k
    OBVIOUS
  <2>2. MacroMarks # <<>>
    BY <1>7, EmptySeq
  <2> QED  BY <1>5, <1>7, <2>1, <2>2
<1>11. UNCHANGED LinesKept
  BY DEF LinesKept
<1>12. C!LeaveMacro
  BY <1>4, <1>6, <1>9, <1>10, <1>11 DEF C!LeaveMacro
<1> QED  BY <1>12 DEF C!Next

LEMMA MacroRefines ==
  ASSUME Readable, Readable', MacroStart \/ MacroEnd \/ Scan, MacroEnd => mifMacCur # 0
  PROVE  [C!Next]_(C!vars)
<1>1. /\ UNCHANGED <<files, out, mifStk>>
      /\ mifMacCur \in Nat /\ mifMacCur <= FILN_IF_NEST /\ FILN_IF_NEST \in Nat
      /\ mifMacStk \in [1..FILN_IF_NEST -> 0..FILN_IF_NEST] /\ mifCur \in Nat
  BY NestNat DEF MacroStart, MacroEnd, Scan, Take, Readable, StackInvariant, StackTypes
<1>2. CASE MacroStart
  <2>1. ~Dead /\ mifChkSnc' = 0 /\ UNCHANGED mifCur
    BY <1>2 DEF MacroStart, Live
  <2>2. C!Live /\ C!Top = mifCur /\ mifChkSnc = 0
    BY <1>1, <2>1, LiveUnlessDead DEF Readable
  <2>3. CASE mifMacCur = FILN_IF_NEST
    <3>1. UNCHANGED <<mifMacCur, mifMacStk>>
      BY <1>2, <2>3 DEF MacroStart
    <3> QED  BY <1>1, <2>1, <2>2, <3>1, NothingChanged
  <2>4. CASE mifMacCur # FILN_IF_NEST
    <3>1. PICK k \in Nat : k = mifMacCur /\ k < FILN_IF_NEST
      BY <1>1, <2>4
    <3>2. mifMacCur' = k + 1 /\ mifMacStk' = [mifMacStk EXCEPT ![k + 1] = mifCur]
      BY <1>2, <2>4, <3>1 DEF MacroStart
    <3>3. mifMacStk'[k + 1] = mifCur /\ \A i \in 1..k : mifMacStk'[i] = mifMacStk[i]
      BY <1>1, <3>1, <3>2
    <3>4. /\ MacroMarks \in Seq(Nat) /\ Len(MacroMarks) = k
          /\ \A i \in 1..k : MacroMarks[i] = mifMacStk[i]
      BY <3>1 DEF Readable, Conditionals
    <3>5. /\ MacroMarks' \in Seq(Nat) /\ Len(MacroMarks') = k + 1
          /\ \A i \in 1..(k + 1) : MacroMarks'[i] = mifMacStk'[i]
      BY <3>2 DEF Readable, Conditionals
    <3>6. /\ \A i \in 1..k : MacroMarks'[i] = MacroMarks[i]
          /\ MacroMarks'[k + 1] = mifCur
      <4>1. k + 1 \in 1..(k + 1) /\ \A i \in 1..k : i \in 1..(k + 1)
        OBVIOUS
      <4> QED  BY <3>3, <3>4, <3>5, <4>1
    <3>7. MacroMarks' = Append(MacroMarks, mifCur)
      BY <1>1, <3>4, <3>5, <3>6, Grown
    <3>8. UNCHANGED <<OpenIfs, LinesKept>>
      BY <1>1, <2>1, <2>2 DEF OpenIfs, LinesKept
    <3>9. C!EnterMacro
      BY <2>2, <3>7, <3>8 DEF C!EnterMacro
    <3> QED  BY <3>9 DEF C!Next
  <2> QED  BY <2>3, <2>4
<1>3. CASE MacroEnd
  <2>1. ~Dead /\ mifChkSnc' = 0 /\ mifMacCur # 0 /\ UNCHANGED mifMacStk
    BY <1>3 DEF MacroEnd, Live
  <2>2. LeaveMacro
    BY <1>3, <2>1 DEF MacroEnd
  <2> QED  BY <1>1, <2>1, <2>2, LeaveRefines
<1>4. CASE Scan
  <2>1. scan # NoScan /\ UNCHANGED <<mifMacStk, mifChkSnc>>
    BY <1>4 DEF Scan
  <2>2. ~Dead /\ mifMacCur # 0
    BY <1>1, <2>1 DEF Readable, StackInvariant, StackDiscipline
  <2>3. CASE Got.k = "E" /\ scan = 0
    <3>1. LeaveMacro
      BY <1>4, <2>3 DEF Scan
    <3>2. mifChkSnc' = 0
      BY <2>1, <2>2, LiveUnlessDead DEF Readable
    <3> QED  BY <1>1, <2>1, <2>2, <3>1, <3>2, LeaveRefines
  <2>4. CASE ~(Got.k = "E" /\ scan = 0)
    <3>1. UNCHANGED <<mifCur, mifMacCur>>
      BY <1>4, <2>4 DEF Scan
    <3> QED  BY <1>1, <2>1, <3>1, NothingChanged
  <2> QED  BY <2>3, <2>4
<1> QED  BY <1>2, <1>3, <1>4

(* The other lines change nothing.                                          *)
LEMMA OtherRefines ==
  ASSUME Readable, Skip \/ ExitMacro \/ Include \/ Report
  PROVE  UNCHANGED C!vars
<1>1. UNCHANGED <<files, out, mifCur, mifStk, mifMacCur, mifMacStk>>
  BY DEF Skip, ExitMacro, Include, Report, Take, stacks
<1>2. CASE Skip
  <2>1. UNCHANGED mifChkSnc
    BY <1>2 DEF Skip, stacks
  <2> QED  BY <1>1, <2>1, NothingChanged
<1>3. CASE ExitMacro \/ Include \/ Report
  <2>1. ~Dead /\ mifChkSnc' = 0
    BY <1>3 DEF ExitMacro, Include, Report, Live
  <2>2. UNCHANGED mifChkSnc
    BY <2>1, LiveUnlessDead DEF Readable
  <2> QED  BY <1>1, <2>2, NothingChanged
<1> QED  BY <1>2, <1>3

(* Nothing changes the files; the lines are kept by Filn_GetsMif alone.     *)
LEMMA FilesStay == [Next]_vars => UNCHANGED files
<1>1. GetLine => UNCHANGED files
  BY DEF GetLine, ReadRaw, ReadExpand, ReadMacro, EndFile
<1>2. Macc => UNCHANGED files
  BY DEF Macc, MaccText, MaccExpand, MaccAsk, MaccAnswer, MaccReturn, MaccDefine, MaccUndef,
         MaccCopy
<1>3. GetsMif => UNCHANGED files
  BY DEF GetsMif, Text, SkipIf, SkipEndif, Skip, If, Elif, Else, Endif,
         MacroStart, MacroEnd, ExitMacro, Scan, Include, Report, Take
<1>4. Stop \/ UNCHANGED vars => UNCHANGED files
  BY DEF Stop, vars
<1> QED  BY <1>1, <1>2, <1>3, <1>4 DEF Next

LEMMA LinesRefine ==
  ASSUME GetLine \/ Macc \/ Stop \/ UNCHANGED vars
  PROVE  UNCHANGED C!vars
<1>1. GetLine => UNCHANGED <<files, out>>
  BY DEF GetLine, ReadRaw, ReadExpand, ReadMacro, EndFile
<1>2. Macc => UNCHANGED <<files, out>>
  BY DEF Macc, MaccText, MaccExpand, MaccAsk, MaccAnswer, MaccReturn, MaccDefine, MaccUndef,
         MaccCopy
<1>3. Stop \/ UNCHANGED vars => UNCHANGED <<files, out, stacks>>
  BY DEF Stop, vars, stacks
<1>4. UNCHANGED <<files, out, stacks>>
  BY <1>1, <1>2, <1>3, LinesKeepStacks
<1> QED  BY <1>4, NothingChanged DEF stacks

LEMMA StepRefines ==
  Invariants /\ Invariants' /\ [Next]_vars => [C!Next]_(C!vars)
<1> SUFFICES ASSUME Invariants, Invariants', [Next]_vars
             PROVE  [C!Next]_(C!vars)
  OBVIOUS
<1>1. UNCHANGED files
  BY FilesStay
<1>2. CASE ~ClosedMacros(files)
  <2>1. ~ClosedMacros(files)'
    BY <1>1, <1>2
  <2>2. UNCHANGED <<OpenIfs, MacroMarks, LinesKept>>
    BY <1>2, <2>1 DEF OpenIfs, MacroMarks, LinesKept
  <2> QED  BY <2>2 DEF C!vars
<1>3. CASE ClosedMacros(files)
  <2>1. ClosedMacros(files)'
    BY <1>1, <1>3
  <2>2. Readable /\ TypeInvariant
    BY <1>3, ReadAsConditionals DEF Readable, Invariants, NestInvariant
  <2>3. Conditionals'
    <3>1. (StackInvariant /\ ClosedMacros(files) => Conditionals)'
      BY ReadAsConditionals, PTL
    <3> QED  BY <2>1, <3>1 DEF Invariants
  <2>4. Readable'
    BY <2>1, <2>3 DEF Readable, Invariants, NestInvariant
  <2>5. MacroEnd => mifMacCur # 0
    <3>1. "PrgErr" \notin messages'
      BY <2>1 DEF Invariants, NestInvariant
    <3>2. MacroEnd /\ mifMacCur = 0 => "PrgErr" \in messages'
      BY DEF MacroEnd, Say
    <3> QED  BY <3>1, <3>2
  <2>6. CASE GetsMif
    <3>1. Text => [C!Next]_(C!vars)
      BY <1>3, <2>2, <2>4, TextRefines
    <3>2. SkipIf \/ If => [C!Next]_(C!vars)
      BY <2>2, <2>4, IfRefines
    <3>3. Elif \/ Else => [C!Next]_(C!vars)
      BY <2>2, <2>4, BranchRefines
    <3>4. SkipEndif \/ Endif => [C!Next]_(C!vars)
      BY <2>2, <2>4, EndifRefines
    <3>5. MacroStart \/ MacroEnd \/ Scan => [C!Next]_(C!vars)
      BY <2>2, <2>4, <2>5, MacroRefines
    <3>6. Skip \/ ExitMacro \/ Include \/ Report => [C!Next]_(C!vars)
      BY <2>2, OtherRefines
    <3> QED  BY <2>6, <3>1, <3>2, <3>3, <3>4, <3>5, <3>6 DEF GetsMif
  <2>7. CASE ~GetsMif
    BY <2>7, LinesRefine DEF Next
  <2> QED  BY <2>6, <2>7
<1> QED  BY <1>2, <1>3

LEMMA InitRefines == Init => C!Init
<1> SUFFICES ASSUME Init PROVE C!Init
  OBVIOUS
<1>1. mifCur = 0 /\ mifMacCur = 0 /\ mifChkSnc = 0 /\ out = <<>>
  BY DEF Init
<1>2. OpenIfs = <<>>
  BY <1>1 DEF OpenIfs
<1>3. MacroMarks = <<>>
  BY <1>1 DEF MacroMarks
<1>4. LinesKept = <<>>
  BY <1>1 DEF LinesKept
<1> QED  BY <1>2, <1>3, <1>4 DEF C!Init

-----------------------------------------------------------------------------
(* src/src/filn.c 4323-4529: every entry below mifCur is an #if that is     *)
(* open, and while a macro is read no #if it started within is closed: an   *)
(* entry of mifMacStk never is above mifCur, nor above that of a macro      *)
(* within.  For every set of files with closed macro bodies.                *)
THEOREM MacrosNestAlways == Spec => []MacrosNest
<1>1. Invariants => MacrosNest
  BY DEF Invariants, NestInvariant, Bracketed, MacrosNest
<1> QED  BY <1>1, NestInvariantHolds, PTL

(* src/src/filn.c 4480-4529: with closed macro bodies every macro that was  *)
(* entered has been left at the end of the input, by its end or by          *)
(* #exitmacro, none is left twice, and the search of #exitmacro does not    *)
(* run into the end of a file.                                              *)
THEOREM EveryMacroIsLeft == Spec => []MacrosAreLeft
<1>1. Invariants => MacrosAreLeft
  BY DEF Invariants, NestInvariant, MacrosAreLeft
<1> QED  BY <1>1, NestInvariantHolds, PTL

(* src/src/filn.c 4323-4529: the #if stack that gives skipped #ifs no entry *)
(* and looks at the innermost entry only keeps the lines, and the macros,   *)
(* of nested conditionals.                                                  *)
THEOREM FilnIsConditional == Spec => Implements
<1>1. Init => C!Init
  BY InitRefines
<1>2. Invariants /\ Invariants' /\ [Next]_vars => [C!Next]_(C!vars)
  BY StepRefines
<1> QED  BY <1>1, <1>2, NestInvariantHolds, PTL DEF Spec, Implements, C!Spec

=============================================================================
