----------------------------- MODULE KeptProofs -----------------------------
(***************************************************************************)
(* A file of conditionals, #define and #undef gives the lines that          *)
(* src/dcasm.txt says, for every such file and all limits.                  *)
(*                                                                          *)
(* Kept says of a whole file which of its lines are kept; Filn has a stack, *)
(* a count and the tree of names.  The invariant says what these are at     *)
(* each place of the file in the words of Kept.                             *)
(***************************************************************************)
EXTENDS NestingProofs

-----------------------------------------------------------------------------
(* Kept is what its equation says.                                          *)

(* Whether line j is kept depends on the lines before j.                    *)
LEMMA DefinedBefore ==
  ASSUME NEW ls, NEW g, NEW h, NEW n, NEW b \in Nat,
         \A m \in 1..(b - 1) : g[m] = h[m]
  PROVE  DefinedAt(ls, g, n, b) <=> DefinedAt(ls, h, n, b)
<1>1. \A d \in 1..(b - 1) : \A u \in (d + 1)..(b - 1) : u \in 1..(b - 1)
  OBVIOUS
<1> QED  BY <1>1 DEF DefinedAt

LEMMA BranchesBetween ==
  ASSUME NEW ls, NEW i \in Nat, NEW j \in Nat, i < j, NEW b \in Branches(ls, i, j)
  PROVE  b \in Nat /\ i <= b /\ b < j
BY DEF Branches

LEMMA KeptBefore ==
  ASSUME NEW ls, NEW g, NEW h, NEW j \in Nat, \A m \in 1..(j - 1) : g[m] = h[m]
  PROVE  IsKept(ls, g, j) <=> IsKept(ls, h, j)
<1>1. ASSUME NEW i \in 1..(j - 1)
      PROVE  InFirst(ls, g, i, j) <=> InFirst(ls, h, i, j)
  <2>1. ASSUME NEW b \in Branches(ls, i, j)
        PROVE  HoldsAt(ls, g, b) <=> HoldsAt(ls, h, b)
    <3>1. b \in Nat /\ b < j
      BY <1>1, BranchesBetween
    <3>2. DefinedAt(ls, g, ls[b].n, b) <=> DefinedAt(ls, h, ls[b].n, b)
      BY <3>1, DefinedBefore
    <3> QED  BY <3>2 DEF HoldsAt
  <2> QED  BY <2>1 DEF InFirst
<1> QED  BY <1>1 DEF IsKept

(* There is a function for every beginning of the lines: of those for which *)
(* there is none no one would be the shortest.                              *)
LEMMA KeptExists ==
  ASSUME NEW ls, NEW n \in Nat
  PROVE  \E g \in [1..n -> BOOLEAN] : \A j \in 1..n : g[j] = IsKept(ls, g, j)
<1> DEFINE Works(m) == \E g \in [1..m -> BOOLEAN] : \A j \in 1..m : g[j] = IsKept(ls, g, j)
           Fails == {m \in Nat : ~Works(m)}
<1> SUFFICES Fails = {}
  OBVIOUS
<1> HIDE DEF Works
<1> SUFFICES ASSUME Fails # {} PROVE FALSE
  OBVIOUS
<1>1. PICK k \in Nat : ~Works(k) /\ \A m \in Fails : k <= m
  BY LeastOfNats
<1>2. k # 0
  <2>1. 1..0 = {} /\ [i \in 1..0 |-> TRUE] \in [1..0 -> BOOLEAN]
    OBVIOUS
  <2> QED  BY <1>1, <2>1 DEF Works
<1>3. PICK m \in Nat : k = m + 1
  <2>1. k - 1 \in Nat /\ k = (k - 1) + 1
    BY <1>2
  <2> QED  BY <2>1
<1>4. PICK g \in [1..m -> BOOLEAN] : \A j \in 1..m : g[j] = IsKept(ls, g, j)
  <2>1. Works(m)
    BY <1>1, <1>3
  <2> QED  BY <2>1 DEF Works
<1> DEFINE h == [j \in 1..k |-> IF j = k THEN IsKept(ls, g, k) ELSE g[j]]
<1>5. \A j \in 1..m : h[j] = g[j]
  BY <1>3
<1>6. h[k] = IsKept(ls, g, k) /\ h \in [1..k -> BOOLEAN]
  <2>1. IsKept(ls, g, k) \in BOOLEAN
    BY DEF IsKept
  <2>2. \A j \in 1..k : j # k => j \in 1..m
    BY <1>3
  <2> QED  BY <1>3, <2>1, <2>2
<1> HIDE DEF h
<1>7. ASSUME NEW j \in 1..k
      PROVE  h[j] = IsKept(ls, h, j)
  <2>1. \A x \in 1..(j - 1) : h[x] = g[x]
    BY <1>3, <1>5
  <2>2. IsKept(ls, h, j) = IsKept(ls, g, j)
    <3>1. IsKept(ls, h, j) <=> IsKept(ls, g, j)
      BY <2>1, KeptBefore
    <3>2. IsKept(ls, h, j) \in BOOLEAN /\ IsKept(ls, g, j) \in BOOLEAN
      BY DEF IsKept
    <3> QED  BY <3>1, <3>2
  <2>3. CASE j = k
    BY <1>6, <2>2, <2>3
  <2>4. CASE j # k
    <3>1. j \in 1..m
      BY <1>3, <2>4
    <3> QED  BY <1>4, <1>5, <2>2, <3>1
  <2> QED  BY <2>3, <2>4
<1> QED  BY <1>1, <1>6, <1>7 DEF Works

LEMMA KeptSays ==
  ASSUME NEW ls, Len(ls) \in Nat, NEW j \in 1..Len(ls)
  PROVE  Kept(ls)[j] = IsKept(ls, Kept(ls), j)
<1>1. PICK g \in [1..Len(ls) -> BOOLEAN] : \A i \in 1..Len(ls) : g[i] = IsKept(ls, g, i)
  BY KeptExists
<1>2. g = [i \in 1..Len(ls) |-> IsKept(ls, g, i)]
  BY <1>1
<1>3. Kept(ls) = CHOOSE f : f = [i \in 1..Len(ls) |-> IsKept(ls, f, i)]
  BY DEF Kept
<1>4. Kept(ls) = [i \in 1..Len(ls) |-> IsKept(ls, Kept(ls), i)]
  BY <1>2, <1>3
<1> HIDE DEF Kept
<1> QED  BY <1>4

-----------------------------------------------------------------------------
(* From the lines before j = d + 1 to those before d + 2.                   *)

(* Never more #endifs than #ifs in the first d lines.                       *)
Rises(ls, d) == \A m \in 0..d : OpenAfter(ls, m) \in Nat

LEMMA OpenInt == ASSUME NEW ls, NEW i \in Nat PROVE OpenAfter(ls, i) \in Int
BY OpenStep

LEMMA AroundStep ==
  ASSUME NEW ls, NEW d \in Nat, NEW i \in 1..d
  PROVE  /\ Around(ls, i, d + 2)
              <=> Around(ls, i, d + 1) /\ OpenAfter(ls, d + 1) > OpenAfter(ls, i - 1)
         /\ Around(ls, i, d + 1) => /\ OpenAfter(ls, i) = OpenAfter(ls, i - 1) + 1
                                    /\ OpenAfter(ls, i) <= OpenAfter(ls, d)
<1>1. i..((d + 2) - 1) = i..((d + 1) - 1) \cup {d + 1} /\ d \in i..((d + 1) - 1)
  OBVIOUS
<1>2. i < d + 1 /\ i < d + 2
  OBVIOUS
<1>3. Around(ls, i, d + 2)
        <=> Around(ls, i, d + 1) /\ OpenAfter(ls, d + 1) > OpenAfter(ls, i - 1)
  BY <1>1, <1>2 DEF Around
<1>4. PICK m \in Nat : i = m + 1 /\ i - 1 = m
  <2>1. i - 1 \in Nat /\ i = (i - 1) + 1
    OBVIOUS
  <2> QED  BY <2>1
<1>5. ASSUME Around(ls, i, d + 1)
      PROVE  OpenAfter(ls, i) = OpenAfter(ls, m) + 1 /\ OpenAfter(ls, i) <= OpenAfter(ls, d)
  <2>1. ls[m + 1].k = "if" /\ OpenAfter(ls, d) > OpenAfter(ls, m)
    BY <1>1, <1>4, <1>5 DEF Around
  <2>2. OpenAfter(ls, m + 1) = OpenAfter(ls, m) + 1
    BY <2>1, OpenStep
  <2>3. OpenAfter(ls, m) \in Int /\ OpenAfter(ls, d) \in Int
    BY OpenInt
  <2> QED  BY <1>4, <2>1, <2>2, <2>3
<1> QED  BY <1>3, <1>4, <1>5

LEMMA AroundNew ==
  ASSUME NEW ls, NEW d \in Nat
  PROVE  Around(ls, d + 1, d + 2) <=> ls[d + 1].k = "if"
<1>1. (d + 1)..((d + 2) - 1) = {d + 1} /\ (d + 1) - 1 = d /\ d + 1 < d + 2
  OBVIOUS
<1>2. ls[d + 1].k = "if" => OpenAfter(ls, d + 1) > OpenAfter(ls, d)
  BY OpenStep
<1> QED  BY <1>1, <1>2 DEF Around

(* Line d + 1 starts a branch of the #if at i.                              *)
Divides(ls, i, d) ==
  /\ ls[d + 1].k \in {"elif", "else"}
  /\ OpenAfter(ls, d + 1) = OpenAfter(ls, i)
  /\ Around(ls, i, d + 1)

LEMMA BranchesStep ==
  ASSUME NEW ls, NEW d \in Nat, NEW i \in 1..d
  PROVE  Branches(ls, i, d + 2)
           = Branches(ls, i, d + 1) \cup (IF Divides(ls, i, d) THEN {d + 1} ELSE {})
<1>1. (i + 1)..((d + 2) - 1) = (i + 1)..((d + 1) - 1) \cup {d + 1}
  OBVIOUS
<1> QED  BY <1>1 DEF Branches, Divides

LEMMA BranchesNew ==
  ASSUME NEW ls, NEW d \in Nat
  PROVE  Branches(ls, d + 1, d + 2) = {d + 1}
<1>1. ((d + 1) + 1)..((d + 2) - 1) = {}
  OBVIOUS
<1> QED  BY <1>1 DEF Branches

(* A branch of the #if at i before line j has a condition that holds.       *)
AnyHolds(ls, kept, i, j) == \E b \in Branches(ls, i, j) : HoldsAt(ls, kept, b)

LEMMA StateSame ==
  ASSUME NEW ls, NEW kept, NEW d \in Nat, NEW i \in 1..d, ~Divides(ls, i, d)
  PROVE  /\ InFirst(ls, kept, i, d + 2) <=> InFirst(ls, kept, i, d + 1)
         /\ AnyHolds(ls, kept, i, d + 2) <=> AnyHolds(ls, kept, i, d + 1)
<1>1. Branches(ls, i, d + 2) = Branches(ls, i, d + 1)
  BY BranchesStep
<1> QED  BY <1>1 DEF InFirst, AnyHolds

LEMMA StateDivided ==
  ASSUME NEW ls, NEW kept, NEW d \in Nat, NEW i \in 1..d, Divides(ls, i, d)
  PROVE  /\ InFirst(ls, kept, i, d + 2)
              <=> HoldsAt(ls, kept, d + 1) /\ ~AnyHolds(ls, kept, i, d + 1)
         /\ AnyHolds(ls, kept, i, d + 2)
              <=> HoldsAt(ls, kept, d + 1) \/ AnyHolds(ls, kept, i, d + 1)
<1>1. Branches(ls, i, d + 2) = Branches(ls, i, d + 1) \cup {d + 1}
  BY BranchesStep
<1>2. \A b \in Branches(ls, i, d + 1) : b \in Nat /\ b < d + 1
  BY BranchesBetween
<1>3. AnyHolds(ls, kept, i, d + 2)
        <=> HoldsAt(ls, kept, d + 1) \/ AnyHolds(ls, kept, i, d + 1)
  BY <1>1 DEF AnyHolds
<1>4. ASSUME InFirst(ls, kept, i, d + 2)
      PROVE  HoldsAt(ls, kept, d + 1) /\ ~AnyHolds(ls, kept, i, d + 1)
  <2>1. PICK b \in Branches(ls, i, d + 2) :
          /\ HoldsAt(ls, kept, b)
          /\ \A c \in Branches(ls, i, d + 2) : (c < b => ~HoldsAt(ls, kept, c)) /\ c <= b
    BY <1>4 DEF InFirst
  <2>2. b = d + 1
    <3>1. d + 1 <= b
      BY <1>1, <2>1
    <3> QED  BY <1>1, <1>2, <3>1
  <2> QED  BY <1>1, <1>2, <2>1, <2>2 DEF AnyHolds
<1>5. ASSUME HoldsAt(ls, kept, d + 1), ~AnyHolds(ls, kept, i, d + 1)
      PROVE  InFirst(ls, kept, i, d + 2)
  <2>1. \A c \in Branches(ls, i, d + 2) : (c < d + 1 => ~HoldsAt(ls, kept, c)) /\ c <= d + 1
    BY <1>1, <1>2, <1>5 DEF AnyHolds
  <2> QED  BY <1>1, <1>5, <2>1 DEF InFirst
<1> QED  BY <1>3, <1>4, <1>5

LEMMA StateNew ==
  ASSUME NEW ls, NEW kept, NEW d \in Nat
  PROVE  /\ InFirst(ls, kept, d + 1, d + 2) <=> HoldsAt(ls, kept, d + 1)
         /\ AnyHolds(ls, kept, d + 1, d + 2) <=> HoldsAt(ls, kept, d + 1)
<1>1. Branches(ls, d + 1, d + 2) = {d + 1}
  BY BranchesNew
<1> QED  BY <1>1 DEF InFirst, AnyHolds

LEMMA DefinedStep ==
  ASSUME NEW ls, NEW kept, NEW n, NEW b \in Nat, b > 0
  PROVE  DefinedAt(ls, kept, n, b + 1)
           <=> \/ ls[b].k = "define" /\ ls[b].n = n /\ kept[b]
               \/ DefinedAt(ls, kept, n, b) /\ ~(ls[b].k = "undef" /\ ls[b].n = n /\ kept[b])
<1>1. /\ 1..((b + 1) - 1) = 1..(b - 1) \cup {b}
      /\ (b + 1)..((b + 1) - 1) = {}
      /\ \A d \in 1..(b - 1) : (d + 1)..((b + 1) - 1) = (d + 1)..(b - 1) \cup {b}
  OBVIOUS
<1> QED  BY <1>1 DEF DefinedAt

-----------------------------------------------------------------------------
(* What the #if stack says of a file.                                       *)

(* The entry s of the #if at i, for line j.                                 *)
StateAt(ls, kept, s, i, j) ==
  /\ s # 0
  /\ s = 1 <=> InFirst(ls, kept, i, j)
  /\ s = 2 <=> ~AnyHolds(ls, kept, i, j)

(* After d lines the stack stk has cur entries, and over #ifs have none.    *)
IfsAt(ls, kept, cur, over, stk, d) ==
  /\ cur + over = OpenAfter(ls, d)
  /\ \A i \in 1..d : Around(ls, i, d + 1) /\ OpenAfter(ls, i) <= cur
                       => StateAt(ls, kept, stk[OpenAfter(ls, i)], i, d + 1)
  /\ \A v \in 1..OpenAfter(ls, d) : \E i \in 1..d : Around(ls, i, d + 1) /\ OpenAfter(ls, i) = v

(* Two stacks have the same first n entries.                                *)
SameBelow(s, t, n) == \A x \in 1..n : s[x] = t[x]

(* The #ifs around the line after d + 1 are those around line d + 1 that    *)
(* this line does not close, and itself.                                    *)
LEMMA AroundNext ==
  ASSUME NEW ls, NEW d \in Nat, NEW i \in 1..(d + 1), Around(ls, i, (d + 1) + 1)
  PROVE  \/ i = d + 1 /\ ls[d + 1].k = "if"
         \/ /\ i \in 1..d /\ Around(ls, i, d + 1)
            /\ OpenAfter(ls, i) <= OpenAfter(ls, d)
            /\ OpenAfter(ls, i) <= OpenAfter(ls, d + 1)
<1>1. (d + 1) + 1 = d + 2
  OBVIOUS
<1>2. CASE i = d + 1
  BY <1>1, <1>2, AroundNew
<1>3. CASE i # d + 1
  <2>1. i \in 1..d /\ i - 1 \in Nat
    BY <1>3
  <2>2. /\ Around(ls, i, d + 1) /\ OpenAfter(ls, d + 1) > OpenAfter(ls, i - 1)
        /\ OpenAfter(ls, i) = OpenAfter(ls, i - 1) + 1
        /\ OpenAfter(ls, i) <= OpenAfter(ls, d)
    BY <1>1, <2>1, AroundStep
  <2>3. OpenAfter(ls, d + 1) \in Int /\ OpenAfter(ls, i - 1) \in Int
    BY <2>1, OpenInt
  <2> QED  BY <2>1, <2>2, <2>3
<1> QED  BY <1>2, <1>3

LEMMA AroundStays ==
  ASSUME NEW ls, NEW d \in Nat, NEW i \in 1..d, Around(ls, i, d + 1),
         OpenAfter(ls, i) <= OpenAfter(ls, d + 1)
  PROVE  Around(ls, i, (d + 1) + 1)
<1>1. (d + 1) + 1 = d + 2 /\ i - 1 \in Nat
  OBVIOUS
<1>2. OpenAfter(ls, d + 1) \in Int /\ OpenAfter(ls, i - 1) \in Int
  BY <1>1, OpenInt
<1>3. OpenAfter(ls, i) = OpenAfter(ls, i - 1) + 1
  BY AroundStep
<1>4. OpenAfter(ls, d + 1) > OpenAfter(ls, i - 1)
  BY <1>2, <1>3
<1> QED  BY <1>1, <1>4, AroundStep

LEMMA StateStays ==
  ASSUME NEW ls, NEW kept, NEW s, NEW d \in Nat, NEW i \in 1..d,
         StateAt(ls, kept, s, i, d + 1), ~Divides(ls, i, d)
  PROVE  StateAt(ls, kept, s, i, (d + 1) + 1)
<1>1. (d + 1) + 1 = d + 2
  OBVIOUS
<1> QED  BY <1>1, StateSame DEF StateAt

(* A line that is no #if and no #endif, and no #elif or #else of an entry.  *)
LEMMA IfsStay ==
  ASSUME NEW ls, NEW kept, NEW cur \in Nat, NEW over \in Nat, NEW stk, NEW d \in Nat,
         IfsAt(ls, kept, cur, over, stk, d),
         ls[d + 1].k \notin {"if", "endif"}, ls[d + 1].k \in {"elif", "else"} => over > 0
  PROVE  IfsAt(ls, kept, cur, over, stk, d + 1)
<1>1. OpenAfter(ls, d + 1) = OpenAfter(ls, d) /\ OpenAfter(ls, d) \in Int
  BY OpenStep
<1>2. ASSUME NEW i \in 1..(d + 1), Around(ls, i, (d + 1) + 1), OpenAfter(ls, i) <= cur
      PROVE  StateAt(ls, kept, stk[OpenAfter(ls, i)], i, (d + 1) + 1)
  <2>1. i \in 1..d /\ Around(ls, i, d + 1)
    BY <1>2, AroundNext
  <2>2. StateAt(ls, kept, stk[OpenAfter(ls, i)], i, d + 1)
    BY <1>2, <2>1 DEF IfsAt
  <2>3. OpenAfter(ls, i) \in Int
    BY <2>1, OpenInt
  <2>4. ~Divides(ls, i, d)
    BY <1>1, <1>2, <2>3 DEF Divides, IfsAt
  <2> QED  BY <2>1, <2>2, <2>4, StateStays
<1>3. ASSUME NEW v \in 1..OpenAfter(ls, d + 1)
      PROVE  \E i \in 1..(d + 1) : Around(ls, i, (d + 1) + 1) /\ OpenAfter(ls, i) = v
  <2>1. PICK i \in 1..d : Around(ls, i, d + 1) /\ OpenAfter(ls, i) = v
    BY <1>1, <1>3 DEF IfsAt
  <2>2. OpenAfter(ls, i) <= OpenAfter(ls, d + 1)
    BY <1>1, <1>3, <2>1
  <2>3. Around(ls, i, (d + 1) + 1) /\ i \in 1..(d + 1)
    BY <2>1, <2>2, AroundStays
  <2> QED  BY <2>1, <2>3
<1> QED  BY <1>1, <1>2, <1>3 DEF IfsAt

(* An #if, with an entry of its own or one more without.                    *)
LEMMA IfsOpened ==
  ASSUME NEW ls, NEW kept, NEW cur \in Nat, NEW over \in Nat, NEW stk, NEW d \in Nat,
         IfsAt(ls, kept, cur, over, stk, d), Rises(ls, d), ls[d + 1].k = "if",
         NEW cur2 \in Nat, NEW over2 \in Nat, NEW stk2, cur2 + over2 = cur + over + 1,
         SameBelow(stk2, stk, cur),
         \/ cur2 = cur
         \/ /\ over = 0 /\ cur2 = cur + 1
            /\ stk2[cur2] = IF HoldsAt(ls, kept, d + 1) THEN 1 ELSE 2
  PROVE  IfsAt(ls, kept, cur2, over2, stk2, d + 1)
<1>1. OpenAfter(ls, d + 1) = OpenAfter(ls, d) + 1 /\ OpenAfter(ls, d) \in Int
  BY OpenStep
<1>2. cur + over = OpenAfter(ls, d) /\ (d + 1) + 1 = d + 2
  BY DEF IfsAt
<1>3. ASSUME NEW i \in 1..(d + 1), Around(ls, i, (d + 1) + 1), OpenAfter(ls, i) <= cur2
      PROVE  StateAt(ls, kept, stk2[OpenAfter(ls, i)], i, (d + 1) + 1)
  <2>1. CASE i = d + 1
    <3>1. over = 0 /\ cur2 = cur + 1 /\ OpenAfter(ls, i) = cur2
      BY <1>1, <1>2, <1>3, <2>1
    <3> QED  BY <1>2, <2>1, <3>1, StateNew DEF StateAt
  <2>2. CASE i # d + 1
    <3>1. i \in 1..d /\ Around(ls, i, d + 1) /\ OpenAfter(ls, i) <= OpenAfter(ls, d)
      BY <1>3, <2>2, AroundNext
    <3>2. i - 1 \in 0..d /\ OpenAfter(ls, i) = OpenAfter(ls, i - 1) + 1
      <4>1. i - 1 \in 0..d
        BY <3>1
      <4> QED  BY <3>1, <4>1, AroundStep
    <3>3. OpenAfter(ls, i) \in Nat /\ OpenAfter(ls, i) > 0
      BY <3>2 DEF Rises
    <3>4. OpenAfter(ls, i) \in 1..cur
      BY <1>2, <1>3, <3>1, <3>3
    <3>5. StateAt(ls, kept, stk2[OpenAfter(ls, i)], i, d + 1)
      BY <3>1, <3>4 DEF IfsAt, SameBelow
    <3>6. ~Divides(ls, i, d)
      BY DEF Divides
    <3> QED  BY <3>1, <3>5, <3>6, StateStays
  <2> QED  BY <2>1, <2>2
<1>4. ASSUME NEW v \in 1..OpenAfter(ls, d + 1)
      PROVE  \E i \in 1..(d + 1) : Around(ls, i, (d + 1) + 1) /\ OpenAfter(ls, i) = v
  <2>1. CASE v = OpenAfter(ls, d + 1)
    <3>1. Around(ls, d + 1, (d + 1) + 1) /\ d + 1 \in 1..(d + 1)
      BY <1>2, AroundNew
    <3> QED  BY <2>1, <3>1
  <2>2. CASE v # OpenAfter(ls, d + 1)
    <3>1. v \in 1..OpenAfter(ls, d)
      BY <1>1, <1>4, <2>2
    <3>2. PICK i \in 1..d : Around(ls, i, d + 1) /\ OpenAfter(ls, i) = v
      BY <3>1 DEF IfsAt
    <3>3. OpenAfter(ls, i) <= OpenAfter(ls, d + 1)
      BY <1>1, <3>1, <3>2
    <3>4. Around(ls, i, (d + 1) + 1) /\ i \in 1..(d + 1)
      BY <3>2, <3>3, AroundStays
    <3> QED  BY <3>2, <3>4
  <2> QED  BY <2>1, <2>2
<1> QED  BY <1>1, <1>2, <1>3, <1>4 DEF IfsAt

(* An #endif.                                                               *)
LEMMA IfsClosed ==
  ASSUME NEW ls, NEW kept, NEW cur \in Nat, NEW over \in Nat, NEW stk, NEW d \in Nat,
         IfsAt(ls, kept, cur, over, stk, d), Rises(ls, d), ls[d + 1].k = "endif",
         NEW cur2 \in Nat, NEW over2 \in Nat, NEW stk2, cur2 + over2 = cur + over - 1,
         cur2 <= cur, SameBelow(stk2, stk, cur2)
  PROVE  IfsAt(ls, kept, cur2, over2, stk2, d + 1)
<1>1. OpenAfter(ls, d + 1) = OpenAfter(ls, d) - 1 /\ OpenAfter(ls, d) \in Int
  BY OpenStep
<1>2. cur + over = OpenAfter(ls, d)
  BY DEF IfsAt
<1>3. ASSUME NEW i \in 1..(d + 1), Around(ls, i, (d + 1) + 1), OpenAfter(ls, i) <= cur2
      PROVE  StateAt(ls, kept, stk2[OpenAfter(ls, i)], i, (d + 1) + 1)
  <2>1. i \in 1..d /\ Around(ls, i, d + 1)
    BY <1>3, AroundNext
  <2>2. i - 1 \in 0..d /\ OpenAfter(ls, i) = OpenAfter(ls, i - 1) + 1
    <3>1. i - 1 \in 0..d
      BY <2>1
    <3> QED  BY <2>1, <3>1, AroundStep
  <2>3. OpenAfter(ls, i) \in Nat /\ OpenAfter(ls, i) > 0
    BY <2>2 DEF Rises
  <2>4. OpenAfter(ls, i) \in 1..cur2 /\ OpenAfter(ls, i) <= cur
    BY <1>3, <2>3
  <2>5. StateAt(ls, kept, stk2[OpenAfter(ls, i)], i, d + 1)
    BY <2>1, <2>4 DEF IfsAt, SameBelow
  <2>6. ~Divides(ls, i, d)
    BY DEF Divides
  <2> QED  BY <2>1, <2>5, <2>6, StateStays
<1>4. ASSUME NEW v \in 1..OpenAfter(ls, d + 1)
      PROVE  \E i \in 1..(d + 1) : Around(ls, i, (d + 1) + 1) /\ OpenAfter(ls, i) = v
  <2>1. v \in 1..OpenAfter(ls, d)
    BY <1>1, <1>4
  <2>2. PICK i \in 1..d : Around(ls, i, d + 1) /\ OpenAfter(ls, i) = v
    BY <2>1 DEF IfsAt
  <2>3. OpenAfter(ls, i) <= OpenAfter(ls, d + 1)
    BY <1>1, <1>4, <2>2
  <2>4. Around(ls, i, (d + 1) + 1) /\ i \in 1..(d + 1)
    BY <2>2, <2>3, AroundStays
  <2> QED  BY <2>2, <2>4
<1> QED  BY <1>1, <1>2, <1>3, <1>4 DEF IfsAt

(* An #elif or #else of the innermost entry.                                *)
LEMMA IfsDivided ==
  ASSUME NEW ls, NEW kept, NEW cur \in Nat, NEW stk, NEW d \in Nat,
         IfsAt(ls, kept, cur, 0, stk, d), Rises(ls, d), ls[d + 1].k \in {"elif", "else"},
         NEW stk2, SameBelow(stk2, stk, cur - 1),
         stk2[cur] # 0,
         stk2[cur] = 1 <=> stk[cur] = 2 /\ HoldsAt(ls, kept, d + 1),
         stk2[cur] = 2 <=> stk[cur] = 2 /\ ~HoldsAt(ls, kept, d + 1)
  PROVE  IfsAt(ls, kept, cur, 0, stk2, d + 1)
<1>1. OpenAfter(ls, d + 1) = OpenAfter(ls, d) /\ OpenAfter(ls, d) \in Int
  BY OpenStep
<1>2. cur = OpenAfter(ls, d) /\ (d + 1) + 1 = d + 2 /\ cur + 0 = cur
  BY DEF IfsAt
<1>3. ASSUME NEW i \in 1..(d + 1), Around(ls, i, (d + 1) + 1), OpenAfter(ls, i) <= cur
      PROVE  StateAt(ls, kept, stk2[OpenAfter(ls, i)], i, (d + 1) + 1)
  <2>1. i \in 1..d /\ Around(ls, i, d + 1)
    BY <1>3, AroundNext
  <2>2. i - 1 \in 0..d /\ OpenAfter(ls, i) = OpenAfter(ls, i - 1) + 1
    <3>1. i - 1 \in 0..d
      BY <2>1
    <3> QED  BY <2>1, <3>1, AroundStep
  <2>3. OpenAfter(ls, i) \in Nat /\ OpenAfter(ls, i) > 0
    BY <2>2 DEF Rises
  <2>4. StateAt(ls, kept, stk[OpenAfter(ls, i)], i, d + 1)
    BY <1>3, <2>1 DEF IfsAt
  <2>5. CASE OpenAfter(ls, i) = cur
    <3>1. Divides(ls, i, d)
      BY <1>1, <1>2, <2>1, <2>5 DEF Divides
    <3>2. /\ InFirst(ls, kept, i, d + 2)
               <=> HoldsAt(ls, kept, d + 1) /\ ~AnyHolds(ls, kept, i, d + 1)
          /\ AnyHolds(ls, kept, i, d + 2)
               <=> HoldsAt(ls, kept, d + 1) \/ AnyHolds(ls, kept, i, d + 1)
      BY <2>1, <3>1, StateDivided
    <3> QED  BY <1>2, <2>4, <2>5, <3>2 DEF StateAt
  <2>6. CASE OpenAfter(ls, i) # cur
    <3>1. OpenAfter(ls, i) \in 1..(cur - 1) /\ ~Divides(ls, i, d)
      BY <1>1, <1>2, <1>3, <2>3, <2>6 DEF Divides
    <3>2. StateAt(ls, kept, stk2[OpenAfter(ls, i)], i, d + 1)
      BY <2>4, <3>1 DEF SameBelow
    <3> QED  BY <2>1, <3>1, <3>2, StateStays
  <2> QED  BY <2>5, <2>6
<1>4. ASSUME NEW v \in 1..OpenAfter(ls, d + 1)
      PROVE  \E i \in 1..(d + 1) : Around(ls, i, (d + 1) + 1) /\ OpenAfter(ls, i) = v
  <2>1. PICK i \in 1..d : Around(ls, i, d + 1) /\ OpenAfter(ls, i) = v
    BY <1>1, <1>4 DEF IfsAt
  <2>2. OpenAfter(ls, i) <= OpenAfter(ls, d + 1)
    BY <1>1, <1>4, <2>1
  <2>3. Around(ls, i, (d + 1) + 1) /\ i \in 1..(d + 1)
    BY <2>1, <2>2, AroundStays
  <2> QED  BY <2>1, <2>3
<1> QED  BY <1>1, <1>2, <1>3, <1>4 DEF IfsAt

(* The innermost entry tells whether the next line is kept.                 *)
LEMMA KeptByStack ==
  ASSUME NEW ls, NEW kept, NEW cur \in Nat, NEW over \in Nat, NEW stk, NEW d \in Nat,
         IfsAt(ls, kept, cur, over, stk, d), Rises(ls, d),
         \A x \in 0..cur : stk[x] \in 0..3 /\ (x # cur => stk[x] <= 1),
         stk[0] = 0, over > 0 => stk[cur] >= 2
  PROVE  IsKept(ls, kept, d + 1) <=> ~(over > 0 \/ stk[cur] >= 2)
<1>1. cur + over = OpenAfter(ls, d) /\ (d + 1) - 1 = d /\ cur \in 0..cur
  BY DEF IfsAt
<1>2. ASSUME stk[cur] >= 2
      PROVE  ~IsKept(ls, kept, d + 1)
  <2>1. cur \in 1..OpenAfter(ls, d)
    BY <1>1, <1>2
  <2>2. PICK i \in 1..d : Around(ls, i, d + 1) /\ OpenAfter(ls, i) = cur
    BY <2>1 DEF IfsAt
  <2>3. StateAt(ls, kept, stk[cur], i, d + 1)
    BY <2>2 DEF IfsAt
  <2>4. stk[cur] # 1
    BY <1>1, <1>2
  <2>5. ~InFirst(ls, kept, i, d + 1)
    BY <2>3, <2>4 DEF StateAt
  <2> QED  BY <1>1, <2>2, <2>5 DEF IsKept
<1>3. ASSUME over = 0, ~(stk[cur] >= 2)
      PROVE  IsKept(ls, kept, d + 1)
  <2>1. ASSUME NEW i \in 1..d, Around(ls, i, d + 1)
        PROVE  InFirst(ls, kept, i, d + 1)
    <3>1. /\ i - 1 \in 0..d /\ OpenAfter(ls, i) = OpenAfter(ls, i - 1) + 1
          /\ OpenAfter(ls, i) <= OpenAfter(ls, d)
      BY <2>1, AroundStep
    <3>2. OpenAfter(ls, i) \in 0..cur
      BY <1>1, <1>3, <3>1 DEF Rises
    <3>3. StateAt(ls, kept, stk[OpenAfter(ls, i)], i, d + 1)
      BY <2>1, <3>2 DEF IfsAt
    <3>4. stk[OpenAfter(ls, i)] \in 0..3 /\ stk[OpenAfter(ls, i)] <= 1
      BY <1>1, <1>3, <3>2
    <3>5. stk[OpenAfter(ls, i)] = 1
      BY <3>3, <3>4 DEF StateAt
    <3> QED  BY <3>3, <3>5 DEF StateAt
  <2> QED  BY <1>1, <2>1 DEF IsKept
<1> QED  BY <1>2, <1>3

-----------------------------------------------------------------------------
(* The lines that go to the assembler.                                      *)

(* Those among the first d lines.                                           *)
Upto(ls, d) == {j \in KeptText(ls) : j <= d}

LEMMA UptoStep ==
  ASSUME NEW ls, Len(ls) \in Nat, NEW d \in Nat, d < Len(ls)
  PROVE  Upto(ls, d + 1) = Upto(ls, d) \cup (IF d + 1 \in KeptText(ls) THEN {d + 1} ELSE {})
<1>1. KeptText(ls) \in SUBSET Nat
  BY DEF KeptText
<1> QED  BY <1>1 DEF Upto

LEMMA UptoEnds ==
  ASSUME NEW ls, Len(ls) \in Nat
  PROVE  Upto(ls, 0) = {} /\ Upto(ls, Len(ls)) = KeptText(ls)
BY DEF Upto, KeptText

LEMMA LinesStep ==
  ASSUME NEW ls, Len(ls) \in Nat, NEW d \in Nat, d < Len(ls),
         NEW lines \in Seq(Line), ls[d + 1] \in Line, LinesAt(lines, ls, Upto(ls, d))
  PROVE  LinesAt(IF d + 1 \in KeptText(ls) THEN Append(lines, ls[d + 1]) ELSE lines,
                 ls, Upto(ls, d + 1))
<1>1. CASE d + 1 \notin KeptText(ls)
  <2>1. Upto(ls, d + 1) = Upto(ls, d) \cup {}
    BY <1>1, UptoStep
  <2>2. Upto(ls, d) \cup {} = Upto(ls, d)
    OBVIOUS
  <2> QED  BY <1>1, <2>1, <2>2
<1>2. CASE d + 1 \in KeptText(ls)
  <2> DEFINE js == Upto(ls, d)
             ks == Upto(ls, d + 1)
  <2>1. ks = js \cup {d + 1} /\ d + 1 \notin js /\ js \in SUBSET (1..d)
    <3>1. js \in SUBSET (1..d)
      BY DEF Upto, KeptText
    <3> QED  BY <1>2, <3>1, UptoStep
  <2> HIDE DEF js, ks
  <2>2. IsFiniteSet(js) /\ Cardinality(js) \in Nat
    <3>1. IsFiniteSet(1..d)
      BY FS_Interval
    <3> QED  BY <2>1, <3>1, FS_Subset, FS_CardinalityType
  <2>3. Cardinality(ks) = Cardinality(js) + 1
    BY <2>1, <2>2, FS_AddElement
  <2>4. Len(lines) = Cardinality(js) /\ \A j \in js : lines[Cardinality({m \in js : m <= j})] = ls[j]
    BY DEF LinesAt, js
  <2>5. /\ Len(Append(lines, ls[d + 1])) = Cardinality(ks)
        /\ Append(lines, ls[d + 1])[Cardinality(ks)] = ls[d + 1]
        /\ \A x \in 1..Cardinality(js) : Append(lines, ls[d + 1])[x] = lines[x]
    BY <2>3, <2>4, AppendProperties
  <2>6. ASSUME NEW j \in ks
        PROVE  Append(lines, ls[d + 1])[Cardinality({m \in ks : m <= j})] = ls[j]
    <3>1. CASE j = d + 1
      <4>1. \A m \in ks : m <= j
        BY <2>1, <3>1
      <4>2. {m \in ks : m <= j} = ks
        BY <4>1
      <4> QED  BY <2>5, <3>1, <4>2
    <3>2. CASE j # d + 1
      <4> DEFINE T == {m \in js : m <= j}
      <4>1. j \in js /\ {m \in ks : m <= j} = T /\ j \in T /\ T \in SUBSET js
        BY <2>1, <2>6, <3>2
      <4>2. lines[Cardinality(T)] = ls[j]
        BY <2>4, <4>1
      <4> HIDE DEF T
      <4>3. IsFiniteSet(T) /\ Cardinality(T) <= Cardinality(js)
        BY <2>2, <4>1, FS_Subset
      <4>4. Cardinality(T) \in Nat /\ Cardinality(T) # 0
        BY <4>1, <4>3, FS_CardinalityType, FS_EmptySet
      <4>5. Cardinality(T) \in 1..Cardinality(js)
        BY <2>2, <4>3, <4>4
      <4> QED  BY <2>5, <4>1, <4>2, <4>5
    <3> QED  BY <3>1, <3>2
  <2> QED  BY <1>2, <2>5, <2>6 DEF LinesAt, ks
<1> QED  BY <1>1, <1>2

-----------------------------------------------------------------------------
(* The invariant.                                                           *)

(* After d lines of ls: what is defined, the #ifs around the next line, and *)
(* the lines handed on.                                                     *)
NamesAt(ls, tree, d) ==
  \A n \in DOMAIN tree : Found(tree[n]) <=> DefinedAt(ls, Kept(ls), n, d + 1)

Agrees(ls, d) ==
  /\ NamesAt(ls, macros, d)
  /\ IfsAt(ls, Kept(ls), mifCur, mifChkSnc, mifStk, d)
  /\ LinesAt(out, ls, Upto(ls, d))

(* x is what Filn_GetsMif may get for the line l.                           *)
Shows(x, l) ==
  /\ x.k = l.k
  /\ l.k = "text" => x = l
  /\ l.k \in {"if", "elif"} => (Truth(x) <=> Truth(l))

(* The file is read up to line p, and is the only one.                      *)
OneFile(p) ==
  inclStk = <<[file |-> MainFile, lin |-> p]>> /\ scan = NoScan /\ mifMacCur = 0

(* Before a line is read; when Filn_GetsMif is about to look at line d + 1; *)
(* while MM_Macc scans it.  A skipped #define or #undef is looked at, any   *)
(* other is obeyed by MM_Macc and gone.                                     *)
Between(ls, d) == phase = "read" /\ MM_ptr = <<>> /\ Agrees(ls, d)

InHand(ls, d) ==
  /\ phase = "read" /\ Agrees(ls, d)
  /\ \E x \in Line : /\ MM_ptr = <<x>> /\ Shows(x, ls[d + 1])
                     /\ x.k \in {"define", "undef"} => MM_mifChk

Scanning(ls, d) ==
  /\ phase = "macc" /\ MM_ptr = <<>> /\ ~MM_mifChk
  /\ Len(frames) = 1 /\ frames[1].name = NoName /\ frames[1].at = 0
  /\ \/ frames[1].text = <<ls[d + 1]>> /\ mbuf = <<>> /\ Agrees(ls, d)
     \/ /\ frames[1].text = <<>> /\ Agrees(ls, d)
        /\ \E x \in Line : /\ mbuf = <<x>> /\ Shows(x, ls[d + 1])
                           /\ x.k \notin {"define", "undef"}
     \/ frames[1].text = <<>> /\ mbuf = <<>> /\ Agrees(ls, d + 1)

Place(ls) ==
  \/ \E d \in Nat : d <= Len(ls) /\ OneFile(d) /\ Between(ls, d)
  \/ \E d \in Nat : d < Len(ls) /\ OneFile(d + 1) /\ (InHand(ls, d) \/ Scanning(ls, d))

KeptInvariant ==
  DOMAIN files = {MainFile} /\ Plain(files[MainFile])
    => /\ phase \in {"read", "macc"} => Place(files[MainFile])
       /\ phase = "eof" => LinesAt(out, files[MainFile], KeptText(files[MainFile]))

-----------------------------------------------------------------------------
(* The lines of the file.                                                   *)
LEMMA PlainLine ==
  ASSUME NEW ls \in Seq(Line), Plain(ls), NEW d \in Nat, d < Len(ls)
  PROVE  /\ Len(ls) \in Nat /\ d + 1 \in 1..Len(ls) /\ ls[d + 1] \in Line
         /\ ls[d + 1].k \in {"text", "if", "elif", "else", "endif", "define", "undef"}
         /\ ls[d + 1].k = "text" => ls[d + 1].n = NoName
         /\ ls[d + 1].h \in {"number", "defined"}
         /\ ls[d + 1].n \in Names \cup {NoName, Nameless}
         /\ ls[d + 1].k \in {"else", "elif"} => OpenAfter(ls, d + 1) >= 1
         /\ Rises(ls, d) /\ Rises(ls, d + 1)
<1>1. Len(ls) \in Nat /\ d + 1 \in 1..Len(ls) /\ DOMAIN ls = 1..Len(ls)
  BY LenProperties
<1>2. ls[d + 1] \in Line
  BY <1>1, ElementOfSeq
<1>3. /\ ls[d + 1].k \in {"text", "if", "elif", "else", "endif", "define", "undef"}
      /\ ls[d + 1].k = "text" => ls[d + 1].n = NoName
      /\ ls[d + 1].h # "value"
      /\ ls[d + 1].k \in {"else", "elif"} => OpenAfter(ls, d + 1) >= 1
  BY <1>1 DEF Plain
<1>4. ASSUME NEW m \in 0..(d + 1)
      PROVE  OpenAfter(ls, m) \in Nat
  <2>1. CASE m = 0
    BY <2>1, OpenStep
  <2>2. CASE m # 0
    <3>1. m \in 1..Len(ls) /\ m \in Nat
      BY <1>1, <2>2
    <3>2. OpenAfter(ls, m) \in Int
      BY <3>1, OpenInt
    <3>3. OpenAfter(ls, m) >= IF ls[m].k \in {"else", "elif"} THEN 1 ELSE 0
      BY <1>1, <3>1 DEF Plain
    <3> QED  BY <3>2, <3>3
  <2> QED  BY <2>1, <2>2
<1>5. Rises(ls, d) /\ Rises(ls, d + 1)
  BY <1>4 DEF Rises
<1>6. ls[d + 1].h \in Hows /\ ls[d + 1].n \in Names \cup {NoName, Nameless}
  BY <1>2, <1>3, LineFields
<1> QED  BY <1>1, <1>2, <1>3, <1>5, <1>6 DEF Hows

(* A line is kept when Filn_GetsMif does not skip it.                       *)
LEMMA KeptUnlessSkipped ==
  ASSUME StackInvariant, NEW ls \in Seq(Line), Plain(ls), NEW d \in Nat, d < Len(ls),
         Agrees(ls, d)
  PROVE  Kept(ls)[d + 1] <=> ~MM_mifChk
<1>1. /\ mifCur \in Nat /\ mifChkSnc \in Nat /\ mifStk[0] = 0 /\ mifCur <= FILN_IF_NEST
      /\ \A x \in 0..mifCur : mifStk[x] \in 0..3 /\ (x # mifCur => mifStk[x] <= 1)
      /\ mifChkSnc > 0 => mifStk[mifCur] >= 2
  BY NestNat DEF StackInvariant, StackTypes, StackDiscipline, Dead
<1>2. Rises(ls, d) /\ Len(ls) \in Nat /\ d + 1 \in 1..Len(ls)
  BY PlainLine
<1>3. IsKept(ls, Kept(ls), d + 1) <=> ~(mifChkSnc > 0 \/ mifStk[mifCur] >= 2)
  BY <1>1, <1>2, KeptByStack DEF Agrees
<1>4. Kept(ls)[d + 1] = IsKept(ls, Kept(ls), d + 1)
  BY <1>2, KeptSays
<1> QED  BY <1>3, <1>4 DEF MM_mifChk, Dead

(* A condition is true for Filn when it holds for Kept.                     *)
LEMMA TruthHolds ==
  ASSUME TypeInvariant, NEW ls \in Seq(Line), Plain(ls), NEW d \in Nat, d < Len(ls),
         NamesAt(ls, macros, d), ls[d + 1].k \in {"if", "elif"}
  PROVE  Truth(ls[d + 1]) <=> HoldsAt(ls, Kept(ls), d + 1)
<1>1. /\ ls[d + 1].h \in {"number", "defined"}
      /\ ls[d + 1].n \in Names \cup {NoName, Nameless}
  BY PlainLine
<1>2. DOMAIN macros = Names \cup {Nameless, NoName}
  BY TypeParts DEF TextTypes
<1>3. Found(macros[ls[d + 1].n]) <=> DefinedAt(ls, Kept(ls), ls[d + 1].n, d + 1)
  BY <1>1, <1>2 DEF NamesAt
<1> QED  BY <1>1, <1>3 DEF Truth, HoldsAt

(* A line that is no #define and no #undef, or is skipped, defines nothing. *)
LEMMA NamesStay ==
  ASSUME NEW ls, NEW tree, NEW d \in Nat, NamesAt(ls, tree, d),
         ls[d + 1].k \in {"define", "undef"} => ~Kept(ls)[d + 1]
  PROVE  NamesAt(ls, tree, d + 1)
<1>1. d + 1 \in Nat /\ d + 1 > 0
  OBVIOUS
<1>2. \A n : DefinedAt(ls, Kept(ls), n, (d + 1) + 1) <=> DefinedAt(ls, Kept(ls), n, d + 1)
  BY <1>1, DefinedStep
<1> QED  BY <1>2 DEF NamesAt

-----------------------------------------------------------------------------
(* Filn_GetsMif on a line of the file.                                      *)

(* What the steps of Filn_GetsMif do to the stack, for a line of kind k.    *)
LEMMA StackDone ==
  ASSUME TypeInvariant, StackInvariant, NEW ls \in Seq(Line), Plain(ls),
         NEW d \in Nat, d < Len(ls), Agrees(ls, d),
         phase = "read", NEW x \in Line, MM_ptr = <<x>>, Shows(x, ls[d + 1]), phase' = "read",
         Text \/ SkipIf \/ SkipEndif \/ Skip \/ If \/ Elif \/ Else \/ Endif
  PROVE  IfsAt(ls, Kept(ls), mifCur', mifChkSnc', mifStk', d + 1)
<1>1. /\ Got = x /\ x.k = ls[d + 1].k
      /\ IfsAt(ls, Kept(ls), mifCur, mifChkSnc, mifStk, d)
  BY DEF Got, Shows, Agrees
<1>2. /\ mifCur \in Nat /\ mifCur <= FILN_IF_NEST /\ mifChkSnc \in Nat /\ FILN_IF_NEST \in Nat
      /\ mifStk \in [0..FILN_IF_NEST -> 0..3] /\ mifStk[0] = 0 /\ mifStk[mifCur] \in 0..3
      /\ mifChkSnc > 0 => Dead
  BY NestNat DEF StackInvariant, StackTypes, StackDiscipline
<1>3. Rises(ls, d) /\ Rises(ls, d + 1) /\ (x.k \in {"else", "elif"} => OpenAfter(ls, d + 1) >= 1)
  BY <1>1, PlainLine
<1>4. x.k \in {"if", "elif"} => (Truth(Got) <=> HoldsAt(ls, Kept(ls), d + 1))
  BY <1>1, TruthHolds DEF Shows, Agrees
<1>5. mifCur + mifChkSnc = OpenAfter(ls, d)
  BY <1>1 DEF IfsAt
<1>6. CASE Text \/ Skip
  <2>1. UNCHANGED <<mifCur, mifStk, mifChkSnc>>
    BY <1>6 DEF Text, Skip, stacks
  <2>2. x.k \notin {"if", "endif"} /\ (x.k \in {"elif", "else"} => mifChkSnc > 0)
    BY <1>1, <1>6 DEF Text, Skip, Gets, Got
  <2> QED  BY <1>1, <1>2, <2>1, <2>2, IfsStay
<1>7. CASE SkipIf
  <2>1. UNCHANGED <<mifCur, mifStk>> /\ mifChkSnc' = mifChkSnc + 1 /\ x.k = "if"
    BY <1>1, <1>7 DEF SkipIf, Gets, Got
  <2>2. PICK n \in Nat : n = mifChkSnc' /\ mifCur + n = mifCur + mifChkSnc + 1
    BY <1>2, <2>1
  <2>3. ls[d + 1].k = "if" /\ SameBelow(mifStk, mifStk, mifCur)
    BY <1>1, <2>1 DEF SameBelow
  <2>4. IfsAt(ls, Kept(ls), mifCur, n, mifStk, d + 1)
    BY <1>1, <1>2, <1>3, <2>2, <2>3, IfsOpened
  <2> QED  BY <2>1, <2>2, <2>4
<1>8. CASE SkipEndif
  <2>1. UNCHANGED <<mifCur, mifStk>> /\ mifChkSnc' = mifChkSnc - 1 /\ mifChkSnc > 0 /\ x.k = "endif"
    BY <1>1, <1>8 DEF SkipEndif, Gets, Got
  <2>2. PICK n \in Nat : n = mifChkSnc' /\ mifCur + n = mifCur + mifChkSnc - 1 /\ mifCur <= mifCur
    BY <1>2, <2>1
  <2>3. ls[d + 1].k = "endif" /\ SameBelow(mifStk, mifStk, mifCur)
    BY <1>1, <2>1 DEF SameBelow
  <2>4. IfsAt(ls, Kept(ls), mifCur, n, mifStk, d + 1)
    BY <1>1, <1>2, <1>3, <2>2, <2>3, IfsClosed
  <2> QED  BY <2>1, <2>2, <2>4
<1>9. CASE If
  <2>1. /\ x.k = "if" /\ ~Dead /\ mifChkSnc' = 0 /\ mifCur < FILN_IF_NEST
        /\ mifCur' = mifCur + 1
        /\ mifStk' = [mifStk EXCEPT ![mifCur + 1] = IF Truth(Got) THEN 1 ELSE 2]
    BY <1>1, <1>2, <1>9 DEF If, Live, Gets, Got
  <2>2. mifChkSnc = 0 /\ mifCur + 1 \in 0..FILN_IF_NEST /\ mifCur + 1 \in Nat
    BY <1>2, <2>1
  <2>3. mifStk'[mifCur + 1] = IF HoldsAt(ls, Kept(ls), d + 1) THEN 1 ELSE 2
    BY <1>2, <1>4, <2>1, <2>2
  <2>4. SameBelow(mifStk', mifStk, mifCur)
    BY <1>2, <2>1 DEF SameBelow
  <2>5. PICK c \in Nat, o \in Nat :
          /\ c = mifCur' /\ o = mifChkSnc' /\ c = mifCur + 1
          /\ c + o = mifCur + mifChkSnc + 1
    BY <1>2, <2>1, <2>2
  <2>6. mifStk'[c] = IF HoldsAt(ls, Kept(ls), d + 1) THEN 1 ELSE 2
    BY <2>1, <2>3, <2>5
  <2>7. ls[d + 1].k = "if"
    BY <1>1, <2>1
  <2>8. IfsAt(ls, Kept(ls), c, o, mifStk', d + 1)
    BY <1>1, <1>2, <1>3, <2>2, <2>4, <2>5, <2>6, <2>7, IfsOpened
  <2> QED  BY <2>5, <2>8
<1>10. CASE Elif \/ Else
  <2>1. /\ x.k \in {"elif", "else"} /\ (~Dead \/ mifChkSnc = 0) /\ mifChkSnc' = 0
        /\ UNCHANGED mifCur
    BY <1>1, <1>10 DEF Elif, Else, Obeys, Live, Gets, Got
  <2>2. mifChkSnc = 0
    BY <1>2, <2>1
  <2>3. OpenAfter(ls, d + 1) = OpenAfter(ls, d)
    BY <1>1, <2>1, OpenStep
  <2>4. mifCur >= 1 /\ mifCur \in 1..OpenAfter(ls, d)
    BY <1>2, <1>3, <1>5, <2>1, <2>2, <2>3
  <2>5. mifStk[mifCur] # 0
    <3>1. PICK i \in 1..d : Around(ls, i, d + 1) /\ OpenAfter(ls, i) = mifCur
      BY <1>1, <2>4 DEF IfsAt
    <3> QED  BY <1>1, <1>2, <3>1 DEF IfsAt, StateAt
  <2>6. mifStk' = [mifStk EXCEPT ![mifCur] =
                     IF mifStk[mifCur] = 2
                     THEN IF HoldsAt(ls, Kept(ls), d + 1) THEN 1 ELSE 2
                     ELSE 3]
    <3>1. CASE Elif
      <4>1. x.k = "elif"
        BY <1>1, <3>1 DEF Elif, Obeys, Live, Gets, Got
      <4>2. CASE mifStk[mifCur] = 1
        BY <3>1, <4>2 DEF Elif, Branch
      <4>3. CASE mifStk[mifCur] = 2
        BY <1>4, <3>1, <4>1, <4>3 DEF Elif, Branch
      <4>4. CASE mifStk[mifCur] = 3
        <5>1. mifStk' = mifStk
          BY <3>1, <4>4 DEF Elif
        <5> QED  BY <1>2, <4>4, <5>1
      <4> QED  BY <1>2, <2>5, <4>2, <4>3, <4>4
    <3>2. CASE Else
      <4>1. ls[d + 1].k = "else"
        BY <1>1, <3>2 DEF Else, Obeys, Live, Gets, Got
      <4>2. HoldsAt(ls, Kept(ls), d + 1)
        BY <4>1 DEF HoldsAt
      <4>3. CASE mifStk[mifCur] = 2
        BY <3>2, <4>2, <4>3 DEF Else, Branch
      <4>4. CASE mifStk[mifCur] # 2
        BY <2>5, <3>2, <4>4 DEF Else, Branch
      <4> QED  BY <4>3, <4>4
    <3> QED  BY <1>10, <3>1, <3>2
  <2>7. /\ SameBelow(mifStk', mifStk, mifCur - 1)
        /\ mifStk'[mifCur] = IF mifStk[mifCur] = 2
                             THEN IF HoldsAt(ls, Kept(ls), d + 1) THEN 1 ELSE 2
                             ELSE 3
    BY <1>2, <2>6 DEF SameBelow
  <2>8. IfsAt(ls, Kept(ls), mifCur, 0, mifStk, d) /\ ls[d + 1].k \in {"elif", "else"}
    BY <1>1, <2>1, <2>2
  <2>9. IfsAt(ls, Kept(ls), mifCur, 0, mifStk', d + 1)
    BY <1>2, <1>3, <2>7, <2>8, IfsDivided
  <2> QED  BY <2>1, <2>9
<1>11. CASE Endif
  <2>1. /\ x.k = "endif" /\ (~Dead \/ mifChkSnc = 0) /\ mifChkSnc' = 0
        /\ mifCur # 0 => mifCur' = mifCur - 1
        /\ mifStk' = [mifStk EXCEPT ![mifCur] = 0]
    BY <1>1, <1>11 DEF Endif, Obeys, Live, Gets, Got, Branch
  <2>2. mifChkSnc = 0
    BY <1>2, <2>1
  <2>3. OpenAfter(ls, d + 1) = OpenAfter(ls, d) - 1 /\ OpenAfter(ls, d + 1) \in Nat
    <3>1. ls[d + 1].k = "endif" /\ d + 1 \in 0..(d + 1)
      BY <1>1, <2>1
    <3>2. OpenAfter(ls, d + 1) \in Nat
      BY <1>3, <3>1 DEF Rises
    <3> QED  BY <3>1, <3>2, OpenStep
  <2>4. mifCur # 0
    BY <1>2, <1>5, <2>2, <2>3
  <2>5. PICK c \in Nat, o \in Nat :
          /\ c = mifCur' /\ o = mifChkSnc' /\ c = mifCur - 1 /\ c <= mifCur
          /\ c + o = mifCur + mifChkSnc - 1
    BY <1>2, <2>1, <2>2, <2>4
  <2>8. SameBelow(mifStk', mifStk, c)
    BY <1>2, <2>1, <2>5 DEF SameBelow
  <2>6. ls[d + 1].k = "endif"
    BY <1>1, <2>1
  <2>7. IfsAt(ls, Kept(ls), c, o, mifStk', d + 1)
    BY <1>1, <1>2, <1>3, <2>5, <2>6, <2>8, IfsClosed
  <2> QED  BY <2>1, <2>5, <2>7
<1> QED  BY <1>6, <1>7, <1>8, <1>9, <1>10, <1>11

LEMMA LineDone ==
  ASSUME TypeInvariant, StackInvariant, NEW ls \in Seq(Line), Plain(ls),
         NEW d \in Nat, d < Len(ls), InHand(ls, d), scan = NoScan, GetsMif
  PROVE  /\ UNCHANGED <<inclStk, mifMacCur, scan>> /\ phase' \in {"read", "exit"}
         /\ phase' = "read" => Between(ls, d + 1)'
<1>1. PICK x \in Line : /\ MM_ptr = <<x>> /\ Shows(x, ls[d + 1])
                        /\ x.k \in {"define", "undef"} => MM_mifChk
  BY DEF InHand
<1>2. Got = x /\ x.k = ls[d + 1].k /\ (x.k = "text" => x = ls[d + 1])
  BY <1>1 DEF Got, Shows
<1>3. x.k \in {"text", "if", "elif", "else", "endif", "define", "undef"}
  BY <1>2, PlainLine
<1>4. Text \/ SkipIf \/ SkipEndif \/ Skip \/ If \/ Elif \/ Else \/ Endif
  BY <1>2, <1>3 DEF GetsMif, MacroStart, MacroEnd, ExitMacro, Scan, Include, Report,
                    Live, Gets, Got
<1>5. /\ Take /\ UNCHANGED <<inclStk, mifMacCur, scan>> /\ phase' \in {"read", "exit"}
  BY <1>4 DEF InHand, Text, SkipIf, SkipEndif, Skip, If, Elif, Else, Endif, stacks
<1>6. MM_ptr' = <<>> /\ macros' = macros
  BY <1>1, <1>5 DEF Take, expansion
<1>7. Agrees(ls, d) /\ phase = "read"
  BY DEF InHand
<1>8. NamesAt(ls, macros, d + 1)
  <2>1. ls[d + 1].k \in {"define", "undef"} => ~Kept(ls)[d + 1]
    BY <1>1, <1>2, <1>7, KeptUnlessSkipped
  <2> QED  BY <1>7, <2>1, NamesStay DEF Agrees
<1>9. LinesAt(out', ls, Upto(ls, d + 1))
  <2>1. /\ Len(ls) \in Nat /\ ls[d + 1] \in Line /\ d + 1 \in 1..Len(ls) /\ out \in Seq(Line)
    BY PlainLine, TypeParts DEF TextTypes
  <2>2. d + 1 \in KeptText(ls) <=> ls[d + 1].k = "text" /\ ~MM_mifChk
    BY <1>7, <2>1, KeptUnlessSkipped DEF KeptText
  <2>3. out' = IF d + 1 \in KeptText(ls) THEN Append(out, ls[d + 1]) ELSE out
    <3>1. CASE Text
      <4>1. x.k = "text" /\ out' = IF MM_mifChk THEN out ELSE Append(out, x)
        BY <1>2, <3>1 DEF Text, Gets, Got
      <4> QED  BY <1>2, <2>2, <4>1
    <3>2. CASE ~Text
      <4>1. out' = out /\ x.k # "text"
        BY <1>2, <1>4, <3>2 DEF SkipIf, SkipEndif, Skip, If, Elif, Else, Endif,
                                Live, Obeys, Gets, Got
      <4> QED  BY <1>2, <2>2, <4>1
    <3> QED  BY <3>1, <3>2
  <2> QED  BY <1>7, <2>1, <2>3, LinesStep DEF Agrees
<1>10. ASSUME phase' = "read"
       PROVE  Between(ls, d + 1)'
  <2>1. IfsAt(ls, Kept(ls), mifCur', mifChkSnc', mifStk', d + 1)
    BY <1>1, <1>4, <1>7, <1>10, StackDone
  <2>2. NamesAt(ls, macros', d + 1)
    BY <1>6, <1>8
  <2>3. Agrees(ls, d + 1)'
    BY <1>9, <2>1, <2>2 DEF Agrees
  <2> QED  BY <1>6, <1>10, <2>3 DEF Between
<1> QED  BY <1>5, <1>10

-----------------------------------------------------------------------------
(* MM_Macc on a line of the file.                                           *)

(* A single call that has one line to scan, or none.                        *)
LEMMA OneCall ==
  ASSUME TypeInvariant, phase = "macc", Len(frames) = 1, frames[1].at = 0
  PROVE  /\ frames[1] \in Calls /\ Last(frames) = frames[1] /\ DOMAIN frames = 1..1
         /\ \A l \in Line : frames[1].text = <<l>>
              => /\ Scanned = l /\ \A ks : Scans(ks) <=> l.k \in ks
                 /\ Len(Advance) = 1 /\ Advance[1].text = <<>>
                 /\ Advance[1].name = frames[1].name /\ Advance[1].at = 0
<1>1. /\ Last(frames) \in Calls /\ Last(frames) = frames[1] /\ DOMAIN frames = 1..1
      /\ frames \in Seq(Calls)
  <2>1. TextTypes
    BY TypeParts
  <2>2. Last(frames) \in Calls /\ frames \in Seq(Calls)
    BY <2>1, InnermostCall DEF TextTypes
  <2>3. Last(frames) = frames[1]
    BY DEF Last
  <2> QED  BY <2>2, <2>3, LenProperties
<1>2. ASSUME NEW l \in Line, frames[1].text = <<l>>
      PROVE  /\ Scanned = l /\ \A ks : Scans(ks) <=> l.k \in ks
             /\ Len(Advance) = 1 /\ Advance[1].text = <<>>
             /\ Advance[1].name = frames[1].name /\ Advance[1].at = 0
  <2>1. Scanned = l /\ Tail(<<l>>) = <<>> /\ <<l>> # <<>>
    BY <1>1, <1>2 DEF Scanned
  <2>2. \A ks : Scans(ks) <=> l.k \in ks
    BY <1>1, <1>2, <2>1 DEF Scans, Scanned
  <2> DEFINE f == [frames[1] EXCEPT !.text = Tail(@)]
  <2>3. Advance = [frames EXCEPT ![1] = f]
    BY DEF Advance
  <2>4. f.text = <<>> /\ f.name = frames[1].name /\ f.at = 0 /\ f \in Calls
    <3>1. <<>> \in Seq(Line)
      BY EmptySeq
    <3> QED  BY <1>1, <1>2, <2>1, <3>1 DEF Calls
  <2> HIDE DEF f
  <2>5. Len(Advance) = 1 /\ Advance[1] = f
    <3>1. 1 \in 1..Len(frames)
      OBVIOUS
    <3> QED  BY <1>1, <2>3, <2>4, <3>1, ExceptSeq
  <2> QED  BY <2>1, <2>2, <2>4, <2>5
<1> QED  BY <1>1, <1>2

(* What is defined after a #define or #undef that is obeyed.                *)
LEMMA NamesChange ==
  ASSUME TypeInvariant, NEW ls \in Seq(Line), Plain(ls), NEW d \in Nat, d < Len(ls),
         NamesAt(ls, macros, d), Kept(ls)[d + 1], NEW n, n = ls[d + 1].n,
         NEW e, macros' = [macros EXCEPT ![n] = e],
         \/ ls[d + 1].k = "define" /\ Found(e)
         \/ ls[d + 1].k = "undef" /\ ~Found(e)
  PROVE  NamesAt(ls, macros', d + 1)
<1>1. DOMAIN macros = Names \cup {Nameless, NoName} /\ DOMAIN macros' = DOMAIN macros
  BY TypeParts DEF TextTypes
<1>2. n \in DOMAIN macros
  BY <1>1, PlainLine
<1>3. d + 1 \in Nat /\ d + 1 > 0
  OBVIOUS
<1>4. ASSUME NEW m \in DOMAIN macros
      PROVE  Found(macros'[m]) <=> DefinedAt(ls, Kept(ls), m, (d + 1) + 1)
  <2>1. Found(macros[m]) <=> DefinedAt(ls, Kept(ls), m, d + 1)
    BY <1>4 DEF NamesAt
  <2>2. DefinedAt(ls, Kept(ls), m, (d + 1) + 1)
          <=> \/ ls[d + 1].k = "define" /\ n = m
              \/ DefinedAt(ls, Kept(ls), m, d + 1) /\ ~(ls[d + 1].k = "undef" /\ n = m)
    BY <1>3, DefinedStep
  <2>3. CASE m = n
    <3>1. macros'[m] = e
      BY <1>2, <2>3
    <3> QED  BY <2>2, <2>3, <3>1
  <2>4. CASE m # n
    <3>1. macros'[m] = macros[m]
      BY <1>4, <2>4
    <3> QED  BY <2>1, <2>2, <2>4, <3>1
  <2> QED  BY <2>3, <2>4
<1> QED  BY <1>1, <1>4 DEF NamesAt

(* The number an #if or #elif is given is not 0 when its condition is true. *)
LEMMA ResolvedShows ==
  ASSUME TypeInvariant, NEW l \in Line, l.k \in {"if", "elif"}, l.h \in {"number", "defined"}
  PROVE  Resolved(l) \in Line /\ Resolved(l).k = l.k /\ Shows(Resolved(l), l)
<1>1. Resolved(l) \in Line
  BY TypeParts, ResolvedType
<1>2. l \in [k : Kinds, n : Names \cup FileNames \cup {NoName, Nameless}, v : Int,
            h : Hows, to : Names \cup {NoName}]
  BY DEF Line
<1>3. CASE l.h = "number"
  <2>1. Resolved(l) = l
    BY <1>3 DEF Resolved
  <2> QED  BY <1>1, <2>1 DEF Shows
<1>4. CASE l.h = "defined"
  <2>1. Resolved(l) = [l EXCEPT !.h = "number", !.v = IF Found(macros[l.n]) THEN 1 ELSE 0]
    BY <1>4 DEF Resolved
  <2>2. /\ Resolved(l).k = l.k /\ Resolved(l).h = "number"
        /\ Resolved(l).v = IF Found(macros[l.n]) THEN 1 ELSE 0
    BY <1>2, <2>1
  <2>3. Truth(l) <=> Found(macros[l.n])
    BY <1>4 DEF Truth
  <2>4. Truth(Resolved(l)) <=> Resolved(l).v # 0
    BY <2>2 DEF Truth
  <2> QED  BY <1>1, <2>2, <2>3, <2>4 DEF Shows
<1> QED  BY <1>3, <1>4

(* MM_Macc obeys the line, or hands it to Filn_GetsMif.                     *)
LEMMA LineScanned ==
  ASSUME TypeInvariant, StackInvariant, NEW ls \in Seq(Line), Plain(ls),
         NEW d \in Nat, d < Len(ls), Scanning(ls, d), Macc
  PROVE  /\ UNCHANGED <<inclStk, mifMacCur, scan>> /\ phase' \in {"read", "macc"}
         /\ phase' = "macc" => Scanning(ls, d)'
         /\ phase' = "read" => InHand(ls, d)' \/ Between(ls, d + 1)'
<1>1. /\ phase = "macc" /\ MM_ptr = <<>> /\ ~MM_mifChk
      /\ Len(frames) = 1 /\ frames[1].name = NoName /\ frames[1].at = 0
  BY DEF Scanning
<1>2. UNCHANGED <<inclStk, stacks, scan, out>>
  BY DEF Macc, MaccText, MaccExpand, MaccAsk, MaccAnswer, MaccReturn, MaccDefine, MaccUndef,
         MaccCopy
<1>3. UNCHANGED <<mifCur, mifStk, mifChkSnc, mifMacCur>> /\ (MM_mifChk' <=> MM_mifChk)
  BY <1>2 DEF stacks, MM_mifChk, Dead
<1> DEFINE l == ls[d + 1]
<1>4. /\ l \in Line /\ l.k \in {"text", "if", "elif", "else", "endif", "define", "undef"}
      /\ (l.k = "text" => l.n = NoName) /\ l.h \in {"number", "defined"}
      /\ l.n \in Names \cup {NoName, Nameless}
  BY PlainLine
<1> HIDE DEF l
<1>5. CASE frames[1].text = <<l>> /\ mbuf = <<>> /\ Agrees(ls, d)
  <2>1. /\ Scanned = l /\ \A ks : Scans(ks) <=> l.k \in ks
        /\ Len(Advance) = 1 /\ Advance[1].text = <<>> /\ Advance[1].name = NoName
        /\ Advance[1].at = 0
    BY <1>1, <1>4, <1>5, OneCall
  <2>2. Kept(ls)[d + 1]
    BY <1>1, <1>5, KeptUnlessSkipped
  <2>3. ~Expands(Scanned) /\ (l.k = "text" => ~Counts(Scanned))
    BY <1>4, <2>1, ConstantsAssumption DEF Expands, Asking, Counts
  <2>4. CASE MaccText
    <3>1. /\ l.k = "text" /\ mbuf' = Append(<<>>, l) /\ frames' = Advance
          /\ UNCHANGED <<macros, MM_ptr, phase>>
      BY <1>5, <2>1, <2>3, <2>4 DEF MaccText
    <3>2. mbuf' = <<l>>
      BY <3>1
    <3>3. Agrees(ls, d)' /\ Shows(l, l)'
      BY <1>2, <1>3, <1>5, <3>1 DEF Agrees, Shows
    <3>4. Scanning(ls, d)'
      BY <1>1, <1>3, <1>4, <2>1, <3>1, <3>2, <3>3 DEF Scanning, l
    <3> QED  BY <1>1, <1>2, <1>3, <3>1, <3>4
  <2>5. CASE MaccCopy
    <3>1. /\ l.k \in {"if", "elif", "else", "endif"} /\ frames' = Advance
          /\ mbuf' = Append(<<>>, IF l.k \in {"if", "elif"} THEN Resolved(l) ELSE l)
          /\ UNCHANGED <<macros, MM_ptr, phase>>
      BY <1>4, <1>5, <2>1, <2>5 DEF MaccCopy
    <3>2. PICK x \in Line : mbuf' = <<x>> /\ Shows(x, l) /\ x.k = l.k
      <4>1. CASE l.k \in {"if", "elif"}
        BY <1>4, <3>1, <4>1, ResolvedShows
      <4>2. CASE l.k \notin {"if", "elif"}
        BY <1>4, <3>1, <4>2 DEF Shows
      <4> QED  BY <4>1, <4>2
    <3>3. Agrees(ls, d)' /\ Shows(x, l)'
      BY <1>2, <1>3, <1>5, <3>1, <3>2 DEF Agrees, Shows, Truth
    <3>4. Scanning(ls, d)'
      BY <1>1, <1>3, <2>1, <3>1, <3>2, <3>3 DEF Scanning, l
    <3> QED  BY <1>1, <1>2, <1>3, <3>1, <3>4
  <2>6. CASE MaccDefine \/ MaccUndef
    <3>1. PICK e : /\ macros' = [macros EXCEPT ![l.n] = e]
                   /\ \/ l.k = "define" /\ Found(e)
                      \/ l.k = "undef" /\ ~Found(e)
      <4>1. CASE MaccDefine
        <5> DEFINE b == <<[Number(l.v) EXCEPT !.n = l.to]>>
                   e == MTREE_Add(macros[l.n], "def", 0, b)
        <5>1. l.k = "define" /\ macros' = [macros EXCEPT ![l.n] = e]
          BY <1>4, <2>1, <4>1 DEF MaccDefine, Define
        <5>2. macros[l.n] \in Entries
          BY <1>4, TypeParts DEF TextTypes
        <5> HIDE DEF b
        <5>3. Found(e)
          BY <5>2 DEF MTREE_Add, Clashes, Found, Entries
        <5> QED  BY <5>1, <5>3
      <4>2. CASE MaccUndef
        <5>1. l.k = "undef" /\ macros' = [macros EXCEPT ![l.n] = M_Undef(@)]
          BY <1>4, <2>1, <4>2 DEF MaccUndef
        <5>2. macros[l.n] \in Entries
          BY <1>4, TypeParts DEF TextTypes
        <5>3. ~Found(M_Undef(macros[l.n]))
          BY <5>2 DEF M_Undef, Found, Entries
        <5> QED  BY <5>1, <5>3
      <4> QED  BY <2>6, <4>1, <4>2
    <3>2. frames' = Advance /\ UNCHANGED <<mbuf, MM_ptr, phase>>
      BY <2>6 DEF MaccDefine, MaccUndef
    <3>3. NamesAt(ls, macros', d + 1)
      BY <1>5, <2>2, <3>1, NamesChange DEF Agrees, l
    <3>4. IfsAt(ls, Kept(ls), mifCur, mifChkSnc, mifStk, d + 1)
      <4>1. /\ mifCur \in Nat /\ mifChkSnc \in Nat
            /\ ls[d + 1].k \notin {"if", "endif", "elif", "else"}
        BY <3>1, NestNat DEF StackInvariant, StackTypes, l
      <4> QED  BY <1>5, <4>1, IfsStay DEF Agrees
    <3>5. LinesAt(out, ls, Upto(ls, d + 1))
      <4>1. Len(ls) \in Nat /\ l.k # "text"
        BY <3>1, PlainLine
      <4>2. d + 1 \notin KeptText(ls)
        BY <4>1 DEF KeptText, l
      <4>3. Upto(ls, d + 1) = Upto(ls, d) \cup {} /\ Upto(ls, d) \cup {} = Upto(ls, d)
        BY <4>1, <4>2, UptoStep
      <4> QED  BY <1>5, <4>3 DEF Agrees
    <3>6. Agrees(ls, d + 1)'
      BY <1>2, <1>3, <3>3, <3>4, <3>5 DEF Agrees
    <3>7. Scanning(ls, d)'
      BY <1>1, <1>3, <1>5, <2>1, <3>2, <3>6 DEF Scanning
    <3> QED  BY <1>1, <1>2, <1>3, <3>2, <3>7
  <2>7. ~MaccExpand /\ ~MaccAsk
    BY <2>3 DEF MaccExpand, MaccAsk
  <2>8. ~MaccReturn /\ ~MaccAnswer
    <3>1. Last(frames).text = <<l>> /\ <<l>> # <<>> /\ Last(frames).at = 0
      BY <1>1, <1>5, OneCall
    <3> QED  BY <3>1 DEF MaccReturn, MaccAnswer
  <2> QED  BY <2>4, <2>5, <2>6, <2>7, <2>8 DEF Macc
<1>6. ASSUME frames[1].text = <<>>
      PROVE  /\ phase' = "read" /\ MM_ptr' = mbuf /\ UNCHANGED macros
  <2>1. Last(frames) = frames[1]
    BY <1>1, OneCall
  <2>2. MaccReturn
    BY <1>1, <1>6, <2>1 DEF Macc, MaccText, MaccExpand, MaccAsk, MaccAnswer, MaccDefine, MaccUndef,
                            MaccCopy, Scans
  <2>3. EndCall
    BY <1>1, <2>1, <2>2 DEF MaccReturn
  <2> QED  BY <1>1, <2>2, <2>3 DEF EndCall, MaccReturn
<1>7. CASE /\ frames[1].text = <<>> /\ Agrees(ls, d)
           /\ \E x \in Line : /\ mbuf = <<x>> /\ Shows(x, l)
                              /\ x.k \notin {"define", "undef"}
  <2>1. PICK x \in Line : mbuf = <<x>> /\ Shows(x, l) /\ x.k \notin {"define", "undef"}
    BY <1>7
  <2>2. Agrees(ls, d)' /\ Shows(x, l)'
    BY <1>2, <1>3, <1>6, <1>7, <2>1 DEF Agrees, Shows, Truth
  <2>3. InHand(ls, d)'
    BY <1>6, <1>7, <2>1, <2>2 DEF InHand, l
  <2> QED  BY <1>2, <1>3, <1>6, <1>7, <2>3
<1>8. CASE frames[1].text = <<>> /\ mbuf = <<>> /\ Agrees(ls, d + 1)
  <2>1. Agrees(ls, d + 1)'
    BY <1>2, <1>3, <1>6, <1>8 DEF Agrees
  <2>2. Between(ls, d + 1)'
    BY <1>6, <1>8, <2>1 DEF Between
  <2> QED  BY <1>2, <1>3, <1>6, <1>8, <2>2
<1> QED  BY <1>5, <1>7, <1>8 DEF Scanning, l

-----------------------------------------------------------------------------
(* The lines are read one after the other.                                  *)
LEMMA LineRead ==
  ASSUME TypeInvariant, NEW ls \in Seq(Line), ls = files[MainFile], Plain(ls),
         NEW d \in Nat, d <= Len(ls), OneFile(d), Between(ls, d), GetLine
  PROVE  \/ phase' = "eof" /\ LinesAt(out', ls, KeptText(ls))
         \/ d < Len(ls) /\ OneFile(d + 1)' /\ (InHand(ls, d)' \/ Scanning(ls, d)')
<1>1. /\ Len(ls) \in Nat /\ phase = "read" /\ MM_ptr = <<>> /\ Agrees(ls, d)
      /\ inclStk = <<[file |-> MainFile, lin |-> d]>> /\ scan = NoScan /\ mifMacCur = 0
  BY LenProperties DEF OneFile, Between
<1>2. /\ Len(inclStk) = 1 /\ inclStk[1] = [file |-> MainFile, lin |-> d]
      /\ Last(inclStk) = [file |-> MainFile, lin |-> d]
  BY <1>1 DEF Last
<1>3. Input = ls /\ Rest = SubSeq(ls, d + 1, Len(ls))
  BY <1>2 DEF Input, Rest
<1>4. /\ SubSeq(ls, d + 1, Len(ls)) \in Seq(Line)
      /\ Len(SubSeq(ls, d + 1, Len(ls))) = Len(ls) - d
      /\ d < Len(ls) => SubSeq(ls, d + 1, Len(ls))[1] = ls[d + 1]
  <2>1. \A i \in (d + 1)..Len(ls) : ls[i] \in Line
    <3>1. \A i \in (d + 1)..Len(ls) : i \in 1..Len(ls)
      BY <1>1
    <3> QED  BY <3>1, ElementOfSeq
  <2>2. d + 1 \in Int /\ Len(ls) \in Int /\ d + 1 \in 1..(Len(ls) + 1)
    BY <1>1
  <2> QED  BY <1>1, <2>1, <2>2, SubSeqProperties
<1>5. Rest # <<>> <=> d < Len(ls)
  BY <1>1, <1>3, <1>4, EmptySeq
<1>6. d < Len(ls) => /\ Head(Rest) = ls[d + 1] /\ ls[d + 1] \in Line
                     /\ ls[d + 1].k # "macro"
  <2> SUFFICES ASSUME d < Len(ls)
               PROVE  /\ Head(Rest) = ls[d + 1] /\ ls[d + 1] \in Line
                      /\ ls[d + 1].k # "macro"
    OBVIOUS
  <2>1. Head(Rest) = Rest[1]
    BY <1>3, <1>4, <1>5, HeadTailProperties
  <2> QED  BY <1>3, <1>4, <2>1, PlainLine
<1>7. UNCHANGED <<stacks, scan, out, files>>
  BY DEF GetLine, ReadRaw, ReadExpand, ReadMacro, EndFile
<1>8. UNCHANGED <<mifCur, mifStk, mifChkSnc, mifMacCur>> /\ (MM_mifChk' <=> MM_mifChk)
  BY <1>7 DEF stacks, MM_mifChk, Dead
<1>9. TakeLines(1) => OneFile(d + 1)'
  <2> SUFFICES ASSUME TakeLines(1)
               PROVE  OneFile(d + 1)'
    OBVIOUS
  <2>1. inclStk' = [inclStk EXCEPT ![1].lin = @ + 1]
    BY <1>2 DEF TakeLines
  <2>2. inclStk' = <<[file |-> MainFile, lin |-> d + 1]>>
    BY <1>1, <2>1
  <2> QED  BY <1>1, <1>7, <1>8, <2>2 DEF OneFile
<1>10. CASE ReadRaw
  <2>1. /\ d < Len(ls) /\ MM_ptr' = <<ls[d + 1]>> /\ MM_mifChk /\ UNCHANGED <<macros, phase>>
        /\ TakeLines(1)
    BY <1>5, <1>6, <1>10 DEF ReadRaw, expansion
  <2>2. Agrees(ls, d)' /\ Shows(ls[d + 1], ls[d + 1])'
    BY <1>1, <1>7, <1>8, <2>1 DEF Agrees, Shows
  <2>3. InHand(ls, d)'
    BY <1>1, <1>6, <1>8, <2>1, <2>2 DEF InHand
  <2> QED  BY <1>9, <2>1, <2>3
<1>11. CASE ReadExpand
  <2>1. /\ d < Len(ls) /\ frames' = <<Call(<<ls[d + 1]>>, NoName, 0)>> /\ mbuf' = <<>>
        /\ phase' = "macc" /\ ~MM_mifChk /\ UNCHANGED <<macros, MM_ptr>> /\ TakeLines(1)
    BY <1>5, <1>6, <1>11 DEF ReadExpand
  <2>2. Agrees(ls, d)'
    BY <1>1, <1>7, <1>8, <2>1 DEF Agrees
  <2>3. Len(frames') = 1 /\ frames'[1].name = NoName /\ frames'[1].text = <<ls[d + 1]>>
        /\ frames'[1].at = 0
    BY <2>1 DEF Call
  <2>4. Scanning(ls, d)'
    BY <1>1, <1>8, <2>1, <2>2, <2>3 DEF Scanning
  <2> QED  BY <1>9, <2>1, <2>4
<1>12. CASE ReadMacro
  BY <1>5, <1>6, <1>12 DEF ReadMacro
<1>13. CASE EndFile
  <2>1. phase' = "eof" /\ d = Len(ls)
    BY <1>1, <1>2, <1>5, <1>13 DEF EndFile
  <2>2. LinesAt(out, ls, Upto(ls, Len(ls))) /\ Upto(ls, Len(ls)) = KeptText(ls)
    BY <1>1, <2>1, UptoEnds DEF Agrees
  <2> QED  BY <1>7, <2>1, <2>2
<1> QED  BY <1>10, <1>11, <1>12, <1>13 DEF GetLine

LEMMA InitKept == Init => KeptInvariant
<1> SUFFICES ASSUME Init, DOMAIN files = {MainFile}, NEW ls, ls = files[MainFile], Plain(ls)
             PROVE  Place(ls) /\ phase # "eof"
  BY DEF KeptInvariant
<1>1. /\ phase = "read" /\ MM_ptr = <<>> /\ OneFile(0) /\ out = <<>>
      /\ mifCur = 0 /\ mifChkSnc = 0 /\ macros = [n \in Names \cup {Nameless, NoName} |-> NoEntry]
  BY DEF Init, OneFile
<1>2. ls \in Seq(Line) /\ Len(ls) \in Nat
  <2>1. ls \in Seq(Line)
    BY ConstantsAssumption DEF Init
  <2> QED  BY <2>1, LenProperties
<1>3. NamesAt(ls, macros, 0)
  <2>1. 1..((0 + 1) - 1) = {}
    OBVIOUS
  <2>2. \A n : ~DefinedAt(ls, Kept(ls), n, 0 + 1)
    BY <2>1 DEF DefinedAt
  <2>3. \A n \in DOMAIN macros : ~Found(macros[n])
    BY <1>1 DEF Found, NoEntry
  <2> QED  BY <2>2, <2>3 DEF NamesAt
<1>4. IfsAt(ls, Kept(ls), mifCur, mifChkSnc, mifStk, 0)
  <2>1. OpenAfter(ls, 0) = 0
    BY OpenStep
  <2>2. 1..0 = {}
    OBVIOUS
  <2> QED  BY <1>1, <2>1, <2>2 DEF IfsAt
<1>5. LinesAt(out, ls, Upto(ls, 0))
  <2>1. Upto(ls, 0) = {} /\ Cardinality({}) = 0 /\ Len(<<>>) = 0
    BY <1>2, UptoEnds, FS_EmptySet
  <2> QED  BY <1>1, <2>1 DEF LinesAt
<1>6. Between(ls, 0)
  BY <1>1, <1>3, <1>4, <1>5 DEF Between, Agrees
<1> QED  BY <1>1, <1>2, <1>6 DEF Place

LEMMA KeptStep ==
  TypeInvariant /\ StackInvariant /\ KeptInvariant /\ [Next]_vars => KeptInvariant'
<1> SUFFICES ASSUME TypeInvariant, StackInvariant, KeptInvariant, [Next]_vars,
                    (DOMAIN files = {MainFile} /\ Plain(files[MainFile]))'
             PROVE  /\ phase' \in {"read", "macc"} => Place(files[MainFile])'
                    /\ phase' = "eof" => LinesAt(out', files'[MainFile], KeptText(files'[MainFile]))
  BY DEF KeptInvariant
<1>1. PICK ls : ls = files[MainFile]
  OBVIOUS
<1>2. files' = files /\ DOMAIN files = {MainFile} /\ Plain(ls)
  BY <1>1, FilesStay
<1>3. ls \in Seq(Line)
  BY <1>1, <1>2, TypeParts DEF InputTypes
<1> SUFFICES /\ phase' \in {"read", "macc"} => Place(ls)'
             /\ phase' = "eof" => LinesAt(out', ls, KeptText(ls))
  BY <1>1, <1>2
<1>4. /\ phase \in {"read", "macc"} => Place(ls)
      /\ phase = "eof" => LinesAt(out, ls, KeptText(ls))
  BY <1>1, <1>2 DEF KeptInvariant
<1>5. CASE UNCHANGED vars
  <2>1. Place(ls)' <=> Place(ls)
    BY <1>5 DEF vars, Place, OneFile, Between, InHand, Scanning, Agrees, Shows, Truth,
                stacks, names, MM_mifChk, Dead
  <2> QED  BY <1>4, <1>5, <2>1 DEF vars
<1>6. CASE Stop
  BY <1>5, <1>6 DEF Stop
<1>7. CASE GetLine
  <2>1. phase = "read" /\ MM_ptr = <<>>
    BY <1>7 DEF GetLine, ReadRaw, ReadExpand, ReadMacro, EndFile, Reading
  <2>2. PICK d \in Nat : d <= Len(ls) /\ OneFile(d) /\ Between(ls, d)
    BY <1>4, <2>1 DEF Place, InHand, Scanning
  <2> QED  BY <1>1, <1>2, <1>3, <1>7, <2>2, LineRead DEF Place, InHand, Scanning
<1>8. CASE Macc
  <2>1. phase = "macc"
    BY <1>8 DEF Macc, MaccText, MaccExpand, MaccAsk, MaccAnswer, MaccReturn, MaccDefine, MaccUndef,
                MaccCopy, Scans
  <2>2. PICK d \in Nat : d < Len(ls) /\ OneFile(d + 1) /\ Scanning(ls, d)
    BY <1>4, <2>1 DEF Place, InHand, Between
  <2>3. /\ UNCHANGED <<inclStk, mifMacCur, scan>> /\ phase' \in {"read", "macc"}
        /\ phase' = "macc" => Scanning(ls, d)'
        /\ phase' = "read" => InHand(ls, d)' \/ Between(ls, d + 1)'
    BY <1>2, <1>3, <1>8, <2>2, LineScanned
  <2>4. OneFile(d + 1)' /\ d + 1 \in Nat /\ d + 1 <= Len(ls)
    <3>1. Len(ls) \in Nat
      BY <1>3, LenProperties
    <3> QED  BY <2>2, <2>3, <3>1 DEF OneFile
  <2> QED  BY <2>2, <2>3, <2>4 DEF Place
<1>9. CASE GetsMif
  <2>1. phase = "read" /\ MM_ptr # <<>>
    BY <1>9 DEF GetsMif, Text, SkipIf, SkipEndif, Skip, If, Elif, Else, Endif,
                MacroStart, MacroEnd, ExitMacro, Scan, Include, Report, Gets, Live, Obeys
  <2>2. PICK d \in Nat : d < Len(ls) /\ OneFile(d + 1) /\ InHand(ls, d)
    BY <1>4, <2>1 DEF Place, Between, Scanning
  <2>3. /\ UNCHANGED <<inclStk, mifMacCur, scan>> /\ phase' \in {"read", "exit"}
        /\ phase' = "read" => Between(ls, d + 1)'
    BY <1>2, <1>3, <1>9, <2>2, LineDone DEF OneFile
  <2>4. OneFile(d + 1)' /\ d + 1 \in Nat /\ d + 1 <= Len(ls)
    <3>1. Len(ls) \in Nat
      BY <1>3, LenProperties
    <3> QED  BY <2>2, <2>3, <3>1 DEF OneFile
  <2> QED  BY <2>3, <2>4 DEF Place
<1> QED  BY <1>5, <1>6, <1>7, <1>8, <1>9 DEF Next

(* src/src/filn.c 4323-4529: for every file of conditionals, #define and    *)
(* #undef, all that Filn hands to the assembler is the text of those lines  *)
(* that are in the first branch, of every #if around them, whose condition  *)
(* holds there, in their order.                                             *)
THEOREM KeptLinesAreDocumented == Spec => []KeptAsDocumented
<1>1. Init => StackInvariant /\ TypeInvariant /\ KeptInvariant
  BY InitStacks, InitTypes, InitKept
<1>2. StackInvariant /\ TypeInvariant /\ KeptInvariant /\ [Next]_vars
        => (StackInvariant /\ TypeInvariant /\ KeptInvariant)'
  BY StackStep, TypeStep, KeptStep
<1>3. KeptInvariant => KeptAsDocumented
  BY DEF KeptInvariant, KeptAsDocumented
<1> QED  BY <1>1, <1>2, <1>3, PTL DEF Spec
=============================================================================
