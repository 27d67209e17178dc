---------------------------- MODULE ImageProofs ----------------------------
(***************************************************************************)
(* Proofs about the image module DcasmPass builds, for every set of         *)
(* sources, names and options.  Pass 2 stays in the block Main allocates    *)
(* from what pass 1 counted: addresses only grow, a line writes from its    *)
(* own address to the next at most, and BoundsInvariant is inductive.  The  *)
(* image has the data of its lines where they belong and zeros elsewhere:   *)
(* ImageInvariant and DataInvariant are inductive.                          *)
(***************************************************************************)
EXTENDS AgreementProofs, SequenceTheorems

-----------------------------------------------------------------------------
(* Addresses only grow.                                                     *)

LEMMA ProductNat ==
  ASSUME NEW m \in Nat, NEW n \in Nat
  PROVE  m * n \in Nat
OBVIOUS

(* Rounding never goes back.                                                *)
LEMMA AlignUpGrows ==
  ASSUME NEW adr \in Nat, NEW n \in Nat \ {0}
  PROVE  AlignUp(adr, n) \in Nat /\ AlignUp(adr, n) >= adr
<1> DEFINE x == adr + n - 1
           q == x \div n
<1>1. x \in Nat
  OBVIOUS
<1>2. q \in Nat /\ q * n \in Nat
  BY <1>1
<1>3. x = q * n + (x % n) /\ (x % n) \in 0..(n - 1)
  BY <1>1
<1>4. q * n >= adr
  <2> HIDE DEF q
  <2>. QED
    BY <1>2, <1>3
<1>. QED
  BY <1>2, <1>4 DEF AlignUp

LEMMA AutoAlignGrows ==
  ASSUME NEW adr \in Nat, NEW md \in Mds, NEW mode \in 0..3
  PROVE  AutoAlign(adr, md, mode) \in Nat /\ AutoAlign(adr, md, mode) >= adr
<1>1. CASE md = 0 \/ mode = 0
  BY <1>1 DEF AutoAlign
<1>2. CASE md # 0 /\ mode # 0
  <2> DEFINE k == IF mode < md THEN mode ELSE md
  <2>1. k \in 0..3
    BY DEF Mds
  <2>2. Size(k) \in Nat \ {0}
    BY <2>1 DEF Size
  <2>. QED
    BY <1>2, <2>2, AlignUpGrows DEF AutoAlign
<1>. QED
  BY <1>1, <1>2

(* No order moves the address back, a negative ds and a low org included.   *)
LEMMA NextAdrGrows ==
  ASSUME NEW ln \in Line, NEW n, NEW adr \in Nat, NEW arg \in Int, NEW mode \in 0..3,
         NEW stri \in BOOLEAN, NEW opt \in Int
  PROVE  /\ NextAdr(ln, n, adr, arg, mode, stri, opt) \in Nat
         /\ NextAdr(ln, n, adr, arg, mode, stri, opt) >= adr
<1>1. ln.md \in Mds /\ Size(ln.md) \in Nat /\ Len(ln.args) \in Nat
  BY SizeType DEF Line
<1>2. AutoAlign(adr, ln.md, mode) \in Nat /\ AutoAlign(adr, ln.md, mode) >= adr
  BY <1>1, AutoAlignGrows
<1>3. DcEnd(ln, adr, mode, n) \in Nat /\ DcEnd(ln, adr, mode, n) >= adr
  <2>1. Len(ln.args) * Size(ln.md) \in Nat
    BY <1>1, ProductNat
  <2>. QED
    BY <1>2, <2>1 DEF DcEnd, DcStart
<1>4. GenDs(adr, arg, ln.md, mode) \in Nat /\ GenDs(adr, arg, ln.md, mode) >= adr
  <2>1. arg >= 0 => arg * Size(ln.md) \in Nat
    BY <1>1, ProductNat
  <2>. QED
    BY <1>2, <2>1 DEF GenDs
<1>5. GenOrg(adr, arg) \in Nat /\ GenOrg(adr, arg) >= adr
  BY DEF GenOrg
<1>6. GenAlign(adr, arg) \in Nat /\ GenAlign(adr, arg) >= adr
  <2> DEFINE k == IF arg \in 1..MaxAlign THEN arg ELSE 1
  <2>1. k \in Nat \ {0}
    BY MaxAlignType
  <2>. QED
    BY <2>1, AlignUpGrows DEF GenAlign
<1>7. TextLen(ln, opt) \in Nat
  BY DEF TextLen, Line
<1>. QED
  BY <1>3, <1>4, <1>5, <1>6, <1>7 DEF NextAdr

(* The address at a line's order lies between those before and after it.    *)
LEMMA LineGrows ==
  ASSUME TypeOK, PassLine, g_adr \in Nat
  PROVE  /\ OrderAdr(TheLine, g_adr, striMode) \in Nat
         /\ OrderAdr(TheLine, g_adr, striMode) >= g_adr
         /\ g_adr' \in Nat
         /\ g_adr' >= OrderAdr(TheLine, g_adr, striMode)
<1>1. PICK odr : Order(odr)
  BY PassLineMoves
<1>2. TheLine \in Line /\ TheArg \in Int
  BY LineFacts
<1>3. /\ OrderAdr(TheLine, g_adr, striMode) \in Nat
      /\ OrderAdr(TheLine, g_adr, striMode) >= g_adr
  BY DEF OrderAdr
<1>4. g_adr' = NextAdr(TheLine, passNo, OrderAdr(TheLine, g_adr, striMode), TheArg,
                       autoAlignMode, striMode, striOpt)
  BY <1>1, OrderMoves
<1>5. autoAlignMode \in 0..3 /\ striMode \in BOOLEAN /\ striOpt \in Int
  BY DEF TypeOK
<1>. QED
  BY <1>2, <1>3, <1>4, <1>5, NextAdrGrows

-----------------------------------------------------------------------------
(* What a line of pass 2 writes.                                            *)

(* Memory m2 is m1 but for the addresses from..to, which it has.            *)
Wrote(m1, m2, from, to) ==
  /\ DOMAIN m2 = DOMAIN m1 \cup from..to
  /\ \A a \in DOMAIN m1 : a \notin from..to => m2[a] = m1[a]

(* Poke writes its bytes and nothing else.                                  *)
LEMMA PokeWrites ==
  ASSUME NEW mem, NEW adr \in Nat, NEW bs, Len(bs) \in Nat
  PROVE  Wrote(mem, Poke(mem, adr, bs), adr, adr + Len(bs) - 1)
BY DEF Poke, Wrote

LEMMA PokeBytes ==
  ASSUME NEW mem, NEW adr \in Nat, NEW bs, Len(bs) \in Nat,
         NEW a \in adr..(adr + Len(bs) - 1)
  PROVE  Poke(mem, adr, bs)[a] = bs[a - adr + 1]
BY DEF Poke

(* The length of a function on 1..n.                                        *)
LEMMA FunctionLength ==
  ASSUME NEW n \in Nat, NEW bs, bs = [i \in 1..n |-> bs[i]]
  PROVE  Len(bs) = n
<1> DEFINE S == {bs[i] : i \in 1..n}
<1>1. bs \in [1..n -> S]
  OBVIOUS
<1>2. bs \in Seq(S)
  BY <1>1, SeqDef
<1>3. Len(bs) \in Nat /\ DOMAIN bs = 1..Len(bs)
  BY <1>2, LenProperties
<1>4. DOMAIN bs = 1..n
  BY <1>1
<1>. QED
  BY <1>3, <1>4

LEMMA TimesType ==
  ASSUME NEW n \in Nat, NEW byte \in Nat \ {0}
  PROVE  Times(n, byte) \in Seq(Nat \ {0}) /\ Len(Times(n, byte)) = n
<1>1. Times(n, byte) \in [1..n -> Nat \ {0}]
  BY DEF Times
<1>2. Times(n, byte) = [i \in 1..n |-> Times(n, byte)[i]]
  BY DEF Times
<1>. QED
  BY <1>1, <1>2, FunctionLength, SeqDef

(* The text of a stri: as many bytes as are counted, none of them NUL.      *)
LEMMA TextBytesType ==
  ASSUME NEW ln \in Line, NEW opt \in Int
  PROVE  /\ TextBytes(ln, opt) \in Seq(Nat \ {0})
         /\ TextLen(ln, opt) \in Nat
         /\ Len(TextBytes(ln, opt)) = TextLen(ln, opt)
<1> DEFINE S == Nat \ {0}
           lead == IF Strips(opt) THEN <<>> ELSE Times(ln.lead, 32)
           body == Times(ln.body, 65)
           tail == IF Joins(opt) THEN <<>> ELSE <<10>>
<1>1. ln.lead \in Nat /\ ln.body \in Nat
  BY DEF Line
<1>2. lead \in Seq(S) /\ Len(lead) = IF Strips(opt) THEN 0 ELSE ln.lead
  BY <1>1, TimesType
<1>3. body \in Seq(S) /\ Len(body) = ln.body
  BY <1>1, TimesType
<1>4. tail \in Seq(S) /\ Len(tail) = IF Joins(opt) THEN 0 ELSE 1
  <2>1. CASE Joins(opt)
    BY <2>1
  <2>2. CASE ~Joins(opt)
    BY <2>2
  <2>. QED
    BY <2>1, <2>2
<1>5. lead \o body \in Seq(S) /\ Len(lead \o body) = Len(lead) + Len(body)
  BY <1>2, <1>3, ConcatProperties
<1>6. /\ lead \o body \o tail \in Seq(S)
      /\ Len(lead \o body \o tail) = Len(lead) + Len(body) + Len(tail)
  BY <1>4, <1>5, ConcatProperties
<1>7. TextBytes(ln, opt) = lead \o body \o tail
  BY DEF TextBytes
<1>. QED
  <2>1. TextLen(ln, opt) = Len(lead) + Len(body) + Len(tail)
    BY <1>2, <1>3, <1>4 DEF TextLen
  <2>2. Len(lead) \in Nat /\ Len(body) \in Nat /\ Len(tail) \in Nat
    BY <1>2, <1>3, <1>4, LenProperties
  <2> HIDE DEF lead, body, tail
  <2>. QED
    BY <1>6, <1>7, <2>1, <2>2

(* What a line may do to the image.                                         *)
LineMemory ==
  \/ /\ IsStriText(TheLine, striMode)
     /\ passNo = 2 => g_mem' = Poke(g_mem, g_adr, Append(TextBytes(TheLine, striOpt), 0))
  \/ /\ TheLine.odr = "dc"
     /\ passNo = 2 =>
          g_mem' = PokeDc(Terminated,
                          DcStart(TheLine, OrderAdr(TheLine, g_adr, striMode), autoAlignMode),
                          DcValues(TheLine), TheLine.md, g_endianMode)
  \/ /\ TheLine.odr # "dc" /\ ~IsStriText(TheLine, striMode)
     /\ g_mem' = Terminated

LEMMA PassLineMemory ==
  ASSUME TypeOK, PassLine
  PROVE  LineMemory
<1>1. CASE StriText
  <2>1. /\ IsStriText(TheLine, striMode)
        /\ passNo = 2 => g_mem' = Poke(g_mem, g_adr, Append(TextBytes(TheLine, striOpt), 0))
    BY <1>1 DEF StriText
  <2>. QED
    BY <2>1 DEF LineMemory
<1>2. CASE Dc
  <2>1. Order("dc")
    BY <1>2 DEF Dc
  <2>2. passNo = 2 =>
          g_mem' = PokeDc(Terminated,
                          DcStart(TheLine, OrderAdr(TheLine, g_adr, striMode), autoAlignMode),
                          DcValues(TheLine), TheLine.md, g_endianMode)
    BY <1>2 DEF Dc
  <2>. QED
    BY <2>1, <2>2, OrderMoves DEF LineMemory
<1>3. CASE StrayText
  <2>1. Order("text") /\ ~IsStriText(TheLine, striMode) /\ g_mem' = Terminated
    BY <1>3 DEF StrayText
  <2>. QED
    BY <2>1, OrderMoves DEF LineMemory
<1>4. CASE NoOrder \/ Equ \/ Ds \/ Org \/ Align \/ SetAutoAlign \/ Endian \/ Stri \/ StriOpt
           \/ XdefOrder \/ End
  <2>1. g_mem' = Terminated
    BY <1>4 DEF NoOrder, Equ, Ds, Org, Align, SetAutoAlign, Endian, Stri, StriOpt, XdefOrder,
       End, Argument
  <2>2. \E odr \in Orders \ {"dc", "text"} : Order(odr)
    BY <1>4 DEF NoOrder, Equ, Ds, Org, Align, SetAutoAlign, Endian, Stri, StriOpt, XdefOrder,
       End, Orders
  <2>3. TheLine.odr \notin {"dc", "text"}
    BY <2>2, OrderMoves
  <2>. QED
    BY <2>1, <2>3 DEF LineMemory, IsStriText
<1>. QED
  BY <1>1, <1>2, <1>3, <1>4 DEF PassLine

(* The NUL of a stri that the line ends.                                    *)
LEMMA TerminatedWrites ==
  ASSUME TypeOK, g_adr \in Nat, passNo = 2, NEW start,
         start = OrderAdr(TheLine, g_adr, striMode)
  PROVE  /\ Wrote(g_mem, Terminated, g_adr, start - 1)
         /\ \A a \in g_adr..(start - 1) : Terminated[a] = 0
<1>1. CASE striMode /\ EndsStri(TheLine)
  <2> DEFINE nul == <<0>>
  <2>1. Terminated = Poke(g_mem, g_adr, nul) /\ start = g_adr + 1
    BY <1>1 DEF Terminated, OrderAdr
  <2>2. Len(nul) = 1 /\ Len(nul) \in Nat /\ nul[1] = 0
    OBVIOUS
  <2> HIDE DEF nul
  <2>3. Wrote(g_mem, Terminated, g_adr, g_adr + Len(nul) - 1)
    BY <2>1, <2>2, PokeWrites, Zenon
  <2>4. g_adr + Len(nul) - 1 = start - 1
    BY <2>1, <2>2
  <2>5. ASSUME NEW a \in g_adr..(start - 1)
        PROVE  Terminated[a] = 0
    <3>1. a \in g_adr..(g_adr + Len(nul) - 1) /\ a - g_adr + 1 = 1
      BY <2>1, <2>2
    <3>2. Poke(g_mem, g_adr, nul)[a] = nul[a - g_adr + 1]
      BY <2>2, <3>1 DEF Poke
    <3>. QED
      BY <2>1, <2>2, <3>1, <3>2, Zenon
  <2>. QED
    BY <2>3, <2>4, <2>5, Zenon
<1>2. CASE ~(striMode /\ EndsStri(TheLine))
  <2>1. Terminated = g_mem /\ start = g_adr
    BY <1>2 DEF Terminated, OrderAdr
  <2>. QED
    BY <2>1 DEF Wrote
<1>. QED
  BY <1>1, <1>2

(* The bytes of a dc.                                                       *)
LEMMA PokeDcWrites ==
  ASSUME NEW mem, NEW adr \in Nat, NEW md \in Mds, NEW endian, NEW vals, Len(vals) \in Nat
  PROVE  Wrote(mem, PokeDc(mem, adr, vals, md, endian), adr, adr + Len(vals) * Size(md) - 1)
<1> DEFINE n == Size(md)
           k == Len(vals)
           byte(i) == Bytes(vals[((i - 1) \div n) + 1], n, endian)[((i - 1) % n) + 1]
           bs == [i \in 1..(k * n) |-> byte(i)]
<1>1. k * n \in Nat
  BY SizeType, ProductNat
<1>2. PokeDc(mem, adr, vals, md, endian) = Poke(mem, adr, bs)
  BY DEF PokeDc
<1> HIDE DEF byte
<1>3. bs = [i \in 1..(k * n) |-> bs[i]]
  OBVIOUS
<1>4. Len(bs) = k * n
  BY <1>1, <1>3, FunctionLength
<1> HIDE DEF bs, n, k
<1>5. Wrote(mem, Poke(mem, adr, bs), adr, adr + Len(bs) - 1)
  <2>1. Len(bs) \in Nat
    BY <1>1, <1>4
  <2>. QED
    BY <2>1, PokeWrites, Zenon
<1>. QED
  BY <1>2, <1>4, <1>5, Zenon DEF n, k

(* Where a dc ends in pass 2, and where its data are.                       *)
LEMMA DcMoves ==
  ASSUME NEW ln, ln.odr = "dc", NEW adr, NEW arg, NEW mode, NEW stri, NEW opt
  PROVE  NextAdr(ln, 2, adr, arg, mode, stri, opt)
           = DcStart(ln, adr, mode) + Len(ln.args) * Size(ln.md)
<1>1. NextAdr(ln, 2, adr, arg, mode, stri, opt) = DcEnd(ln, adr, mode, 2)
  BY SMT DEF NextAdr, IsStriText
<1>2. DcEnd(ln, adr, mode, 2) = DcStart(ln, adr, mode) + Len(ln.args) * Size(ln.md)
  BY DEF DcEnd
<1>. QED
  BY <1>1, <1>2, Zenon

LEMMA DcData ==
  ASSUME NEW ln, ln.odr = "dc", NEW s, NEW start, start = OrderAdr(ln, s.adr, s.stri),
         NEW end, end = DcStart(ln, start, s.mode) + Len(ln.args) * Size(ln.md)
  PROVE  DcStart(ln, start, s.mode)..(end - 1) \subseteq DataAt(ln, s)
<1>1. DcEnd(ln, start, s.mode, 2) = end
  BY DEF DcEnd
<1>2. DcStart(ln, start, s.mode)..(DcEnd(ln, start, s.mode, 2) - 1) \subseteq DataAt(ln, s)
  BY SMT DEF DataAt, IsStriText
<1>. QED
  BY <1>1, <1>2, Zenon

(* A line of pass 2 writes from its address to the next at most; outside    *)
(* its data it writes only zeros; and the text of a stri has none.          *)
LEMMA LineWrites ==
  ASSUME TypeOK, PassLine, passNo = 2, g_adr \in Nat
  PROVE  /\ DOMAIN g_mem \subseteq DOMAIN g_mem'
         /\ DOMAIN g_mem' \subseteq DOMAIN g_mem \cup g_adr..g_adr'
         /\ \A a \in DOMAIN g_mem : a \notin g_adr..g_adr' => g_mem'[a] = g_mem[a]
         /\ \A a \in DOMAIN g_mem' : a \notin DataAt(TheLine, CurrentLayout) =>
              \/ g_mem'[a] = 0
              \/ a \in DOMAIN g_mem /\ g_mem'[a] = g_mem[a]
         /\ IsStriText(TheLine, striMode) =>
              \A a \in DataAt(TheLine, CurrentLayout) : a \in g_adr..(g_adr' - 1) /\ g_mem'[a] # 0
<1> DEFINE start == OrderAdr(TheLine, g_adr, striMode)
           data == DataAt(TheLine, CurrentLayout)
<1>1. /\ start \in Nat /\ start >= g_adr /\ g_adr' \in Nat /\ g_adr' >= start
  BY LineGrows
<1>2. TheLine \in Line /\ TheArg \in Int
  BY LineFacts
<1>3. g_adr' = NextAdr(TheLine, 2, start, TheArg, autoAlignMode, striMode, striOpt)
  <2>1. PICK odr : Order(odr)
    BY PassLineMoves
  <2>. QED
    BY <2>1, OrderMoves
<1>4. striOpt \in Int /\ autoAlignMode \in 0..3 /\ striMode \in BOOLEAN
  BY DEF TypeOK
<1>5. /\ Wrote(g_mem, Terminated, g_adr, start - 1)
      /\ \A a \in g_adr..(start - 1) : Terminated[a] = 0
  BY TerminatedWrites
<1>6. CurrentLayout.adr = g_adr /\ CurrentLayout.mode = autoAlignMode
      /\ CurrentLayout.stri = striMode /\ CurrentLayout.opt = striOpt
  BY DEF CurrentLayout
<1> HIDE DEF data, start
<1>7. CASE TheLine.odr # "dc" /\ ~IsStriText(TheLine, striMode) /\ g_mem' = Terminated
  <2>1. \A a \in DOMAIN g_mem : a \notin g_adr..g_adr' => a \notin g_adr..(start - 1)
    BY <1>1
  <2>2. g_adr..(start - 1) \subseteq g_adr..g_adr'
    BY <1>1
  <2>. QED
    BY <1>5, <1>7, <2>1, <2>2 DEF data, Wrote
<1>8. CASE /\ TheLine.odr = "dc"
           /\ g_mem' = PokeDc(Terminated, DcStart(TheLine, start, autoAlignMode),
                              DcValues(TheLine), TheLine.md, g_endianMode)
  <2> DEFINE lo == DcStart(TheLine, start, autoAlignMode)
             k == Len(TheLine.args)
             md == TheLine.md
             vals == DcValues(TheLine)
             size == k * Size(md)
  <2>1. md \in Mds /\ TheLine.args \in Seq(Expr) /\ k \in Nat
    BY <1>2 DEF Line
  <2>2. lo \in Nat /\ lo >= start
    BY <1>1, <1>4, <2>1, AutoAlignGrows DEF DcStart
  <2>3. size \in Nat
    BY <2>1, SizeType, ProductNat
  <2>4. Len(vals) = k
    <3>1. DOMAIN TheLine.args = 1..k
      BY <2>1, LenProperties
    <3>2. vals = [i \in 1..k |-> vals[i]]
      BY <3>1 DEF DcValues
    <3> HIDE DEF vals, k
    <3>. QED
      BY <2>1, <3>2, FunctionLength
  <2>5. g_adr' = lo + size
    BY <1>3, <1>8, DcMoves, Zenon
  <2>6. lo..(g_adr' - 1) \subseteq data
    BY <1>6, <1>8, <2>5, DcData, Zenon DEF data, start
  <2>7. g_mem' = PokeDc(Terminated, lo, vals, md, g_endianMode)
    BY <1>8
  <2> HIDE DEF lo, k, md, vals
  <2>8. Wrote(Terminated, g_mem', lo, g_adr' - 1)
    <3>1. Wrote(Terminated, g_mem', lo, lo + Len(vals) * Size(md) - 1)
      <4>1. Len(vals) \in Nat
        BY <2>1, <2>4
      <4>. QED
        BY <2>1, <2>2, <2>7, <4>1, PokeDcWrites, Zenon
    <3>2. lo + Len(vals) * Size(md) - 1 = g_adr' - 1
      <4>1. Len(vals) * Size(md) = size
        BY <2>4, Zenon
      <4> HIDE DEF size
      <4>. QED
        BY <2>2, <2>3, <2>5, <4>1
    <3>. QED
      BY <3>1, <3>2, Zenon
  <2>9. ~IsStriText(TheLine, striMode)
    BY <1>8 DEF IsStriText
  <2>10. lo..(g_adr' - 1) \subseteq g_adr..g_adr' /\ g_adr..(start - 1) \subseteq g_adr..g_adr'
    <3>1. PICK end \in Nat : end = g_adr' /\ end >= start
      BY <1>1
    <3>2. lo..(end - 1) \subseteq g_adr..end
      BY <1>1, <2>2
    <3>3. g_adr..(start - 1) \subseteq g_adr..end
      BY <1>1, <3>1
    <3>. QED
      BY <3>1, <3>2, <3>3, Zenon
  <2>11. /\ DOMAIN g_mem \subseteq DOMAIN g_mem'
         /\ DOMAIN g_mem' \subseteq DOMAIN g_mem \cup g_adr..g_adr'
         /\ \A a \in DOMAIN g_mem : a \notin g_adr..g_adr' => g_mem'[a] = g_mem[a]
    BY <1>5, <2>8, <2>10 DEF Wrote
  <2>12. ASSUME NEW a \in DOMAIN g_mem', a \notin data
         PROVE  g_mem'[a] = 0 \/ (a \in DOMAIN g_mem /\ g_mem'[a] = g_mem[a])
    <3>1. a \notin lo..(g_adr' - 1)
      BY <2>6, <2>12
    <3>. QED
      BY <1>5, <2>8, <2>12, <3>1 DEF Wrote
  <2>. QED
    BY <2>9, <2>11, <2>12 DEF data
<1>9. CASE /\ IsStriText(TheLine, striMode)
           /\ g_mem' = Poke(g_mem, g_adr, Append(TextBytes(TheLine, striOpt), 0))
  <2> DEFINE txt == TextBytes(TheLine, striOpt)
             bs == Append(txt, 0)
             n == TextLen(TheLine, striOpt)
  <2>1. txt \in Seq(Nat \ {0}) /\ n \in Nat /\ Len(txt) = n
    BY <1>2, <1>4, TextBytesType
  <2>2. TheLine.odr = "text" /\ ~EndsStri(TheLine) /\ start = g_adr
    BY <1>9 DEF IsStriText, OrderAdr, start
  <2>3. g_adr' = g_adr + n
    BY <1>3, <1>9, <2>2 DEF NextAdr
  <2>4. data = g_adr..(g_adr + n - 1)
    BY <1>6, <1>9, <2>2 DEF data, DataAt
  <2> HIDE DEF txt, n
  <2>5. /\ Len(bs) = n + 1 /\ bs[n + 1] = 0
        /\ \A i \in 1..n : bs[i] \in Nat \ {0}
    <3>1. txt \in Seq(Nat)
      BY <2>1, SeqMonotonic
    <3>2. /\ Len(bs) = Len(txt) + 1
          /\ \A i \in 1..(Len(txt) + 1) : bs[i] = IF i <= Len(txt) THEN txt[i] ELSE 0
      BY <3>1, AppendProperties
    <3>3. \A i \in 1..n : txt[i] \in Nat \ {0}
      BY <2>1, ElementOfSeq
    <3>. QED
      BY <2>1, <3>2, <3>3
  <2>6. g_mem' = Poke(g_mem, g_adr, bs)
    BY <1>9 DEF txt
  <2> HIDE DEF bs
  <2>7. /\ Wrote(g_mem, g_mem', g_adr, g_adr + Len(bs) - 1)
        /\ \A a \in g_adr..(g_adr + Len(bs) - 1) : g_mem'[a] = bs[a - g_adr + 1]
    <3>1. Len(bs) \in Nat
      BY <2>1, <2>5
    <3>2. Wrote(g_mem, g_mem', g_adr, g_adr + Len(bs) - 1)
      BY <2>6, <3>1, PokeWrites, Zenon
    <3>3. \A a \in g_adr..(g_adr + Len(bs) - 1) : g_mem'[a] = bs[a - g_adr + 1]
      BY <2>6, <3>1, PokeBytes
    <3>. QED
      BY <3>2, <3>3
  <2>8. g_adr + Len(bs) - 1 = g_adr'
    BY <2>1, <2>3, <2>5
  <2>9. /\ Wrote(g_mem, g_mem', g_adr, g_adr')
        /\ \A a \in g_adr..g_adr' : g_mem'[a] = bs[a - g_adr + 1]
    BY <2>7, <2>8, Zenon
  <2>10. ASSUME NEW a \in data
         PROVE  a \in g_adr..(g_adr' - 1) /\ g_mem'[a] # 0
    <3>1. a \in g_adr..(g_adr' - 1) /\ a \in g_adr..g_adr' /\ a - g_adr + 1 \in 1..n
      BY <2>1, <2>3, <2>4, <2>10
    <3>. QED
      BY <2>5, <2>9, <3>1
  <2>11. ASSUME NEW a \in DOMAIN g_mem', a \notin data
         PROVE  g_mem'[a] = 0 \/ (a \in DOMAIN g_mem /\ g_mem'[a] = g_mem[a])
    <3>1. CASE a \in g_adr..g_adr'
      <4>1. a - g_adr + 1 = n + 1
        BY <2>1, <2>3, <2>4, <2>11, <3>1
      <4>. QED
        BY <2>5, <2>9, <3>1, <4>1
    <3>2. CASE a \notin g_adr..g_adr'
      BY <2>9, <2>11, <3>2 DEF Wrote
    <3>. QED
      BY <3>1, <3>2
  <2>. QED
    BY <2>9, <2>10, <2>11 DEF data, Wrote
<1>. QED
  BY <1>7, <1>8, <1>9, PassLineMemory DEF LineMemory, start


-----------------------------------------------------------------------------
(* BoundsInvariant is inductive.                                            *)

(* What pass 1 counted is not less than any address it met a line at.       *)
LEMMA CountedType ==
  ASSUME TypeOK, AddressesGrow, Reached(Len(srcl) + 1), passNo = 2 \/ phase # "line"
  PROVE  /\ Counted \in Nat
         /\ \A i \in 1..(Len(srcl) + 1) : Reached(i) => pass1[i].adr <= Counted
<1>1. Len(srcl) \in Nat
  BY ConstantsAssumption DEF TypeOK
<1>2. /\ pass1[Len(srcl) + 1].adr \in Nat
      /\ \A i \in 1..(Len(srcl) + 1) : Reached(i) =>
           pass1[i].adr \in Nat /\ pass1[i].adr <= pass1[Len(srcl) + 1].adr
  BY <1>1 DEF AddressesGrow, TopAdr
<1>. QED
  BY <1>2 DEF Counted

LEMMA BoundsInit == Init => BoundsInvariant
<1> SUFFICES ASSUME Init PROVE BoundsInvariant
  OBVIOUS
<1>1. \A i \in 1..(Len(srcl) + 1) : ~Reached(i)
  BY DEF Init, Reached
<1>2. AddressesGrow
  BY <1>1 DEF Init, AddressesGrow
<1>3. SizeKept
  BY DEF Init, SizeKept
<1>. QED
  BY <1>2, <1>3 DEF BoundsInvariant

LEMMA BoundsPass1Line ==
  ASSUME TypeOK, PassLine, passNo = 1, AgreementInvariant, BoundsInvariant
  PROVE  BoundsInvariant'
<1>1. /\ phase = "line" /\ phase' = "line" /\ passNo' = 1 /\ srcl' = srcl /\ Len(srcl) \in Nat
  BY LineFacts
<1>2. g_adr \in Nat /\ g_adr' \in Nat /\ g_adr <= g_adr'
  <2>1. g_adr \in Nat
    BY DEF BoundsInvariant, AddressesGrow
  <2>. QED
    BY <2>1, LineGrows
<1>3. TopAdr = g_adr /\ TopAdr' = g_adr'
  BY <1>1 DEF TopAdr
<1>4. ASSUME NEW i \in 1..(Len(srcl) + 1), Reached(i)'
      PROVE  /\ pass1'[i].adr \in Nat /\ pass1'[i].adr <= g_adr
             /\ \/ i = pc /\ pass1'[i].adr = g_adr
                \/ i < pc /\ Reached(i) /\ pass1'[i].adr = pass1[i].adr
  <2>1. CASE i = pc
    BY <1>2, <2>1, Pass1Records
  <2>2. CASE i # pc
    <3>1. Reached(i) /\ pass1'[i] = pass1[i]
      BY <1>4, <2>2, Pass1Records
    <3>2. i < pc
      BY <1>1, <3>1 DEF AgreementInvariant, Front
    <3>3. pass1[i].adr \in Nat /\ pass1[i].adr <= g_adr
      BY <1>3, <3>1 DEF BoundsInvariant, AddressesGrow
    <3>. QED
      BY <3>1, <3>2, <3>3
  <2>. QED
    BY <2>1, <2>2
<1>5. ASSUME NEW i \in 1..(Len(srcl) + 1), NEW j \in 1..(Len(srcl) + 1),
             Reached(i)', Reached(j)', i <= j
      PROVE  pass1'[i].adr <= pass1'[j].adr
  <2>1. pc \in Int
    BY <1>1 DEF TypeOK
  <2>2. CASE j = pc
    BY <1>4, <1>5, <2>1, <2>2
  <2>3. CASE j # pc
    <3>1. Reached(i) /\ Reached(j) /\ pass1'[i].adr = pass1[i].adr /\ pass1'[j].adr = pass1[j].adr
      BY <1>4, <1>5, <2>1, <2>3
    <3>. QED
      BY <1>5, <3>1 DEF BoundsInvariant, AddressesGrow
  <2>. QED
    BY <2>2, <2>3
<1>6. AddressesGrow'
  <2>1. ASSUME NEW i \in 1..(Len(srcl) + 1), Reached(i)'
        PROVE  pass1'[i].adr \in Nat /\ pass1'[i].adr <= g_adr'
    BY <1>2, <1>4, <2>1
  <2>. QED
    BY <1>1, <1>2, <1>3, <1>5, <2>1 DEF AddressesGrow
<1>7. SizeKept'
  BY <1>1 DEF SizeKept
<1>. QED
  BY <1>6, <1>7 DEF BoundsInvariant

(* A line of pass 2 ends where pass 1 met the next one, so that what it     *)
(* writes is inside what pass 1 counted.                                    *)
LEMMA BoundsPass2Line ==
  ASSUME TypeOK, PassLine, passNo = 2, AgreementInvariant, AgreementInvariant', BoundsInvariant
  PROVE  BoundsInvariant'
<1>1. /\ phase = "line" /\ phase' = "line" /\ passNo' = 2 /\ srcl' = srcl /\ Len(srcl) \in Nat
      /\ memSize' = memSize /\ pc \in 1..Len(srcl) /\ pc' = NextPc(srcl, pc)
  BY LineFacts
<1>2. pass1' = pass1
  BY Pass2Records
<1>3. g_adr \in Nat /\ g_adr' \in Nat /\ g_adr <= g_adr'
  <2>1. g_adr \in Nat
    BY DEF BoundsInvariant, AddressesGrow
  <2>. QED
    BY <2>1, LineGrows
<1>4. \A i : Reached(i)' <=> Reached(i)
  BY <1>2 DEF Reached
<1>5. TopAdr' = TopAdr /\ Counted' = Counted
  BY <1>1, <1>2 DEF TopAdr, Counted
<1>6. AddressesGrow'
  BY <1>1, <1>2, <1>3, <1>4, <1>5 DEF BoundsInvariant, AddressesGrow
<1>7. Reached(Len(srcl) + 1) /\ memSize = Counted + Slack
  BY <1>1 DEF BoundsInvariant, SizeKept
<1>8. ASSUME WellFormed(srcl)
      PROVE  DOMAIN g_mem' = 0..(memSize - 1)
  <2>1. DOMAIN g_mem = 0..(memSize - 1)
    BY <1>8 DEF BoundsInvariant, SizeKept
  <2>2. /\ DOMAIN g_mem \subseteq DOMAIN g_mem'
        /\ DOMAIN g_mem' \subseteq DOMAIN g_mem \cup g_adr..g_adr'
    BY <1>3, LineWrites
  <2>3. PICK j : j = pc'
    OBVIOUS
  <2>4. j \in 1..(Len(srcl) + 1)
    BY <1>1, <2>3, NextPcAfter
  <2>5. Reached(j) /\ g_adr' = pass1[j].adr
    BY <1>1, <1>2, <1>8, <2>3 DEF AgreementInvariant, PassesAgree, Reached
  <2>6. Counted \in Nat /\ g_adr' <= Counted
    BY <1>7, <2>4, <2>5, CountedType DEF BoundsInvariant
  <2>7. PICK end \in Nat : end = g_adr' /\ end <= memSize - 1
    BY <1>3, <1>7, <2>6, ConstantsAssumption
  <2>8. g_adr..end \subseteq 0..(memSize - 1)
    BY <1>3, <1>7, <2>6, <2>7, ConstantsAssumption
  <2>. QED
    BY <2>1, <2>2, <2>7, <2>8
<1>9. SizeKept'
  BY <1>1, <1>4, <1>5, <1>7, <1>8 DEF SizeKept
<1>. QED
  BY <1>6, <1>9 DEF BoundsInvariant

(* Both passes end at what pass 1 counted.                                  *)
LEMMA BoundsEndPass ==
  ASSUME TypeOK, EndPass, AgreementInvariant, BoundsInvariant
  PROVE  BoundsInvariant'
<1>1. /\ phase = "line" /\ pc = Len(srcl) + 1 /\ Len(srcl) \in Nat
      /\ srcl' = srcl /\ passNo' = passNo /\ memSize' = memSize
      /\ phase' = IF passNo = 1 THEN "alloc" ELSE "save"
      /\ g_adr' = IF striMode THEN g_adr + 1 ELSE g_adr
      /\ g_mem' = IF striMode /\ passNo = 2 THEN Poke(g_mem, g_adr, <<0>>) ELSE g_mem
  BY ConstantsAssumption DEF EndPass, TypeOK, outputs
<1>2. g_adr \in Nat /\ g_adr' \in Nat /\ AddressesGrow /\ SizeKept
  BY <1>1 DEF BoundsInvariant, AddressesGrow
<1>3. CASE passNo = 1
  <2>1. /\ pass1' = [pass1 EXCEPT ![pc] =
                       [adr |-> g_adr, mode |-> autoAlignMode, stri |-> striMode,
                        opt |-> striOpt, arg |-> 0]]
        /\ pass1 \in [1..(Len(srcl) + 1) -> LayoutState]
    BY <1>3 DEF EndPass, TypeOK
  <2>2. /\ pass1'[Len(srcl) + 1].adr = g_adr
        /\ pass1'[Len(srcl) + 1].stri = striMode
        /\ Reached(Len(srcl) + 1)'
    BY <1>1, <2>1 DEF Reached, NotReached, TypeOK
  <2>3. ASSUME NEW i \in 1..(Len(srcl) + 1), i # Len(srcl) + 1
        PROVE  pass1'[i] = pass1[i] /\ (Reached(i)' <=> Reached(i))
    BY <1>1, <2>1, <2>3 DEF Reached
  <2>4. TopAdr = g_adr /\ TopAdr' = g_adr
    BY <1>1, <1>3, <2>2 DEF TopAdr
  <2>5. ASSUME NEW i \in 1..(Len(srcl) + 1), Reached(i)'
        PROVE  pass1'[i].adr \in Nat /\ pass1'[i].adr <= g_adr
    <3>1. CASE i = Len(srcl) + 1
      BY <1>2, <2>2, <3>1
    <3>2. CASE i # Len(srcl) + 1
      BY <1>2, <2>3, <2>4, <2>5, <3>2 DEF AddressesGrow
    <3>. QED
      BY <3>1, <3>2
  <2>6. ASSUME NEW i \in 1..(Len(srcl) + 1), NEW j \in 1..(Len(srcl) + 1),
               Reached(i)', Reached(j)', i <= j
        PROVE  pass1'[i].adr <= pass1'[j].adr
    <3>1. CASE j = Len(srcl) + 1
      BY <2>2, <2>5, <2>6, <3>1
    <3>2. CASE j # Len(srcl) + 1
      <4>1. i # Len(srcl) + 1
        BY <1>1, <2>6, <3>2
      <4>2. Reached(i) /\ Reached(j) /\ pass1'[i] = pass1[i] /\ pass1'[j] = pass1[j]
        BY <2>3, <2>6, <3>2, <4>1
      <4>. QED
        BY <1>2, <2>6, <4>2 DEF AddressesGrow
    <3>. QED
      BY <3>1, <3>2
  <2>7. AddressesGrow'
    BY <1>1, <1>2, <2>4, <2>5, <2>6 DEF AddressesGrow
  <2>8. Counted' = g_adr'
    BY <1>1, <1>2, <2>2 DEF Counted
  <2>9. SizeKept'
    BY <1>1, <1>3, <2>2, <2>8 DEF SizeKept
  <2>. QED
    BY <2>7, <2>9 DEF BoundsInvariant
<1>4. CASE passNo = 2
  <2>1. pass1' = pass1
    BY <1>4 DEF EndPass
  <2>2. \A i : Reached(i)' <=> Reached(i)
    BY <2>1 DEF Reached
  <2>3. TopAdr' = TopAdr /\ Counted' = Counted
    BY <1>1, <1>4, <2>1 DEF TopAdr, Counted
  <2>4. AddressesGrow'
    BY <1>1, <1>2, <2>1, <2>2, <2>3 DEF AddressesGrow
  <2>5. Reached(Len(srcl) + 1) /\ memSize = Counted + Slack
    BY <1>2, <1>4 DEF SizeKept
  <2>6. ASSUME WellFormed(srcl)
        PROVE  g_adr' = Counted /\ DOMAIN g_mem' = 0..(memSize - 1)
    <3>1. g_adr = pass1[Len(srcl) + 1].adr /\ striMode = pass1[Len(srcl) + 1].stri
      BY <1>1, <1>4, <2>6 DEF AgreementInvariant, PassesAgree
    <3>2. g_adr' = Counted
      BY <1>1, <1>2, <3>1 DEF Counted
    <3>3. DOMAIN g_mem = 0..(memSize - 1)
      BY <1>2, <1>4, <2>6 DEF SizeKept
    <3>4. g_adr <= Counted /\ Counted \in Nat
      BY <1>1, <1>2, <3>2
    <3>5. g_adr \in 0..(memSize - 1)
      BY <1>2, <2>5, <3>4, ConstantsAssumption
    <3>6. DOMAIN g_mem' = 0..(memSize - 1)
      <4>1. CASE striMode
        <5> DEFINE nul == <<0>>
        <5>1. Len(nul) \in Nat /\ g_adr..(g_adr + Len(nul) - 1) = {g_adr}
          BY <1>2
        <5>2. g_mem' = Poke(g_mem, g_adr, nul)
          BY <1>1, <1>4, <4>1
        <5> HIDE DEF nul
        <5>3. Wrote(g_mem, g_mem', g_adr, g_adr + Len(nul) - 1)
          BY <1>2, <5>1, <5>2, PokeWrites, Zenon
        <5>. QED
          BY <3>3, <3>5, <5>1, <5>3 DEF Wrote
      <4>2. CASE ~striMode
        BY <1>1, <3>3, <4>2
      <4>. QED
        BY <4>1, <4>2
    <3>. QED
      BY <3>2, <3>6
  <2>7. SizeKept'
    BY <1>1, <1>4, <2>2, <2>3, <2>5, <2>6 DEF SizeKept
  <2>. QED
    BY <2>4, <2>7 DEF BoundsInvariant
<1>. QED
  BY <1>3, <1>4 DEF TypeOK

LEMMA BoundsBeginPass2 ==
  ASSUME TypeOK, BeginPass2, BoundsInvariant
  PROVE  BoundsInvariant'
<1>1. /\ phase = "alloc" /\ phase' = "line" /\ passNo' = 2 /\ srcl' = srcl /\ pass1' = pass1
      /\ g_adr' = 0 /\ memSize' = g_adr + Slack
      /\ g_mem' = [a \in 0..(g_adr + Slack - 1) |-> 0]
  BY DEF BeginPass2
<1>2. AddressesGrow /\ SizeKept
  BY DEF BoundsInvariant
<1>3. Reached(Len(srcl) + 1) /\ g_adr = Counted
  BY <1>1, <1>2 DEF SizeKept
<1>4. \A i : Reached(i)' <=> Reached(i)
  BY <1>1 DEF Reached
<1>5. TopAdr' = TopAdr /\ Counted' = Counted
  BY <1>1 DEF TopAdr, Counted
<1>6. AddressesGrow'
  BY <1>1, <1>2, <1>4, <1>5 DEF AddressesGrow
<1>7. DOMAIN g_mem' = 0..(g_adr + Slack - 1)
  BY <1>1
<1>8. SizeKept'
  <2>1. Reached(Len(srcl) + 1)' /\ memSize' = Counted' + Slack
    BY <1>1, <1>3, <1>4, <1>5
  <2>2. (DOMAIN g_mem = 0..(memSize - 1))'
    BY <1>1, <1>2, <1>7, ConstantsAssumption DEF AddressesGrow
  <2>. QED
    BY <1>1, <2>1, <2>2 DEF SizeKept
<1>. QED
  BY <1>6, <1>8 DEF BoundsInvariant

LEMMA BoundsNext ==
  ASSUME TypeOK, AgreementInvariant, AgreementInvariant', BoundsInvariant, [Next]_vars
  PROVE  BoundsInvariant'
<1>1. CASE PassLine
  BY <1>1, BoundsPass1Line, BoundsPass2Line DEF TypeOK
<1>2. CASE Save
  <2>1. /\ phase = "save" /\ phase' = "done"
        /\ UNCHANGED <<srcl, passNo, g_adr, g_mem, memSize, pass1>>
    BY <1>2 DEF Save
  <2>2. AddressesGrow'
    BY <2>1 DEF BoundsInvariant, AddressesGrow, TopAdr, Reached
  <2>3. SizeKept'
    BY <2>1 DEF BoundsInvariant, SizeKept, Reached, Counted
  <2>. QED
    BY <2>2, <2>3 DEF BoundsInvariant
<1>3. CASE UNCHANGED vars
  BY <1>3 DEF vars, BoundsInvariant, AddressesGrow, SizeKept, TopAdr, Reached, Counted
<1>. QED
  BY <1>1, <1>2, <1>3, BoundsEndPass, BoundsBeginPass2 DEF Next, Finished

(* Addresses only grow along the source, the block has exactly what pass 1  *)
(* counted and the slack, and pass 2 ends at what pass 1 counted (Main,     *)
(* Pass, GenOrg, GenDs, GenAlign).                                          *)
THEOREM BoundsAlways == Spec => []BoundsInvariant
<1>1. Init => BoundsInvariant
  BY BoundsInit
<1>2. TypeOK /\ AgreementInvariant /\ AgreementInvariant' /\ BoundsInvariant /\ [Next]_vars
        => BoundsInvariant'
  BY BoundsNext
<1>. QED
  BY <1>1, <1>2, TypeCorrect, AgreementAlways, PTL DEF Spec

(* Whatever the source, if it is well-formed then pass 2 writes no byte     *)
(* outside the block Main allocated, the uncounted NUL of GenStri included, *)
(* and the saved image fits it with the slack to spare.                     *)
THEOREM ImageFits == Spec => []WritesInBounds
<1>1. TypeOK /\ BoundsInvariant => WritesInBounds
  <2> SUFFICES ASSUME TypeOK, BoundsInvariant, WellFormed(srcl), passNo = 2
               PROVE  /\ DOMAIN g_mem = 0..(memSize - 1)
                      /\ phase \in {"save", "done"} => g_adr <= memSize - Slack
    BY DEF WritesInBounds
  <2>1. /\ Reached(Len(srcl) + 1) /\ memSize = Counted + Slack
        /\ DOMAIN g_mem = 0..(memSize - 1)
        /\ phase \in {"save", "done"} => g_adr = Counted
    BY DEF BoundsInvariant, SizeKept
  <2>2. Counted \in Nat
    BY <2>1, CountedType DEF BoundsInvariant
  <2>. QED
    BY <2>1, <2>2, ConstantsAssumption
<1>. QED
  BY <1>1, TypeCorrect, BoundsAlways, PTL

-----------------------------------------------------------------------------
(* Lines and their data.                                                    *)

(* A line has its data at the same addresses in two layout states that      *)
(* agree on what it looks at.                                               *)
LEMMA DataAlike ==
  ASSUME NEW ln, NEW s, NEW t, s.adr = t.adr, s.stri = t.stri,
         ln.odr = "dc" /\ ln.md # 0 => s.mode = t.mode,
         ln.odr = "text" => s.opt = t.opt
  PROVE  DataAt(ln, s) = DataAt(ln, t)
<1> DEFINE start == OrderAdr(ln, s.adr, s.stri)
<1>1. OrderAdr(ln, t.adr, t.stri) = start
  OBVIOUS
<1>2. CASE ln.odr = "dc"
  <2>1. DcStart(ln, start, s.mode) = DcStart(ln, start, t.mode)
    BY <1>2, ByteAligned DEF DcStart
  <2>2. DcEnd(ln, start, s.mode, 2) = DcEnd(ln, start, t.mode, 2)
    BY <2>1 DEF DcEnd
  <2>3. ASSUME NEW r, OrderAdr(ln, r.adr, r.stri) = start
        PROVE  DataAt(ln, r)
                 = (IF r.stri /\ EndsStri(ln) THEN {r.adr} ELSE {})
                   \cup (DcStart(ln, start, r.mode)..(DcEnd(ln, start, r.mode, 2) - 1))
    <3> HIDE DEF start
    <3>. QED
      BY <1>2, <2>3, SMT DEF DataAt, IsStriText
  <2>. QED
    BY <1>1, <2>1, <2>2, <2>3, Zenon
<1>3. CASE ln.odr = "text"
  BY <1>1, <1>3 DEF DataAt
<1>4. CASE ln.odr \notin {"dc", "text"}
  <2>1. ~IsStriText(ln, s.stri)
    BY <1>4 DEF IsStriText
  <2>. QED
    BY <1>1, <1>4, <2>1 DEF DataAt
<1>. QED
  BY <1>2, <1>3, <1>4

(* The data of a line of pass 2 are where pass 1's record puts them.        *)
LEMMA Pass2Data ==
  ASSUME TypeOK, PassLine, passNo = 2, WellFormed(srcl), AgreementInvariant
  PROVE  /\ DataAt(TheLine, CurrentLayout) = DataOf(pc)
         /\ IsStriText(TheLine, striMode) <=> IsStriText(srcl[pc], pass1[pc].stri)
<1>1. /\ PassesAgree /\ OptionsKept /\ InStep
  BY DEF AgreementInvariant
<1>2. phase = "line" /\ TheLine = srcl[pc]
  BY LineFacts
<1>3. g_adr = pass1[pc].adr /\ striMode = pass1[pc].stri
  BY <1>1, <1>2 DEF PassesAgree
<1>4. /\ TheLine.odr = "dc" /\ TheLine.md # 0 => pass1[pc].mode = autoAlignMode
      /\ TheLine.odr = "text" => pass1[pc].opt = striOpt
  BY <1>1, Pass2Options
<1>5. DataAt(TheLine, CurrentLayout) = DataAt(TheLine, pass1[pc])
  <2> DEFINE s == CurrentLayout
             t == pass1[pc]
  <2>1. s.adr = t.adr /\ s.stri = t.stri
    BY <1>3 DEF CurrentLayout
  <2>2. TheLine.odr = "dc" /\ TheLine.md # 0 => s.mode = t.mode
    BY <1>4 DEF CurrentLayout
  <2>3. TheLine.odr = "text" => s.opt = t.opt
    BY <1>4 DEF CurrentLayout
  <2> HIDE DEF s, t
  <2>4. DataAt(TheLine, s) = DataAt(TheLine, t)
    BY <2>1, <2>2, <2>3, DataAlike
  <2>. QED
    BY <2>4 DEF s, t
<1>. QED
  BY <1>2, <1>3, <1>5 DEF DataOf

(* A line pass 2 goes through is passed when it is done, and no line that   *)
(* has been passed is lost.                                                 *)
LEMMA Pass2Passed ==
  ASSUME TypeOK, PassLine, passNo = 2, WellFormed(srcl), AgreementInvariant, EndStops,
         NEW i \in 1..Len(srcl)
  PROVE  Passed(i)' <=> Passed(i) \/ i = pc
<1>1. /\ phase = "line" /\ phase' = "line" /\ Len(srcl) \in Nat /\ pc \in 1..Len(srcl)
      /\ pc' = NextPc(srcl, pc)
  BY LineFacts
<1>2. /\ pc' \in (pc + 1)..(Len(srcl) + 1)
      /\ srcl[pc].odr # "end" => pc' = pc + 1
  BY <1>1, NextPcAfter
<1>3. Reached(pc) /\ (Reached(i)' <=> Reached(i))
  BY <1>1, Pass2Records DEF AgreementInvariant, PassesAgree, Reached
<1>4. Reached(i) /\ i > pc => srcl[pc].odr # "end"
  BY <1>1, <1>3 DEF EndStops
<1>. QED
  BY <1>1, <1>2, <1>3, <1>4 DEF Passed

(* A line of pass 2 leaves what is below its address alone.                 *)
LEMMA Pass2Below ==
  ASSUME TypeOK, PassLine, passNo = 2, WellFormed(srcl), AgreementInvariant, BoundsInvariant
  PROVE  /\ g_adr \in Nat /\ g_adr' \in Nat /\ g_adr <= g_adr'
         /\ \A a \in 0..(g_adr - 1) : a \in 0..(g_adr' - 1) /\ g_mem'[a] = g_mem[a]
<1>1. /\ phase = "line" /\ Len(srcl) \in Nat /\ pc \in 1..Len(srcl)
  BY LineFacts
<1>2. g_adr \in Nat
  BY DEF BoundsInvariant, AddressesGrow
<1>3. g_adr' \in Nat /\ g_adr <= g_adr'
  BY <1>2, LineGrows
<1>4. \A a \in DOMAIN g_mem : a \notin g_adr..g_adr' => g_mem'[a] = g_mem[a]
  BY <1>2, LineWrites
<1>5. DOMAIN g_mem = 0..(memSize - 1) /\ memSize = Counted + Slack /\ Reached(Len(srcl) + 1)
  BY DEF BoundsInvariant, SizeKept
<1>6. Reached(pc) /\ g_adr = pass1[pc].adr /\ pc \in 1..(Len(srcl) + 1)
  BY <1>1 DEF AgreementInvariant, PassesAgree
<1>7. Counted \in Nat /\ g_adr <= Counted
  BY <1>5, <1>6, CountedType DEF BoundsInvariant
<1>8. PICK end \in Nat : end = g_adr' /\ g_adr <= end
  BY <1>3
<1>9. ASSUME NEW a \in 0..(g_adr - 1)
      PROVE  a \in DOMAIN g_mem /\ a \notin g_adr..end /\ a \in 0..(end - 1)
  BY <1>2, <1>5, <1>7, <1>8, ConstantsAssumption
<1> QED  BY <1>2, <1>3, <1>4, <1>8, <1>9, Zenon

(* The NUL of a stri the source ends in is past all data.                   *)
LEMMA EndPassBelow ==
  ASSUME TypeOK, EndPass, passNo = 2, WellFormed(srcl), AgreementInvariant, BoundsInvariant
  PROVE  \A a \in 0..(g_adr - 1) : a \in 0..(g_adr' - 1) /\ g_mem'[a] = g_mem[a]
<1>1. /\ phase = "line" /\ pc = Len(srcl) + 1 /\ Len(srcl) \in Nat
      /\ g_adr' = IF striMode THEN g_adr + 1 ELSE g_adr
      /\ g_mem' = IF striMode THEN Poke(g_mem, g_adr, <<0>>) ELSE g_mem
  BY ConstantsAssumption DEF EndPass, TypeOK
<1>2. g_adr \in Nat
  BY DEF BoundsInvariant, AddressesGrow
<1>3. DOMAIN g_mem = 0..(memSize - 1) /\ memSize = Counted + Slack /\ Reached(Len(srcl) + 1)
  BY DEF BoundsInvariant, SizeKept
<1>4. Reached(pc) /\ g_adr = pass1[pc].adr /\ pc \in 1..(Len(srcl) + 1)
  BY <1>1 DEF AgreementInvariant, PassesAgree
<1>5. Counted \in Nat /\ g_adr <= Counted
  BY <1>3, <1>4, CountedType DEF BoundsInvariant
<1>6. ASSUME NEW a \in 0..(g_adr - 1)
      PROVE  a \in DOMAIN g_mem /\ a # g_adr /\ a \in 0..(g_adr' - 1)
  BY <1>1, <1>2, <1>3, <1>5, ConstantsAssumption
<1>7. \A a \in DOMAIN g_mem : a # g_adr => g_mem'[a] = g_mem[a]
  <2>1. CASE striMode
    <3> DEFINE nul == <<0>>
    <3>1. Len(nul) \in Nat /\ g_adr..(g_adr + Len(nul) - 1) = {g_adr}
      BY <1>2
    <3>2. g_mem' = Poke(g_mem, g_adr, nul)
      BY <1>1, <2>1
    <3> HIDE DEF nul
    <3>3. Wrote(g_mem, g_mem', g_adr, g_adr + Len(nul) - 1)
      BY <1>2, <3>1, <3>2, PokeWrites, Zenon
    <3> QED  BY <3>1, <3>3 DEF Wrote
  <2>2. CASE ~striMode
    BY <1>1, <2>2
  <2> QED  BY <2>1, <2>2
<1> QED  BY <1>6, <1>7

-----------------------------------------------------------------------------
(* ImageInvariant is inductive.                                             *)

LEMMA ImageInit == Init => ImageInvariant
<1> SUFFICES ASSUME Init PROVE ImageInvariant
  OBVIOUS
<1>1. Len(srcl) \in Nat /\ passNo = 1 /\ phase = "line"
  BY ConstantsAssumption DEF Init
<1>2. \A i \in 1..Len(srcl) : ~Reached(i)
  BY <1>1 DEF Init, Reached
<1>. QED
  BY <1>1, <1>2 DEF ImageInvariant, EndStops, ImageSoFar

(* A line of pass 1 is no end that lines have been run after.               *)
LEMMA ImagePass1Line ==
  ASSUME TypeOK, PassLine, passNo = 1, AgreementInvariant, ImageInvariant
  PROVE  ImageInvariant'
<1>1. /\ phase = "line" /\ phase' = "line" /\ passNo' = 1 /\ srcl' = srcl /\ Len(srcl) \in Nat
      /\ pc \in 1..Len(srcl)
  BY LineFacts
<1>2. ASSUME NEW i \in 1..Len(srcl), Reached(i)'
      PROVE  i = pc \/ (Reached(i) /\ i < pc /\ srcl[i].odr # "end")
  <2>1. i \in 1..(Len(srcl) + 1)
    BY <1>1
  <2>2. i # pc => Reached(i)
    BY <1>2, <2>1, Pass1Records
  <2>3. Reached(i) => i < pc
    BY <1>1, <2>1 DEF AgreementInvariant, Front
  <2>4. i < pc => srcl[i].odr # "end"
    BY <1>1 DEF AgreementInvariant, Front
  <2>. QED
    BY <2>2, <2>3, <2>4
<1>3. EndStops'
  BY <1>1, <1>2 DEF EndStops
<1>. QED
  BY <1>1, <1>3 DEF ImageInvariant, ImageSoFar

(* A line of pass 2 leaves the data of the lines before it alone, and but   *)
(* for its own data writes zeros.                                           *)
LEMMA ImagePass2Line ==
  ASSUME TypeOK, PassLine, passNo = 2, AgreementInvariant, BoundsInvariant, ImageInvariant
  PROVE  ImageInvariant'
<1>1. /\ phase = "line" /\ phase' = "line" /\ passNo' = 2 /\ srcl' = srcl /\ Len(srcl) \in Nat
      /\ pc \in 1..Len(srcl)
  BY LineFacts
<1>2. pass1' = pass1
  BY Pass2Records
<1>3. EndStops'
  BY <1>1, <1>2 DEF ImageInvariant, EndStops, Reached
<1>4. ASSUME WellFormed(srcl)
      PROVE  /\ \A a \in DOMAIN g_mem' :
                  (\A i \in 1..Len(srcl) : Passed(i)' => a \notin DataOf(i)) => g_mem'[a] = 0
             /\ \A i \in 1..Len(srcl) : Passed(i)' /\ IsStriText(srcl[i], pass1[i].stri) =>
                  \A a \in DataOf(i) : a \in 0..(g_adr' - 1) /\ g_mem'[a] # 0
  <2>1. /\ \A a \in DOMAIN g_mem :
             (\A i \in 1..Len(srcl) : Passed(i) => a \notin DataOf(i)) => g_mem[a] = 0
        /\ \A i \in 1..Len(srcl) : Passed(i) /\ IsStriText(srcl[i], pass1[i].stri) =>
             \A a \in DataOf(i) : a \in 0..(g_adr - 1) /\ g_mem[a] # 0
    BY <1>1, <1>4 DEF ImageInvariant, ImageSoFar
  <2>2. \A i \in 1..Len(srcl) : Passed(i)' <=> Passed(i) \/ i = pc
    BY <1>4, Pass2Passed DEF ImageInvariant
  <2>3. g_adr \in Nat
    BY DEF BoundsInvariant, AddressesGrow
  <2>4. g_adr' \in Nat /\ g_adr <= g_adr'
    BY <2>3, LineGrows
  <2>5. /\ \A a \in DOMAIN g_mem : a \notin g_adr..g_adr' => g_mem'[a] = g_mem[a]
        /\ \A a \in DOMAIN g_mem' : a \notin DataOf(pc) =>
             g_mem'[a] = 0 \/ (a \in DOMAIN g_mem /\ g_mem'[a] = g_mem[a])
        /\ IsStriText(srcl[pc], pass1[pc].stri) =>
             \A a \in DataOf(pc) : a \in g_adr..(g_adr' - 1) /\ g_mem'[a] # 0
    BY <1>4, <2>3, LineWrites, Pass2Data
  <2>6. \A a \in 0..(g_adr - 1) : g_mem'[a] = g_mem[a]
    BY <1>4, Pass2Below
  <2>7. ASSUME NEW a \in DOMAIN g_mem', \A i \in 1..Len(srcl) : Passed(i)' => a \notin DataOf(i)
        PROVE  g_mem'[a] = 0
    <3>1. a \notin DataOf(pc)
      BY <1>1, <2>2, <2>7
    <3>2. \A i \in 1..Len(srcl) : Passed(i) => a \notin DataOf(i)
      BY <2>2, <2>7
    <3>. QED
      BY <2>1, <2>5, <3>1, <3>2
  <2>8. ASSUME NEW i \in 1..Len(srcl), Passed(i)', IsStriText(srcl[i], pass1[i].stri),
               NEW a \in DataOf(i)
        PROVE  a \in 0..(g_adr' - 1) /\ g_mem'[a] # 0
    <3>0. PICK end \in Nat : end = g_adr' /\ g_adr <= end
      BY <2>4
    <3>1. CASE i = pc
      <4>1. a \in g_adr..(end - 1) /\ g_mem'[a] # 0
        BY <2>5, <2>8, <3>0, <3>1
      <4>2. a \in 0..(end - 1)
        BY <2>3, <4>1
      <4>. QED
        BY <3>0, <4>1, <4>2, Zenon
    <3>2. CASE i # pc
      <4>1. a \in 0..(g_adr - 1) /\ g_mem[a] # 0
        BY <2>1, <2>2, <2>8, <3>2
      <4>2. g_mem'[a] = g_mem[a]
        BY <2>6, <4>1
      <4>3. g_adr <= end
        BY <3>0
      <4>4. a \in 0..(end - 1)
        BY <2>3, <4>1, <4>3
      <4>. QED
        BY <3>0, <4>1, <4>2, <4>4, Zenon
    <3>. QED
      BY <3>1, <3>2
  <2>. QED
    BY <2>7, <2>8
<1>5. ImageSoFar'
  <2>1. \A i : DataOf(i)' = DataOf(i)
    BY <1>1, <1>2 DEF DataOf
  <2>. QED
    BY <1>1, <1>2, <1>4, <2>1 DEF ImageSoFar
<1>. QED
  BY <1>1, <1>3, <1>5 DEF ImageInvariant

(* What the end of a pass, the allocation and the save keep of EndStops.    *)
LEMMA EndStopsKept ==
  ASSUME srcl' = srcl, \A i \in DOMAIN srcl : Reached(i)' <=> Reached(i), EndStops
  PROVE  EndStops'
BY DEF EndStops

(* The NUL of a stri the source ends in is past all data.                   *)
LEMMA ImageEndPass ==
  ASSUME TypeOK, EndPass, AgreementInvariant, BoundsInvariant, ImageInvariant
  PROVE  ImageInvariant'
<1>1. /\ phase = "line" /\ pc = Len(srcl) + 1 /\ Len(srcl) \in Nat
      /\ srcl' = srcl /\ passNo' = passNo
      /\ phase' = IF passNo = 1 THEN "alloc" ELSE "save"
      /\ g_adr' = IF striMode THEN g_adr + 1 ELSE g_adr
      /\ g_mem' = IF striMode /\ passNo = 2 THEN Poke(g_mem, g_adr, <<0>>) ELSE g_mem
      /\ pass1' = IF passNo = 1
                  THEN [pass1 EXCEPT ![pc] =
                          [adr |-> g_adr, mode |-> autoAlignMode, stri |-> striMode,
                           opt |-> striOpt, arg |-> 0]]
                  ELSE pass1
      /\ pass1 \in [1..(Len(srcl) + 1) -> LayoutState]
  BY ConstantsAssumption DEF EndPass, TypeOK
<1>2. DOMAIN srcl = 1..Len(srcl)
  BY ConstantsAssumption DEF TypeOK
<1>3. \A i \in 1..Len(srcl) : pass1'[i] = pass1[i]
  BY <1>1
<1>4. \A i \in 1..Len(srcl) : Reached(i)' <=> Reached(i)
  BY <1>3 DEF Reached
<1>5. EndStops'
  BY <1>1, <1>2, <1>4, EndStopsKept DEF ImageInvariant
<1>6. CASE passNo = 1
  BY <1>1, <1>5, <1>6 DEF ImageInvariant, ImageSoFar
<1>7. CASE passNo = 2
  <2>1. \A i \in 1..Len(srcl) : (Passed(i)' <=> Passed(i)) /\ DataOf(i)' = DataOf(i)
    BY <1>1, <1>3, <1>4, <1>7 DEF Passed, DataOf
  <2>2. g_adr \in Nat
    BY DEF BoundsInvariant, AddressesGrow
  <2>3. /\ DOMAIN g_mem' \subseteq DOMAIN g_mem \cup {g_adr}
        /\ \A a \in DOMAIN g_mem' : g_mem'[a] = 0 \/ (a \in DOMAIN g_mem /\ g_mem'[a] = g_mem[a])
        /\ \A a \in DOMAIN g_mem : a # g_adr => g_mem'[a] = g_mem[a]
    <3>1. CASE striMode
      <4> DEFINE nul == <<0>>
      <4>1. /\ Len(nul) \in Nat /\ g_adr..(g_adr + Len(nul) - 1) = {g_adr}
            /\ nul[g_adr - g_adr + 1] = 0 /\ g_adr \in g_adr..(g_adr + Len(nul) - 1)
        BY <2>2
      <4>2. g_mem' = Poke(g_mem, g_adr, nul)
        BY <1>1, <1>7, <3>1
      <4> HIDE DEF nul
      <4>3. Wrote(g_mem, g_mem', g_adr, g_adr + Len(nul) - 1)
        BY <2>2, <4>1, <4>2, PokeWrites, Zenon
      <4>4. g_mem'[g_adr] = 0
        BY <4>1, <4>2 DEF Poke
      <4>. QED
        BY <4>1, <4>3, <4>4 DEF Wrote
    <3>2. CASE ~striMode
      BY <1>1, <3>2
    <3>. QED
      BY <3>1, <3>2
  <2>4. ASSUME WellFormed(srcl)
        PROVE  /\ \A a \in DOMAIN g_mem' :
                    (\A i \in 1..Len(srcl) : Passed(i) => a \notin DataOf(i)) => g_mem'[a] = 0
               /\ \A i \in 1..Len(srcl) : Passed(i) /\ IsStriText(srcl[i], pass1[i].stri) =>
                    \A a \in DataOf(i) : a \in 0..(g_adr' - 1) /\ g_mem'[a] # 0
    <3>1. /\ \A a \in DOMAIN g_mem :
               (\A i \in 1..Len(srcl) : Passed(i) => a \notin DataOf(i)) => g_mem[a] = 0
          /\ \A i \in 1..Len(srcl) : Passed(i) /\ IsStriText(srcl[i], pass1[i].stri) =>
               \A a \in DataOf(i) : a \in 0..(g_adr - 1) /\ g_mem[a] # 0
      BY <1>2, <1>7, <2>4 DEF ImageInvariant, ImageSoFar
    <3>2. \A a \in 0..(g_adr - 1) : a \in 0..(g_adr' - 1) /\ g_mem'[a] = g_mem[a]
      BY <1>7, <2>4, EndPassBelow
    <3>. QED
      BY <2>3, <3>1, <3>2
  <2>5. ImageSoFar'
    BY <1>1, <1>2, <1>3, <1>7, <2>1, <2>4 DEF ImageSoFar
  <2>. QED
    BY <1>1, <1>5, <1>7, <2>5 DEF ImageInvariant
<1>. QED
  BY <1>6, <1>7 DEF TypeOK

(* callocE clears the block.                                                *)
LEMMA ImageBeginPass2 ==
  ASSUME TypeOK, BeginPass2, ImageInvariant
  PROVE  ImageInvariant'
<1>1. /\ phase' = "line" /\ pc' = 1 /\ srcl' = srcl /\ pass1' = pass1
      /\ g_mem' = [a \in 0..(g_adr + Slack - 1) |-> 0]
  BY DEF BeginPass2
<1>2. \A i \in DOMAIN srcl : ~Passed(i)'
  BY <1>1, ConstantsAssumption DEF TypeOK, Passed
<1>3. EndStops'
  BY <1>1, EndStopsKept DEF ImageInvariant, Reached
<1>. QED
  BY <1>1, <1>2, <1>3 DEF ImageInvariant, ImageSoFar

LEMMA ImageSave ==
  ASSUME TypeOK, Save, ImageInvariant
  PROVE  ImageInvariant'
<1>1. /\ phase = "save" /\ phase' = "done"
      /\ file' = [a \in 0..(g_adr - 1) \cap DOMAIN g_mem |-> g_mem[a]]
      /\ UNCHANGED <<srcl, passNo, g_adr, g_mem, pass1>>
  BY DEF Save
<1>2. \A i : (Passed(i)' <=> Passed(i)) /\ DataOf(i)' = DataOf(i)
  BY <1>1 DEF Passed, Reached, DataOf
<1>3. EndStops'
  BY <1>1, EndStopsKept DEF ImageInvariant, Reached
<1>4. ImageSoFar'
  BY <1>1, <1>2 DEF ImageInvariant, ImageSoFar
<1>. QED
  BY <1>1, <1>3, <1>4 DEF ImageInvariant

LEMMA ImageNext ==
  ASSUME TypeOK, AgreementInvariant, BoundsInvariant, ImageInvariant, [Next]_vars
  PROVE  ImageInvariant'
<1>1. CASE PassLine
  BY <1>1, ImagePass1Line, ImagePass2Line DEF TypeOK
<1>2. CASE UNCHANGED vars
  BY <1>2 DEF vars, ImageInvariant, EndStops, ImageSoFar, Passed, Reached, DataOf
<1>. QED
  BY <1>1, <1>2, ImageEndPass, ImageBeginPass2, ImageSave DEF Next, Finished

(* What pass 2 has written is data of the lines it has passed and zeros,    *)
(* the text of a stri is still there, and the file is the image.            *)
THEOREM ImageAlways == Spec => []ImageInvariant
<1>1. Init => ImageInvariant
  BY ImageInit
<1>2. TypeOK /\ AgreementInvariant /\ BoundsInvariant /\ ImageInvariant /\ [Next]_vars
        => ImageInvariant'
  BY ImageNext
<1>. QED
  BY <1>1, <1>2, TypeCorrect, AgreementAlways, BoundsAlways, PTL DEF Spec

(* Whatever the source, if it is well-formed then every byte of the file    *)
(* that is no line's data is 0, and no NUL or datum has overwritten the     *)
(* text of a stri (gen_dc, GenStri, GenStriEnd, callocE, FIL_SaveE).        *)
THEOREM FileHasNoStrayBytes == Spec => []GapsAreZero
<1>1. TypeOK /\ BoundsInvariant /\ ImageInvariant => GapsAreZero
  <2> SUFFICES ASSUME TypeOK, BoundsInvariant, ImageInvariant, WellFormed(srcl), phase = "done"
               PROVE  GapsAreZero
    BY DEF GapsAreZero
  <2>1. /\ passNo = 2 /\ Reached(Len(srcl) + 1) /\ memSize = Counted + Slack
        /\ DOMAIN g_mem = 0..(memSize - 1) /\ g_adr = Counted
    BY DEF BoundsInvariant, SizeKept
  <2>2. Counted \in Nat
    BY <2>1, CountedType DEF BoundsInvariant
  <2>3. \A a \in 0..(g_adr - 1) : a \in DOMAIN g_mem
    BY <2>1, <2>2, ConstantsAssumption
  <2>4. /\ \A a \in DOMAIN file : a \in DOMAIN g_mem /\ file[a] = g_mem[a]
        /\ \A a \in 0..(g_adr - 1) : file[a] = g_mem[a]
    BY <2>3 DEF ImageInvariant
  <2>5. \A i : Passed(i) <=> Reached(i)
    BY DEF Passed
  <2>. QED
    BY <2>1, <2>4, <2>5 DEF ImageInvariant, ImageSoFar, GapsAreZero
<1>. QED
  BY <1>1, TypeCorrect, BoundsAlways, ImageAlways, PTL

-----------------------------------------------------------------------------
(* The bytes of a number.                                                  *)

(* Shr drops a byte at a time.                                              *)
LEMMA ShrStep ==
  ASSUME NEW v \in Int
  PROVE  /\ Shr(v, 0) = v
         /\ \A i \in 1..8 : Shr(v, i) = Shr(v, i - 1) \div 256
<1> DEFINE step(f) == [k \in 0..8 |-> IF k = 0 THEN v ELSE f[k - 1] \div 256]
           shr == CHOOSE f : f = step(f)
<1>1. \A i : Shr(v, i) = shr[i]
  BY DEF Shr
<1>2. \E f : f = step(f)
  <2> DEFINE s1 == v \div 256
             s2 == s1 \div 256
             s3 == s2 \div 256
             s4 == s3 \div 256
             s5 == s4 \div 256
             s6 == s5 \div 256
             s7 == s6 \div 256
             s8 == s7 \div 256
             f == [k \in 0..8 |-> CASE k = 0 -> v [] k = 1 -> s1 [] k = 2 -> s2 [] k = 3 -> s3
                                    [] k = 4 -> s4 [] k = 5 -> s5 [] k = 6 -> s6 [] k = 7 -> s7
                                    [] k = 8 -> s8]
  <2>1. /\ f[0] = v /\ f[1] = f[0] \div 256 /\ f[2] = f[1] \div 256 /\ f[3] = f[2] \div 256
        /\ f[4] = f[3] \div 256 /\ f[5] = f[4] \div 256 /\ f[6] = f[5] \div 256
        /\ f[7] = f[6] \div 256 /\ f[8] = f[7] \div 256
        /\ f = [k \in 0..8 |-> f[k]]
    <3> HIDE DEF s1, s2, s3, s4, s5, s6, s7, s8
    <3>1. /\ f[0] = v /\ f[1] = s1 /\ f[2] = s2 /\ f[3] = s3 /\ f[4] = s4 /\ f[5] = s5
          /\ f[6] = s6 /\ f[7] = s7 /\ f[8] = s8 /\ f = [k \in 0..8 |-> f[k]]
      OBVIOUS
    <3> HIDE DEF f
    <3> QED  BY <3>1 DEF s1, s2, s3, s4, s5, s6, s7, s8
  <2> HIDE DEF f
  <2>2. \A k \in 0..8 : f[k] = (IF k = 0 THEN v ELSE f[k - 1] \div 256)
    <3>1. SUFFICES ASSUME NEW k \in 0..8
                   PROVE  f[k] = (IF k = 0 THEN v ELSE f[k - 1] \div 256)
      OBVIOUS
    <3>2. CASE k = 0
      BY <2>1, <3>2
    <3>3. CASE k # 0
      <4> PICK j \in 0..7 : j = k - 1
        BY <3>3
      <4>1. k = j + 1 /\ k - 1 = j
        OBVIOUS
      <4>2. j = 0 \/ j = 1 \/ j = 2 \/ j = 3 \/ j = 4 \/ j = 5 \/ j = 6 \/ j = 7
        OBVIOUS
      <4>3. f[j + 1] = f[j] \div 256
        <5> DEFINE q(x) == x \div 256
        <5>1. /\ f[1] = q(f[0]) /\ f[2] = q(f[1]) /\ f[3] = q(f[2]) /\ f[4] = q(f[3])
              /\ f[5] = q(f[4]) /\ f[6] = q(f[5]) /\ f[7] = q(f[6]) /\ f[8] = q(f[7])
          BY <2>1
        <5> HIDE DEF q
        <5>2. f[j + 1] = q(f[j])
          BY <4>2, <5>1
        <5> QED  BY <5>2 DEF q
      <4> QED  BY <3>3, <4>1, <4>3, Zenon
    <3> QED  BY <3>2, <3>3
  <2>3. f = step(f)
    BY <2>1, <2>2
  <2> QED  BY <2>3
<1>3. shr = step(shr)
  BY <1>2
<1> HIDE DEF shr
<1>4. shr[0] = v /\ \A i \in 1..8 : shr[i] = shr[i - 1] \div 256
  BY <1>3
<1> QED  BY <1>1, <1>4

(* The file has the n bytes of v at adr, and num puts them together one     *)
(* after another.                                                           *)
HasBytes(adr, n, endian, v) == \A b \in 1..n : file[adr + b - 1] = Bytes(v, n, endian)[b]

PutTogether(num, n, v) ==
  /\ num[1] = LET top == Shr(v, n - 1) % 256 IN IF top >= 128 THEN top - 256 ELSE top
  /\ \A k \in 2..n : num[k] = num[k - 1] * 256 + (Shr(v, n - k) % 256)

LEMMA StoredStep ==
  ASSUME NEW adr \in Int, NEW n \in {1, 2, 4, 8}, NEW endian, NEW v \in Int,
         HasBytes(adr, n, endian, v)
  PROVE  \E num : Stored(adr, n, endian) = num[n] /\ PutTogether(num, n, v)
<1> DEFINE byte(k) == file[adr + (IF endian = 0 THEN n - k ELSE k - 1)]
           first == IF byte(1) >= 128 THEN byte(1) - 256 ELSE byte(1)
           next(x, k) == x * 256 + byte(k)
           step(f) == [k \in 1..n |-> IF k = 1 THEN first ELSE f[k - 1] * 256 + byte(k)]
           num == CHOOSE f : f = step(f)
<1>1. Stored(adr, n, endian) = num[n]
  BY DEF Stored
<1>2. \A f : step(f) = [k \in 1..n |-> IF k = 1 THEN first ELSE next(f[k - 1], k)]
  OBVIOUS
<1>3. ASSUME NEW k \in 1..n PROVE byte(k) = Shr(v, n - k) % 256
  <2> DEFINE b == IF endian = 0 THEN n - k + 1 ELSE k
  <2>1. /\ b \in 1..n /\ adr + (IF endian = 0 THEN n - k ELSE k - 1) = adr + b - 1
        /\ (IF endian = 0 THEN b - 1 ELSE n - b) = n - k
    OBVIOUS
  <2>2. byte(k) = Bytes(v, n, endian)[b]
    BY <2>1 DEF HasBytes
  <2> HIDE DEF b
  <2>3. Bytes(v, n, endian)[b] = Shr(v, IF endian = 0 THEN b - 1 ELSE n - b) % 256
    BY <2>1 DEF Bytes
  <2> QED  BY <2>1, <2>2, <2>3, Zenon
<1> HIDE DEF byte, first, next
<1>4. \E f : f = step(f)
  <2> DEFINE n2 == next(first, 2)
             n3 == next(n2, 3)
             n4 == next(n3, 4)
             n5 == next(n4, 5)
             n6 == next(n5, 6)
             n7 == next(n6, 7)
             n8 == next(n7, 8)
             f == [k \in 1..n |-> CASE k = 1 -> first [] k = 2 -> n2 [] k = 3 -> n3
                                    [] k = 4 -> n4 [] k = 5 -> n5 [] k = 6 -> n6
                                    [] k = 7 -> n7 [] k = 8 -> n8]
  <2> HIDE DEF n2, n3, n4, n5, n6, n7, n8
  <2>1. /\ f[1] = first /\ f = [k \in 1..n |-> f[k]]
        /\ n >= 2 => f[2] = n2
        /\ n >= 4 => f[3] = n3 /\ f[4] = n4
        /\ n >= 8 => f[5] = n5 /\ f[6] = n6 /\ f[7] = n7 /\ f[8] = n8
    OBVIOUS
  <2> HIDE DEF f
  <2>2. /\ n >= 2 => f[2] = next(f[1], 2)
        /\ n >= 4 => f[3] = next(f[2], 3) /\ f[4] = next(f[3], 4)
        /\ n >= 8 => f[5] = next(f[4], 5) /\ f[6] = next(f[5], 6) /\ f[7] = next(f[6], 7)
                     /\ f[8] = next(f[7], 8)
    BY <2>1 DEF n2, n3, n4, n5, n6, n7, n8
  <2>3. ASSUME NEW k \in 1..n, k # 1 PROVE f[k] = next(f[k - 1], k)
    <3> PICK j \in 1..7 : j = k - 1
      BY <2>3
    <3>1. k = j + 1 /\ k - 1 = j /\ n > j
      OBVIOUS
    <3>2. j = 1 \/ j = 2 \/ j = 3 \/ j = 4 \/ j = 5 \/ j = 6 \/ j = 7
      OBVIOUS
    <3>3. f[j + 1] = next(f[j], j + 1)
      BY <2>2, <3>1, <3>2
    <3> QED  BY <3>1, <3>3, Zenon
  <2>4. \A k \in 1..n : f[k] = (IF k = 1 THEN first ELSE next(f[k - 1], k))
    BY <2>1, <2>3
  <2>5. f = step(f)
    <3>1. f = [k \in 1..n |-> IF k = 1 THEN first ELSE next(f[k - 1], k)]
      BY <2>1, <2>4
    <3> QED  BY <1>2, <3>1, Zenon
  <2> QED  BY <2>5
<1>5. num = step(num)
  BY <1>4
<1> HIDE DEF num
<1>6. num[1] = first /\ \A k \in 2..n : num[k] = num[k - 1] * 256 + byte(k)
  BY <1>5
<1>7. PutTogether(num, n, v)
  BY <1>3, <1>6 DEF first, PutTogether
<1> QED  BY <1>1, <1>7

LEMMA Digit ==
  ASSUME NEW y \in Int
  PROVE  /\ y \div 256 \in Int /\ y % 256 \in 0..255
         /\ y = (y \div 256) * 256 + (y % 256)
OBVIOUS

(* A value that putOne stores without a message is read back, signed, or    *)
(* else unsigned.                                                           *)
LEMMA ReadBack ==
  ASSUME NEW adr \in Int, NEW md \in Mds, NEW endian, NEW v \in Int,
         HasBytes(adr, Size(md), endian, v),
         FitsVal(v), InRange(v, md)
  PROVE  Holds(adr, md, endian, v)
<1> DEFINE n == Size(md)
           got == Stored(adr, n, endian)
<1>1. n \in {1, 2, 4, 8} /\ md \in 0..3
      /\ n = (CASE md = 0 -> 1 [] md = 1 -> 2 [] md = 2 -> 4 [] md = 3 -> 8)
  BY DEF Mds, Size
<1>2. PICK s : /\ \A i \in 0..8 : s[i] = Shr(v, i)
               /\ s[0] = v /\ \A i \in 1..8 : s[i] = s[i - 1] \div 256
  <2>1. PICK s : s = [i \in 0..8 |-> Shr(v, i)]
    OBVIOUS
  <2> QED  BY <2>1, ShrStep
<1>3. /\ s[1] = s[0] \div 256 /\ s[2] = s[1] \div 256 /\ s[3] = s[2] \div 256
      /\ s[4] = s[3] \div 256 /\ s[5] = s[4] \div 256 /\ s[6] = s[5] \div 256
      /\ s[7] = s[6] \div 256 /\ s[8] = s[7] \div 256
  BY <1>2
<1>4. \A i \in 0..8 : s[i] \in Int
  <2>1. ASSUME NEW i \in 0..7, s[i] \in Int PROVE s[i + 1] \in Int
    <3>1. i + 1 \in 1..8 /\ (i + 1) - 1 = i
      OBVIOUS
    <3>2. s[i + 1] = s[i] \div 256
      BY <1>2, <3>1, Zenon
    <3> QED  BY <2>1, <3>2, Digit
  <2>2. s[0] \in Int
    BY <1>2
  <2>3. s[1] \in Int
    BY <2>1, <2>2
  <2>4. s[2] \in Int
    BY <2>1, <2>3
  <2>5. s[3] \in Int
    BY <2>1, <2>4
  <2>6. s[4] \in Int
    BY <2>1, <2>5
  <2>7. s[5] \in Int
    BY <2>1, <2>6
  <2>8. s[6] \in Int
    BY <2>1, <2>7
  <2>9. s[7] \in Int
    BY <2>1, <2>8
  <2>10. s[8] \in Int
    BY <2>1, <2>9
  <2> QED  BY <2>2, <2>3, <2>4, <2>5, <2>6, <2>7, <2>8, <2>9, <2>10
<1>5. PICK top : top = s[n - 1] % 256
  OBVIOUS
<1>6. top = Shr(v, n - 1) % 256
  BY <1>1, <1>2, <1>5
<1> HIDE DEF n, got
<1>7. PICK num : /\ got = num[n]
                 /\ num[1] = IF top >= 128 THEN top - 256 ELSE top
                 /\ \A k \in 2..n : num[k] = num[k - 1] * 256 + (Shr(v, n - k) % 256)
  <2>1. HasBytes(adr, n, endian, v)
    BY DEF n
  <2>2. n \in {1, 2, 4, 8}
    BY <1>1
  <2>3. PICK num : Stored(adr, n, endian) = num[n] /\ PutTogether(num, n, v)
    BY <2>1, <2>2, StoredStep
  <2>4. num[1] = IF top >= 128 THEN top - 256 ELSE top
    BY <1>6, <2>3, Zenon DEF PutTogether
  <2> QED  BY <2>3, <2>4, Zenon DEF got, PutTogether
<1>8. \A k \in 2..n : num[k] = num[k - 1] * 256 + (s[n - k] % 256)
  <2>1. \A k \in 2..n : n - k \in 0..8
    BY <1>1
  <2> QED  BY <1>2, <1>7, <2>1, Zenon
<1>9. ASSUME NEW i \in 0..7
      PROVE  s[i] = s[i + 1] * 256 + (s[i] % 256) /\ s[i] % 256 \in 0..255
  <2>1. i + 1 \in 1..8 /\ (i + 1) - 1 = i /\ i \in 0..8
    OBVIOUS
  <2>2. s[i + 1] = s[i] \div 256 /\ s[i] \in Int
    BY <1>2, <1>4, <2>1, Zenon
  <2> QED  BY <2>2, Digit
<1>10. \/ s[n - 1] \in -128..127
       \/ md < 3 /\ s[n] = 0 /\ s[n - 1] \in 128..255
  <2>1. CASE md = 3
    BY <1>1, <1>2, <2>1 DEF FitsVal
  <2>2. CASE md # 3
    <3>1. /\ s[n] = Shr(v, n) /\ s[n - 1] = Shr(v, n - 1)
          /\ s[n] = s[n - 1] \div 256 /\ s[n - 1] \in Int
      BY <1>1, <1>2, <1>4
    <3>2. s[n] = 0 \/ (s[n] = -1 /\ s[n - 1] % 256 >= 128)
      BY <2>2, <3>1 DEF InRange, n
    <3>3. PICK t \in Int : t = s[n - 1]
      BY <3>1
    <3>4. t \div 256 = 0 \/ (t \div 256 = -1 /\ t % 256 >= 128)
      BY <3>1, <3>2, <3>3
    <3>5. t \in -128..127 \/ (t \in 128..255 /\ t \div 256 = 0)
      BY <3>4
    <3> QED  BY <1>1, <2>2, <3>1, <3>3, <3>5
  <2> QED  BY <2>1, <2>2
<1>11. CASE s[n - 1] \in -128..127
  <2>1. num[1] = s[n - 1]
    BY <1>5, <1>7, <1>11
  <2>2. ASSUME NEW k \in 2..n, num[k - 1] = s[n - k + 1] PROVE num[k] = s[n - k]
    <3>1. PICK i \in 0..7 : i = n - k
      BY <1>1
    <3>2. s[i + 1] = s[i] \div 256 /\ s[i] \in Int
      BY <1>2, <1>4
    <3>3. num[k] = s[i + 1] * 256 + (s[i] % 256)
      BY <1>8, <2>2, <3>1
    <3>4. num[k] = s[i]
      BY <3>2, <3>3, Digit
    <3> QED  BY <3>1, <3>4
  <2>3. num[n] = s[0]
    <3>1. CASE n = 1
      BY <2>1, <3>1
    <3>2. CASE n = 2
      BY <2>1, <2>2, <3>2
    <3>3. CASE n = 4
      <4>1. num[2] = s[2]
        BY <2>1, <2>2, <3>3
      <4>2. num[3] = s[1]
        BY <4>1, <2>2, <3>3
      <4> QED  BY <4>2, <2>2, <3>3
    <3>4. CASE n = 8
      <4>1. num[2] = s[6]
        BY <2>1, <2>2, <3>4
      <4>2. num[3] = s[5]
        BY <4>1, <2>2, <3>4
      <4>3. num[4] = s[4]
        BY <4>2, <2>2, <3>4
      <4>4. num[5] = s[3]
        BY <4>3, <2>2, <3>4
      <4>5. num[6] = s[2]
        BY <4>4, <2>2, <3>4
      <4>6. num[7] = s[1]
        BY <4>5, <2>2, <3>4
      <4> QED  BY <4>6, <2>2, <3>4
    <3> QED  BY <1>1, <3>1, <3>2, <3>3, <3>4
  <2>4. got = v
    BY <1>2, <1>7, <2>3, Zenon
  <2> QED  BY <2>4 DEF Holds, got, n
<1>12. CASE md < 3 /\ s[n] = 0 /\ s[n - 1] \in 128..255
  <2>1. num[1] = s[n - 1] - 256
    BY <1>5, <1>7, <1>12
  <2>2. got < 0 /\ v >= 0 /\ got + Modulus(md) = v
    <3>1. CASE md = 0
      <4>1. got = v - 256 /\ v \in 128..255
        BY <1>1, <1>2, <1>7, <1>12, <2>1, <3>1
      <4> QED  BY <3>1, <4>1 DEF Modulus
    <3>2. CASE md = 1
      <4>1. n = 2
        BY <1>1, <3>2
      <4>2. s[1] \in 128..255 /\ s[0] = v
        BY <1>2, <1>12, <4>1
      <4>3. num[1] = s[1] - 256 /\ got = num[1] * 256 + (s[0] % 256)
        BY <1>7, <1>8, <2>1, <4>1
      <4>4. s[0] = s[1] * 256 + (s[0] % 256) /\ s[0] % 256 \in 0..255
        BY <1>9
      <4>5. PICK d1 \in 128..255, d0 \in 0..255 : d1 = s[1] /\ d0 = s[0] % 256
        BY <4>2, <4>4
      <4>6. v = d1 * 256 + d0 /\ got = (d1 - 256) * 256 + d0
        BY <4>2, <4>3, <4>4, <4>5
      <4>7. got < 0 /\ v >= 0 /\ got + 65536 = v
        BY <4>6
      <4> QED  BY <3>2, <4>7 DEF Modulus
    <3>3. CASE md = 2
      <4>1. n = 4
        BY <1>1, <3>3
      <4>2. s[3] \in 128..255 /\ s[0] = v
        BY <1>2, <1>12, <4>1
      <4>3. /\ num[1] = s[3] - 256 /\ num[2] = num[1] * 256 + (s[2] % 256)
            /\ num[3] = num[2] * 256 + (s[1] % 256) /\ got = num[3] * 256 + (s[0] % 256)
        BY <1>7, <1>8, <2>1, <4>1
      <4>4. s[2] = s[3] * 256 + (s[2] % 256) /\ s[2] % 256 \in 0..255
        BY <1>9
      <4>5. s[1] = s[2] * 256 + (s[1] % 256) /\ s[1] % 256 \in 0..255
        BY <1>9
      <4>6. s[0] = s[1] * 256 + (s[0] % 256) /\ s[0] % 256 \in 0..255
        BY <1>9
      <4>7. PICK d3 \in 128..255, d2 \in 0..255, d1 \in 0..255, d0 \in 0..255 :
              d3 = s[3] /\ d2 = s[2] % 256 /\ d1 = s[1] % 256 /\ d0 = s[0] % 256
        BY <4>2, <4>4, <4>5, <4>6
      <4>8. v = ((d3 * 256 + d2) * 256 + d1) * 256 + d0
        BY <4>2, <4>4, <4>5, <4>6, <4>7
      <4>9. got = (((d3 - 256) * 256 + d2) * 256 + d1) * 256 + d0
        BY <4>3, <4>7
      <4>10. got < 0 /\ v >= 0 /\ got + 65536 * 65536 = v
        BY <4>8, <4>9
      <4> QED  BY <3>3, <4>10 DEF Modulus
    <3> QED  BY <1>1, <1>12, <3>1, <3>2, <3>3
  <2> QED  BY <1>12, <2>2 DEF Holds, got, n
<1> QED  BY <1>10, <1>11, <1>12

(* The bytes of datum k of a dc.                                            *)
LEMMA PokeDcBytes ==
  ASSUME NEW mem, NEW adr \in Nat, NEW md \in Mds, NEW endian, NEW vals, Len(vals) \in Nat,
         NEW k \in 1..Len(vals), NEW b \in 1..Size(md)
  PROVE  /\ adr + (k - 1) * Size(md) + b - 1 \in adr..(adr + Len(vals) * Size(md) - 1)
         /\ PokeDc(mem, adr, vals, md, endian)[adr + (k - 1) * Size(md) + b - 1]
              = Bytes(vals[k], Size(md), endian)[b]
<1> DEFINE n == Size(md)
           len == Len(vals)
           byte(i) == Bytes(vals[((i - 1) \div n) + 1], n, endian)[((i - 1) % n) + 1]
           bs == [i \in 1..(len * n) |-> byte(i)]
           from == adr + (k - 1) * n + b - 1
           i == (k - 1) * n + b
<1>1. n \in {1, 2, 4, 8} /\ len * n \in Nat
  BY SizeType, ProductNat DEF Mds, Size
<1>2. PokeDc(mem, adr, vals, md, endian) = Poke(mem, adr, bs)
  BY DEF PokeDc
<1>3. b \in 1..n /\ k \in 1..len /\ len \in Nat
  OBVIOUS
<1>4. byte(i) = Bytes(vals[((i - 1) \div n) + 1], n, endian)[((i - 1) % n) + 1]
  OBVIOUS
<1> HIDE DEF byte
<1>5. bs = [j \in 1..(len * n) |-> bs[j]] /\ \A j \in 1..(len * n) : bs[j] = byte(j)
  OBVIOUS
<1>6. Len(bs) = len * n
  BY <1>1, <1>5, FunctionLength
<1> HIDE DEF bs, n, len
<1>7. /\ i \in 1..(len * n) /\ (i - 1) \div n = k - 1 /\ (i - 1) % n = b - 1
      /\ from \in adr..(adr + len * n - 1) /\ from - adr + 1 = i
  <2>1. CASE n = 1
    BY <1>3, <2>1
  <2>2. CASE n = 2
    BY <1>3, <2>2
  <2>3. CASE n = 4
    BY <1>3, <2>3
  <2>4. CASE n = 8
    BY <1>3, <2>4
  <2> QED  BY <1>1, <2>1, <2>2, <2>3, <2>4
<1>8. Poke(mem, adr, bs)[from] = bs[from - adr + 1]
  <2>1. Len(bs) \in Nat /\ from \in adr..(adr + Len(bs) - 1)
    BY <1>1, <1>6, <1>7
  <2> HIDE DEF from
  <2> QED  BY <2>1, PokeBytes
<1>9. byte(i) = Bytes(vals[k], n, endian)[b]
  <2>1. (k - 1) + 1 = k /\ (b - 1) + 1 = b
    BY <1>3
  <2> QED  BY <1>4, <1>7, <2>1, Zenon
<1>10. Poke(mem, adr, bs)[from] = Bytes(vals[k], n, endian)[b]
  <2> HIDE DEF from, i
  <2> QED  BY <1>5, <1>7, <1>8, <1>9, Zenon
<1> QED  BY <1>2, <1>7, <1>10, Zenon DEF n, len, from

-----------------------------------------------------------------------------
(* DataInvariant is inductive.                                              *)

(* What a line of pass 2 reports, and the byte order it leaves.             *)
LEMMA PassLineReports ==
  ASSUME TypeOK, PassLine
  PROVE  /\ passNo = 2 => messages \subseteq messages'
         /\ passNo = 2 /\ TheLine.odr = "dc" /\ OutOfRange(TheLine) => "range" \in messages'
         /\ g_endianMode' = IF TheLine.odr = "endian" THEN TheLine.md ELSE g_endianMode
<1>1. \A kinds : Report(kinds) /\ passNo = 2 => kinds \subseteq messages' /\ messages \subseteq messages'
  BY DEF Report
<1>2. CASE Dc
  <2>1. TheLine.odr = "dc"
    BY <1>2, OrderMoves DEF Dc
  <2>2. /\ Report(IF passNo = 1 THEN If(TheLine.args = <<>>, "dc")
                  ELSE UndefinedIn(TheLine) \cup If(OutOfRange(TheLine), "range"))
        /\ g_endianMode' = g_endianMode
    BY <1>2 DEF Dc
  <2>3. OutOfRange(TheLine) => "range" \in If(OutOfRange(TheLine), "range")
    BY DEF If
  <2> QED  BY <1>1, <2>1, <2>2, <2>3
<1>3. CASE Endian
  <2>1. TheLine.odr = "endian"
    BY <1>3, OrderMoves DEF Endian
  <2>2. Report({}) /\ g_endianMode' = TheLine.md
    BY <1>3 DEF Endian
  <2> QED  BY <1>1, <2>1, <2>2
<1>4. CASE StriText
  <2>1. TheLine.odr = "text"
    BY <1>4, OrderMoves DEF StriText
  <2>2. messages' = messages /\ g_endianMode' = g_endianMode
    BY <1>4 DEF StriText
  <2> QED  BY <2>1, <2>2
<1>5. CASE NoOrder \/ StrayText \/ Equ \/ Ds \/ Org \/ Align \/ SetAutoAlign \/ Stri \/ StriOpt
           \/ XdefOrder \/ End
  <2>1. \E odr \in Orders \ {"dc", "endian"} : Order(odr)
    BY <1>5 DEF NoOrder, StrayText, Equ, Ds, Org, Align, SetAutoAlign, Stri, StriOpt, XdefOrder,
       End, Orders
  <2>2. TheLine.odr \notin {"dc", "endian"}
    BY <2>1, OrderMoves
  <2>3. g_endianMode' = g_endianMode
    BY <1>5 DEF NoOrder, StrayText, Equ, Ds, Org, Align, SetAutoAlign, Stri, StriOpt, XdefOrder,
       End, Argument
  <2>4. \E kinds : Report(kinds)
    <3>1. CASE NoOrder \/ StrayText \/ Stri \/ XdefOrder \/ End
      BY <3>1 DEF NoOrder, StrayText, Stri, XdefOrder, End
    <3>2. CASE Equ \/ StriOpt
      BY <3>2 DEF Equ, StriOpt
    <3>3. CASE Ds \/ Org \/ Align \/ SetAutoAlign
      BY <3>3 DEF Ds, Org, Align, SetAutoAlign, Argument
    <3> QED  BY <1>5, <3>1, <3>2, <3>3
  <2> QED  BY <1>1, <2>2, <2>3, <2>4
<1> QED  BY <1>2, <1>3, <1>4, <1>5 DEF PassLine

(* The byte order a line leaves is the one in force at the next.            *)
LEMMA EndianMoves ==
  ASSUME TypeOK, NEW i \in 1..Len(srcl)
  PROVE  EndianAt(i + 1) = IF srcl[i].odr = "endian" THEN srcl[i].md ELSE EndianAt(i)
<1> DEFINE set(n) == {j \in 1..(n - 1) : srcl[j].odr = "endian"}
           last(S) == CHOOSE j \in S : \A k \in S : k <= j
<1>1. \A n : EndianAt(n) = IF set(n) = {} THEN optEndianMode ELSE srcl[last(set(n))].md
  BY DEF EndianAt
<1>2. i \in Nat /\ (i + 1) - 1 = i /\ 1..i = 1..(i - 1) \cup {i} /\ i \notin 1..(i - 1)
  BY ConstantsAssumption DEF TypeOK
<1>3. CASE srcl[i].odr = "endian"
  <2>1. i \in set(i + 1) /\ \A k \in set(i + 1) : k \in Int /\ k <= i
    BY <1>2, <1>3
  <2> HIDE DEF set
  <2>2. last(set(i + 1)) \in set(i + 1) /\ \A k \in set(i + 1) : k <= last(set(i + 1))
    BY <2>1
  <2> HIDE DEF last
  <2>3. last(set(i + 1)) = i
    BY <1>2, <2>1, <2>2
  <2> QED  BY <1>1, <1>3, <2>1, <2>3
<1>4. CASE srcl[i].odr # "endian"
  <2>1. set(i + 1) = set(i)
    BY <1>2, <1>4
  <2> HIDE DEF set, last
  <2> QED  BY <1>1, <1>4, <2>1, Zenon
<1> QED  BY <1>3, <1>4

(* A dc of pass 2 puts its data where pass 1 counted them.                  *)
LEMMA Pass2Dc ==
  ASSUME TypeOK, PassLine, passNo = 2, WellFormed(srcl), AgreementInvariant, BoundsInvariant,
         OrderInForce, TheLine.odr = "dc", NEW k \in DOMAIN TheLine.args,
         NEW b \in 1..Size(TheLine.md)
  PROVE  /\ DatumAdr(pc, k) + b - 1 \in 0..(g_adr' - 1)
         /\ g_mem'[DatumAdr(pc, k) + b - 1]
              = Bytes(Datum(pc, k), Size(TheLine.md), EndianAt(pc))[b]
<1> DEFINE start == OrderAdr(TheLine, g_adr, striMode)
           lo == DcStart(TheLine, start, autoAlignMode)
           md == TheLine.md
           vals == DcValues(TheLine)
           at == lo + (k - 1) * Size(md) + b - 1
<1>1. /\ phase = "line" /\ TheLine = srcl[pc] /\ pc \in 1..Len(srcl) /\ Len(srcl) \in Nat
      /\ TheLine \in Line
  BY LineFacts
<1>2. /\ g_adr = pass1[pc].adr /\ striMode = pass1[pc].stri /\ Labelled = labels
      /\ md # 0 => pass1[pc].mode = autoAlignMode
  <2>1. PassesAgree /\ OptionsKept /\ InStep
    BY DEF AgreementInvariant
  <2> QED  BY <1>1, <2>1, Pass2Records, Pass2Options DEF PassesAgree
<1>3. DcLineStart(pc) = lo
  <2>1. DcLineStart(pc) = DcStart(TheLine, start, pass1[pc].mode)
    BY <1>1, <1>2 DEF DcLineStart
  <2>2. DcStart(TheLine, start, pass1[pc].mode) = DcStart(TheLine, start, autoAlignMode)
    BY <1>2, ByteAligned DEF DcStart
  <2> QED  BY <2>1, <2>2, Zenon
<1>4. g_endianMode = EndianAt(pc)
  BY <1>1 DEF OrderInForce
<1>5. /\ md \in Mds /\ TheLine.args \in Seq(Expr) /\ Len(TheLine.args) \in Nat
      /\ DOMAIN TheLine.args = 1..Len(TheLine.args)
  BY <1>1, LenProperties DEF Line
<1>6. vals[k] = Datum(pc, k)
  BY <1>1, <1>2 DEF DcValues, Datum
<1>7. Len(vals) = Len(TheLine.args)
  <2>1. vals = [i \in 1..Len(TheLine.args) |-> vals[i]]
    BY <1>5 DEF DcValues
  <2> HIDE DEF vals
  <2> QED  BY <1>5, <2>1, FunctionLength
<1>8. g_mem' = PokeDc(Terminated, lo, vals, md, g_endianMode)
  BY PassLineMemory DEF LineMemory, IsStriText
<1>9. start \in Nat /\ g_adr \in Nat /\ lo \in Nat
  <2>1. g_adr \in Nat
    BY DEF BoundsInvariant, AddressesGrow
  <2>2. start \in Nat
    BY <2>1, LineGrows
  <2>3. autoAlignMode \in 0..3
    BY DEF TypeOK
  <2> QED  BY <1>5, <2>1, <2>2, <2>3, AutoAlignGrows DEF DcStart
<1>10. g_adr' = lo + Len(vals) * Size(md)
  <2>1. g_adr' = NextAdr(TheLine, 2, start, TheArg, autoAlignMode, striMode, striOpt)
    <3>1. PICK odr : Order(odr)
      BY PassLineMoves
    <3> QED  BY <3>1, OrderMoves
  <2> QED  BY <1>7, <2>1, DcMoves, Zenon
<1>11. /\ at \in lo..(lo + Len(vals) * Size(md) - 1)
       /\ g_mem'[at] = Bytes(vals[k], Size(md), g_endianMode)[b]
  <2>1. k \in 1..Len(vals) /\ Len(vals) \in Nat
    BY <1>5, <1>7
  <2> HIDE DEF lo, vals, md
  <2>2. b \in 1..Size(md)
    BY DEF md
  <2>3. PICK mem : mem = Terminated
    OBVIOUS
  <2>4. /\ lo + (k - 1) * Size(md) + b - 1 \in lo..(lo + Len(vals) * Size(md) - 1)
        /\ PokeDc(mem, lo, vals, md, g_endianMode)[lo + (k - 1) * Size(md) + b - 1]
             = Bytes(vals[k], Size(md), g_endianMode)[b]
    BY <1>5, <1>9, <2>1, <2>2, PokeDcBytes
  <2> QED  BY <1>8, <2>3, <2>4, Zenon
<1>12. DatumAdr(pc, k) + b - 1 = at
  BY <1>1, <1>3 DEF DatumAdr
<1>13. at \in 0..(g_adr' - 1)
  <2>1. Len(vals) * Size(md) \in Nat
    BY <1>5, <1>7, SizeType, ProductNat
  <2> HIDE DEF lo, at, vals, md
  <2>2. PICK low \in Nat, size \in Nat : low = lo /\ size = Len(vals) * Size(md)
    BY <1>9, <2>1
  <2>3. at \in low..(low + size - 1) /\ g_adr' = low + size
    BY <1>10, <1>11, <2>2, Zenon
  <2> QED  BY <2>3
<1> QED  BY <1>4, <1>6, <1>11, <1>12, <1>13, Zenon

(* A line of pass 2 leaves the data of those before it, and places its own. *)
LEMMA DataPass2Line ==
  ASSUME TypeOK, PassLine, passNo = 2, AgreementInvariant, BoundsInvariant, EndStops,
         OrderInForce, DataPlaced
  PROVE  DataPlaced'
<1>1. /\ phase = "line" /\ phase' = "line" /\ passNo' = 2 /\ srcl' = srcl /\ Len(srcl) \in Nat
      /\ pc \in 1..Len(srcl) /\ TheLine = srcl[pc]
  BY LineFacts
<1>2. pass1' = pass1 /\ labels' = labels /\ Labelled = labels
  BY Pass2Records
<1>3. DOMAIN srcl = 1..Len(srcl)
  BY ConstantsAssumption DEF TypeOK
<1>4. \A i : EndianAt(i)' = EndianAt(i)
  BY <1>1 DEF EndianAt
<1>5. \A i, k : Datum(i, k)' = Datum(i, k) /\ DatumAdr(i, k)' = DatumAdr(i, k)
  BY <1>1, <1>2 DEF Datum, DatumAdr, DcLineStart
<1>6. SUFFICES ASSUME WellFormed(srcl), NEW i \in 1..Len(srcl), Passed(i)', srcl[i].odr = "dc",
                      NEW k \in DOMAIN srcl[i].args
               PROVE  /\ DatumPlaced(i, k)'
                      /\ InRange(Datum(i, k), srcl[i].md) \/ "range" \in messages'
  BY <1>1, <1>2, <1>3, <1>5 DEF DataPlaced
<1> DEFINE n == Size(srcl[i].md)
           byte(b) == Bytes(Datum(i, k), n, EndianAt(i))[b]
           at(b) == DatumAdr(i, k) + b - 1
<1>7. ASSUME \A b \in 1..n : at(b) \in 0..(g_adr' - 1) /\ g_mem'[at(b)] = byte(b)
      PROVE  DatumPlaced(i, k)'
  BY <1>1, <1>4, <1>5, <1>7 DEF DatumPlaced
<1>8. CASE i = pc
  <2>1. ASSUME NEW b \in 1..n
        PROVE  at(b) \in 0..(g_adr' - 1) /\ g_mem'[at(b)] = byte(b)
    BY <1>1, <1>6, <1>8, Pass2Dc
  <2>2. InRange(Datum(i, k), srcl[i].md) \/ "range" \in messages'
    <3>1. g_adr = pass1[pc].adr
      BY <1>1, <1>6 DEF AgreementInvariant, PassesAgree
    <3>2. DcValues(TheLine)[k] = Datum(i, k)
      BY <1>1, <1>2, <1>6, <1>8, <3>1 DEF DcValues, Datum
    <3>3. ~InRange(Datum(i, k), srcl[i].md) => OutOfRange(TheLine)
      BY <1>1, <1>6, <1>8, <3>2 DEF OutOfRange
    <3> QED  BY <1>1, <1>6, <1>8, <3>3, PassLineReports
  <2> QED  BY <1>7, <2>1, <2>2
<1>9. CASE i # pc
  <2>1. Passed(i)
    BY <1>6, <1>9, Pass2Passed
  <2>2. DatumPlaced(i, k) /\ (InRange(Datum(i, k), srcl[i].md) \/ "range" \in messages)
    BY <1>3, <1>6, <2>1 DEF DataPlaced
  <2>3. ASSUME NEW b \in 1..n
        PROVE  at(b) \in 0..(g_adr' - 1) /\ g_mem'[at(b)] = byte(b)
    <3>1. at(b) \in 0..(g_adr - 1) /\ g_mem[at(b)] = byte(b)
      BY <2>2 DEF DatumPlaced
    <3> HIDE DEF at, byte, n
    <3> QED  BY <1>6, <3>1, Pass2Below
  <2>4. messages \subseteq messages'
    BY PassLineReports
  <2> QED  BY <1>7, <2>2, <2>3, <2>4
<1> QED  BY <1>8, <1>9

(* The byte order pass 2 is in is that of the endians before its line.      *)
LEMMA OrderKept ==
  ASSUME TypeOK, PassLine, OrderInForce
  PROVE  OrderInForce'
<1>1. /\ phase = "line" /\ phase' = "line" /\ srcl' = srcl /\ Len(srcl) \in Nat
      /\ pc \in 1..Len(srcl) /\ TheLine = srcl[pc] /\ pc' = NextPc(srcl, pc)
  BY LineFacts
<1>2. \A i : EndianAt(i)' = EndianAt(i)
  BY <1>1 DEF EndianAt
<1>3. g_endianMode = EndianAt(pc)
  BY <1>1 DEF OrderInForce
<1>4. g_endianMode' = IF srcl[pc].odr = "endian" THEN srcl[pc].md ELSE EndianAt(pc)
  BY <1>1, <1>3, PassLineReports
<1>5. g_endianMode' = EndianAt(pc + 1)
  BY <1>1, <1>4, EndianMoves
<1>6. pc' <= Len(srcl) => pc' = pc + 1
  BY <1>1 DEF NextPc
<1>7. pc' <= Len(srcl) => g_endianMode' = EndianAt(pc')
  BY <1>5, <1>6, Zenon
<1>8. EndianAt(pc)' = EndianAt(pc')
  BY <1>1 DEF EndianAt
<1> QED  BY <1>1, <1>7, <1>8 DEF OrderInForce

LEMMA DataInit == Init => DataInvariant
<1> SUFFICES ASSUME Init PROVE DataInvariant
  OBVIOUS
<1>1. passNo = 1 /\ pc = 1 /\ g_endianMode = optEndianMode
  BY DEF Init
<1>2. EndianAt(pc) = optEndianMode
  <2>1. {j \in 1..(pc - 1) : srcl[j].odr = "endian"} = {}
    BY <1>1
  <2> QED  BY <2>1 DEF EndianAt
<1> QED  BY <1>1, <1>2 DEF DataInvariant, OrderInForce, DataPlaced

(* Data stay placed where no line is run and what is below g_adr is kept.   *)
LEMMA DataKept ==
  ASSUME DataPlaced, passNo = 2, UNCHANGED <<srcl, passNo, pass1, labels, messages>>,
         WellFormed(srcl) =>
           /\ \A i \in DOMAIN srcl : Passed(i)' => Passed(i)
           /\ \A a \in 0..(g_adr - 1) : a \in 0..(g_adr' - 1) /\ g_mem'[a] = g_mem[a]
  PROVE  DataPlaced'
<1>1. \A i : EndianAt(i)' = EndianAt(i)
  BY DEF EndianAt
<1>2. \A i, k : Datum(i, k)' = Datum(i, k) /\ DatumAdr(i, k)' = DatumAdr(i, k)
  BY DEF Datum, DatumAdr, DcLineStart
<1>3. ASSUME WellFormed(srcl), NEW i \in DOMAIN srcl, Passed(i)', srcl[i].odr = "dc",
             NEW k \in DOMAIN srcl[i].args
      PROVE  DatumPlaced(i, k)' /\ (InRange(Datum(i, k), srcl[i].md) \/ "range" \in messages)
  <2>1. DatumPlaced(i, k) /\ (InRange(Datum(i, k), srcl[i].md) \/ "range" \in messages)
    BY <1>3 DEF DataPlaced
  <2>2. ASSUME NEW b \in 1..Size(srcl[i].md)
        PROVE  /\ DatumAdr(i, k) + b - 1 \in 0..(g_adr' - 1)
               /\ g_mem'[DatumAdr(i, k) + b - 1]
                    = Bytes(Datum(i, k), Size(srcl[i].md), EndianAt(i))[b]
    <3>1. PICK a : a = DatumAdr(i, k) + b - 1
      OBVIOUS
    <3>2. /\ a \in 0..(g_adr - 1)
          /\ g_mem[a] = Bytes(Datum(i, k), Size(srcl[i].md), EndianAt(i))[b]
      BY <2>1, <3>1, Zenon DEF DatumPlaced
    <3> QED  BY <1>3, <3>1, <3>2, Zenon
  <2>3. DatumPlaced(i, k)'
    BY <1>1, <1>2, <2>2 DEF DatumPlaced
  <2> QED  BY <2>1, <2>3
<1> QED  BY <1>2, <1>3 DEF DataPlaced

LEMMA DataNext ==
  ASSUME TypeOK, AgreementInvariant, BoundsInvariant, ImageInvariant, DataInvariant, [Next]_vars
  PROVE  DataInvariant'
<1>1. OrderInForce /\ DataPlaced /\ EndStops
  BY DEF DataInvariant, ImageInvariant
<1>2. CASE PassLine
  <2>1. OrderInForce'
    BY <1>1, <1>2, OrderKept
  <2>2. CASE passNo = 1
    <3>1. passNo' = 1
      BY <1>2, <2>2, LineFacts
    <3> QED  BY <2>1, <3>1 DEF DataInvariant, DataPlaced
  <2>3. CASE passNo = 2
    BY <1>1, <1>2, <2>1, <2>3, DataPass2Line DEF DataInvariant
  <2> QED  BY <2>2, <2>3 DEF TypeOK
<1>3. CASE EndPass
  <2>1. /\ phase = "line" /\ pc = Len(srcl) + 1 /\ phase' # "line"
        /\ UNCHANGED <<srcl, passNo, labels, messages>>
        /\ passNo = 2 => pass1' = pass1
    BY <1>3 DEF EndPass
  <2>2. OrderInForce'
    BY <2>1 DEF OrderInForce
  <2>3. CASE passNo = 1
    BY <2>1, <2>2, <2>3 DEF DataInvariant, DataPlaced
  <2>4. CASE passNo = 2
    <3>1. \A i \in DOMAIN srcl : Passed(i)' => Passed(i)
      <4>1. \A i \in DOMAIN srcl : i < pc
        BY <2>1, ConstantsAssumption DEF TypeOK
      <4> QED  BY <2>1, <2>4, <4>1 DEF Passed, Reached
    <3>2. WellFormed(srcl) =>
            \A a \in 0..(g_adr - 1) : a \in 0..(g_adr' - 1) /\ g_mem'[a] = g_mem[a]
      BY <1>3, <2>4, EndPassBelow
    <3> QED  BY <1>1, <2>1, <2>2, <2>4, <3>1, <3>2, DataKept DEF DataInvariant
  <2> QED  BY <2>3, <2>4 DEF TypeOK
<1>4. CASE BeginPass2
  <2>1. phase' = "line" /\ pc' = 1 /\ srcl' = srcl /\ pass1' = pass1
        /\ g_endianMode' = optEndianMode
    BY <1>4 DEF BeginPass2
  <2>2. EndianAt(1)' = optEndianMode
    <3>1. {j \in 1..(1 - 1) : srcl'[j].odr = "endian"} = {}
      OBVIOUS
    <3> QED  BY <3>1 DEF EndianAt
  <2>3. EndianAt(pc)' = EndianAt(1)'
    BY <2>1 DEF EndianAt
  <2>4. OrderInForce'
    BY <2>1, <2>2, <2>3 DEF OrderInForce
  <2>5. \A i \in DOMAIN srcl : ~Passed(i)'
    BY <2>1, ConstantsAssumption DEF TypeOK, Passed
  <2>6. DataPlaced'
    BY <2>1, <2>5 DEF DataPlaced
  <2> QED  BY <2>4, <2>6 DEF DataInvariant
<1>5. CASE Save
  <2>1. /\ phase = "save" /\ phase' = "done"
        /\ UNCHANGED <<srcl, passNo, g_adr, g_mem, labels, messages, pass1>>
    BY <1>5 DEF Save
  <2>2. passNo = 2
    BY <2>1 DEF BoundsInvariant, SizeKept
  <2>3. \A i \in DOMAIN srcl : Passed(i)' => Passed(i)
    BY <2>1 DEF Passed, Reached
  <2>4. OrderInForce'
    BY <2>1 DEF OrderInForce
  <2> QED  BY <1>1, <2>1, <2>2, <2>3, <2>4, DataKept DEF DataInvariant
<1>6. CASE UNCHANGED vars
  <2>1. UNCHANGED <<srcl, phase, passNo, pc, g_adr, g_endianMode, g_mem, labels, messages, pass1>>
    BY <1>6 DEF vars
  <2>2. EndianAt(pc)' = EndianAt(pc)
    BY <2>1 DEF EndianAt
  <2>3. OrderInForce'
    BY <1>1, <2>1, <2>2 DEF OrderInForce
  <2>4. CASE passNo = 2
    <3>1. \A i \in DOMAIN srcl : Passed(i)' => Passed(i)
      BY <2>1 DEF Passed, Reached
    <3> QED  BY <1>1, <2>1, <2>3, <2>4, <3>1, DataKept DEF DataInvariant
  <2>5. CASE passNo # 2
    BY <2>1, <2>3, <2>5 DEF DataInvariant, DataPlaced
  <2> QED  BY <2>4, <2>5
<1> QED  BY <1>2, <1>3, <1>4, <1>5, <1>6 DEF Next, Finished

(* What pass 2 has written of the data is where it belongs, in the byte     *)
(* order of the endians before it, and what does not fit has been reported. *)
THEOREM DataAlways == Spec => []DataInvariant
<1>1. Init => DataInvariant
  BY DataInit
<1>2. TypeOK /\ AgreementInvariant /\ BoundsInvariant /\ ImageInvariant /\ DataInvariant
        /\ [Next]_vars => DataInvariant'
  BY DataNext
<1> QED
  BY <1>1, <1>2, TypeCorrect, AgreementAlways, BoundsAlways, ImageAlways, PTL DEF Spec

(* Whatever the source, if it is well-formed and finished without a         *)
(* message, then each datum of each dc that is a value of val_t can be read *)
(* back from the file: at its address, in the byte order in force at its    *)
(* line, it is the value of its expression under the final labels.          *)
THEOREM FileHoldsTheData == Spec => []SilentImageExact
<1>1. TypeOK /\ BoundsInvariant /\ ImageInvariant /\ DataInvariant => SilentImageExact
  <2> SUFFICES ASSUME TypeOK, BoundsInvariant, ImageInvariant, DataInvariant,
                      WellFormed(srcl), phase = "done", messages = {},
                      NEW i \in DOMAIN srcl, Reached(i), srcl[i].odr = "dc",
                      NEW k \in DOMAIN srcl[i].args, FitsVal(Datum(i, k))
               PROVE  Holds(DatumAdr(i, k), srcl[i].md, EndianAt(i), Datum(i, k))
    BY DEF SilentImageExact
  <2> DEFINE n == Size(srcl[i].md)
  <2>1. /\ passNo = 2 /\ Reached(Len(srcl) + 1) /\ memSize = Counted + Slack
        /\ DOMAIN g_mem = 0..(memSize - 1) /\ g_adr = Counted
    BY DEF BoundsInvariant, SizeKept
  <2>2. Counted \in Nat
    BY <2>1, CountedType DEF BoundsInvariant
  <2>3. \A a \in 0..(g_adr - 1) : file[a] = g_mem[a]
    <3>1. \A a \in 0..(g_adr - 1) : a \in DOMAIN g_mem
      BY <2>1, <2>2, ConstantsAssumption
    <3> QED  BY <3>1 DEF ImageInvariant
  <2>4. DatumPlaced(i, k) /\ InRange(Datum(i, k), srcl[i].md)
    <3>1. Passed(i)
      BY DEF Passed
    <3> QED  BY <2>1, <3>1 DEF DataInvariant, DataPlaced
  <2>5. HasBytes(DatumAdr(i, k), n, EndianAt(i), Datum(i, k))
    BY <2>3, <2>4 DEF DatumPlaced, HasBytes
  <2>6. /\ srcl[i] \in Line /\ srcl[i].md \in Mds /\ i \in 1..(Len(srcl) + 1)
        /\ srcl[i].args[k] \in Expr /\ k \in Nat
    <3>1. srcl \in Seq(Line) /\ Len(srcl) \in Nat /\ DOMAIN srcl = 1..Len(srcl)
      BY ConstantsAssumption, LenProperties DEF TypeOK
    <3>2. srcl[i] \in Line /\ i \in 1..(Len(srcl) + 1)
      BY <3>1, ElementOfSeq
    <3>3. srcl[i].md \in Mds /\ srcl[i].args \in Seq(Expr)
      BY <3>2 DEF Line
    <3>4. k \in 1..Len(srcl[i].args) /\ Len(srcl[i].args) \in Nat
      BY <3>3, LenProperties
    <3> QED  BY <3>2, <3>3, <3>4, ElementOfSeq
  <2>7. pass1[i].adr \in Nat /\ pass1[i].mode \in 0..3 /\ labels \in [Names -> Entry]
    <3>1. pass1[i].adr \in Nat
      BY <2>6 DEF BoundsInvariant, AddressesGrow
    <3>2. pass1[i].mode \in -1..3 /\ pass1[i].mode # -1
      BY <2>6, RecordType DEF LayoutState
    <3> QED  BY <3>1, <3>2 DEF TypeOK
  <2>8. Datum(i, k) \in Int
    BY <2>6, <2>7, ValueType DEF Datum
  <2>9. DatumAdr(i, k) \in Int
    <3>1. DcLineStart(i) \in Nat
      <4>1. OrderAdr(srcl[i], pass1[i].adr, pass1[i].stri) \in Nat
        BY <2>7 DEF OrderAdr
      <4> QED  BY <2>6, <2>7, <4>1, AutoAlignGrows DEF DcLineStart, DcStart
    <3>2. (k - 1) * n \in Int
      <4>1. n \in Nat
        BY <2>6, SizeType
      <4> HIDE DEF n
      <4> QED  BY <2>6, <4>1
    <3> QED  BY <3>1, <3>2 DEF DatumAdr
  <2> HIDE DEF n
  <2> QED  BY <2>4, <2>5, <2>6, <2>8, <2>9, ReadBack DEF n
<1> QED
  BY <1>1, TypeCorrect, BoundsAlways, ImageAlways, DataAlways, PTL
============================================================================
