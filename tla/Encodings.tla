----------------------------- MODULE Encodings -----------------------------
(***************************************************************************)
(* Multibyte characters (src/src/mbc.c): reading and writing a character   *)
(* in each encoding, guessing a text's encoding, converting a text.  A     *)
(* text is a sequence of bytes, a pointer into it an index; past its end   *)
(* lie the zeros the loader puts there.  The build is that of a little     *)
(* endian machine whose char is signed (x86).                              *)
(***************************************************************************)
EXTENDS Integers, Sequences, FiniteSets, SequencesExt

CONSTANT Kuten \* external: rows [jis, u] of the tables JIS <-> Unicode

Unicode == {"utf8", "utf16le", "utf16be", "utf32le", "utf32be"}
NoChar == 2147483647  \* 0xffffffff, what a broken character is read as

Byte(b, p) == IF p \in 1 .. Len(b) THEN b[p] ELSE 0
Chr(c, p) == [c |-> c, p |-> p]

----------------------------------------------------------------------------
(* One character.                                                          *)

\* UTF-8: how long a character is, from its value and from its first byte
utf8_chrBytes(c) == CASE c < 128 -> 1 [] c \in 128 .. 2047 -> 2 [] c \in 2048 .. 65535 -> 3
                      [] c \in 65536 .. 2097151 -> 4 [] c > 2097151 -> 6
utf8_len1(a) == CASE a = 0 -> 0 [] a \in 1 .. 191 -> 1 [] a \in 192 .. 223 -> 2 [] a \in 224 .. 239 -> 3
                  [] a \in 240 .. 247 -> 4 [] a \in 248 .. 251 -> 5 [] a > 251 -> 6

Trail(a) == a \in 128 .. 191

\* the value of the n bytes of b at p, without the bits that only mark them
RECURSIVE Sextets(_, _, _)
Sextets(b, p, n) == IF n = 0 THEN 0 ELSE Sextets(b, p, n - 1) * 64 + (Byte(b, p + n) % 64)
Utf8Value(b, p, n) == (Byte(b, p) % 2 ^ (7 - n)) * 64 ^ (n - 1) + Sextets(b, p, n - 1)

\* the broken byte is left to be read again; a NUL is not stepped over
utf8_getChr(b, p) ==
  LET n   == utf8_len1(Byte(b, p))
      bad == {k \in 1 .. n - 1 : ~Trail(Byte(b, p + k))}
  IN CASE Byte(b, p) < 128 -> Chr(Byte(b, p), p + n)
       [] Byte(b, p) \in 128 .. 191 -> Chr(NoChar, p + 1)
       [] Byte(b, p) > 191 /\ bad # {} -> Chr(NoChar, p + CHOOSE k \in bad : \A j \in bad : k <= j)
       [] OTHER -> Chr(Utf8Value(b, p, n), p + n)

\* of what the program writes in UTF-8, nothing is above U+10FFFF
utf8_setChr(c) ==
  CASE utf8_chrBytes(c) = 1 -> <<c>>
    [] utf8_chrBytes(c) = 2 -> <<192 + c \div 64, 128 + (c % 64)>>
    [] utf8_chrBytes(c) = 3 -> <<224 + c \div 4096, 128 + ((c \div 64) % 64), 128 + (c % 64)>>
    [] OTHER -> <<240 + c \div 262144, 128 + ((c \div 4096) % 64), 128 + ((c \div 64) % 64), 128 + (c % 64)>>

\* GET16LE and, on this machine, GET16BE
GET16(b, p) == Byte(b, p) + 256 * Byte(b, p + 1)

utf16_getChr(b, p) ==
  LET c == GET16(b, p)
      d == GET16(b, p + 2)
  IN CASE c = 0 -> Chr(0, p)
       [] c \in 55296 .. 56319 /\ d \in 56320 .. 57343 ->
            Chr((c - 55296) * 1024 + (d - 56320) + 65536, p + 4)
       [] OTHER -> Chr(c, p + 2)

utf16_len1(b, p) == LET c == GET16(b, p) IN CASE c = 0 -> 0 [] c \in 55296 .. 56319 -> 4 [] OTHER -> 2

utf32le_getChr(b, p) ==
  LET c == GET16(b, p) + 65536 * GET16(b, p + 2) IN Chr(c, IF c = 0 THEN p ELSE p + 4)
utf32be_getChr(b, p) ==
  LET c == Byte(b, p + 3) + 256 * (Byte(b, p + 2) + 256 * (Byte(b, p + 1) + 256 * Byte(b, p)))
  IN Chr(c, IF c = 0 THEN p ELSE p + 4)

sjis_islead(a)  == a \in 129 .. 159 \cup 224 .. 252
eucjp_islead(a) == a \in 161 .. 254 \cup {142}

\* one byte, or two after a lead byte, unless the second is NUL
DbcChr(b, p, lead) == IF lead /\ Byte(b, p + 1) # 0 THEN Chr(256 * Byte(b, p) + Byte(b, p + 1), p + 2)
                      ELSE Chr(Byte(b, p), p + 1)

GetChr(enc, b, p) ==
  CASE enc = "utf8"  -> utf8_getChr(b, p)
    [] enc \in {"utf16le", "utf16be"} -> utf16_getChr(b, p)
    [] enc = "utf32le" -> utf32le_getChr(b, p)
    [] enc = "utf32be" -> utf32be_getChr(b, p)
    [] enc = "sjis"  -> DbcChr(b, p, sjis_islead(Byte(b, p)))
    [] enc = "eucjp" -> DbcChr(b, p, eucjp_islead(Byte(b, p)))

mbc_dbc_setChr(c) == IF c > 255 THEN <<(c \div 256) % 256, c % 256>> ELSE <<c>>
eucjp_setChr(c)   == IF c > 65278 THEN <<254, 254>> ELSE mbc_dbc_setChr(c)

\* the encodings the program writes
SetChr(enc, c) ==
  CASE enc = "utf8" -> utf8_setChr(c) [] enc = "sjis" -> mbc_dbc_setChr(c) [] enc = "eucjp" -> eucjp_setChr(c)
ChrBytes(enc, c) == IF enc = "utf8" THEN utf8_chrBytes(c) ELSE IF c > 255 THEN 2 ELSE 1

\* what the line reader asks; sjis_len1 hands a signed char to sjis_islead
IsLead(enc, a) == CASE enc = "utf8" -> a >= 192 [] enc = "sjis" -> sjis_islead(a) [] enc = "eucjp" -> eucjp_islead(a)
                    [] OTHER -> FALSE
\* mutant: every EUC character has the three bytes of JIS X 0213's second plane
Len1Third(enc, b, p) == IF enc = "eucjp" /\ eucjp_islead(Byte(b, p)) THEN 3
                        ELSE IF enc = "utf8" THEN utf8_len1(Byte(b, p)) ELSE 1
Len1(enc, b, p) == CASE enc = "utf8" -> utf8_len1(Byte(b, p))
                     [] enc = "sjis" -> 1
                     [] OTHER -> IF eucjp_islead(Byte(b, p)) /\ Byte(b, p + 1) # 0 THEN 2 ELSE 1

----------------------------------------------------------------------------
(* Guessing: each check cuts the text into characters and gives a rank: 0  *)
(* for not this encoding, 1 for ASCII alone, more for more likely.  One    *)
(* step tells what it saw and how many bytes it took; "bad" ends it.       *)

Saw(what, n) == [saw |-> what, n |-> n]

Utf8Step(b, p) ==
  LET a == b[p]
      n == utf8_len1(a)
      v == Utf8Value(b, p, n)
      least == <<0, 128, 2048, 65536, 2097152, 67108864>>
  IN CASE a \in 1 .. 127 -> Saw({}, 1)
       [] \/ a = 0 \/ a \in 128 .. 191 \/ p + n - 1 > Len(b)
          \/ \E k \in 1 .. n - 1 : ~Trail(Byte(b, p + k))
          \/ v < least[n] -> Saw({"bad"}, 1)
       [] OTHER -> Saw({"multi"} \cup (IF v \in 55296 .. 57343 THEN {"surrogate"} ELSE {})
                                 \cup (IF n > 4 THEN {"long"} ELSE {}), n)

NoFont == 34112 .. 34556 \cup 34719 .. 34974 \cup 60069 .. 60668 \cup 61248 .. 61436 \cup 64588 .. 64764
UserFont == 61504 .. 63996

SjisStep(b, p) ==
  LET a == b[p]
      t == Byte(b, p + 1)
      d == 256 * a + t
  IN CASE a \in 1 .. 127 -> Saw({}, 1)
       [] a \in 160 .. 223 -> Saw({"kana"}, 1)
       [] a \in 129 .. 159 \cup 224 .. 252 /\ t \in 64 .. 252 \ {127} ->
            Saw({"multi"} \cup (IF t < 127 THEN {"low"} ELSE {})
                          \cup (IF d \in NoFont \cup UserFont THEN {"rare"} ELSE {}), 2)
       [] OTHER -> Saw({"bad"}, 1)

EucStep(b, p) ==
  LET a == b[p]
      x == IF a = 143 THEN 1 ELSE 0  \* a third byte
  IN CASE a \in 1 .. 127 -> Saw({}, 1)
       [] a = 142 /\ Byte(b, p + 1) \in 160 .. 223 -> Saw({"kana"}, 2)
       [] a # 142 /\ Byte(b, p + x) \in 161 .. 254 /\ Byte(b, p + x + 1) \in 161 .. 254 ->
            Saw({"multi"} \cup (IF x = 1 THEN {"third"} ELSE {}), 2 + x)
       [] OTHER -> Saw({"bad"}, 1)

\* all that is seen, up to the first bad character
RECURSIVE Seen(_, _, _)
Seen(enc, b, p) ==
  LET s == CASE enc = "utf8" -> Utf8Step(b, p) [] enc = "sjis" -> SjisStep(b, p) [] enc = "eucjp" -> EucStep(b, p)
  IN IF p > Len(b) THEN {}
     ELSE s.saw \cup (IF "bad" \in s.saw THEN {} ELSE Seen(enc, b, p + s.n))

mbc_checkUTF8(b) ==
  LET saw == Seen("utf8", b, 1)
  IN CASE b = <<>> \/ "bad" \in saw -> 0
       [] b # <<>> /\ saw = {} -> 1
       [] "surrogate" \in saw /\ "bad" \notin saw -> 2
       [] "long" \in saw /\ saw \cap {"bad", "surrogate"} = {} -> 3
       [] OTHER -> 4

mbc_strCheckSJIS(b) ==
  LET saw == Seen("sjis", b, 1)
  IN CASE b = <<>> \/ "bad" \in saw -> 0
       [] "low" \in saw /\ "bad" \notin saw -> 4
       [] "multi" \in saw /\ saw \cap {"bad", "low"} = {} -> IF "rare" \in saw THEN 2 ELSE 3
       [] saw = {"kana"} -> 2
       [] OTHER -> 1

\* of an empty text it says ASCII
mbc_strCheckEucJp(b) ==
  LET saw == Seen("eucjp", b, 1)
  IN CASE "bad" \in saw -> 0
       [] "third" \in saw /\ "bad" \notin saw -> 2
       [] "kana" \in saw /\ saw \cap {"bad", "third"} = {} -> 3
       [] saw = {"multi"} -> 4
       [] OTHER -> 1

utf32_checkChr(c) == c < 55296 \/ (c \in 57344 .. 1114109 /\ c % 65536 < 65534)

\* mbc_checkEnc, as UTF-16 has it: the last character is not looked at
RECURSIVE CheckEnc(_, _, _, _)
CheckEnc(b, p, asc, hasAsc) ==
  LET k == utf16_len1(b, p)
      g == utf16_getChr(b, p)
  IN IF p > Len(b) \/ p + k > Len(b) THEN IF asc THEN 1 ELSE IF hasAsc THEN 3 ELSE 2
     ELSE IF g.c = 0 \/ ~utf32_checkChr(g.c) THEN 0
     ELSE CheckEnc(b, g.p, asc /\ g.c < 128, hasAsc \/ g.c < 128)

utf16le_checkEncoding(b) ==
  LET rc == CheckEnc(SubSeq(b, 1, Len(b) - (Len(b) % 2)), 1, TRUE, FALSE)
  IN IF rc \in {1, 3} THEN 4 ELSE rc

\* the byte order mark: none gives NULL
BOM == [utf8 |-> <<239, 187, 191>>, utf16le |-> <<255, 254>>, utf16be |-> <<254, 255>>,
        utf32le |-> <<255, 254, 0, 0>>, utf32be |-> <<0, 0, 254, 255>>]
mbc_checkUnicodeBOM(b) ==
  LET marked == {enc \in Unicode : IsPrefix(BOM[enc], b)}
  IN IF "utf32le" \in marked THEN "utf32le" ELSE IF marked = {} THEN "NULL" ELSE CHOOSE enc \in marked : TRUE
mbc_getBOMbytes(b) == LET enc == mbc_checkUnicodeBOM(b) IN IF enc = "NULL" THEN 0 ELSE Len(BOM[enc])

Candidates == <<"utf8", "sjis", "eucjp", "utf16le">>

\* mutant: of equal ranks the later encoding wins
WinnerLater(rank) ==
  LET best == {i \in 1 .. 4 : rank[i] > 0 /\ \A j \in 1 .. 4 : rank[j] <= rank[i]}
  IN IF best = {} THEN "NULL" ELSE Candidates[CHOOSE i \in best : \A j \in best : i >= j]

\* ASCII is the first that allows it, at once; a tie is the earlier one's; UTF-16 needs a 4
Winner(rank) ==
  LET asc  == {i \in 1 .. 4 : rank[i] = 1}
      best == {i \in 1 .. 4 : rank[i] > 0 /\ \A j \in 1 .. 4 : rank[j] <= rank[i]}
      win  == IF asc # {} THEN asc ELSE best
  IN IF win = {} THEN "NULL" ELSE Candidates[CHOOSE i \in win : \A j \in win : i <= j]

mbc_autoEncodeCheck(b) ==
  IF mbc_checkUnicodeBOM(b) # "NULL" THEN mbc_checkUnicodeBOM(b)
  ELSE Winner(<<mbc_checkUTF8(b), mbc_strCheckSJIS(b), mbc_strCheckEucJp(b),
                IF utf16le_checkEncoding(b) = 4 THEN 4 ELSE 0>>)

----------------------------------------------------------------------------
(* Converting.  Between the Japanese encodings and Unicode it goes by way  *)
(* of JIS codes, whose arithmetic is C's on unsigned numbers.              *)

JIS_NREPL == 32382

mbc_jisMsToUtf32(jis) == IF \E r \in Kuten : r.jis = jis THEN (CHOOSE r \in Kuten : r.jis = jis).u ELSE 65533
mbc_utf32ToJisMs(u) ==
  IF u < 65533 /\ \E r \in Kuten : r.u = u THEN (CHOOSE r \in Kuten : r.u = u).jis ELSE JIS_NREPL

mbc_jisToEucjp(c) == IF c <= 255 THEN 142 * 256 + c ELSE IF c <= JIS_NREPL THEN c + 32896 ELSE 65278
mbc_eucjpToJis(c) == CASE c <= 255 -> c [] c \div 256 = 142 -> c % 256
                       [] c > 255 /\ c \div 256 # 142 -> IF c <= 65278 THEN c - 32896 ELSE JIS_NREPL

\* mutant: the hole of Shift JIS at 7F is not closed
mbc_sjisToJisHole(c) ==
  LET a == IF c >= 57344 THEN c - 16384 ELSE c
      d == (a \div 256 - 129) * 512 + (a % 256)
  IN IF c <= 255 THEN c ELSE 8481 + d + (IF d % 256 >= 158 THEN 98 ELSE -64)

mbc_sjisToJis(c) ==
  LET a == IF c >= 57344 THEN c - 16384 ELSE c
      d == (a \div 256 - 129) * 512 + (a % 256)
      e == IF d % 256 >= 128 THEN d - 1 ELSE d
  IN IF c <= 255 THEN c ELSE 8481 + e + (IF e % 256 >= 158 THEN 98 ELSE -64)

\* a one-byte code is taken for one of two bytes, too; 24 of the 32 bits are enough for what is kept
mbc_jisToSjis(c) ==
  LET a == (c % 65536) - 8481
      d == (a + (IF (a \div 256) % 2 = 1 THEN 158 ELSE 64)) % 2 ^ 24
      e == IF d % 256 >= 127 THEN d + 1 ELSE d
      f == (e \div 512 + 129) * 256 + (e % 256)
  IN IF f >= 40960 THEN f + 16384 ELSE f

Family(enc) == IF enc \in Unicode THEN "unicode" ELSE enc

\* the rows of mbc_chrCnvFncs; ASCII needs none (NEC's and IBM's extensions of SJIS are left out)
ConvChr(dst, src, c) ==
  LET from == Family(src)
      jis  == CASE from = "unicode" -> mbc_utf32ToJisMs(c) [] from = "sjis" -> mbc_sjisToJis(c)
                [] from = "eucjp" -> mbc_eucjpToJis(c)
  IN CASE c < 128 \/ from = Family(dst) -> c
       [] dst = "sjis" /\ c >= 128 /\ from # "sjis" -> mbc_jisToSjis(jis)
       [] dst = "eucjp" /\ c >= 128 /\ from # "eucjp" -> mbc_jisToEucjp(jis)
       [] OTHER -> mbc_jisMsToUtf32(jis)

\* all characters of b and where reading them ends; a NUL in Unicode is read for ever
RECURSIVE ReadChrs(_, _, _, _)
ReadChrs(enc, b, p, cs) ==
  LET g == GetChr(enc, b, p)
  IN IF p > Len(b) THEN [cs |-> cs, p |-> p, stuck |-> FALSE]
     ELSE IF g.p = p THEN [cs |-> cs, p |-> p, stuck |-> TRUE]
     ELSE ReadChrs(enc, b, g.p, Append(cs, g.c))

RECURSIVE CountBytes(_, _), PutChrs(_, _, _, _)
CountBytes(enc, cs) == IF cs = <<>> THEN 0 ELSE ChrBytes(enc, Head(cs)) + CountBytes(enc, Tail(cs))

\* mutant: no room for the NUL
mbc_strCountCapaTight(dst, cs) == CountBytes(dst, cs)

mbc_strCountCapa(dst, cs) == CountBytes(dst, cs) + 8

\* the character that does not fit any more is zeros up to the capacity
PutChrs(dst, cs, capa, d) ==
  IF cs = <<>> \/ Len(d) >= capa THEN d
  ELSE LET s == SetChr(dst, Head(cs))
       IN PutChrs(dst, Tail(cs), capa,
                  IF Len(d) + Len(s) <= capa THEN d \o s ELSE d \o [i \in 1 .. capa - Len(d) |-> 0])

\* NULL when nothing was written; far is where reading ended
Filled(out, capa, far) ==
  IF out = <<>> THEN [kind |-> "NULL"] ELSE [kind |-> "text", out |-> out, capa |-> capa, far |-> far]
PutAll(dst, cs, far) ==
  LET capa == mbc_strCountCapa(dst, cs) IN Filled(PutChrs(dst, cs, capa, <<>>), capa, far)
Converted(dst, src, r) ==
  IF r.stuck THEN [kind |-> "stuck"]
  ELSE PutAll(dst, [i \in DOMAIN r.cs |-> ConvChr(dst, src, r.cs[i])], r.p)

\* ASCII alone (asc) is no encoding it converts to
mbc_strConvMalloc(dst, src, b) ==
  IF dst = "asc" THEN [kind |-> "NULL"] ELSE Converted(dst, src, ReadChrs(src, b, 1, <<>>))
=============================================================================
