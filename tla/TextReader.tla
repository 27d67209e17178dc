----------------------------- MODULE TextReader -----------------------------
(***************************************************************************)
(* From a file to logical lines: ujfile_open (src/src/ujfile.c) guesses    *)
(* the encoding, drops the byte order mark, converts and makes CR-LF LF;   *)
(* Filn_GetStr (src/src/filn.c) takes a line, Filn_GetLine takes comments  *)
(* out and joins lines that end with \.  dcasm's options: ; // /* */ and a *)
(* * at the head of a line are comments, ' and " quote, \ escapes in them. *)
(* A line that ends inside a character is copied on past its NUL, into     *)
(* what earlier lines left in linbuf0.  No generated line fills linbuf or  *)
(* starts with the # of the preprocessor (whose open quotes are not told). *)
(***************************************************************************)
EXTENDS Encodings

CONSTANTS
  Files,       \* records [text, enc, bom, crlf, cut, opt]: characters, how they are encoded, bytes
               \* missing at the end, and what -c or an earlier file made of V.opt_cp ("none": nothing)
  LinbufSize,  \* LINBUF0_SIZE, 0x20000 in the code
  Padding      \* zeros fileLoadMalloc puts after the file, 4 in the code

ASSUME ReaderAssumption == LinbufSize \in Nat \ {0, 1} /\ Padding \in Nat

VARIABLES
  file,  \* what is on the disk
  pc,    \* "closed", "open", "eof", "failed" (could not open), "stuck" (in the conversion), "exit"
  uj,    \* the ujfile_t: buf (malloc_buf), pos (curpos), end; src_cp and cur_cp; linbuf0;
         \* and, to be asked about only, far: where converting stopped reading, room: what it left
  raw,   \* the physical lines read
  got,   \* the logical lines delivered
  said   \* the messages given
readerVars == <<file, pc, uj, raw, got, said>>

LF == 10
CR == 13
Quotes == {34, 39}
Backslash == 92
Star == 42
Slash == 47
Semicolon == 59

----------------------------------------------------------------------------
(* The file, by the standards of the encodings.                            *)

StdUtf8(c) ==
  LET n    == CASE c < 128 -> 1 [] c \in 128 .. 2047 -> 2 [] c \in 2048 .. 65535 -> 3 [] c > 65535 -> 4
      mark == <<0, 192, 224, 240>>
  IN [i \in 1 .. n |-> IF i = 1 THEN mark[n] + c \div 64 ^ (n - 1) ELSE 128 + ((c \div 64 ^ (n - i)) % 64)]

Units(c) == IF c < 65536 THEN <<c>> ELSE <<55296 + (c - 65536) \div 1024, 56320 + (c % 1024)>>
BigEndian(n, c) == [i \in 1 .. n |-> (c \div 256 ^ (n - i)) % 256]
Japanese(c) == CHOOSE r \in Kuten : r.u = c

Encoded(enc, c) ==
  CASE enc = "utf8"    -> StdUtf8(c)
    [] enc = "utf16be" -> FlattenSeq([i \in DOMAIN Units(c) |-> BigEndian(2, Units(c)[i])])
    [] enc = "utf16le" -> FlattenSeq([i \in DOMAIN Units(c) |-> Reverse(BigEndian(2, Units(c)[i]))])
    [] enc = "utf32be" -> BigEndian(4, c)
    [] enc = "utf32le" -> Reverse(BigEndian(4, c))
    [] enc \in {"sjis", "eucjp"} -> IF c < 128 THEN <<c>> ELSE Japanese(c)[enc]

EncodedText(enc, t) == FlattenSeq([i \in DOMAIN t |-> Encoded(enc, t[i])])

Bytes(f) ==
  LET nl == IF f.crlf THEN Encoded(f.enc, CR) \o Encoded(f.enc, LF) ELSE Encoded(f.enc, LF)
      b  == (IF f.bom THEN BOM[f.enc] ELSE <<>>)
            \o FlattenSeq([i \in DOMAIN f.text |-> IF f.text[i] = LF THEN nl ELSE Encoded(f.enc, f.text[i])])
  IN SubSeq(b, 1, Len(b) - f.cut)

----------------------------------------------------------------------------
(* ujfile.c                                                                *)

Zeros(n) == [i \in 1 .. n |-> 0]

\* the CR of a CR-LF goes, another stays
RECURSIVE CrlfToLf(_, _)
CrlfToLf(b, i) ==
  IF i > Len(b) THEN <<>>
  ELSE (IF b[i] = CR /\ Byte(b, i + 1) = LF THEN <<>> ELSE <<b[i]>>) \o CrlfToLf(b, i + 1)

\* in place, in the size bytes from off on: a NUL after what is left, then what was there.
\* The end is off too far, the size being counted from malloc_buf.
Compacted(buf, off, size) ==
  LET d == CrlfToLf(SubSeq(buf, off + 1, off + size), 1)
      z == IF Len(d) < size THEN <<0>> ELSE <<>>
      k == off + Len(d) + Len(z)
  IN [buf |-> SubSeq(buf, 1, off) \o d \o z \o SubSeq(buf, k + 1, Len(buf)),
      end |-> off + off + Len(d) + 1]

\* k holds the text from at on
Ready(k, src, dst, at, far, room) ==
  [kind |-> "open", buf |-> k.buf, pos |-> at + 1, end |-> k.end, src_cp |-> src, cur_cp |-> dst,
   linbuf0 |-> <<>>, far |-> far, room |-> room]

\* what was read from off on is converted to conv
SetConv(conv, src, dst, off) ==
  IF conv.kind # "text" THEN [kind |-> conv.kind, src_cp |-> src]
  ELSE LET room == conv.capa - Len(conv.out)
       IN Ready(Compacted(conv.out \o Zeros(room), 0, Len(conv.out)), src, dst, 0, off + conv.far, room)

\* the text from off on is in src, and dst is wanted
SetAs(bytes, src, dst, off) ==
  IF src = dst
  THEN Ready(Compacted(bytes \o Zeros(Padding), off, Len(bytes) - off), src, dst, off, 1, 4)
  ELSE SetConv(mbc_strConvMalloc(dst, src, SubSeq(bytes, off + 1, Len(bytes))), src, dst, off)

SetFrom(bytes, src, opt) ==
  SetAs(bytes, src,
        IF opt # "none" THEN opt ELSE IF src \in Unicode THEN "utf8" ELSE src,
        IF src \in Unicode THEN mbc_getBOMbytes(bytes) ELSE 0)

ujfile_set(bytes, opt) ==
  LET auto == mbc_autoEncodeCheck(bytes)
  IN SetFrom(bytes, IF auto = "NULL" THEN "utf8" ELSE auto, opt)

----------------------------------------------------------------------------
(* filn.c                                                                  *)

\* A line without its newline.  The last byte before the end is taken for the
\* end of its line, whatever it is; a NUL is reported and becomes a blank.
Filn_GetStr(u) ==
  LET last == u.end - 1
      full == u.pos + LinbufSize - 1
      stop == {q \in u.pos .. last : q \in {last, full} \/ Byte(u.buf, q) = LF}
      e    == CHOOSE q \in stop : \A o \in stop : q <= o
      text == [i \in 1 .. e - u.pos |-> Byte(u.buf, u.pos + i - 1)]
      line == [i \in DOMAIN text |-> IF text[i] = 0 THEN 32 ELSE text[i]]
  IN IF u.pos > last \/ (e = last /\ e = u.pos) THEN [kind |-> "NULL"]
     ELSE [kind |-> "line", line |-> line,
           said |-> (IF 0 \in ToSet(text) THEN {"null"} ELSE {}) \cup (IF e = full THEN {"long"} ELSE {}),
           u |-> [u EXCEPT !.pos = IF e = full THEN e ELSE e + 1,
                           !.linbuf0 = Append(line, 0) \o SubSeq(@, Len(line) + 2, Len(@))]]

IsSpace(c) == c \in (1 .. 32 \ {LF}) \cup {127}
SkipSpc(l, i) == CHOOSE p \in i .. Len(l) + 1 : ~IsSpace(Byte(l, p)) /\ \A q \in i .. p - 1 : IsSpace(l[q])

Piece(l, i, j) == [k \in 1 .. j - i + 1 |-> Byte(l, i + k - 1)]
UpToNul(l) == SelectInSeq(l, LAMBDA c : c = 0)

\* where the string ends that started before i with the quote k
RECURSIVE StringEnd(_, _, _, _), Strip(_, _, _, _, _), PastString(_, _, _, _, _, _),
          GetLineFrom(_, _, _, _, _, _), Continued(_, _, _, _), Stripped(_, _, _, _, _, _)
StringEnd(enc, l, i, k) ==
  LET c == Byte(l, i)
      n == Byte(l, i + 1)
  IN CASE c = 0 -> [p |-> i, said |-> {"unclosed"}]
       [] c = k -> [p |-> i + 1, said |-> {}]
       [] c = Backslash /\ n = 0 -> [p |-> i + 1, said |-> {"unjoined"}]
       [] c = Backslash /\ n # 0 ->
            StringEnd(enc, l, i + 1 + (IF IsLead(enc, n) THEN Len1(enc, l, i + 1) ELSE 1), k)
       [] OTHER -> StringEnd(enc, l, i + (IF IsLead(enc, c) THEN Len1(enc, l, i) ELSE 1), k)

\* the rest of a line inside a block comment
Block(enc, l, i, d, m) ==
  LET nul  == CHOOSE p \in i .. Len(l) + 1 : Byte(l, p) = 0 /\ \A q \in i .. p - 1 : l[q] # 0
      ends == {j \in i .. nul - 1 : l[j] = Star /\ Byte(l, j + 1) = Slash}
  IN IF ends = {} THEN [d |-> d, block |-> TRUE, said |-> m]
     ELSE Strip(enc, l, SkipSpc(l, 2 + CHOOSE j \in ends : \A o \in ends : j <= o), d, m)

\* the rest of a line outside comments: what of it is added to d
Strip(enc, l, i, d, m) ==
  LET c == Byte(l, i)
      n == Byte(l, i + 1)
      k == IF IsLead(enc, c) THEN Len1(enc, l, i) ELSE 1
  IN CASE c \in {0, Semicolon} \/ <<c, n>> = <<Slash, Slash>> -> [d |-> d, block |-> FALSE, said |-> m]
       [] <<c, n>> = <<Slash, Star>> -> Block(enc, l, i + 2, Append(d, 32), m)
       [] c \in Quotes -> PastString(enc, l, i, StringEnd(enc, l, i + 1, c), d, m)
       [] OTHER -> Strip(enc, l, i + k, d \o Piece(l, i, i + k - 1), m)

\* q is where the string that starts at i ends
PastString(enc, l, i, q, d, m) == Strip(enc, l, q.p, d \o Piece(l, i, q.p - 1), m \cup q.said)

\* mutant: the line's \ goes and nothing comes in its place
ToBeJoinedTight(d) == Front(d)

\* a blank for the \ at the end of a line
ToBeJoined(d) == Append(Front(d), 32)

\* d is what earlier lines gave, block whether they ended inside a comment
GetLineFrom(enc, u, d, block, lines, m) == Stripped(enc, Filn_GetStr(u), d, block, lines, m)

\* r is the next line, if there is one
Stripped(enc, r, d, block, lines, m) ==
  LET l == r.u.linbuf0
  IN IF r.kind = "NULL" THEN [kind |-> IF block THEN "exit" ELSE "eof", raw |-> lines, said |-> m]
     ELSE Continued(enc, r.u, Append(lines, r.line),
                 CASE block -> Block(enc, l, 1, d, m \cup r.said)
                   [] ~block /\ Byte(l, SkipSpc(l, 1)) = Star -> [d |-> d, block |-> FALSE, said |-> m \cup r.said]
                   [] OTHER -> Strip(enc, l, 1, d, m \cup r.said))

\* s is what it left: another line is wanted inside a block comment and after a \
Continued(enc, u, lines, s) ==
  CASE s.block -> GetLineFrom(enc, u, s.d, TRUE, lines, s.said)
    [] ~s.block /\ s.d # <<>> /\ Last(s.d) = Backslash ->
         GetLineFrom(enc, u, ToBeJoined(s.d), FALSE, lines, s.said)
    [] OTHER -> [kind |-> "line", line |-> IF UpToNul(s.d) = 0 THEN s.d ELSE SubSeq(s.d, 1, UpToNul(s.d) - 1),
                 u |-> u, raw |-> lines, said |-> s.said]

Filn_GetLine(enc, u) == GetLineFrom(enc, u, <<>>, FALSE, <<>>, {})

----------------------------------------------------------------------------

NoBuffer == [kind |-> "none"]

ReaderInit ==
  /\ file \in Files
  /\ pc = "closed" /\ uj = NoBuffer
  /\ raw = <<>> /\ got = <<>> /\ said = {}

Open ==
  /\ pc = "closed"
  /\ uj' = ujfile_set(Bytes(file), file.opt)
  /\ pc' = CASE uj'.kind = "open" -> "open" [] uj'.kind = "NULL" -> "failed" [] uj'.kind = "stuck" -> "stuck"
  /\ UNCHANGED <<file, raw, got, said>>

GetLine ==
  /\ pc = "open"
  /\ LET r == Filn_GetLine(uj.cur_cp, uj)
     IN /\ raw' = raw \o r.raw
        /\ said' = said \cup r.said
        /\ IF r.kind = "line" THEN got' = Append(got, r.line) /\ uj' = r.u /\ pc' = pc
           ELSE got' = got /\ uj' = uj /\ pc' = r.kind
  /\ UNCHANGED file

ReaderNext == Open \/ GetLine
ReaderSpec == ReaderInit /\ [][ReaderNext]_readerVars

----------------------------------------------------------------------------

RECURSIVE SplitLines(_, _)
\* the lines of t from its last line so far, l, on
SplitLines(t, l) ==
  IF t = <<>> THEN IF l = <<>> THEN <<>> ELSE <<l>>
  ELSE IF Head(t) = LF THEN <<l>> \o SplitLines(Tail(t), <<>>)
  ELSE SplitLines(Tail(t), Append(l, Head(t)))

Written == SplitLines(file.text, <<>>)
Chars == ToSet(file.text)
HalfKana == 65377 .. 65439

\* What the file's lines promise nothing about, each for a reason in the code.
Excepted ==
  \/ file.enc = "utf16be"                                  \* GET16BE does not swap
  \/ file.enc = "utf8" /\ file.bom /\ uj.cur_cp = "utf8"   \* the end is beyond the text
  \/ file.text # <<>> /\ Last(file.text) # LF             \* its last byte is dropped
  \/ file.cut # 0 \/ 0 \in Chars                           \* it is no text
  \/ uj.src_cp # file.enc                                 \* the guess is EncodingFound's
  \/ uj.cur_cp = "sjis" /\ file.enc # "sjis" /\ Chars \cap HalfKana # {}  \* no rule for one byte
  \/ uj.cur_cp \in {"sjis", "eucjp"} /\ ~ \A c \in Chars : c < 128 \/ \E r \in Kuten : r.u = c
  \/ \E i \in DOMAIN Written : Len(EncodedText(uj.cur_cp, Written[i])) >= LinbufSize - 1

Read == pc \in {"open", "eof", "exit"}

\* A byte order mark is believed; UTF-8 without one is found, EUC-JP when some
\* character's first byte cannot start one of UTF-8 and none is half-width kana, and
\* Shift JIS when some second byte is ASCII.
EncodingFound ==
  /\ pc # "closed" /\ 0 \notin Chars /\ file.cut = 0
  /\ \/ file.bom \/ (file.enc = "utf8" /\ file.text # <<>>)
     \/ /\ file.enc = "eucjp" /\ Chars \cap HalfKana = {}
        /\ \E c \in Chars : c > 127 /\ Encoded("eucjp", c)[1] < 192
     \/ file.enc = "sjis" /\ \E c \in Chars : c > 127 /\ Len(Encoded("sjis", c)) = 2 /\ Encoded("sjis", c)[2] < 127
  => uj.src_cp = file.enc

\* Whatever the encodings of the file and of the session, the lines are those written
\* (one that is empty at the very end is not delivered).  A file is not opened only when
\* it is empty or -c asks for ASCII; its conversion ends unless there is a NUL in it or
\* its encoding was not found.
LinesAsWritten ==
  /\ pc = "failed" => file.text = <<>> \/ file.opt = "asc"
  /\ pc = "stuck" => 0 \in Chars \/ file.cut # 0 \/ uj.src_cp # file.enc
  /\ Read /\ ~Excepted =>
       LET want == [i \in DOMAIN Written |-> EncodedText(uj.cur_cp, Written[i])]
       IN /\ IsPrefix(raw, want)
          /\ pc = "eof" => raw = want \/ (Last(want) = <<>> /\ raw = Front(want))

\* Nothing is read beyond the zeros after the file, the end is inside the buffer, and
\* what was counted for a conversion has room for all of it and its NUL.
ReadsInBuffer ==
  Read => /\ uj.end - 1 <= Len(uj.buf)
          /\ uj.far - 1 <= Len(Bytes(file)) + Padding
          /\ uj.room >= 4

RECURSIVE AllLines(_), LinesFrom(_)
LinesFrom(r) == IF r.kind = "line" THEN <<r.line>> \o AllLines(r.u) ELSE <<>>
AllLines(u)  == LinesFrom(Filn_GetLine("characters", u))

\* Taking comments out and joining lines byte by byte does to the text what it does to
\* its characters, but for a Shift JIS character whose second byte is a \.
BytesAsCharacters ==
  /\ Read /\ ~Excepted
  /\ uj.cur_cp = "sjis" => \A c \in Chars : Backslash \notin ToSet(Tail(Encoded("sjis", c)))
  =>
    LET on   == AllLines([buf |-> file.text, pos |-> 1, end |-> Len(file.text) + 1, linbuf0 |-> <<>>])
        want == [i \in DOMAIN on |-> EncodedText(uj.cur_cp, on[i])]
    IN IF pc = "open" THEN IsPrefix(got, want) ELSE got = want

\* a comment starts in l at or after i, outside quotes
RECURSIVE HasComment(_, _)
HasComment(l, i) ==
  LET c == Byte(l, i)
  IN CASE c = 0 -> FALSE
       [] c = Semicolon \/ (c = Slash /\ Byte(l, i + 1) \in {Slash, Star}) -> TRUE
       [] c \in Quotes -> HasComment(l, StringEnd("characters", l, i + 1, c).p)
       [] OTHER -> HasComment(l, i + 1)

\* Unless a string was left open, no line is delivered with a comment in it: taking
\* one out, or joining two lines, never makes a new one.
NoCommentLeft ==
  /\ Read /\ said \cap {"unclosed", "unjoined"} = {}
  /\ uj.cur_cp # "sjis"
  => \A i \in DOMAIN got : ~HasComment(got[i], 1)
=============================================================================
