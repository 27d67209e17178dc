------------------------------ MODULE FilnMif ------------------------------
(***************************************************************************)
(* Filn's way from the lines of files to the lines dcasm assembles          *)
(* (src/src/filn.c): the include stack, Filn_GetLineMac with the expansion  *)
(* of macros by MM_Macc, and the conditionals of Filn_GetsMif.              *)
(*                                                                          *)
(* A line is a record.  k is its directive, or "text" for a line without    *)
(* one; "S" and "E" are the marks M_Macro puts around the body of a macro.  *)
(* n is the name a directive is about (only #include takes that of a file), *)
(* or the name a text line consists of; v a number; to the name a #define   *)
(* stands for.  The argument h of an #if or #elif is a number, defined(n),  *)
(* or n for its value.                                                      *)
(***************************************************************************)
EXTENDS MacroTable, SequencesExt

CONSTANTS
  Names,          \* macro names
  FileNames,      \* names of files
  MainFile,       \* the file Filn_Open was called with
  NoName,         \* no name
  Nameless,       \* "_macro\xff_", the macro of a #macro without a name
  Sources,        \* functions from files that exist to their lines
  FILN_IF_NEST,
  FILN_MAC_NEST,
  FILN_INCL_NUM,
  StackLimit,     \* calls of MM_Macc the C stack holds, that for a #set's number apart
  Room,           \* words below MM_name that hold 0, and that nothing needs
  Halves          \* what half of a pointer may be, read as an int

Kinds == {"text", "if", "elif", "else", "endif", "include", "define", "set", "undef",
          "macro", "endmacro", "exitmacro", "error", "S", "E"}
Hows == {"number", "defined", "value"}
Line ==
  {l \in [k : Kinds, n : Names \cup FileNames \cup {NoName, Nameless}, v : Int,
          h : Hows, to : Names \cup {NoName}] :
     l.k # "include" => l.n \in Names \cup {NoName, Nameless}}

ASSUME ConstantsAssumption ==
  /\ NoName \notin Names /\ Nameless \notin Names /\ NoName # Nameless
  /\ MainFile \in FileNames
  /\ \A s \in Sources : /\ MainFile \in DOMAIN s /\ DOMAIN s \subseteq FileNames
                        /\ \A f \in DOMAIN s : s[f] \in Seq(Line)
  /\ {FILN_IF_NEST, FILN_MAC_NEST, FILN_INCL_NUM, StackLimit} \subseteq Nat \ {0}
  /\ Room \in Nat \ {0, 1} /\ Halves \subseteq Int

VARIABLES
  files,          \* the files
  inclStk,        \* the open files: [file, lin], lin lines of it read
  MM_ptr,         \* expanded lines not yet taken, <<>> for NULL
  frames,         \* the calls of MM_Macc: [text, name, mark, at], see below
  mbuf,           \* M_mbuf: what they have produced
  MM_name, MM_cnt,        \* the names being expanded, and how many
  overwritten,    \* the fields beside MM_name that a name has been stored over
  macros,         \* the macro tree: names to entries
  mifCur, mifStk,         \* the #if stack: 0 none, 1 active, 2 none active yet, 3 over
  mifMacCur, mifMacStk,   \* mifCur at the start of each macro being read
  mifChkSnc,              \* #ifs inside a branch that is skipped
  scan,           \* #exitmacro: nested macros passed over, NoScan outside it
  phase,
  out,            \* the lines handed to the assembler
  messages        \* what was reported; "kept back" for what errLblSkip kept back

vars == <<files, inclStk, MM_ptr, frames, mbuf, MM_name, MM_cnt, overwritten, macros, mifCur, mifStk,
          mifMacCur, mifMacStk, mifChkSnc, scan, phase, out, messages>>
names == <<MM_name, MM_cnt, overwritten>>
expansion == <<frames, mbuf, names, macros>>
stacks == <<mifCur, mifStk, mifMacCur, mifMacStk, mifChkSnc>>

NoScan == -1
ErrLblSkip == -3        \* MM_name[-3]; chkEol_name and chkEol_line lie between
Mark(k) == [k |-> k, n |-> NoName, v |-> 0, h |-> "number", to |-> NoName]
Number(v) == [Mark("text") EXCEPT !.v = v]
Say(ms) == messages' = messages \cup ms

-----------------------------------------------------------------------------
(* MM_Macc.  A frame is one call: the text it still has to scan, the macro  *)
(* whose body that is (NoName for a line, or for text scanned again), where *)
(* in mbuf its output starts, and the place in mbuf of the #if or #elif     *)
(* whose argument it is replacing, or 0.                                    *)

Call(text, name, mark) == [text |-> text, name |-> name, mark |-> mark, at |-> 0]

(* The names that are not replaced, and those that become a number.         *)
Expanding == {MM_name[i] : i \in 0..(MM_cnt - 1)}
Counts(l) == l.n \in Names \ Expanding /\ macros[l.n].atr = "set"

(* A step that uses MM_name[i]: with i far below 0 dcasm may die of it.     *)
Outcome(i, ph) == phase' \in IF i < -Room THEN {ph, "crash"} ELSE {ph}

(* The line the innermost call looks at is one of ks.                       *)
Scans(ks) ==
  /\ phase = "macc" /\ Last(frames).at = 0
  /\ Last(frames).text # <<>> /\ Head(Last(frames).text).k \in ks
Scanned == Head(Last(frames).text)
Advance == [frames EXCEPT ![Len(frames)].text = Tail(@)]

(* A name on the line is replaced by a text, on a text line or as the       *)
(* argument of an #if or #elif.                                             *)
Asking(l) == l.k \in {"if", "elif"} /\ l.h = "value"
Expands(l) ==
  /\ l.k = "text" \/ Asking(l)
  /\ l.n \in Names \ Expanding /\ IsText(macros[l.n].atr)

MaccText ==
  /\ Scans({"text"}) /\ ~Expands(Scanned)
  /\ mbuf' = Append(mbuf, IF Counts(Scanned) THEN Number(macros[Scanned.n].val) ELSE Scanned)
  /\ frames' = Advance
  /\ UNCHANGED <<files, inclStk, MM_ptr, names, macros, stacks, scan, phase, out, messages>>

(* MM_MaccMacro: the name is stored, then the nesting is checked, then      *)
(* MM_Macc is called for the text.  With FILN_MAC_NEST names in MM_name the *)
(* next is stored behind it, over MM_cnt: the check sees half the pointer,  *)
(* or MM_cnt as it was if that was read before.  callers are the calls it   *)
(* comes back to, written what is in mbuf by then.                          *)
Enters(callers, written) ==
  \E cnt \in IF MM_cnt = FILN_MAC_NEST THEN Halves \cup {MM_cnt} ELSE {MM_cnt} :
    /\ MM_name' = [i \in DOMAIN MM_name |-> IF i = MM_cnt THEN Scanned.n ELSE MM_name[i]]
    /\ MM_cnt' = cnt + 1
    /\ overwritten' = overwritten \cup (IF MM_cnt = FILN_MAC_NEST THEN {"MM_cnt"} ELSE {})
                                  \cup (IF MM_cnt = ErrLblSkip THEN {"errLblSkip"} ELSE {})
    /\ IF cnt >= FILN_MAC_NEST
       THEN /\ phase' = "exit"
            /\ Say({"macronest"})
            /\ UNCHANGED <<frames, mbuf>>
       ELSE /\ frames' = Append(callers, Call(macros[Scanned.n].buf, Scanned.n, Len(written)))
            /\ mbuf' = written
            /\ IF Len(frames) = StackLimit THEN phase' = "crash" ELSE Outcome(cnt, "macc")
            /\ UNCHANGED messages

MaccExpand ==
  /\ Scans({"text"}) /\ Expands(Scanned)
  /\ Enters(Advance, mbuf)
  /\ UNCHANGED <<files, inclStk, MM_ptr, macros, stacks, scan, out>>

(* The #if or #elif l with another argument.                                *)
With(l, h, n, v) == [l EXCEPT !.h = h, !.n = n, !.v = v]

(* The directive is in mbuf when its argument is replaced.                  *)
MaccAsk ==
  /\ Scans({"if", "elif"}) /\ Expands(Scanned)
  /\ Enters([Advance EXCEPT ![Len(frames)].at = Len(mbuf) + 1],
            Append(mbuf, With(Scanned, "number", NoName, 0)))
  /\ UNCHANGED <<files, inclStk, MM_ptr, macros, stacks, scan, out>>

(* The #if or #elif l with ls for its argument: a number or a name is on    *)
(* its line, the body of a #macro starts a line of its own and leaves it    *)
(* without an argument, which counts 0, as does the lack of any text.       *)
Answer(l, ls) ==
  IF ls # <<>> /\ Head(ls).k = "text"
  THEN <<With(l, IF Head(ls).n = NoName THEN "number" ELSE "value", Head(ls).n, Head(ls).v)>>
       \o Tail(ls)
  ELSE <<l>> \o ls

(* The end of its line.                                                     *)
MaccAnswer ==
  LET at == Last(frames).at IN
  /\ phase = "macc" /\ at # 0
  /\ mbuf' = SubSeq(mbuf, 1, at - 1) \o Answer(mbuf[at], SubSeq(mbuf, at + 1, Len(mbuf)))
  /\ frames' = [frames EXCEPT ![Len(frames)].at = 0]
  /\ UNCHANGED <<files, inclStk, MM_ptr, names, macros, stacks, scan, phase, out, messages>>

(* The word at ErrLblSkip is also that of Expr0_line, which an undefined    *)
(* name in an expression sets: from then on two words hold 0.               *)
Low == IF messages \cap {"undefined name", "kept back"} = {} THEN Room ELSE -ErrLblSkip - 1

(* SAFE_FREE(Z.MM_name[--Z.MM_cnt]): SAFE_FREE frees its argument and sets  *)
(* it to NULL, which decrements MM_cnt twice.  dcasm may die of freeing     *)
(* what was not allocated.                                                  *)
FreeName ==
  /\ MM_cnt' = MM_cnt - 2
  /\ MM_name' = [i \in DOMAIN MM_name |-> IF i = MM_cnt - 2 THEN NoName ELSE MM_name[i]]
  /\ overwritten' = overwritten \ (IF MM_cnt - 2 = ErrLblSkip THEN {"errLblSkip"} ELSE {})
  /\ phase' \in IF MM_cnt - 1 < -Low \/ MM_cnt - 2 < -Room \/ "MM_cnt" \in overwritten
                THEN {"macc", "crash"} ELSE {"macc"}

(* A call for a line, or for text scanned again, is over.                   *)
EndCall ==
  /\ frames' = Front(frames)
  /\ IF Len(frames) > 1 THEN UNCHANGED <<mbuf, MM_ptr, phase>>
     ELSE MM_ptr' = mbuf /\ mbuf' = <<>> /\ phase' = "read"
  /\ UNCHANGED names

(* Mutants: the call does not return before its output is scanned again;    *)
(* that output is scanned again, but not taken back.                        *)
MaccReturnDeep ==
  LET f == Last(frames) IN
  /\ phase = "macc" /\ f.at = 0 /\ f.text = <<>>
  /\ IF f.name = NoName THEN EndCall
     ELSE /\ frames' = Front(frames)
                       \o <<Call(<<>>, NoName, 0),
                            Call(SubSeq(mbuf, f.mark + 1, Len(mbuf)), NoName, f.mark)>>
          /\ mbuf' = SubSeq(mbuf, 1, f.mark)
          /\ IF Len(frames) = StackLimit THEN phase' = "crash" /\ UNCHANGED names ELSE FreeName
          /\ UNCHANGED MM_ptr
  /\ UNCHANGED <<files, inclStk, macros, stacks, scan, out, messages>>

MaccReturnTwice ==
  LET f == Last(frames) IN
  /\ phase = "macc" /\ f.at = 0 /\ f.text = <<>>
  /\ IF f.name = NoName THEN EndCall
     ELSE /\ FreeName
          /\ frames' = Append(Front(frames),
                              Call(SubSeq(mbuf, f.mark + 1, Len(mbuf)), NoName, f.mark))
          /\ UNCHANGED <<mbuf, MM_ptr>>
  /\ UNCHANGED <<files, inclStk, macros, stacks, scan, out, messages>>

(* What a call does when its text is used up.  The text a macro produced is *)
(* taken back and scanned again, with the macro's name no longer excepted.  *)
MaccReturn ==
  LET f == Last(frames) IN
  /\ phase = "macc" /\ f.at = 0 /\ f.text = <<>>
  /\ IF f.name = NoName THEN EndCall
     ELSE /\ FreeName
          /\ frames' = Append(Front(frames),
                              Call(SubSeq(mbuf, f.mark + 1, Len(mbuf)), NoName, f.mark))
          /\ mbuf' = SubSeq(mbuf, 1, f.mark)
          /\ UNCHANGED MM_ptr
  /\ UNCHANGED <<files, inclStk, macros, stacks, scan, out, messages>>

(* #define, #set and #undef are obeyed as the text is scanned, whatever the *)
(* #ifs of that text will say.                                              *)
Define(n, atr, val, buf) ==
  /\ macros' = [macros EXCEPT ![n] = MTREE_Add(@, atr, val, buf)]
  /\ Say(IF Clashes(macros[n], atr) THEN {"redefined"} ELSE {})

MaccDefine ==
  /\ Scans({"define", "set"})
  /\ IF Scanned.k = "set" THEN Define(Scanned.n, "set", Scanned.v, <<>>)
     ELSE Define(Scanned.n, "def", 0, <<[Number(Scanned.v) EXCEPT !.n = Scanned.to]>>)
  /\ frames' = Advance
  /\ UNCHANGED <<files, inclStk, MM_ptr, mbuf, names, stacks, scan, phase, out>>

MaccUndef ==
  /\ Scans({"undef"})
  /\ macros' = [macros EXCEPT ![Scanned.n] = M_Undef(@)]
  /\ frames' = Advance
  /\ UNCHANGED <<files, inclStk, MM_ptr, mbuf, names, stacks, scan, phase, out, messages>>

(* The argument of an #if or #elif that is not replaced by a text:          *)
(* defined(n) is 0 or 1 (an #ifdef is made an #if here), the name of a      *)
(* number is that number, another name stays.                               *)
Resolved(l) ==
  LET As(v) == [l EXCEPT !.h = "number", !.v = v]
  IN  IF l.h = "defined" THEN As(IF Found(macros[l.n]) THEN 1 ELSE 0)
      ELSE IF l.h = "value" /\ Counts(l) THEN As(macros[l.n].val)
      ELSE l

(* Every other line is copied for Filn_GetsMif.                             *)
MaccCopy ==
  /\ Scans(Kinds \ {"text", "define", "set", "undef"}) /\ ~Expands(Scanned)
  /\ mbuf' = Append(mbuf, IF Scanned.k \in {"if", "elif"} THEN Resolved(Scanned) ELSE Scanned)
  /\ frames' = Advance
  /\ UNCHANGED <<files, inclStk, MM_ptr, names, macros, stacks, scan, phase, out, messages>>

-----------------------------------------------------------------------------
(* Filn_GetLineMac: the next line when no expanded one is left.             *)

Dead == mifStk[mifCur] >= 2
MM_mifChk == mifChkSnc > 0 \/ Dead

Input == files[Last(inclStk).file]
Rest == SubSeq(Input, Last(inclStk).lin + 1, Len(Input))
Reading == phase = "read" /\ MM_ptr = <<>>
TakeLines(k) == inclStk' = [inclStk EXCEPT ![Len(inclStk)].lin = @ + k]

(* Inside a skipped branch a line is taken as it is.                        *)
ReadRaw ==
  /\ Reading /\ Rest # <<>> /\ MM_mifChk
  /\ MM_ptr' = <<Head(Rest)>>
  /\ TakeLines(1)
  /\ UNCHANGED <<files, expansion, stacks, scan, phase, out, messages>>

ReadExpand ==
  /\ Reading /\ Rest # <<>> /\ ~MM_mifChk /\ Head(Rest).k # "macro"
  /\ frames' = <<Call(<<Head(Rest)>>, NoName, 0)>>
  /\ mbuf' = <<>>
  /\ phase' = "macc"
  /\ TakeLines(1)
  /\ UNCHANGED <<files, MM_ptr, names, macros, stacks, scan, out, messages>>

(* The lines of a macro between its marks.                                  *)
Body(ls) == <<Mark("S")>> \o ls \o <<Mark("E")>>

(* M_Macro reads up to the #endmacro.  The message for an #undef or #macro  *)
(* before it takes the character # for a string: dcasm dies.  A macro       *)
(* without a name is expanded in place and its name removed.                *)
ReadMacro ==
  LET ends  == {i \in DOMAIN Rest : Rest[i].k = "endmacro"}
      end   == IF ends = {} THEN Len(Rest) + 1 ELSE Min(ends)
      ls    == SubSeq(Rest, 2, end - 1)
      n     == Head(Rest).n
      new   == MTREE_Add(macros[n], "mac", 0, Body(ls))
      dies  == \E i \in DOMAIN ls : ls[i].k \in {"undef", "macro"}
  IN
  /\ Reading /\ Rest # <<>> /\ ~MM_mifChk /\ Head(Rest).k = "macro"
  /\ IF dies \/ ends = {}
     THEN /\ phase' = IF dies THEN "crash" ELSE "exit"
          /\ Say(IF dies THEN {} ELSE {"endmacro"})
          /\ TakeLines(Len(Rest))
          /\ UNCHANGED <<frames, mbuf, macros>>
     ELSE /\ TakeLines(end)
          /\ Say(IF Clashes(macros[n], "mac") THEN {"redefined"} ELSE {})
          /\ IF n = Nameless
             THEN /\ macros' = [macros EXCEPT ![n] = M_Undef(new)]
                  /\ frames' = <<Call(new.buf, NoName, 0)>>
                  /\ mbuf' = <<>>
                  /\ phase' = "macc"
             ELSE /\ macros' = [macros EXCEPT ![n] = new]
                  /\ UNCHANGED <<frames, mbuf, phase>>
  /\ UNCHANGED <<files, MM_ptr, names, stacks, scan, out>>

(* Mutant: a file that is read to its end is not closed.                    *)
EndFileOpen ==
  /\ Reading /\ Rest = <<>>
  /\ phase' = IF Len(inclStk) = 1 THEN "eof" ELSE "read"
  /\ UNCHANGED <<files, inclStk, MM_ptr, expansion, stacks, scan, out, messages>>

(* Filn_GetLine returns NULL.  Filn_GetsMif closes the file and goes on     *)
(* with the one that included it; looking for the end of a macro it gives   *)
(* up, and dcasm takes that for the end of its input.                       *)
EndFile ==
  /\ Reading /\ Rest = <<>>
  /\ IF scan # NoScan
     THEN /\ phase' = "eof"
          /\ Say({"eof in macro"})
          /\ UNCHANGED inclStk
     ELSE /\ inclStk' = Front(inclStk)
          /\ phase' = IF Len(inclStk) = 1 THEN "eof" ELSE "read"
          /\ UNCHANGED messages
  /\ UNCHANGED <<files, MM_ptr, expansion, stacks, scan, out>>

-----------------------------------------------------------------------------
(* Filn_GetsMif: one action per kind of line.                               *)

Gets(ks) == phase = "read" /\ MM_ptr # <<>> /\ scan = NoScan /\ Head(MM_ptr).k \in ks
Got == Head(MM_ptr)
Take == MM_ptr' = Tail(MM_ptr) /\ UNCHANGED <<files, expansion>>

Text ==
  /\ Gets({"text"})
  /\ Take
  /\ out' = IF MM_mifChk THEN out ELSE Append(out, Got)
  /\ UNCHANGED <<inclStk, stacks, scan, phase, messages>>

(* A skipped branch: only the nesting of #if and #endif is followed.        *)
SkipIf ==
  /\ Gets({"if"}) /\ Dead
  /\ Take
  /\ mifChkSnc' = mifChkSnc + 1
  /\ UNCHANGED <<inclStk, mifCur, mifStk, mifMacCur, mifMacStk, scan, phase, out, messages>>

SkipEndif ==
  /\ Gets({"endif"}) /\ Dead /\ mifChkSnc > 0
  /\ Take
  /\ mifChkSnc' = mifChkSnc - 1
  /\ UNCHANGED <<inclStk, mifCur, mifStk, mifMacCur, mifMacStk, scan, phase, out, messages>>

Skip ==
  /\ Dead
  /\ \/ Gets(Kinds \ {"text", "if", "elif", "else", "endif"})
     \/ Gets({"elif", "else"}) /\ mifChkSnc > 0
  /\ Take
  /\ UNCHANGED <<inclStk, stacks, scan, phase, out, messages>>

(* The line reaches the second switch: #elif, #else and #endif also when    *)
(* they are those of the branch that is skipped.                            *)
Live(ks) == Gets(ks) /\ ~Dead
Obeys(ks) == Live(ks) \/ (Gets(ks) /\ mifChkSnc = 0)

(* M_Expr on the argument.  A line of a skipped branch was not expanded: of *)
(* its names only those of #set have a value.                               *)
Truth(l) ==
  LET e == macros[l.n] IN
  CASE l.h = "number"  -> l.v # 0
    [] l.h = "defined" -> Found(e)
    [] l.h = "value"   -> e.atr = "set" /\ e.val # 0
Complaints(l) ==
  IF l.h # "value" \/ macros[l.n].atr = "set" THEN {}
  ELSE IF Found(macros[l.n]) THEN {"not a set name"} ELSE {"undefined name"}

(* What is said of an #if: errLblSkip keeps the message about an undefined  *)
(* name back, unless the half of a pointer stored over it is 0.             *)
Complain(l, ms) ==
  messages' \in {messages \cup Complaints(l) \cup ms} \cup
    IF "errLblSkip" \in overwritten /\ "undefined name" \in Complaints(l)
    THEN {messages \cup {"kept back"} \cup ms} ELSE {}

Branch(state) == mifStk' = [mifStk EXCEPT ![mifCur] = state]

(* Mutants: no limit on the nesting; an #if in a skipped branch is obeyed.  *)
IfUnlimited ==
  /\ Live({"if"})
  /\ Take
  /\ mifCur' = mifCur + 1
  /\ mifStk' = [mifStk EXCEPT ![mifCur + 1] = IF Truth(Got) THEN 1 ELSE 2]
  /\ Complain(Got, {})
  /\ mifChkSnc' = 0
  /\ UNCHANGED <<inclStk, mifMacCur, mifMacStk, scan, phase, out>>

IfAnywhere ==
  /\ Obeys({"if"}) /\ mifCur < FILN_IF_NEST
  /\ Take
  /\ mifCur' = mifCur + 1
  /\ mifStk' = [mifStk EXCEPT ![mifCur + 1] = IF Truth(Got) THEN 1 ELSE 2]
  /\ Complain(Got, {})
  /\ mifChkSnc' = 0
  /\ UNCHANGED <<inclStk, mifMacCur, mifMacStk, scan, phase, out>>

If ==
  /\ Live({"if"})
  /\ Take
  /\ IF mifCur >= FILN_IF_NEST
     THEN /\ phase' = "exit"
          /\ Complain(Got, {"ifnest"})
          /\ UNCHANGED <<mifCur, mifStk>>
     ELSE /\ mifCur' = mifCur + 1
          /\ mifStk' = [mifStk EXCEPT ![mifCur + 1] = IF Truth(Got) THEN 1 ELSE 2]
          /\ Complain(Got, {})
          /\ UNCHANGED phase
  /\ mifChkSnc' = 0
  /\ UNCHANGED <<inclStk, mifMacCur, mifMacStk, scan, out>>

(* Mutant: an #elif after the taken branch is taken too.                    *)
ElifAgain ==
  /\ Obeys({"elif"})
  /\ Take
  /\ Branch(IF mifStk[mifCur] = 0 THEN 0 ELSE IF Truth(Got) THEN 1 ELSE 2)
  /\ Complain(Got, {})
  /\ mifChkSnc' = 0
  /\ UNCHANGED <<inclStk, mifCur, mifMacCur, mifMacStk, scan, phase, out>>

Elif ==
  /\ Obeys({"elif"})
  /\ Take
  /\ CASE mifStk[mifCur] = 0 -> UNCHANGED mifStk /\ Complain(Got, {"excessive"})
       [] mifStk[mifCur] = 1 -> Branch(3) /\ Complain(Got, {})
       [] mifStk[mifCur] = 2 -> Branch(IF Truth(Got) THEN 1 ELSE 2) /\ Complain(Got, {})
       [] mifStk[mifCur] = 3 -> UNCHANGED <<mifStk, messages>>
  /\ mifChkSnc' = 0
  /\ UNCHANGED <<inclStk, mifCur, mifMacCur, mifMacStk, scan, phase, out>>

Else ==
  /\ Obeys({"else"})
  /\ Take
  /\ CASE mifStk[mifCur] = 2 -> Branch(1) /\ UNCHANGED messages
       [] mifStk[mifCur] = 0 -> UNCHANGED mifStk /\ Say({"excessive"})
       [] OTHER              -> Branch(3) /\ UNCHANGED messages
  /\ mifChkSnc' = 0
  /\ UNCHANGED <<inclStk, mifCur, mifMacCur, mifMacStk, scan, phase, out>>

Endif ==
  /\ Obeys({"endif"})
  /\ Take
  /\ Branch(0)
  /\ IF mifCur = 0 THEN Say({"excessive"}) /\ UNCHANGED mifCur
     ELSE mifCur' = mifCur - 1 /\ UNCHANGED messages
  /\ mifChkSnc' = 0
  /\ UNCHANGED <<inclStk, mifMacCur, mifMacStk, scan, phase, out>>

MacroStart ==
  /\ Live({"S"})
  /\ Take
  /\ IF mifMacCur = FILN_IF_NEST
     THEN phase' = "exit" /\ Say({"macronest"}) /\ UNCHANGED <<mifMacCur, mifMacStk>>
     ELSE /\ mifMacCur' = mifMacCur + 1
          /\ mifMacStk' = [mifMacStk EXCEPT ![mifMacCur + 1] = mifCur]
          /\ UNCHANGED <<phase, messages>>
  /\ mifChkSnc' = 0
  /\ UNCHANGED <<inclStk, mifCur, mifStk, scan, out>>

(* Mutant: the mark of the macro stays.                                     *)
LeaveMacroMarked ==
  /\ mifCur' = mifMacStk[mifMacCur]
  /\ UNCHANGED mifMacCur

(* The #ifs the macro left open are closed.                                 *)
LeaveMacro ==
  /\ mifCur' = mifMacStk[mifMacCur]
  /\ mifMacCur' = mifMacCur - 1

MacroEnd ==
  /\ Live({"E"})
  /\ Take
  /\ IF mifMacCur = 0
     THEN phase' = "exit" /\ Say({"PrgErr"}) /\ UNCHANGED <<mifCur, mifMacCur>>
     ELSE /\ LeaveMacro
          /\ Say(IF mifCur # mifMacStk[mifMacCur] THEN {"unmatched"} ELSE {})
          /\ UNCHANGED phase
  /\ mifChkSnc' = 0
  /\ UNCHANGED <<inclStk, mifStk, mifMacStk, scan, out>>

ExitMacro ==
  /\ Live({"exitmacro"})
  /\ Take
  /\ IF mifMacCur = 0 THEN Say({"outside"}) /\ UNCHANGED scan
     ELSE scan' = 0 /\ UNCHANGED messages
  /\ mifChkSnc' = 0
  /\ UNCHANGED <<inclStk, mifCur, mifStk, mifMacCur, mifMacStk, phase, out>>

(* Mutant: the end of a macro inside the rest ends the search.              *)
ScanFlat ==
  /\ phase = "read" /\ MM_ptr # <<>> /\ scan # NoScan
  /\ Take
  /\ IF Got.k = "E" THEN scan' = NoScan /\ LeaveMacro
     ELSE UNCHANGED <<scan, mifCur, mifMacCur>>
  /\ UNCHANGED <<inclStk, mifStk, mifMacStk, mifChkSnc, phase, out, messages>>

(* The loop of #exitmacro, up to the end of the macro it is in.             *)
Scan ==
  /\ phase = "read" /\ MM_ptr # <<>> /\ scan # NoScan
  /\ Take
  /\ IF Got.k = "E" /\ scan = 0 THEN scan' = NoScan /\ LeaveMacro
     ELSE /\ scan' = CASE Got.k = "S" -> scan + 1
                       [] Got.k = "E" -> scan - 1
                       [] OTHER       -> scan
          /\ UNCHANGED <<mifCur, mifMacCur>>
  /\ UNCHANGED <<inclStk, mifStk, mifMacStk, mifChkSnc, phase, out, messages>>

(* M_Include, Filn_Open0.  inclNo, Len(inclStk) - 1, may equal              *)
(* FILN_INCL_NUM - 1 when the check passes: the new entry then lies behind  *)
(* the array, and dcasm goes on or dies.                                    *)
Include ==
  /\ Live({"include"})
  /\ Take
  /\ IF Len(inclStk) - 1 >= FILN_INCL_NUM
     THEN phase' = "exit" /\ Say({"inclnest"}) /\ UNCHANGED inclStk
     ELSE IF Got.n \notin DOMAIN files
     THEN Say({"open"}) /\ UNCHANGED <<inclStk, phase>>
     ELSE /\ inclStk' = Append(inclStk, [file |-> Got.n, lin |-> 0])
          /\ phase' \in IF Len(inclStk) < FILN_INCL_NUM THEN {"read"} ELSE {"read", "crash"}
          /\ UNCHANGED messages
  /\ mifChkSnc' = 0
  /\ UNCHANGED <<mifCur, mifStk, mifMacCur, mifMacStk, scan, out>>

(* #error, and the directives nothing but their partner should read.        *)
Report ==
  /\ Live({"error", "endmacro"})
  /\ Take
  /\ Say({IF Got.k = "error" THEN "user" ELSE "pair"})
  /\ mifChkSnc' = 0
  /\ UNCHANGED <<inclStk, mifCur, mifStk, mifMacCur, mifMacStk, scan, phase, out>>

-----------------------------------------------------------------------------
Init ==
  /\ files \in Sources
  /\ inclStk = <<[file |-> MainFile, lin |-> 0]>>
  /\ MM_ptr = <<>> /\ frames = <<>> /\ mbuf = <<>>
  /\ MM_name = [i \in 0..(FILN_MAC_NEST - 1) |-> NoName] /\ MM_cnt = 0
  /\ overwritten = {}
  /\ macros = [n \in Names \cup {Nameless, NoName} |-> NoEntry]
  /\ mifCur = 0 /\ mifStk = [i \in 0..FILN_IF_NEST |-> 0]
  /\ mifMacCur = 0 /\ mifMacStk = [i \in 1..FILN_IF_NEST |-> 0]
  /\ mifChkSnc = 0
  /\ scan = NoScan /\ phase = "read" /\ out = <<>> /\ messages = {}

Ended == phase \in {"eof", "exit", "crash"}
Stop == Ended /\ UNCHANGED vars

GetLine == ReadRaw \/ ReadExpand \/ ReadMacro \/ EndFile
Macc == \/ MaccText \/ MaccExpand \/ MaccAsk \/ MaccAnswer \/ MaccReturn
        \/ MaccDefine \/ MaccUndef \/ MaccCopy
GetsMif == \/ Text \/ SkipIf \/ SkipEndif \/ Skip \/ If \/ Elif \/ Else \/ Endif
           \/ MacroStart \/ MacroEnd \/ ExitMacro \/ Scan \/ Include \/ Report

Next == GetLine \/ Macc \/ GetsMif \/ Stop

Spec == Init /\ [][Next]_vars

(* Filn_Gets is called until it returns NULL.                               *)
FairSpec == Spec /\ WF_vars(Next)
=============================================================================
