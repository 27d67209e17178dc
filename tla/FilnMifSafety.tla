--------------------------- MODULE FilnMifSafety ---------------------------
(***************************************************************************)
(* What Filn's conditionals and macros are correct for.                     *)
(***************************************************************************)
EXTENDS FilnMif

-----------------------------------------------------------------------------
(* Which sources the properties are about.                                  *)

(* In a macro body, the #ifs open after its first i lines.                  *)
OpenAfter(ls, i) ==
  Cardinality({j \in 1..i : ls[j].k = "if"}) - Cardinality({j \in 1..i : ls[j].k = "endif"})

(* A text has all of every #if of which it has a part.                      *)
Closed(ls) ==
  /\ \A i \in DOMAIN ls : OpenAfter(ls, i) >= IF ls[i].k \in {"else", "elif"} THEN 1 ELSE 0
  /\ OpenAfter(ls, Len(ls)) = 0

(* The lines of a file between #macro and #endmacro.                        *)
BodyAt(ls, i, j) ==
  /\ ls[i].k = "macro" /\ ls[j].k = "endmacro"
  /\ \A m \in (i + 1)..(j - 1) : ls[m].k # "endmacro"

(* Every macro body of the files is closed, and no file has the marks of    *)
(* M_Macro: they are named with the byte \xff, which no text has.           *)
ClosedMacros(fs) ==
  \A f \in DOMAIN fs :
    /\ \A i \in DOMAIN fs[f] : fs[f][i].k \notin {"S", "E"}
    /\ \A i, j \in DOMAIN fs[f] :
         i < j /\ BodyAt(fs[f], i, j) => Closed(SubSeq(fs[f], i + 1, j - 1))

(* The #ifs around the next line: those on the stack, and those of a branch *)
(* that is skipped.  The #ifs around each macro.  The lines handed on.  All *)
(* where every macro body is closed.                                        *)
OpenIfs ==
  IF ClosedMacros(files)
  THEN [i \in 1..(mifCur + mifChkSnc) |->
         IF i > mifCur THEN "over"
         ELSE CASE mifStk[i] = 1 -> "chosen"
                [] mifStk[i] = 2 -> "waiting"
                [] OTHER         -> "over"]
  ELSE <<>>
MacroMarks == IF ClosedMacros(files) THEN [i \in 1..mifMacCur |-> mifMacStk[i]] ELSE <<>>
LinesKept == IF ClosedMacros(files) THEN out ELSE <<>>

(* FilnMif as nested conditionals.                                          *)
C == INSTANCE Conditional WITH
       Lines <- Line, kept <- LinesKept, marks <- MacroMarks, open <- OpenIfs

(* One name's text is, or holds, another name, or has it in a condition.    *)
Mentions(n, m) ==
  \E i \in DOMAIN macros[n].buf :
    (macros[n].buf[i].k = "text" \/ Asking(macros[n].buf[i])) /\ macros[n].buf[i].n = m

(* Some names that have a text each mention one of them.                    *)
Texts == {n \in Names : IsText(macros[n].atr)}
Cyclic == \E ns \in SUBSET Texts \ {{}} : \A n \in ns : \E m \in ns : Mentions(n, m)

(* No macro body defines a name: names do not change while one is expanded. *)
NamesFixed(fs) ==
  \A f \in DOMAIN fs : \A i, j \in DOMAIN fs[f] :
    i < j /\ BodyAt(fs[f], i, j)
      => \A m \in i..j : fs[f][m].k \notin {"define", "set"}

(* The line with every name replaced by its text, names within that too:    *)
(* in[d][n] is the text of n, replaced d levels deep.                       *)
Replaced(line) ==
  LET Known(l) == IF l.n \in Names /\ macros[l.n].atr = "set" THEN Number(macros[l.n].val)
                  ELSE l
      Each(ls, T(_)) ==
        FlattenSeq([i \in DOMAIN ls |->
          CASE Asking(ls[i]) /\ ls[i].n \in Texts       ->
                 Answer(With(ls[i], "number", NoName, 0), T(ls[i].n))
            [] ls[i].k \in {"if", "elif"} /\ ~(Asking(ls[i]) /\ ls[i].n \in Texts)
                                                        -> <<Resolved(ls[i])>>
            [] ls[i].k = "text" /\ ls[i].n \in Texts    -> T(ls[i].n)
            [] ls[i].k = "text" /\ ls[i].n \notin Texts -> <<Known(ls[i])>>
            [] OTHER                                    -> <<ls[i]>>])
      in[d \in 0..Cardinality(Names)] ==
        [n \in Texts |-> IF d = 0 THEN <<>>
                         ELSE Each(macros[n].buf, LAMBDA m : in[d - 1][m])]
  IN Each(<<line>>, LAMBDA m : in[Cardinality(Names)][m])

-----------------------------------------------------------------------------
(* What the kept lines of a file are, for a file of conditionals, #define   *)
(* and #undef alone: the lines ls with no word of a stack.                  *)

(* The #if at i still is open at j.                                         *)
Around(ls, i, j) ==
  /\ i < j /\ ls[i].k = "if"
  /\ \A m \in i..(j - 1) : OpenAfter(ls, m) > OpenAfter(ls, i - 1)

(* The lines before j that start a branch of the #if at i.                  *)
Branches(ls, i, j) ==
  {i} \cup {m \in (i + 1)..(j - 1) : /\ ls[m].k \in {"elif", "else"}
                                     /\ OpenAfter(ls, m) = OpenAfter(ls, i)
                                     /\ Around(ls, i, m)}

(* A name is defined by the last of its #define and #undef before line b    *)
(* that is kept: kept[j] says whether line j is.                            *)
DefinedAt(ls, kept, n, b) ==
  \E d \in 1..(b - 1) :
    /\ ls[d].k = "define" /\ ls[d].n = n /\ kept[d]
    /\ \A u \in (d + 1)..(b - 1) : ~(ls[u].k = "undef" /\ ls[u].n = n /\ kept[u])

(* The branch that line b starts has a condition that holds there.          *)
HoldsAt(ls, kept, b) ==
  \/ ls[b].k = "else"
  \/ ls[b].h = "number" /\ ls[b].v # 0
  \/ ls[b].h = "defined" /\ DefinedAt(ls, kept, ls[b].n, b)

(* Line j is in the first branch of the #if at i whose condition holds.     *)
InFirst(ls, kept, i, j) ==
  \E b \in Branches(ls, i, j) :
    /\ HoldsAt(ls, kept, b)
    /\ \A c \in Branches(ls, i, j) : (c < b => ~HoldsAt(ls, kept, c)) /\ c <= b

(* Line j is kept: it is in the first such branch of every #if around it.   *)
(* What is defined there is a matter of the kept lines before.              *)
IsKept(ls, kept, j) ==
  \A i \in 1..(j - 1) : Around(ls, i, j) => InFirst(ls, kept, i, j)

Kept(ls) ==
  LET kept[j \in 1..Len(ls)] == IsKept(ls, kept, j) IN kept

(* The lines that go to the assembler.                                      *)
KeptText(ls) == {j \in 1..Len(ls) : ls[j].k = "text" /\ Kept(ls)[j]}

(* The lines are those of ls at the places js, in their order.              *)
LinesAt(lines, ls, js) ==
  /\ Len(lines) = Cardinality(js)
  /\ \A j \in js : lines[Cardinality({m \in js : m <= j})] = ls[j]

(* The file is such a file: no #endif too many, and names have one kind.    *)
Plain(ls) ==
  /\ \A i \in DOMAIN ls : /\ ls[i].k \in {"text", "if", "elif", "else", "endif", "define", "undef"}
                          /\ ls[i].k = "text" => ls[i].n = NoName
                          /\ ls[i].h # "value"
                          /\ OpenAfter(ls, i) >= IF ls[i].k \in {"else", "elif"} THEN 1 ELSE 0

-----------------------------------------------------------------------------
(* Types: the variables hold what the C variables can, and the stacks stay  *)
(* in their arrays but for one #include (Include) and for MM_name, whose    *)
(* count no step bounds from below, and which is passed at its end.         *)
TypeOK ==
  /\ inclStk \in Seq([file : FileNames, lin : Nat]) /\ Len(inclStk) <= FILN_INCL_NUM + 1
  /\ MM_ptr \in Seq(Line) /\ mbuf \in Seq(Line) /\ out \in Seq(Line)
  /\ frames \in Seq([text : Seq(Line), name : Names \cup {NoName}, mark : Nat, at : Nat])
  /\ Len(frames) <= StackLimit + 1
  /\ MM_cnt \in Int /\ (phase # "exit" => MM_cnt <= FILN_MAC_NEST)
  /\ overwritten \subseteq {"MM_cnt", "errLblSkip"}
  /\ MM_name \in [0..(FILN_MAC_NEST - 1) -> Names \cup {NoName}]
  /\ macros \in [Names \cup {Nameless, NoName} -> [atr : Atrs, val : Int, buf : Seq(Line)]]
  /\ mifCur \in 0..FILN_IF_NEST /\ mifStk \in [0..FILN_IF_NEST -> 0..3]
  /\ mifMacCur \in 0..FILN_IF_NEST /\ mifMacStk \in [1..FILN_IF_NEST -> 0..FILN_IF_NEST]
  /\ mifChkSnc \in Nat /\ scan \in Nat \cup {NoScan}
  /\ phase \in {"read", "macc", "eof", "exit", "crash"}

(* What a call has produced starts where the calls around it had got to,    *)
(* behind the #if whose argument they ask for: taking it back, or putting   *)
(* an argument together, takes nothing that is not the call's own.          *)
Reached(f) == IF f.at = 0 THEN f.mark ELSE f.at
InOrder(fs, buf) ==
  \A j \in DOMAIN fs :
    /\ Reached(fs[j]) <= Len(buf)
    /\ \A i \in 1..(j - 1) : Reached(fs[i]) <= fs[j].mark
    /\ fs[j].at # 0 => fs[j].mark < fs[j].at /\ buf[fs[j].at].k \in {"if", "elif"}
MarksInOrder == phase = "macc" => InOrder(frames, mbuf)

(* What the types need: every file on the include stack is one there is, a  *)
(* line is being read or expanded only while one is open, and expanding     *)
(* one is at least one call and at most what the C stack holds.             *)
TypeInvariant ==
  /\ TypeOK
  /\ \A f \in DOMAIN files : f \in FileNames /\ files[f] \in Seq(Line)
  /\ \A i \in DOMAIN inclStk : inclStk[i].file \in DOMAIN files
  /\ phase \in {"read", "macc"} => inclStk # <<>>
  /\ phase = "macc" => frames # <<>> /\ Len(frames) <= StackLimit
  /\ MarksInOrder

(* The #if stack, whatever the macros do to it: only its innermost entry    *)
(* stops lines, so that looking at that one is enough, and no entry that a  *)
(* macro's end left behind stops any later; skipped #ifs are counted only   *)
(* while it does; #exitmacro looks for the end of a macro that is being     *)
(* read, in an active branch.                                               *)
StackDiscipline ==
  /\ mifStk[0] = 0
  /\ \A i \in 0..FILN_IF_NEST : i # mifCur => mifStk[i] <= 1
  /\ mifChkSnc > 0 => Dead
  /\ scan # NoScan => ~Dead /\ mifMacCur > 0

(* With closed macro bodies every entry is an #if that is open, and a macro *)
(* is read with at least the #ifs it started with.                          *)
MacrosNest ==
  ClosedMacros(files) =>
    /\ \A i \in 1..mifCur : mifStk[i] # 0
    /\ \A i \in 1..mifMacCur : /\ mifMacStk[i] <= mifCur
                               /\ \A j \in 1..i : mifMacStk[j] <= mifMacStk[i]

(* mifStk, mifChkSnc and mifMacStk, which give a skipped #if no entry and   *)
(* look at the innermost entry only, keep the lines that nested conditionals *)
(* keep, where macro bodies are closed.                                     *)
Implements == C!Spec

(* A file of conditionals gives the lines that src/dcasm.txt says.          *)
KeptAsDocumented ==
  phase = "eof" /\ DOMAIN files = {MainFile} /\ Plain(files[MainFile])
    => LinesAt(out, files[MainFile], KeptText(files[MainFile]))

(* A macro body holds an #undef or a #macro.                                *)
FaultyBody(fs) ==
  \E f \in DOMAIN fs : \E i, j \in DOMAIN fs[f] :
    /\ i < j /\ fs[f][i].k = "macro" /\ fs[f][j].k \in {"undef", "macro"}
    /\ \A m \in (i + 1)..(j - 1) : fs[f][m].k # "endmacro"

(* However the names are counted down and whatever was expanded before, no  *)
(* more are counted than macros are being expanded: a line whose macros are *)
(* nested FILN_MAC_NEST deep is not refused, nor a name stored behind       *)
(* MM_name for it.                                                          *)
Running == {i \in DOMAIN frames : frames[i].name # NoName}
OnlyDepthOverruns ==
  "MM_cnt" \notin overwritten => MM_cnt <= Cardinality(Running)

(* dcasm dies of names defined in a circle, also one through the condition  *)
(* of an #if; of a name stored over MM_cnt; of an #include nested too deep; *)
(* of the message for a faulty macro body; and of the names freed before    *)
(* MM_name; of nothing else.  (A macro that defines the names its lines     *)
(* above use can use up a deep stack too, and so can a chain of more names  *)
(* than the stack has room for.)                                            *)
DiesOfThese ==
  phase = "crash" /\ NamesFixed(files)
    => \/ Cyclic
       \/ "MM_cnt" \in overwritten
       \/ Len(inclStk) > FILN_INCL_NUM
       \/ FaultyBody(files)
       \/ MM_cnt <= -Low

(* What dcasm dies of; and a name is stored over MM_cnt only where more     *)
(* macros nest than MM_name holds, never for what was expanded before.      *)
CrashCauses == DiesOfThese /\ OnlyDepthOverruns

(* What MM_Macc makes of a line, calling itself and scanning its own output *)
(* again, is the line with its names replaced, in conditions too: nothing   *)
(* is lost, done twice or left.                                             *)
ExpansionIsText ==
  [][phase = "macc" /\ phase' = "read" /\ NamesFixed(files) /\ ~Cyclic
     /\ "MM_cnt" \notin overwritten
     /\ Input[Last(inclStk).lin].k \notin {"define", "set", "undef", "endmacro"}
       => MM_ptr' = Replaced(Input[Last(inclStk).lin])]_vars

(* Every macro that was entered has been left at the end of the input, and  *)
(* none twice, be it by #exitmacro, from any depth of #ifs and through      *)
(* nested macros.  (A macro body that is not closed may hide its end, or    *)
(* the start of a macro in it.)                                             *)
MacrosAreLeft ==
  ClosedMacros(files) => /\ phase = "eof" => mifMacCur = 0 /\ scan = NoScan
                         /\ "PrgErr" \notin messages

(* Whatever the input is, dcasm comes to an end of it: circular #includes   *)
(* and circular names included.                                             *)
EveryInputEnds == <>Ended

-----------------------------------------------------------------------------
(* What the sources say and the program does not.                           *)

(* "A name that is being expanded stays as it is" (comment in MM_Macc): no  *)
(* name is expanded within its own text.                                    *)
OwnNameStays ==
  \A i, j \in DOMAIN frames : i # j /\ frames[i].name = frames[j].name => frames[i].name = NoName

(* src/dcasm.txt: #undef makes a name undefined, #define lets it stand for  *)
(* a text: also after an #undef.                                            *)
DefineHasText ==
  [][\A n \in Names : macros[n].atr = "removed" /\ macros'[n].atr = "def"
                        => macros'[n].buf # <<>>]_vars

(* src/dcasm.txt: the conditions of #if and #elif are evaluated in turn and *)
(* the first that is not 0 is chosen: a name counts in an #elif as in #if.  *)
ElifSeesNames ==
  [][phase = "read" /\ scan = NoScan /\ MM_ptr # <<>> /\ MM_ptr' = Tail(MM_ptr)
     /\ Got.k = "elif" /\ Got.h = "value" /\ mifChkSnc = 0 /\ mifStk[mifCur] = 2
     /\ macros[Got.n].atr = "def" /\ macros[Got.n].buf # <<>> /\ Head(macros[Got.n].buf).n = NoName
       => mifStk'[mifCur] = IF Head(macros[Got.n].buf).v # 0 THEN 1 ELSE 2]_vars
=============================================================================
