# dcasm in TLA+

dcasm is a two-pass assembler that knows only data: `dc`, `ds`, `org`, `align`,
strings and labels, behind a macro preprocessor ("Filn"). This directory holds
its formal model: TLA+ modules translated from the C source, configurations
that check them with TLC, and proofs that TLAPS checks.

The program is sequential. It keeps nothing between runs and talks to nobody,
so what is hard about it is not interleaving but *protocol sequence* and *stale
state*: the same source is walked twice by code that differs between the walks,
over some ten global variables that some orders set and others read, and the
second walk relies on what the first one found.

## 1. Inventory

| Component | Source | State it keeps | Operations |
|---|---|---|---|
| Two-pass core | `dcasm.c` 1330-1657 | line pointer, `g_adr`, `g_endianMode`, `autoAlignMode`, `striMode`, `striOpt`, `g_mem`, message switch | `Main`, `Pass`, `Pass_Line` and its orders, `GenStri`, `GenStriEnd`, `gen_hdr` |
| Label table | `dcasm.c` 528-634 | tree of `label_t {name, val, typ}` | `LBL_Add`, `LBL_Search`, traversal by `gen_hdr` |
| Address arithmetic, bytes | `dcasm.c` 1026-1262, `subr.h` 36-71 | none | `autoalign2/4/8`, `gen_*`, `putOne`, `POKE*` |
| Line lexer | `dcasm.c` 439-520, 788-991 | none | `LinSep`, `GetName`, `GetCh`, `CountArg`, `GetArg` |
| Expression evaluator | `strexpr.c` | `expr_err`, cursor, current token | `expr0` .. `expr9`, `StrExpr` |
| AVL tree | `tree.c`, copy in `filn.c` 428-825 | nodes with two links and a balance flag | insert, search, delete, clear, traverse |
| Filn: files and lines | `filn.c` 841-1599 | include stack, line numbers, comment state | `Filn_Open`, `Filn_Close`, `Filn_GetLine` |
| Filn: macros | `filn.c` 1607-1761, 2807-4192 | macro tree, expansion stack, repeat buffers | `M_Define`, `M_Macro`, `M_Undef`, `MM_Macc`, `MRept`, `MIpr` |
| Filn: conditionals | `filn.c` 4323-4578 | `mifCur`, `mifStk`, `mifMacStk`, `mifChkSnc` | `Filn_GetsMif` on each line |
| Filn: expressions | `filn.c` 2345-2656 | error state | `M_Expr0` .. `M_ExprA` |
| Text loading | `ujfile.c` | buffer, position, end, encoding found and wanted | `ujfile_open` |
| Lists, tables, names | `subr.c` | string lists, sorted tables | `SLIST_Add`, `STBL_Add`, `STBL_Search`, `FIL_*` |
| Multibyte library | `mbc.c` | none | reading and writing characters, `mbc_autoEncodeCheck`, `mbc_strConvMalloc` |
| Command line | `dcasm.c` 42-350 | option variables | `scanOpts`, `GetResFile` |

How they interact: `Main` reads options, loads every file through Filn (which
reads text, expands macros, drops false conditional branches) and splits lines
with `LinSep` into the list `srcl`. `Pass(1)` walks `srcl` to find addresses and
fill the label table, `Main` allocates `g_mem` from the address it ended at,
`Pass(2)` walks `srcl` again and writes. Expressions call back into the label
table (`StrExpr_SetNameChkFunc`). The image is then saved and the exported
labels are written as `#define` lines.

What makes each part correct:

* core: both passes find each line at the same address; pass 2 writes only
  inside what pass 1 measured; the image holds what the source says; what is
  wrong is reported;
* labels: defined once, value never changes, exported when both named and
  defined;
* Filn conditionals: exactly the lines of the taken branch of each nested
  conditional come through;
* macros: a use sees the latest definition, expansion ends or is refused;
* include stack: lines come in order, the stack is never overrun;
* AVL tree: an ordered set, balanced, whatever the sequence of calls;
* sorted tables: in order, nothing missed by the halving;
* expressions: the value C would give, every error reported, both evaluators alike;
* arguments: pass 1 counts what pass 2 puts; a line cut at `;` means the same;
* text: the encoding is found, the lines are those written, comments and joins
  do to bytes what they do to characters.

## 2. Modules

| Module | What it is |
|---|---|
| `LabelTable` | one entry of the label table and `LBL_Add` as an operator |
| `Layout` | addresses and bytes: alignment, `gen_*`, byte order, ranges |
| `DcasmPass` | the state machine of `Main`, `Pass` and `Pass_Line` |
| `DcasmPassSafety` | types, the condition on sources under which the passes agree, the properties, the inductive invariant |
| `MCDcasmPass` | the sources TLC runs through |
| `DcasmPassProofs` | TLAPS: lemmas on the operators, type correctness, labels bind once |
| `AgreementProofs` | TLAPS: the passes agree; labels are addresses, and the header is complete |
| `ImageProofs` | TLAPS: the image fits its block, gaps are 0, and each datum is in the file where it belongs |
| `MacroTable` | one entry of the macro tree: `MTREE_Add`, `M_Undef` as operators |
| `FilnMif` | the state machine of `Filn_GetsMif`, `Filn_GetLineMac`, `MM_Macc`, the include stack |
| `Conditional` | abstract: what nested conditionals and the macros in them promise |
| `FilnMifSafety` | the refinement mapping, which files the properties are about, the properties |
| `MCFilnMif` | the files TLC runs through |
| `FilnMifProofs` | TLAPS: types, the stacks and their discipline, the marks in `M_mbuf`, what overruns `MM_name`, what dcasm dies of |
| `NestingProofs` | TLAPS: expansions are nested, every macro is left, `FilnMif` implements `Conditional` |
| `KeptProofs` | TLAPS: a file of conditionals and definitions gives the lines the documentation keeps |
| `OrderedSet` | abstract: the container's users' view |
| `AvlTree` | `tree.c` on a heap of nodes, one step per call and return, implementing `OrderedSet` |
| `SortedTable` | `STBL_Add`, `STBL_Search`, one step per comparison, implementing `OrderedSet` |
| `MCContainers` | the trees and tables TLC runs through |
| `AvlTreeProofs` | TLAPS: types, the tree is in order and balanced, it is a set, clearing frees all |
| `SortedTableProofs` | TLAPS: types, the table is in order, a search misses nothing, it is a set |
| `Numerals` | characters, numbers, names, C's operators at `Width` bits |
| `StrExprEval` | `strexpr.c`: tokens, `expr0` .. `expr`, `StrExpr` |
| `FilnExpr` | the preprocessor's evaluator, `M_Expr0` .. `M_ExprA` |
| `ExprTrees` | what an expression means, apart from how it is read |
| `DcArgs` | `GetCh`, `CountArg`, `gen_dc`, `GetArg`, `LinSep` |
| `Expressions` | the evaluators and argument loops at work, and their properties |
| `Encodings` | `mbc.c`: characters, detection, conversion |
| `TextReader` | `ujfile_open`, `Filn_GetStr`, `Filn_GetLine`, and their properties |
| `SourceText` | `Expressions` and `TextReader` in one specification |
| `MCSourceText` | the expressions, numbers, lines and files TLC runs through |

`LabelTable` and `Layout` are used by `DcasmPass`, `MacroTable` by `FilnMif`;
`FilnMifSafety` instantiates `Conditional`. `FilnMif` hands lines (`out`) to what
`DcasmPass` takes as `srcl`. `TextReader` delivers the lines `FilnMif` starts
from, `StrExprEval` and `DcArgs` read what `DcasmPass` takes as an argument,
`FilnExpr` what `FilnMif` takes as a condition; `AvlTree` is the container behind
the functions `labels` and `macros`.

### 2.1 The two passes (`DcasmPass`)

State. `srcl`, `g_adr`, `g_endianMode`, `autoAlignMode`, `striMode`, `striOpt`,
`g_mem` are the globals of `dcasm.c`; `pc` is the position of `Pass` in the list,
`passNo` its argument, `phase` the statement `Main` is at, `labels` the label
tree as a function from names to entries, `memSize` the size given to `callocE`,
`messages` the kinds of message that really reach the error stream (`srcl_error`
is silent while `srcl_errDisp` is 0, and `Pass` sets it to `passNo - 1`), `file`
and `header` what is saved. `pass1` is a history variable: the layout state pass
1 met each line in. Nothing reads it but properties.

Actions. One per order, over the whole of `Pass_Line` for a line with that
order: the label prefix (pass 1 only), the end of a pending `stri`, the order
itself, its messages, and `pc`. `EndPass` is the `GenStriEnd` after `Pass`'s
loop, `BeginPass2` the allocation and the start of `Pass(2)`, `Save` the output.

Abstraction. A line is a record of what `Pass_Line` distinguishes: label, order,
size code, arguments, names of an `xdef`, leading blanks and other bytes of a
text line. An expression is a name, `$` or nothing plus a number, since that is
all the passes can tell apart: a value that is constant, follows the address, or
comes from the table. Characters, message texts and the syntax of expressions
belong to the lexer and the expression evaluator. `even` is `align` with
argument 2; `char_enc` is not in the order table and cannot be reached. Integers
are unbounded in the specification, `val_t` has 64 bits: `SilentImageExact` speaks
of data whose values fit `val_t` (`FitsVal`, which every value of a run does), as
only these are values the program can have computed.

`GetArg` steps one byte over the end of the text after the last argument, and
`Pass_Line` then looks at the bytes that follow in memory; whether it prints
"Extra characters" is a nondeterministic choice (`ExtraCharacters`).

`WellFormed` is the condition under which the passes agree, found by removing
counterexamples: the arguments of `ds`, `org`, `align`, `auto_align` and
`stri_opt` name only labels of their own or earlier lines; no `dc` is empty;
alignment mode and `stri` options either never change or are set by a constant
before the first order they bear on. Each excluded case is a real behaviour of
the program (section 4).

### 2.2 Files, macros and conditionals (`FilnMif`)

State. `inclStk` is the array up to `inclNo`, as open files with the number of
lines read; `MM_ptr` the expanded lines not yet taken; `frames` the C stack of
`MM_Macc` calls, each with the text it still has to scan, the macro it is for,
where its output starts in `mbuf` (`M_mbuf`), and where in it the `#if` or `#elif`
lies whose argument is being replaced (`at`); `MM_name` and `MM_cnt` the names
being expanded; `overwritten` the fields beside `MM_name` that a name has been
stored over; `macros` the macro tree as a function from names to entries;
`mifCur`, `mifStk`, `mifMacCur`, `mifMacStk`, `mifChkSnc` as in the code, entry
states 0 to 3 included; `scan` is `val` in the loop of `#exitmacro`; `phase` says
which function runs, or how the program ended (`eof`, `exit` for `Filn_Exit`,
`crash` for undefined behaviour that kills it); `messages` the kinds of message.

Actions. `ReadRaw`, `ReadExpand`, `ReadMacro`, `EndFile` are `Filn_GetLineMac` on
a line of a file; `MaccText`, `MaccExpand`, `MaccAsk`, `MaccAnswer`, `MaccReturn`,
`MaccDefine`, `MaccUndef`, `MaccCopy` one round of `MM_Macc`'s loop, calls and
returns included; then one action per group of cases of the two switches of
`Filn_GetsMif`. `MaccAsk` is `MaccExpand` for a name in the argument of an `#if` or
`#elif`: both call `MM_MaccMacro` (`Enters`), with the name stored, the nesting
checked, the text scanned and scanned again. `MaccAnswer` is the end of that line:
what was produced behind the directive is its argument, and lines of its own after
it if a `#macro` was named.

Abstraction. A line is a record: its directive, the name it is about, a number.
A text line is one name or one number, enough to see a name replaced, left,
lost or doubled. A condition is a number, `defined(n)` or the value of a name,
whatever that name stands for; `#ifdef` is `#if defined`, as `MM_Macc` makes it,
and `#ifeq` and the like are an `#if` on what they compare. Only an `#include` takes
a file's name. Left out: names in the arguments of `#set`, `#include` and `#error`
(they are expanded by the same calls), arguments of macros,
`#local`, `##` and `#&`, `#rept`, `#ipr`, the size of `M_mbuf`; `#print`,
`#pragma`, `#file`, `#line` change nothing modelled.

Undefined behaviour. An `#include` one level too deep writes the entry behind
`inclStk`: the program goes on or dies. A message with a wrong format dies at once.
The C stack holds `StackLimit` calls of `MM_Macc`, not counting the one that a `#set`
name's number takes, which ends at once.

* `MM_MaccMacro` stores a name before it checks the nesting, and `MM_cnt` lies
  behind `MM_name`. With `FILN_MAC_NEST` names in the array the pointer is stored over
  `MM_cnt`, and the check sees half of it (one of `Halves`), or `MM_cnt` as it was if
  the compiler had read it before. A half that is too large is refused, a negative
  one is an index at once, a small one counts names that are not there, which are
  freed as the macro is left: the program goes on or dies.
* `SAFE_FREE` makes `MM_cnt` fall below 0 (section 4): names are then written and
  freed before `MM_name`. The words there held 0 and nothing missed them, `Room` of
  them; further down the program goes on or dies. One of these words is not idle:
  `MM_name[-3]` is `errLblSkip`, and while a name is stored there (half of the pointer
  may be 0) messages about undefined names are kept back. Its other half is
  `Expr0_line`, which such a name sets, so that then only the two words above hold
  what may be freed (`Low`).

`Conditional` says nothing of stacks of states, of counts or of skipping: a list
of conditionals around the line, `chosen`, `waiting` or `over`, a line kept when
all are chosen. The mapping (`OpenIfs`, `MacroMarks`, `LinesKept`) reads `mifStk`
entries 1, 2, 3 as these states and adds `mifChkSnc` entries that are `over`. It
is for files whose macro bodies are closed (`ClosedMacros`: every `#if` of a body
ends in it, and no file has a line that is the mark of a macro, whose name is the
byte FF); for the others, which `MCFilnMif` contains too, there is no nesting to
implement, and `StackDiscipline`, `TypeOK` and `CrashCauses` are what is claimed.

Both state machines were compared with the compiled program on some thousand random
sources each: the image, and the lines handed on, were the same.

### 2.3 Containers (`AvlTree`, `SortedTable`)

`link` is the tree: what each pointer of a node, and `tree->root`, points to;
`avltFlg` and `used` are the nodes' flags and which nodes are allocated. A node
keeps its element from `malloc` to `free` (deletion relinks nodes and never copies
an element), so the element names the node. A pointer to a pointer, which `insNode`,
`delExtractMax` and `DeleteNode` hand down, is a place: the node and side it points
into, or `Root`.

The functions are recursive, and each call and each return of one is a step:
`phase` is the function that runs or has just returned, `stack` the pointers to
pointers of its calls that have not returned, `ret` what the last one returned
(grown, shrunk, not found). `insNode` and `DeleteNode` go down with `Descend`;
`insNodeNew`, `insNodeOld`, `DeleteNodeMissing`, `DeleteNodeLast` and, by way of
`delExtractMax`, `DeleteNodeReplace` are their ends; `insNodeReturn`,
`delExtractMaxReturn` and `DeleteNodeReturn` are one level of unwinding, each with
the rebalancing the code does there. `DeleteNode` works on a copy of `*pp` and writes
it back at its end: nothing reads `*pp` in between, so one step does both. `DoElement`
and `DelAllNode` share `SubtreeDown` and `SubtreeEmpty`, as they visit alike, and
differ in what they do between (`DoElementNode`, `DelAllNodeRight`) and after the
subtrees (`DelAllNodeFree`). The loop of `TREE_Search` keeps one place only. A freed
node's links and flag are `NULL` and 0, as nothing may look at them. `load` and
`more` bound what is called for: what is inserted first, and what the calls after
that are about.

`SortedTable` takes one step per comparison, with `low`, `mid`, `hi` of the loop,
because what the halving gave up is the property. `Place` is the shift and the
store after it; entries beyond `tblcnt` are never read. A string is its rank.

Both implement `OrderedSet`, a set whose calls tell whether the element was there:
`LBL_Add` decides by that answer whether a label is new.

### 2.4 Expressions and arguments (`Expressions` and what it extends)

A text is a sequence of one-character strings, a pointer an index, the NUL what
lies behind the end. `st` of `StrExprEval` is the state of `strexpr.c`'s static
variables (`ch_p`, `sym`, `sym_val`, `expr_err`) with what the last function
returned, handed on the way C's sequence does; the ten functions `expr1` to
`expr`, one loop each, are `Expr` and `Turn` with the level as an argument.
`FilnExpr` does the same for `M_Expr1` to `M_ExprA`, with the string comparison,
`errLblSkip` and the name reported last. `Width` stands for the 64 bits of
`val_t`. `get_dig` computes a number in three bases at once and decides at its
end: `Guessed` is that decision.

`ExprTrees` knows nothing of text: a tree, the value C gives it, what is wrong in
it. `Text` writes a tree with no parenthesis to spare, so that evaluating the text
and comparing with the tree tests precedence and associativity of every pair of
operators. Trees with undefined behaviour in C (shifts beyond the width or of
negative numbers, overflow) are left out by `Defined`.

`DcArgs` has the loops over arguments, each with its own idea of quotes, escapes
and ends. `Expressions` hands a job (a tree, a number or a line) to all of them
in one step. A character in a string is stood for by the text that names it.

### 2.5 The text reader (`Encodings`, `TextReader`)

A file is a text of code points with the encoding it was written in, by the
standards (`StdUtf8`, `Units` and their like are external: other programs write
it), with or without mark, CR, and bytes missing at its end. `Open` is
`ujfile_open`: guess, skip the mark, convert by way of JIS, drop CRs. `GetLine` is
`Filn_GetLine` down to `Filn_GetStr`. `uj` is the `ujfile_t`: the buffer with what
was left behind in it, position and end, and `linbuf0`, because a line that ends
inside a character is copied on past its NUL into older contents. The tables of
characters are the constant `Kuten`; the arithmetic between Shift JIS, EUC-JP and
JIS codes is the code's. The build is little endian with signed `char` (x86).

Left out: JIS X 0213, NEC's and IBM's extensions, encodings dcasm cannot name
(GBK, Big5, UHC and others of the library), lines that fill `linbuf` after joining.

## 3. Runs

| Run | Result | What it shows |
|---|---|---|
| `two_pass` | passes | types; the inductive invariant; agreement of the passes; memory bounds; label values; header; image; gaps; labels bind once |
| `pass1_finds_addresses` | violated | `autoAlignMode` survives into pass 2 |
| `equ_has_its_value` | violated | a forward `equ` is silently 0 |
| `ds_reserves` | violated | `ds.q` reserves nothing |
| `redefinition_reported` | violated | "is overloaded" can never be printed |
| `filn_mif` | passes | types; the discipline of the `#if` stack; nesting of macros; the lines kept are the documented ones; the five causes of death, more nested names than `MM_name` holds among them; every macro is left; `FilnMif` implements `Conditional`; expansion is replacement; every input ends |
| `own_name_stays` | violated | a name is expanded within its own text |
| `define_has_text` | violated | a name defined again after `#undef` has no text |
| `elif_sees_names` | violated | a `#define`d name is 0 in an `#elif` |
| `containers` | passes | types; the tree is in order in the midst of every call and its flags tell the heights between calls; walks meet each element once; clearing frees all; the table is in order and its halving gives up no match; both implement `OrderedSet`; every call returns |
| `source_text` | passes | both evaluators give C's value; errors and messages are neither lost nor made up, but for the exceptions stated; notations; the passes count alike; no pointer leaves the line; `;` cuts nothing apart; the encoding is found; the lines are those written; buffers; comments |
| `numerals_as_documented` | violated | `011h`, documented as a binary number, is hexadecimal, a hexadecimal `h` number with a `b` in it binary |

Bounds of `two_pass`: every source of at most two lines over all 43 kinds of
line, every source of 4 lines over 10 kinds that interact through addresses
(data of each size, two labels, `ds`, `auto_align`, `stri` with text, `stri_opt`),
of 4 lines over 8 kinds that interact through the label table (definitions,
redefinitions, `equ`, `xdef` once and twice, uses, `end`), and of 3 lines over 13
kinds whose bytes matter (both byte orders, all sizes, values at and beyond the
ranges, gaps, text). Two label names are enough for one to depend on the other.
`Slack` is 1 instead of 0x20 so that an uncounted byte is visible at once. The
interactions need at most a setting, a datum it bears on, a label and a use:
four lines. Deadlock is checked: a run ends only in `done`, which stutters.

Bounds of `filn_mif`: `FILN_IF_NEST` 3, `FILN_MAC_NEST` 2, `FILN_INCL_NUM` 2,
`StackLimit` 4, `Room` 4, so that every limit is met by a few lines, from both
sides; `Halves` are 0 and -6: a small one that passes the nesting check, and a
negative one below `Room` (a large one is refused, as is `MM_cnt` read before the
store, which is always among the outcomes). The files: every sequence of at most `MaxIfs` (4) out of 9 lines of
conditionals, `#define` and `#undef` (deep enough for a skipped `#if` with an
`#else` inside a branch); every pair of macro bodies out of 7 each, calling each
other, with at most `MaxUses` (2) out of 6 lines after them; every sequence of at
most `MaxNames` (3) definitions, redefinitions and uses of two names, chains and
circles included, and of conditions on names that stand for numbers, names or
nothing; every pair of files of at most
two lines that include each other; unclosed macro bodies; and single files for
each nesting limit, for conditions on names that stand for macros and chains, and for
each directive out of place. Three names, as a chain of
three is needed to exceed the nesting of macros. With `MaxIfs` 5 (1.5 million
states) the result is the same. Deadlock is checked: `Stop` stutters at an end.

Bounds of `containers`: six elements in any order of insertions, searches,
deletions, walks and clearing, which meets every case of both rebalancing functions;
and, of twelve elements inserted to make the highest tree there is, calls about four:
it is the smallest tree in which one deletion rotates at two nodes (12's). Tables of at most six strings under every sequence
of calls: the halving meets even and odd lengths, and keys at both ends. The two
share nothing, so `which` says which of them a behaviour is about.

Bounds of `source_text`: `Width` 16, as nothing but shifts and overflow looks at the
width. Every operator over every kind of leaf; every nesting of two of ten
operators (one of each level) on either side; signs above and below; every
comparison of strings below every operator. Numbers of at most three digits of the
kinds that the decision tells apart, in each notation. Every argument text of at
most 3 of 9 characters and of 4 to 5 of 6. Every text of at most two characters out
of eight (ASCII, NUL, two and three bytes, surrogates, a Shift JIS second byte
that is `\`, half-width kana) before one of four ends, in seven encodings with and
without mark, CR and `-c`; every sequence of at most three pieces of comments,
quotes, joins and newlines, and longer ones around an open comment or a join.
`LinbufSize` 14 and texts of 11 to 16 bytes, so that lines just fit and do not.
`Padding` is 4 as in the code. One behaviour reads one file or evaluates one
text and then stops: deadlock is not checked.

Fairness. `EveryInputEnds` needs `WF_vars(Next)`: the program is one thread that
calls `Filn_Gets` until it returns NULL, and waits for nothing. `CallsReturn` needs
weak fairness of the steps of the table's loop only, never of the calls: a loop
that may turn does.

## 4. Findings

1. *Alignment mode leaks into pass 2* (`Pass1FindsAddresses`). `Pass` restores
   the byte order and the address but not `autoAlignMode` (nor `striOpt`): an
   `auto_align` after some data moves that data in pass 2, and labels then point
   elsewhere.
2. *Forward `equ`* (`EquHasItsValue`). Evaluated in pass 1 only, so a label
   further down counts as 0; no message.
3. *`ds.q`* (`DsReserves`). `case 8:` where the code is 3.
4. *Redefinition is silent* (`RedefinitionReported`). Labels are added in pass 1,
   whose messages are off.
5. *Names being expanded are miscounted* (`OwnNameStays`). `SAFE_FREE(p)`
   evaluates `p` twice, so `SAFE_FREE(Z.MM_name[--Z.MM_cnt])` takes 2 from
   `MM_cnt`. After the first expansion the check against expanding a name within
   its own text looks at nothing, and each further macro use moves the count one
   down: names are stored and freed before the array, first of all over `errLblSkip`, so
   that an `#if` on an undefined name is 0 without a message. The compiled program
   dies after some 390 uses of a macro.
6. *`#undef` then `#define`* (`DefineHasText`). `M_Undef` frees the text but
   leaves the node; `MTREE_Add` then sets every member but the text.
7. *`#elif` after a skipped branch* (`ElifSeesNames`). Lines of a skipped branch
   are not expanded, so a `#define`d name in such an `#elif` is reported and counts
   as 0.
8. *Numbers that end in `h`* (`NumeralsAsDocumented`). `dcasm.txt:75` gives `011h` as
   Intel's notation of a binary number, one line below `0h` for hexadecimal ones: the
   code reads 17, and `011b` is the binary notation it knows. And a `b` among the
   digits settles for binary as soon as no digit from 2 to 9 came before or comes
   after; an `h` at the end changes nothing, so `1bh` is 1. `NumeralsRead` is about
   all other notations of lines 73-75, and `011b`.

The properties of `source_text` state where they promise nothing; each exception
is something the program does:

* `1 && (1/0)` and `1 && u` pass without a message (`strexpr.c:596`): `&&` and `||`
  clear the error after a true left side. The preprocessor reports `u` only
  outside the right sides of these, and one name only once in a row on a line.
* a last line without a newline loses its last character, whatever it is
  (`filn.c:1196`);
* UTF-8 with a mark: the end is three bytes too far (`ujfile.c:240`), which reads the
  padding as a further line and reports NULs;
* UTF-16BE is read as UTF-16LE (`mbc.c:1241`); EUC-JP with half-width kana may be taken for Shift
  JIS; half-width kana from other encodings become something else in Shift JIS
  (`mbc_jisToSjis`); an empty file is EUC-JP or cannot be opened, by what the
  files before it were; `-cascii` opens nothing;
* converting Unicode text with a NUL in it never ends (`mbc.c:2540`);
* a Shift JIS character whose second byte is `\` is an escape in a string
  (`sjis_len1` gets a signed `char`);
* a line of exactly `LINBUF0_SIZE - 1` bytes is split in two;
* a `\` before the newline inside a string gives a cut line a second newline;
* `GetArg` swallows the character after the argument (`ds.b 5)` says nothing).

Without a property that is violated (see the hazards in `PROJECT.json`): a
second `xdef` before the definition makes the definition fail; `GetArg` leaves
the pointer one byte past the end of the line's text (`LineNotLeft` shows:
never further); `Main` returns 0 after errors; the message for `#undef` or
`#macro` in a macro body has a `%c` too many and kills the program
(`CrashCauses`); `#include`s in a macro body are read after it, the last first;
names defined in a circle exhaust the C stack, in a condition as in text, and more
nested names than `FILN_MAC_NEST` overwrite `MM_cnt` before they are refused, if they
are (`CrashCauses`); a macro body
that leaves an `#if` open in a skipped branch hides its own end, so that the
marks pile up until "nesting too deep", and one that closes a skipped `#if` of
its caller can end in `PrgErr`.

## 5. Proofs

For every set of names, every set of sources and all options that satisfy
`ConstantsAssumption` (names distinct from the two markers, sources are
sequences of lines, byte order 0 or 1, mode 0..3, slack positive):

* `TypeCorrect`: `Spec => []TypeOK`. One lemma `OrderType` for what every order
  shares, one case per order.
* `DefinitionsAreFinal`: `Spec => LabelsBindOnce`. From `LBL_AddBinds` and
  `XdefEntryType` (no `LBL_Add` takes back or changes a definition) and the three
  things a line may do to the table (`LineLabels`).
* `PassesAgreeAlways`: `Spec => []PassesAgree`. `PassesAgree` is not inductive:
  it says nothing in pass 1, when everything it needs is laid down. The invariant
  `AgreementInvariant` says what pass 1 leaves behind: its records are a run of
  one function `Moved` from the initial layout (`Trace`), the lines were met in
  order (`Front`, `ReachedInOrder`), the label of each line met is defined
  (`LabelsBound`), a backward argument still has the value recorded for it
  (`ArgumentsKept`, which needs `DefinitionsAreFinal`'s step lemma), options that
  no line changes are still the initial ones (`OptionsKept`); and in pass 2 that
  an option set before the line is the recorded one (`InStep`). `MovedAlike` then
  says that the two different pieces of code for `dc` move alike when nothing
  they look at differs. TLC checks the invariant in run `two_pass`.
* `BoundsAlways`, and from it `ImageFits`: `Spec => []WritesInBounds`.
  `BoundsInvariant` says that along a well-formed source `g_adr` never falls below
  where the line started (`AddressesGrow`: one lemma per order, with what each
  writes below the address it ends at, but for the NUL of a `stri`, which the slack
  holds), and that the block has what pass 1 counted (`SizeKept`). Pass 2 ends where
  pass 1 did, by `AgreementInvariant`, so every write lies between.
* `ImageAlways`, and from it `FileHasNoStrayBytes`: `Spec => []GapsAreZero`.
  `ImageInvariant` says that no line after an `end` was met (`EndStops`), that in
  the image so far a byte outside the data of the lines done is 0 and that the text
  of a `stri` is what it was, not overwritten by a NUL (`ImageSoFar`), and that the
  file is the image.
* `DataAlways`, and from it `FileHoldsTheData`: `Spec => []SilentImageExact`.
  `DataInvariant` follows the byte order (`OrderInForce`) and says that each datum
  written is at its place as the bytes of its value, or has been reported
  (`DataPlaced`). `ReadBack` is the arithmetic: what `Stored` reads back from what
  `POKE*` put is the value, signed or unsigned, if it fits the size. `Shr` and
  `Stored` are recursive functions; that they exist is proved with a witness.
* `LabelsAlways`, and from it `LabelsAreAddresses` (`LabelIsAddress`) and
  `HeaderIsComplete` (`HeaderListsExports`). `LabelInvariant` is the history of each
  name exported at most once: its entry is defined, and exported, exactly if a line
  met so far does so, with the address of the first line that defines it.

For every set of files and every limit (`FilnMifProofs`):

* `StacksInBounds`: `Spec => []StackTypes`: `mifCur` and `mifMacCur` stay in their
  arrays, entries in their ranges.
* `DisciplineKept`: `Spec => []StackDiscipline`. Together they are inductive, with
  nothing assumed of macros: entries that a macro's end leaves above `mifCur`, or
  raises `mifCur` over, are 0 or 1, because `#endif` clears what it pops and a
  macro is entered, left or searched only while the innermost entry stops nothing.
  `NewBranch` is the lemma for steps that change that entry, `NewTop` for steps
  that move `mifCur`; one lemma per directive follows from them.
* `FilnTypes`: `Spec => []TypeOK`, and `MarksStayInOrder`: `Spec => []MarksInOrder`.
  Types need the order of the marks: that `MM_Macc` may cut `M_mbuf` back to its
  mark is only known when the marks of the calls around it lie below, and that what
  follows an `#if` can be put into its place only when that place lies between.
* `OverrunsAreDeep`: `Spec => []OnlyDepthOverruns`. `CountInvariant` adds that no call
  is left when lines are taken. Entering a macro counts one up with one more call
  that has a name, leaving it takes two for one: the count may fall behind the
  calls, but never run ahead. It is the second part of `CrashCauses`.
* `CrashesHaveCauses`: `Spec => []CrashCauses`, if the names are finitely many and
  fewer than the calls the C stack holds. `Halves` is any set of integers. The hard
  case is the stack.
  `DescentInvariant` says that each nested call of `MM_Macc` is about a name below
  that of the call around it (`Below`, along `Uses`), and so is everything the call
  still has to scan and has produced, conditions included, which it scans again; and
  that a name is defined by a line of a file only, when no text is being scanned, so
  that `Uses` stays what it was. More calls than names then repeat a name (the pigeonhole), and
  a name below itself is a circle (`CircleIsCyclic`).

For every set of files whose macro bodies are closed (`NestingProofs`):

* `MacrosNestAlways`: `Spec => []MacrosNest`, and `EveryMacroIsLeft`: `Spec =>
  []MacrosAreLeft`. What an expansion produces is complete in no variable until the
  last call of `MM_Macc` returns, so no invariant can speak of the whole text as one
  sequence. `NestInvariant` says instead that each part of
  it (the output so far, the rest of each call's text, the lines `Filn_GetsMif` has
  not taken) leads from one `Places` to another: how many `#if`s are open, and how
  many were where each macro around it starts. A name's text is neutral, it leads
  from every place back to it (`TextsNeutral`), so replacing a name moves nothing;
  an `#if` whose argument has come leads where it led without one, and neutral lines
  behind it change nothing (`AnswerLeads`).
* `FilnIsConditional`: `Spec => Implements`. `NestInvariant` makes the abstract
  state readable from the stacks (`Readable`); one lemma per directive then shows
  that a step is one of `Conditional` or a stutter (`StepRefines`).

For every file of conditionals, `#define`, `#undef` and text (`KeptProofs`):

* `KeptLinesAreDocumented`: `Spec => []KeptAsDocumented`. The property compares the
  end of the run with `Kept`, a function on the whole file: a line is kept if each
  `#if` around it is, at its place, in the first branch whose condition holds, and a
  name is defined if the last kept `#define` or `#undef` of it was a `#define`. That
  says nothing of the places between. `KeptInvariant` does: where the reader is after
  `d` lines (between two, with one in hand, or scanning one), the macro tree has the
  names defined for `Kept` (`NamesAt`), the entries of `mifStk` and the count
  `mifChkSnc` are the `#if`s open there from the outside in, each entry chosen, waiting
  or over as `Kept` says (`IfsAt`), and `out` has the kept lines of the first `d`
  (`LinesAt`). `Kept` is a recursive function on line numbers; that it exists is
  proved by the least line without one (`KeptExists`), as a line needs only what
  comes before it (`KeptBefore`). `IfsOpened`, `IfsDivided` and `IfsClosed` are the
  lemmas for `#if`, for `#elif` and `#else`, and for `#endif`; `KeptByStack` says
  that a line is kept exactly if the innermost entry stops nothing and nothing is
  skipped.

For every finite set of elements and every sequence of calls (`AvlTreeProofs`; the
elements are positive numbers, `KeysAssumption`, and what is loaded first is a
sequence of them, `LoadsAssumption`):

* `TypeCorrect`: `Spec => []TypeOK`; `OrderedAlways`: `Spec => []Ordered`;
  `BalancedAlways`: `Spec => []Balanced`; `Refinement`: `Spec => ImplementsSet`;
  `ClearAlwaysFrees`: `Spec => ClearFreesAll`. All five follow from one invariant,
  `IInv` (`Invariance`). `Ordered` is not inductive: it looks at the tree through a
  recursive function, which a step changes everywhere at once, says nothing of the
  heights a rotation relies on, and nothing of where the running call is. `Balanced`
  says nothing at all in the midst of a call.
  * The links are a tree when each node has an interval that ends at nodes above it
    and every place points to the node that fills its interval, or no node lies in it
    (`Shape`). This speaks of one place at a time, so a step needs to look at
    the two or three nodes it relinks: `SingleRelinked`, `DoubleRelinked` (two single
    rotations), `AttachRelinked`, `SpliceRelinked` and `SwapRelinked` say that it
    leaves a tree, and all that is not below the place as it was (`Relinked`).
  * The flags are right when there are heights they tell (`Even`), except at one
    place, where the subtree is `Delta` higher than the node above was told:
    1 while an insertion returns that it has grown, -1 while a deletion returns that
    it has shrunk. `InsRebalanced` and `DelRebalanced` are the cases of the two
    rebalancing functions: the exception moves one level up, or ends. The case of
    `insRebalance` in which nothing turns, with both flags set but the inner one 0,
    is never met: a subtree that has grown leans to one side, or is a leaf.
  * The calls that have not returned are a chain of places, each below the one
    before (`Chain`), which a change below the last one leaves as it is
    (`ChainKept`); the element looked for lies between the ends of the last place.
  * `DoElement` has handed over what is not above the low end of its place, or,
    after it has returned, what is below the high end. `TREE_Clear` frees the tree it
    found: what is left is on the stack or to the right of it (`Remaining`).

  `SubtreesAre` and `HeightsAre` then say what the recursive functions of `Ordered`
  and `Balanced` are: that they exist is shown with a witness, that they are the
  nodes of the interval and the heights the flags tell by the node of least interval
  for which they are not. For the refinement `SearchEnds` says that where a search
  ends, the element is or would be: so `flag` is right about a new element.

For every set of strings and every size of the table (`SortedTableProofs`):

* `TableTypes`: `TblSpec => []TblTypeOK`: the unsigned indices never pass the ends.
* `TableSorted`: `TblSpec => []Sorted`, and `SearchMissesNothing`: `TblSpec =>
  []NotMissed`, from one invariant `TblInv`: `low <= hi <= tblcnt`, what is below
  `low` is less than the key and what is from `hi` on is greater, and `mid` of
  `STBL_Add` is where the loop will end. `Sorted` is not inductive without the
  last: `Place` shifts from `mid`, not from `low`. `MiddleInside` is the arithmetic.
* `TableIsASet`: `TblSpec => TableImplementsSet`. `Probe` is a stutter or the answer
  to a key that is there (`TblInv` says so), `Place` adds a key that is not
  (`PlaceAdds`), `Absent` answers for one that is not.

TLC has checked each of these invariants on the instances of section 3 before it
was proved, the tree's with the intervals and heights computed; but for
`NestInvariant`, which quantifies over infinitely many places: of that, TLC checks
what follows from it.

Only model-checked, and why. Both evaluators, the argument loops, the encodings and
the reader are recursive operators on texts, which the prover cannot take, and what
they compute for every text would need induction over it. `ExpansionIsText` compares
with a text defined by recursion over the depth of names, joined from sequences of
sequences. Liveness (`EveryInputEnds`, `CallsReturn`) needs fairness.

## 6. Plan

In this order; each module with its run, its mutants and its map:

Done: the two passes with label table and layout; conditionals, macro table and
expansion, include stack; the containers; both expression evaluators; the lexer's
loops; files, encodings and logical lines.

1. `#rept`, `#ipr` and macro arguments in `FilnMif`.
2. `GetName`, with multibyte names and names at the limit (`strexpr.c:107`).
3. Proofs: `ExpansionIsText`, for which the text of a name must be written as a
   recursive function on depths, and `MM_Macc`'s calls tied to it as the calls of
   `delExtractMax` are tied to the tree.

## 7. Not modelled

Help text and option parsing, the allocation and file wrappers, the string lists
(appended to and walked, nothing more), the multibyte library's tables and what
of it dcasm never calls, build files, sample sources, Windows shims: no state of
the assembler's own, or pure I/O. `GetName`, `GenStri`'s characters above a byte,
character constants in quotes `'` and octal numbers of the preprocessor are not
modelled yet. Redefining a name while its text is
being scanned frees that text under the scanner; freed memory is not modelled,
and the properties on expansion are for macro bodies that define no names
(`NamesFixed`). Liveness of the passes: they are loops over finite lists, so
termination holds by the shape of that model and is not stated.
