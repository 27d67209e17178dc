---------------------------- MODULE SortedTable ----------------------------
(***************************************************************************)
(* The sorted table of strings of src/src/subr.c: STBL_Add and STBL_Search *)
(* over an array the caller owns, both by binary search, one step for each *)
(* comparison of the loop.  A string is its rank under STBL_cmp.           *)
(***************************************************************************)
EXTENDS Integers

CONSTANTS Strings,   \* the strings, as integers in the order of STBL_cmp
          TableSize  \* the entries the caller's array has

ASSUME StringsAssumption == Strings \subseteq Int
ASSUME TableSizeAssumption == TableSize \in Nat

VARIABLES t,        \* the array; the entries from tblcnt on are never read
          tblcnt,   \* the entries in use
          key,      \* the argument of the call that runs
          low, mid, \* the locals of the loop
          hi,       \* hi of STBL_Add, nn of STBL_Search
          call,     \* the function that runs, or "none"
          tblAnswer \* the last result: -1 or not, of either function

tblVars == <<t, tblcnt, key, low, mid, hi, call, tblAnswer>>

TblInit ==
  /\ t = [i \in 0 .. TableSize - 1 |-> 0] /\ tblcnt = 0
  /\ key = 0 /\ low = 0 /\ mid = 0 /\ hi = 0
  /\ call = "none" /\ tblAnswer = "none"

\* the caller keeps room for one more string before it adds
STBL_Add(s) ==
  /\ call = "none" /\ tblcnt < TableSize
  /\ call' = "add" /\ key' = s /\ hi' = tblcnt /\ low' = 0 /\ mid' = 0
  /\ UNCHANGED <<t, tblcnt, tblAnswer>>

\* mutant of STBL_Search: the last entry is left out
STBL_SearchShort(s) ==
  /\ call = "none"
  /\ call' = "search" /\ key' = s /\ hi' = (IF tblcnt = 0 THEN 0 ELSE tblcnt - 1) /\ low' = 0
  /\ UNCHANGED <<t, tblcnt, mid, tblAnswer>>

STBL_Search(s) ==
  /\ call = "none"
  /\ call' = "search" /\ key' = s /\ hi' = tblcnt /\ low' = 0
  /\ UNCHANGED <<t, tblcnt, mid, tblAnswer>>

Middle == (low + hi - 1) \div 2

Return(answer) == call' = "none" /\ tblAnswer' = answer

Hit == IF call = "search" THEN "found" ELSE "old"

\* mutant of Probe: hi goes below the entry looked at
ProbeBelow ==
  /\ call # "none" /\ low < hi
  /\ UNCHANGED <<t, tblcnt, key>>
  /\ \/ key < t[Middle] /\ hi' = Middle - 1 /\ mid' = Middle /\ UNCHANGED <<low, call, tblAnswer>>
     \/ key > t[Middle] /\ low' = Middle + 1 /\ mid' = Middle + 1 /\ UNCHANGED <<hi, call, tblAnswer>>
     \/ key = t[Middle] /\ mid' = Middle /\ Return(Hit) /\ UNCHANGED <<low, hi>>

\* mutant of Probe: mid stays at the entry looked at
ProbeNoStep ==
  /\ call # "none" /\ low < hi
  /\ UNCHANGED <<t, tblcnt, key>>
  /\ \/ key < t[Middle] /\ hi' = Middle /\ mid' = Middle /\ UNCHANGED <<low, call, tblAnswer>>
     \/ key > t[Middle] /\ low' = Middle + 1 /\ mid' = Middle /\ UNCHANGED <<hi, call, tblAnswer>>
     \/ key = t[Middle] /\ mid' = Middle /\ Return(Hit) /\ UNCHANGED <<low, hi>>

\* mutant of Probe: low stays at the entry looked at
ProbeStuck ==
  /\ call # "none" /\ low < hi
  /\ UNCHANGED <<t, tblcnt, key>>
  /\ \/ key < t[Middle] /\ hi' = Middle /\ mid' = Middle /\ UNCHANGED <<low, call, tblAnswer>>
     \/ key > t[Middle] /\ low' = Middle /\ mid' = Middle + 1 /\ UNCHANGED <<hi, call, tblAnswer>>
     \/ key = t[Middle] /\ mid' = Middle /\ Return(Hit) /\ UNCHANGED <<low, hi>>

\* one turn of the loop: STBL_Add leaves its mid at the bound it moves
Probe ==
  /\ call # "none" /\ low < hi
  /\ UNCHANGED <<t, tblcnt, key>>
  /\ \/ key < t[Middle] /\ hi' = Middle /\ mid' = Middle /\ UNCHANGED <<low, call, tblAnswer>>
     \/ key > t[Middle] /\ low' = Middle + 1 /\ mid' = Middle + 1 /\ UNCHANGED <<hi, call, tblAnswer>>
     \/ key = t[Middle] /\ mid' = Middle /\ Return(Hit) /\ UNCHANGED <<low, hi>>

\* mutant of Place: the new entry is not counted
PlaceUncounted ==
  /\ call = "add" /\ low >= hi
  /\ UNCHANGED tblcnt
  /\ t' = [i \in 0 .. TableSize - 1 |->
             IF i = mid THEN key ELSE IF mid < i /\ i <= tblcnt THEN t[i - 1] ELSE t[i]]
  /\ Return("new")
  /\ UNCHANGED <<key, low, mid, hi>>

\* the entries from mid on move up by one and the key takes the gap
Place ==
  /\ call = "add" /\ low >= hi
  /\ tblcnt' = tblcnt + 1
  /\ t' = [i \in 0 .. TableSize - 1 |->
             IF i = mid THEN key ELSE IF mid < i /\ i <= tblcnt THEN t[i - 1] ELSE t[i]]
  /\ Return("new")
  /\ UNCHANGED <<key, low, mid, hi>>

Absent == call = "search" /\ low >= hi /\ Return("absent") /\ UNCHANGED <<t, tblcnt, key, low, mid, hi>>

TblNext == Probe \/ Place \/ Absent \/ \E s \in Strings : STBL_Add(s) \/ STBL_Search(s)

TblSpec == TblInit /\ [][TblNext]_tblVars /\ WF_tblVars(Probe \/ Place \/ Absent)

----------------------------------------------------------------------------
TblTypeOK ==
  /\ t \in [0 .. TableSize - 1 -> Int] /\ tblcnt \in 0 .. TableSize
  /\ key \in Int /\ low \in Nat /\ mid \in Nat /\ hi \in Nat
  /\ call \in {"none", "add", "search"} /\ tblAnswer \in {"none", "new", "old", "found", "absent"}

\* The strings in use are in order and all different: the shift of STBL_Add
\* starts where the halving ended, whichever side ended it.
Sorted == \A i, j \in 0 .. tblcnt - 1 : i < j => t[i] < t[j]

\* What is left to search always holds the key if the table does: nothing the
\* halving gave up could have been it.
NotMissed ==
  call # "none" =>
    /\ hi <= tblcnt
    /\ \A i \in 0 .. tblcnt - 1 : (i < low => t[i] < key) /\ (i >= hi => key < t[i])

\* Every call adds its string, finds it or misses it as a set would.
TblSet == INSTANCE OrderedSet WITH
            Elements <- Strings, set <- {t[i] : i \in 0 .. tblcnt - 1}, answer <- tblAnswer
TableImplementsSet == TblSet!Spec

\* The halving ends for every table and every key.
CallsReturn == (call # "none") ~> (call = "none")
============================================================================
