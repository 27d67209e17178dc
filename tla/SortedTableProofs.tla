------------------------- MODULE SortedTableProofs -------------------------
(***************************************************************************)
(* Proofs about SortedTable: for every set of strings and every size of    *)
(* the array, the table stays in order, the binary search misses nothing,  *)
(* and the table is the set of OrderedSet.                                 *)
(***************************************************************************)
EXTENDS SortedTable, TLAPS

\* Where the loop of STBL_Add stops is the gap of the new string.
GapFound ==
  call # "none" =>
    /\ key \in Strings
    /\ low <= hi
    /\ call = "add" => tblcnt < TableSize /\ (low = hi => mid = low)

TblInv == TblTypeOK /\ Sorted /\ NotMissed /\ GapFound

LEMMA TblInitInv == TblInit => TblInv
<1> SUFFICES ASSUME TblInit PROVE TblInv
  OBVIOUS
<1>1. TblTypeOK
  <2>1. 0 \in 0 .. TableSize
    BY TableSizeAssumption
  <2>2. t \in [0 .. TableSize - 1 -> Int]
    BY DEF TblInit
  <2>3. tblcnt \in 0 .. TableSize /\ key \in Int /\ low \in Nat /\ mid \in Nat /\ hi \in Nat
    BY <2>1 DEF TblInit
  <2>4. call \in {"none", "add", "search"}
    BY DEF TblInit
  <2>5. tblAnswer \in {"none", "new", "old", "found", "absent"}
    BY DEF TblInit
  <2> QED BY <2>2, <2>3, <2>4, <2>5 DEF TblTypeOK
<1>2. Sorted
  <2>1. tblcnt = 0
    BY DEF TblInit
  <2> QED BY <2>1 DEF Sorted
<1>3. NotMissed /\ GapFound
  BY DEF TblInit, NotMissed, GapFound
<1> QED BY <1>1, <1>2, <1>3 DEF TblInv

\* The entry looked at is inside what is left to search.
LEMMA MiddleInside ==
  ASSUME TblInv, call # "none", low < hi
  PROVE  Middle \in Nat /\ low <= Middle /\ Middle < hi /\ Middle < tblcnt /\ t[Middle] \in Int
<1>1. low \in Nat /\ hi \in Nat /\ tblcnt \in 0 .. TableSize /\ hi <= tblcnt
  BY DEF TblInv, TblTypeOK, NotMissed
<1>2. Middle \in Nat /\ low <= Middle /\ Middle < hi
  BY <1>1 DEF Middle
<1>3. t \in [0 .. TableSize - 1 -> Int]
  BY DEF TblInv, TblTypeOK
<1>4. Middle \in 0 .. TableSize - 1
  BY <1>1, <1>2, TableSizeAssumption
<1> QED BY <1>1, <1>2, <1>3, <1>4

LEMMA ProbeInv == TblInv /\ Probe => TblInv'
<1> SUFFICES ASSUME TblInv, Probe PROVE TblInv'
  OBVIOUS
<1>1. call # "none" /\ low < hi /\ UNCHANGED <<t, tblcnt, key>>
  BY DEF Probe
<1>2. /\ Middle \in Nat /\ low <= Middle /\ Middle < hi /\ Middle < tblcnt
      /\ t[Middle] \in Int
  BY <1>1, MiddleInside
<1>3. TblTypeOK /\ Sorted /\ NotMissed /\ GapFound
  BY DEF TblInv
<1>4. Sorted'
  BY <1>1, <1>3 DEF Sorted
<1>5. \A i, j \in 0 .. tblcnt - 1 : i < j => t[i] < t[j]
  BY <1>3 DEF Sorted
<1>6. /\ t \in [0 .. TableSize - 1 -> Int] /\ tblcnt \in 0 .. TableSize
      /\ key \in Int /\ low \in Nat /\ mid \in Nat /\ hi \in Nat
      /\ call \in {"none", "add", "search"}
      /\ tblAnswer \in {"none", "new", "old", "found", "absent"}
  BY <1>3 DEF TblTypeOK
<1>7. /\ hi <= tblcnt
      /\ \A i \in 0 .. tblcnt - 1 : (i < low => t[i] < key) /\ (i >= hi => key < t[i])
  BY <1>1, <1>3 DEF NotMissed
<1>8. Middle \in 0 .. tblcnt - 1
  BY <1>2, <1>6
<1>t. \A i \in 0 .. tblcnt - 1 : t[i] \in Int
  BY <1>6, TableSizeAssumption
<1>9. CASE key < t[Middle] /\ hi' = Middle /\ mid' = Middle /\ UNCHANGED <<low, call, tblAnswer>>
  <2>1. TblTypeOK'
    BY <1>1, <1>2, <1>6, <1>9 DEF TblTypeOK
  <2>2. \A i \in 0 .. tblcnt - 1 : i >= Middle => key < t[i]
    BY <1>2, <1>5, <1>6, <1>8, <1>9, <1>t
  <2>3. NotMissed'
    BY <1>1, <1>2, <1>6, <1>7, <1>9, <2>2 DEF NotMissed
  <2>4. GapFound'
    BY <1>1, <1>2, <1>3, <1>9 DEF GapFound
  <2> QED BY <1>4, <2>1, <2>3, <2>4 DEF TblInv
<1>10. CASE key > t[Middle] /\ low' = Middle + 1 /\ mid' = Middle + 1 /\ UNCHANGED <<hi, call, tblAnswer>>
  <2>1. TblTypeOK'
    BY <1>1, <1>2, <1>6, <1>10 DEF TblTypeOK
  <2>2. \A i \in 0 .. tblcnt - 1 : i < Middle + 1 => t[i] < key
    BY <1>2, <1>5, <1>6, <1>8, <1>10, <1>t
  <2>3. NotMissed'
    BY <1>1, <1>6, <1>7, <1>10, <2>2 DEF NotMissed
  <2>4. GapFound'
    BY <1>1, <1>2, <1>3, <1>6, <1>10 DEF GapFound
  <2> QED BY <1>4, <2>1, <2>3, <2>4 DEF TblInv
<1>11. CASE key = t[Middle] /\ mid' = Middle /\ Return(Hit) /\ UNCHANGED <<low, hi>>
  <2>1. TblTypeOK'
    BY <1>1, <1>2, <1>6, <1>11 DEF TblTypeOK, Return, Hit
  <2>2. NotMissed' /\ GapFound'
    BY <1>11 DEF NotMissed, GapFound, Return
  <2> QED BY <1>4, <2>1, <2>2 DEF TblInv
<1> QED BY <1>9, <1>10, <1>11 DEF Probe

LEMMA PlaceInv == TblInv /\ Place => TblInv'
<1> SUFFICES ASSUME TblInv, Place PROVE TblInv'
  OBVIOUS
<1>1. /\ call = "add" /\ low >= hi /\ tblcnt' = tblcnt + 1 /\ call' = "none" /\ tblAnswer' = "new"
      /\ t' = [i \in 0 .. TableSize - 1 |->
                 IF i = mid THEN key ELSE IF mid < i /\ i <= tblcnt THEN t[i - 1] ELSE t[i]]
      /\ UNCHANGED <<key, low, mid, hi>>
  BY DEF Place, Return
<1>2. /\ t \in [0 .. TableSize - 1 -> Int] /\ tblcnt \in 0 .. TableSize
      /\ key \in Int /\ low \in Nat /\ mid \in Nat /\ hi \in Nat
  BY DEF TblInv, TblTypeOK
<1>3. mid = low /\ low = hi /\ tblcnt < TableSize
  BY <1>1, <1>2 DEF TblInv, GapFound
<1>4. /\ hi <= tblcnt
      /\ \A i \in 0 .. tblcnt - 1 : (i < mid => t[i] < key) /\ (i >= mid => key < t[i])
  BY <1>1, <1>3 DEF TblInv, NotMissed
<1>5. \A i, j \in 0 .. tblcnt - 1 : i < j => t[i] < t[j]
  BY DEF TblInv, Sorted
<1>6. \A i \in 0 .. tblcnt :
        t'[i] = IF i = mid THEN key ELSE IF mid < i THEN t[i - 1] ELSE t[i]
  BY <1>1, <1>2, <1>3, TableSizeAssumption
<1>7. \A i \in 0 .. tblcnt - 1 : t[i] \in Int
  BY <1>2, TableSizeAssumption
<1>8. ASSUME NEW i \in 0 .. tblcnt, NEW j \in 0 .. tblcnt, i < j PROVE t'[i] < t'[j]
  <2>1. CASE j < mid
    <3>1. t'[i] = t[i] /\ t'[j] = t[j] /\ i \in 0 .. tblcnt - 1 /\ j \in 0 .. tblcnt - 1
      BY <1>2, <1>3, <1>4, <1>6, <1>8, <2>1
    <3> QED BY <1>5, <1>8, <3>1
  <2>2. CASE j = mid
    BY <1>2, <1>4, <1>6, <1>8, <2>2
  <2>3. CASE j > mid
    <3>1. t'[j] = t[j - 1] /\ j - 1 \in 0 .. tblcnt - 1
      BY <1>2, <1>6, <2>3
    <3>2. CASE i < mid
      <4>1. t'[i] = t[i] /\ i \in 0 .. tblcnt - 1 /\ i < j - 1
        BY <1>2, <1>6, <1>8, <2>3, <3>2
      <4> QED BY <1>5, <3>1, <4>1
    <3>3. CASE i = mid
      BY <1>2, <1>4, <1>6, <2>3, <3>1, <3>3
    <3>4. CASE i > mid
      <4>1. t'[i] = t[i - 1] /\ i - 1 \in 0 .. tblcnt - 1 /\ i - 1 < j - 1
        BY <1>2, <1>6, <1>8, <3>4
      <4> QED BY <1>5, <3>1, <4>1
    <3> QED BY <1>2, <3>2, <3>3, <3>4
  <2> QED BY <1>2, <2>1, <2>2, <2>3
<1>9. Sorted'
  <2>1. tblcnt' - 1 = tblcnt
    BY <1>1, <1>2
  <2> QED BY <1>8, <2>1 DEF Sorted
<1>10. t' \in [0 .. TableSize - 1 -> Int]
  <2>1. \A i \in 0 .. TableSize - 1 : mid < i => i - 1 \in 0 .. TableSize - 1
    BY <1>2, TableSizeAssumption
  <2> QED BY <1>1, <1>2, <2>1, TableSizeAssumption
<1>11. TblTypeOK'
  BY <1>1, <1>2, <1>3, <1>10, TableSizeAssumption DEF TblTypeOK
<1>12. NotMissed' /\ GapFound'
  BY <1>1 DEF NotMissed, GapFound
<1> QED BY <1>9, <1>11, <1>12 DEF TblInv

LEMMA OtherInv ==
  TblInv /\ (Absent \/ (\E s \in Strings : STBL_Add(s) \/ STBL_Search(s)) \/ UNCHANGED tblVars) => TblInv'
<1> USE StringsAssumption, TableSizeAssumption DEF TblInv, TblTypeOK, NotMissed, GapFound
<1>1. ASSUME TblInv, UNCHANGED <<t, tblcnt>> PROVE Sorted'
  BY <1>1 DEF Sorted
<1>2. ASSUME TblInv, Absent PROVE TblInv'
  BY <1>1, <1>2 DEF Absent, Return
<1>3. ASSUME TblInv, NEW s \in Strings, STBL_Add(s) PROVE TblInv'
  BY <1>1, <1>3 DEF STBL_Add
<1>4. ASSUME TblInv, NEW s \in Strings, STBL_Search(s) PROVE TblInv'
  BY <1>1, <1>4 DEF STBL_Search
<1>5. ASSUME TblInv, UNCHANGED tblVars PROVE TblInv'
  BY <1>1, <1>5 DEF tblVars
<1> QED BY <1>2, <1>3, <1>4, <1>5

LEMMA TblInvHolds == TblSpec => []TblInv
<1>1. TblInv /\ [TblNext]_tblVars => TblInv'
  BY ProbeInv, PlaceInv, OtherInv DEF TblNext
<1> QED BY <1>1, TblInitInv, PTL DEF TblSpec

\* STBL_Add and STBL_Search never leave the array: tblcnt ends at its size, and
\* low, mid and hi stay what unsigned indices can be.
THEOREM TableTypes == TblSpec => []TblTypeOK
<1>1. TblInv => TblTypeOK
  BY DEF TblInv
<1> QED BY <1>1, TblInvHolds, PTL

\* The strings of the table are in order and all different after any calls.
THEOREM TableSorted == TblSpec => []Sorted
<1>1. TblInv => Sorted
  BY DEF TblInv
<1> QED BY <1>1, TblInvHolds, PTL

\* What the binary search gave up never held the key.
THEOREM SearchMissesNothing == TblSpec => []NotMissed
<1>1. TblInv => NotMissed
  BY DEF TblInv
<1> QED BY <1>1, TblInvHolds, PTL

----------------------------------------------------------------------------
Stored == {t[i] : i \in 0 .. tblcnt - 1}

\* The set gains the key in the step that places it, and only then.
LEMMA PlaceAdds == TblInv /\ Place => Stored' = Stored \cup {key} /\ key \notin Stored
<1> SUFFICES ASSUME TblInv, Place PROVE Stored' = Stored \cup {key} /\ key \notin Stored
  OBVIOUS
<1>1. /\ tblcnt' = tblcnt + 1 /\ call = "add" /\ low >= hi
      /\ t' = [i \in 0 .. TableSize - 1 |->
                 IF i = mid THEN key ELSE IF mid < i /\ i <= tblcnt THEN t[i - 1] ELSE t[i]]
  BY DEF Place
<1>2. tblcnt \in 0 .. TableSize /\ mid \in Nat /\ low \in Nat /\ hi \in Nat /\ key \in Int
  BY DEF TblInv, TblTypeOK
<1>3. mid = low /\ low = hi /\ tblcnt < TableSize
  BY <1>1, <1>2 DEF TblInv, GapFound
<1>4. /\ hi <= tblcnt
      /\ \A i \in 0 .. tblcnt - 1 : (i < mid => t[i] < key) /\ (i >= mid => key < t[i])
  BY <1>1, <1>3 DEF TblInv, NotMissed
<1>5. \A i \in 0 .. tblcnt - 1 : t[i] \in Int
  BY <1>2, TableSizeAssumption DEF TblInv, TblTypeOK
<1>6. key \notin Stored
  BY <1>2, <1>4, <1>5 DEF Stored
<1>7. \A i \in 0 .. tblcnt :
        t'[i] = IF i = mid THEN key ELSE IF mid < i THEN t[i - 1] ELSE t[i]
  BY <1>1, <1>2, <1>3, TableSizeAssumption
<1>8. ASSUME NEW i \in 0 .. tblcnt PROVE t'[i] \in Stored \cup {key}
  <2>1. CASE i = mid
    BY <1>7, <2>1
  <2>2. CASE i < mid
    <3>1. t'[i] = t[i] /\ i \in 0 .. tblcnt - 1
      BY <1>2, <1>3, <1>4, <1>7, <2>2
    <3> QED BY <3>1 DEF Stored
  <2>3. CASE i > mid
    <3>1. t'[i] = t[i - 1] /\ i - 1 \in 0 .. tblcnt - 1
      BY <1>2, <1>7, <2>3
    <3> QED BY <3>1 DEF Stored
  <2> QED BY <1>2, <2>1, <2>2, <2>3
<1>9. ASSUME NEW i \in 0 .. tblcnt - 1 PROVE \E j \in 0 .. tblcnt : t[i] = t'[j]
  <2>1. CASE i < mid
    <3>1. i \in 0 .. tblcnt /\ t'[i] = t[i]
      BY <1>2, <1>7, <2>1
    <3> QED BY <3>1
  <2>2. CASE i >= mid
    <3>1. i + 1 \in 0 .. tblcnt /\ t'[i + 1] = t[i]
      BY <1>2, <1>7, <2>2
    <3> QED BY <3>1
  <2> QED BY <1>2, <2>1, <2>2
<1>10. mid \in 0 .. tblcnt /\ t'[mid] = key
  BY <1>2, <1>3, <1>4, <1>7
<1>11. Stored' = {t'[i] : i \in 0 .. tblcnt}
  BY <1>1, <1>2 DEF Stored
<1>12. Stored' \subseteq Stored \cup {key}
  BY <1>8, <1>11
<1>13. Stored \cup {key} \subseteq Stored'
  BY <1>9, <1>10, <1>11 DEF Stored
<1> QED BY <1>6, <1>12, <1>13

\* STBL_Add and STBL_Search are the insertion and the search of the set.
THEOREM TableIsASet == TblSpec => TableImplementsSet
<1>1. TblInit => TblSet!Init
  <2> SUFFICES ASSUME TblInit PROVE TblSet!Init
    OBVIOUS
  <2>1. {t[i] : i \in 0 .. tblcnt - 1} = {}
    BY DEF TblInit
  <2> QED BY <2>1 DEF TblInit, TblSet!Init
<1>2. TblInv /\ TblInv' /\ [TblNext]_tblVars => [TblSet!Next]_<<Stored, tblAnswer>>
  <2> SUFFICES ASSUME TblInv, TblInv', [TblNext]_tblVars PROVE [TblSet!Next]_<<Stored, tblAnswer>>
    OBVIOUS
  <2>1. CASE Place
    <3>1. Stored' = Stored \cup {key} /\ key \notin Stored
      BY <2>1, PlaceAdds
    <3>2. tblAnswer' = "new" /\ key \in Strings
      BY <2>1 DEF Place, Return, TblInv, GapFound
    <3>3. PICK s \in Strings : s = key
      BY <3>2
    <3>4. TblSet!Insert(s)
      BY <3>1, <3>2, <3>3 DEF TblSet!Insert, Stored
    <3> QED BY <3>4 DEF TblSet!Next
  <2>2. CASE Absent
    <3>1. key \notin Stored
      <4>1. \A i \in 0 .. tblcnt - 1 : (i < low => t[i] < key) /\ (i >= hi => key < t[i])
        BY <2>2 DEF TblInv, NotMissed, Absent
      <4>2. low \in Nat /\ hi \in Nat /\ low >= hi /\ tblcnt \in 0 .. TableSize /\ key \in Int
        BY <2>2 DEF TblInv, TblTypeOK, Absent
      <4>3. \A i \in 0 .. tblcnt - 1 : t[i] \in Int
        BY <4>2, TableSizeAssumption DEF TblInv, TblTypeOK
      <4> QED BY <4>1, <4>2, <4>3 DEF Stored
    <3>2. tblAnswer' = "absent" /\ key \in Strings /\ Stored' = Stored
      BY <2>2 DEF Absent, Return, TblInv, GapFound, Stored
    <3>3. PICK s \in Strings : s = key
      BY <3>2
    <3>4. TblSet!Search(s)
      BY <3>1, <3>2, <3>3 DEF TblSet!Search, Stored
    <3> QED BY <3>4 DEF TblSet!Next
  <2>3. CASE Probe
    <3>1. UNCHANGED <<t, tblcnt>> /\ Stored' = Stored
      BY <2>3 DEF Probe, Stored
    <3>2. CASE UNCHANGED tblAnswer
      BY <3>1, <3>2
    <3>3. CASE key = t[Middle] /\ Return(Hit)
      <4>1. call # "none" /\ low < hi
        BY <2>3 DEF Probe
      <4>2. Middle \in 0 .. tblcnt - 1
        BY <4>1, MiddleInside DEF TblInv, TblTypeOK
      <4>3. key \in Stored /\ key \in Strings
        BY <3>3, <4>1, <4>2 DEF Stored, TblInv, GapFound
      <4>4. PICK s \in Strings : s = key
        BY <4>3
      <4>5. CASE call = "search"
        <5>1. tblAnswer' = "found" /\ s \in Stored
          BY <3>3, <4>3, <4>4, <4>5 DEF Return, Hit
        <5>2. TblSet!Search(s)
          BY <3>1, <5>1 DEF TblSet!Search, Stored
        <5> QED BY <5>2 DEF TblSet!Next
      <4>6. CASE call # "search"
        <5>1. tblAnswer' = "old" /\ s \in Stored /\ Stored' = Stored \cup {s}
          BY <3>1, <3>3, <4>3, <4>4, <4>6 DEF Return, Hit
        <5>2. TblSet!Insert(s)
          BY <5>1 DEF TblSet!Insert, Stored
        <5> QED BY <5>2 DEF TblSet!Next
      <4> QED BY <4>5, <4>6
    <3> QED BY <2>3, <3>2, <3>3 DEF Probe
  <2>4. CASE (\E s \in Strings : STBL_Add(s) \/ STBL_Search(s)) \/ UNCHANGED tblVars
    <3>1. UNCHANGED <<t, tblcnt, tblAnswer>>
      BY <2>4 DEF STBL_Add, STBL_Search, tblVars
    <3>2. Stored' = Stored
      BY <3>1 DEF Stored
    <3> QED BY <3>1, <3>2
  <2> QED BY <2>1, <2>2, <2>3, <2>4 DEF TblNext
<1>3. TblInv /\ TblInv' /\ [TblNext]_tblVars => [TblSet!Next]_<<{t[i] : i \in 0 .. tblcnt - 1}, tblAnswer>>
  BY <1>2 DEF Stored
<1> QED BY <1>1, <1>3, TblInvHolds, PTL DEF TblSpec, TableImplementsSet, TblSet!Spec
============================================================================
