---------------------------- MODULE OrderedSet ----------------------------
(***************************************************************************)
(* What the label table, the directive table and Filn's macro table ask of *)
(* their container (src/src/tree.h): a set of elements under a total order *)
(* whose calls say whether the element was there.                          *)
(***************************************************************************)
CONSTANT Elements
VARIABLES set,    \* the elements stored
          answer  \* what the last call said

Init == set \subseteq Elements /\ answer = "none"

Insert(e) == set' = set \cup {e} /\ answer' = IF e \in set THEN "old" ELSE "new"
Search(e) == set' = set /\ answer' = IF e \in set THEN "found" ELSE "absent"
Delete(e) == set' = set \ {e} /\ answer' = IF e \in set THEN "deleted" ELSE "absent"
Clear     == set' = {} /\ answer' = "none"

Next == Clear \/ \E e \in Elements : Insert(e) \/ Search(e) \/ Delete(e)

Spec == Init /\ [][Next]_<<set, answer>>
===========================================================================
