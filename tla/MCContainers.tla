--------------------------- MODULE MCContainers ---------------------------
(***************************************************************************)
(* Instances of the two containers, one run for both: which says which of  *)
(* the two (they share nothing) this behaviour is about.                   *)
(***************************************************************************)
EXTENDS AvlTree, SortedTable

VARIABLE which

MCKeys == 1 .. 12

\* six elements in any order of calls, and the highest tree there is of
\* twelve (each left subtree one higher), the smallest in which one deletion
\* (12's) rotates at two nodes, with calls about four of them
MCLoads == { [seq |-> <<>>, more |-> 1 .. 6],
             [seq |-> <<8, 5, 11, 3, 7, 10, 12, 2, 4, 6, 9, 1>>, more |-> {4, 8, 10, 12}],
             [seq |-> <<>>, more |-> {}] }

MCStrings == 1 .. 6

MCInit ==
  /\ Init /\ TblInit
  /\ which \in {"tree", "table"}
  /\ which = "table" => load = <<>> /\ more = {}

MCNext ==
  \/ which = "tree" /\ Next /\ UNCHANGED <<which, tblVars>>
  \/ which = "table" /\ TblNext /\ UNCHANGED <<which, vars>>

MCSpec ==
  /\ MCInit /\ [][MCNext]_<<which, vars, tblVars>>
  /\ WF_tblVars(which = "table" /\ (Probe \/ Place \/ Absent) /\ UNCHANGED <<which, vars>>)
===========================================================================
