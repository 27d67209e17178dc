----------------------------- MODULE SourceText -----------------------------
(***************************************************************************)
(* The text's way through dcasm: a file becomes logical lines (TextReader) *)
(* and the text of a line becomes numbers (Expressions).  One behaviour    *)
(* reads one file, or evaluates one text.                                  *)
(***************************************************************************)
EXTENDS Expressions, TextReader

NoFile == [text |-> <<>>, enc |-> "utf8", bom |-> FALSE, crlf |-> FALSE, cut |-> 0, opt |-> "none"]
NoJob  == [kind |-> "none"]

Init ==
  \/ EvalInit /\ file = NoFile /\ pc = "idle" /\ uj = NoBuffer /\ raw = <<>> /\ got = <<>> /\ said = {}
  \/ ReaderInit /\ job = NoJob /\ out = NoAnswer

Next ==
  \/ EvalNext /\ UNCHANGED readerVars
  \/ ReaderNext /\ UNCHANGED evalVars

Spec == Init /\ [][Next]_<<evalVars, readerVars>>
=============================================================================
