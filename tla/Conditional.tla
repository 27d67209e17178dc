---------------------------- MODULE Conditional ----------------------------
(***************************************************************************)
(* What conditional assembly promises (src/dcasm.txt, "#if"), with no word  *)
(* of how: conditionals nest, each has one open branch at a time, and a     *)
(* line is kept when every conditional around it is in its chosen branch.   *)
(* At most one branch of each is chosen.  A macro is left with the          *)
(* conditionals it was entered with.  Lines come in any order, with any     *)
(* condition.                                                               *)
(***************************************************************************)
EXTENDS Integers, Sequences

CONSTANT Lines

VARIABLES
  open,      \* the conditionals around the line: "chosen" (in the chosen branch),
             \* "waiting" (no branch chosen yet), "over" (no more of it is chosen)
  marks,     \* how many there were when each macro was entered
  kept       \* the lines kept

vars == <<open, marks, kept>>

Top == Len(open)
Live == \A i \in 1..Top : open[i] = "chosen"
Branch(state) == open' = [open EXCEPT ![Top] = state]

(* A line is kept.  It is dropped without a step.                           *)
Keep ==
  /\ Live
  /\ Len(kept') = Len(kept) + 1 /\ SubSeq(kept', 1, Len(kept)) = kept
  /\ kept'[Len(kept')] \in Lines
  /\ UNCHANGED <<open, marks>>

(* Inside a branch that is not kept nothing is ever chosen.                 *)
If(c) ==
  /\ open' = Append(open, IF ~Live THEN "over" ELSE IF c THEN "chosen" ELSE "waiting")
  /\ UNCHANGED <<marks, kept>>

Elif(c) ==
  /\ Top > 0
  /\ Branch(IF open[Top] = "waiting" THEN (IF c THEN "chosen" ELSE "waiting") ELSE "over")
  /\ UNCHANGED <<marks, kept>>

Endif ==
  /\ Top > 0
  /\ open' = SubSeq(open, 1, Top - 1)
  /\ UNCHANGED <<marks, kept>>

EnterMacro ==
  /\ Live
  /\ marks' = Append(marks, Top)
  /\ UNCHANGED <<open, kept>>

(* At its end, or at an #exitmacro: the conditionals of the macro end.      *)
LeaveMacro ==
  /\ Live /\ marks # <<>>
  /\ open' = SubSeq(open, 1, marks[Len(marks)])
  /\ marks' = SubSeq(marks, 1, Len(marks) - 1)
  /\ UNCHANGED kept

Init == open = <<>> /\ marks = <<>> /\ kept = <<>>

Next ==
  \/ Keep
  \/ \E c \in BOOLEAN : If(c) \/ Elif(c)
  \/ Endif \/ EnterMacro \/ LeaveMacro

Spec == Init /\ [][Next]_vars
=============================================================================
