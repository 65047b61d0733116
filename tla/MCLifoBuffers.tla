--------------------------- MODULE MCLifoBuffers ---------------------------
(* An instance of LifoBuffers for TLC: elements of F are one byte and one  *)
(* byte, elements of B are one byte and two.                               *)
EXTENDS LifoBuffers

MCS1 == [b \in {"F", "B"} |-> 1]
MCS2 == [b \in {"F", "B"} |-> IF b = "F" THEN 1 ELSE 2]

=============================================================================
