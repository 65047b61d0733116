------------------------------ MODULE MCReader ------------------------------
(* An instance of Reader for TLC.                                          *)
EXTENDS Reader

MCSites == <<"cfd">>

\* Day 1 is the last of its month.
MCDayOfMonth == [d \in 0..MaxDay + 1 |-> IF d <= 1 THEN 30 + d ELSE d - 1]
MCMonth == [d \in 0..MaxDay |-> IF d <= 1 THEN 1 ELSE 2]

=============================================================================
