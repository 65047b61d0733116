------------------------------- MODULE Ledger -------------------------------
(***************************************************************************)
(* What the daily archive promises to its readers: a recorded value is     *)
(* copied into a sealed file before it is dropped from the open table, and *)
(* a sealed copy is never taken back.                                      *)
(*                                                                         *)
(* Archiver.tla is shown to implement this specification.                  *)
(***************************************************************************)
CONSTANT Row        \* the values that can be recorded

VARIABLES
  open,             \* values in the table that is still written
  sealed            \* values with a complete line in an archive file

lvars == <<open, sealed>>

LInit ==
  /\ open = {}
  /\ sealed = {}

\* A new value enters the open table.
Record ==
  /\ \E r \in Row : open' = open \cup {r}
  /\ UNCHANGED sealed

\* Values of the open table are copied into archive files.
Seal ==
  /\ \E S \in SUBSET open : sealed' = sealed \cup S
  /\ UNCHANGED open

\* Values that have a sealed copy are dropped from the open table.
Drop ==
  /\ \E S \in SUBSET sealed : open' = open \ S
  /\ UNCHANGED sealed

LNext == Record \/ Seal \/ Drop

LSpec == LInit /\ [][LNext]_lvars

=============================================================================
