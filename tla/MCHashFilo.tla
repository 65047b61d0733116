----------------------------- MODULE MCHashFilo -----------------------------
(* An instance of HashFilo for TLC: the first two entries have one key.    *)
EXTENDS HashFilo

CONSTANTS e1, e2

MCKeyOf(e) == IF e \in {e1, e2} THEN 1 ELSE 2

=============================================================================
