------------------------------ MODULE MCTotals ------------------------------
(* An instance of Totals for TLC.                                          *)
EXTENDS Totals

CONSTANTS a, b

MCListings == {<<>>, <<a, b>>}

=============================================================================
