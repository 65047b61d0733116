------------------------------ MODULE MCFront ------------------------------
(* Instances of Front for TLC.                                             *)
EXTENDS Front

CONSTANTS a, b

MCListings == {<<>>, <<a, b>>}

=============================================================================
