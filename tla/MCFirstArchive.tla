--------------------------- MODULE MCFirstArchive ---------------------------
(* Instances of FirstArchive for TLC.                                      *)
EXTENDS FirstArchive, TLC

\* The 24th to the 26th, then the 1st and the 2nd.
MCLate == [d \in 0..MaxDay |-> IF d < 3 THEN d + 24 ELSE d - 2]

MCSymmetry == Permutations(Procs)

=============================================================================
