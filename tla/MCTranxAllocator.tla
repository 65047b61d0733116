-------------------------- MODULE MCTranxAllocator --------------------------
(* Instance of TranxAllocator for TLC.                                     *)
EXTENDS TranxAllocator, TLC

MCSymmetry == Permutations(Blocks)

=============================================================================
