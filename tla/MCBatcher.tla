------------------------------ MODULE MCBatcher ------------------------------
(* Instances of Batcher for TLC.                                            *)
EXTENDS Batcher, TLC

Symmetry == Permutations(Threads)

=============================================================================
