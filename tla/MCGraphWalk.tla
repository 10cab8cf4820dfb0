---------------------------- MODULE MCGraphWalk ----------------------------
(* Instances of GraphWalk for TLC.                                         *)
EXTENDS GraphWalk, TLC

Symmetry == Permutations(Callers)

=============================================================================
