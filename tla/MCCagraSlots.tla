---------------------------- MODULE MCCagraSlots ----------------------------
(* Instances of CagraSlots for TLC.                                         *)
EXTENDS CagraSlots, TLC

Symmetry == Permutations(Vec)

=============================================================================
