--------------------------- MODULE MCCpuWorkPool ----------------------------
(* Instances of CpuWorkPool for TLC.                                        *)
EXTENDS CpuWorkPool, TLC

Symmetry == Permutations(Callers) \cup Permutations(Workers)

=============================================================================
