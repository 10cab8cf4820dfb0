--------------------------- MODULE MCCagraStorage ---------------------------
(* Instances of CagraStorage for TLC: b fits an int8, c fits an fp16, and f is *)
(* rounded to c.                                                           *)
EXTENDS CagraStorage, TLC

MCVec == {"b", "c", "f"}
MCHalf == [v \in MCVec |-> IF v = "f" THEN "c" ELSE v]
MCBytes == {"b"}

Symmetry == Permutations(Threads)

=============================================================================
