------------------------------ MODULE Bitonic ------------------------------
(***************************************************************************)
(* The sorting network of the GPU kernels of src/prim/gpu/backend_gpu.cpp: *)
(* a work group sorts a power-of-two number of local slots, one            *)
(* compare-exchange per lane between two barriers.  The lanes of a stage   *)
(* touch disjoint pairs of slots, so a stage is one step whatever order    *)
(* the lanes run in.                                                       *)
(***************************************************************************)
EXTENDS Integers, Sequences, FiniteSets, SequencesExt

\* A finite set in the order of a total order on it.
Ranked(S, Before(_, _)) ==
  [i \in 1 .. Cardinality(S) |->
     CHOOSE x \in S : Cardinality({y \in S : Before(y, x)}) = i - 1]

\* Slots are compared by two numbers, of which the second decides a tie.
Precedes(a, b) == \/ a.key[1] < b.key[1]
                  \/ a.key[1] = b.key[1] /\ a.key[2] < b.key[2]

\* The slot of the pair of slot i whose bit `stride` is clear.
LeftOf(i, stride) == (i \div (2 * stride)) * (2 * stride) + (i % stride)

\* One stage: a pair is put in ascending order where bit `width` of its left
\* slot is clear, else in descending order.
Exchange(slots, width, stride) ==
  [i \in DOMAIN slots |->
     LET left == LeftOf(i, stride)
         right == left + stride
         swaps == IF (left \div width) % 2 = 0 THEN Precedes(slots[right], slots[left])
                  ELSE Precedes(slots[left], slots[right])
     IN slots[IF swaps THEN left + right - i ELSE i]]

\* Widths and strides are powers of two, up to the 256 slots of the widest group.
Power(e) == <<1, 2, 4, 8, 16, 32, 64, 128, 256>>[e + 1]

\* The stages of one width: stride width / 2, ... 2, 1.
OneWidth(slots, e) ==
  LET after[d \in 0 .. e] ==
        IF d = 0 THEN slots ELSE Exchange(after[d - 1], Power(e), Power(e - d))
  IN after[e]

\* What the network leaves in the slots 0 .. Power(last) - 1: width 2, 4, ...
NetworkSort(slots, last) ==
  LET sorted[e \in 0 .. last] == IF e = 0 THEN slots ELSE OneWidth(sorted[e - 1], e)
  IN sorted[last]
=============================================================================
