---------------------------- MODULE MCNpuRequests ----------------------------
(* Instances of NpuRequests for TLC.                                        *)
EXTENDS NpuRequests, TLC

CONSTANTS x, q

\* x is a large buffer, q a small one.  One call of each primitive, with and without
\* tiles; a batch whose chunks fill a request of two lanes and leave one over; and
\* one of two buckets; and a batch that is refused, two chunks
\* of which write one output.
MCMenu ==
  { [op |-> "gemm", a |-> q, b |-> x, tiles |-> 2],
    [op |-> "gemm", a |-> x, b |-> q, tiles |-> 0],
    [op |-> "gather", a |-> q, b |-> x, tiles |-> 1],
    [op |-> "topk", a |-> x, b |-> x, tiles |-> 2],
    [op |-> "adc", chunks |-> <<[buf |-> x, bucket |-> 1, at |-> 1],
                                [buf |-> q, bucket |-> 1, at |-> 3],
                                [buf |-> q, bucket |-> 1, at |-> 2]>>],
    [op |-> "adc", chunks |-> <<[buf |-> x, bucket |-> 2, at |-> 2],
                                [buf |-> q, bucket |-> 1, at |-> 1]>>],
    [op |-> "adc", chunks |-> <<[buf |-> x, bucket |-> 1, at |-> 1],
                                [buf |-> q, bucket |-> 1, at |-> 1]>>] }

Symmetry == Permutations(Threads)

=============================================================================
