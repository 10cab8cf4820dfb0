--------------------------- MODULE CagraOptimize ---------------------------
(***************************************************************************)
(* The pruning of a ranked k-NN graph into a CAGRA graph, twice: the       *)
(* reference on the host (cagra_optimize_ranked, src/neighbors/graphs.cpp) *)
(* and the kernels (gpu_cagra_optimize_ranked, src/prim/gpu/               *)
(* backend_gpu.cpp).  A graph is a function from rows to sequences of row  *)
(* numbers.  The kernels scatter the reverse edges with atomic cursors, so *)
(* the order in which a row receives them is any order.                    *)
(***************************************************************************)
EXTENDS Bitonic, FiniteSets, FiniteSetsExt

CONSTANTS
  Graphs,            \* ranked graphs to prune, as [0 .. n - 1 -> Seq(Int)]
  FinalDegrees,      \* degrees they may be pruned to
  MaxInitialDegree   \* degrees the device takes (kMaxInitialDegree, 64 in the code)

\* The lists of a graph have one length, and those the device takes fit the
\* sorting network.
OptAssumption ==
  /\ \A graph \in Graphs :
       /\ Cardinality(DOMAIN graph) \in Nat \ {0} /\ Len(graph[0]) \in Nat
       /\ graph \in [0 .. Cardinality(DOMAIN graph) - 1 -> [1 .. Len(graph[0]) -> Int]]
  /\ FinalDegrees \subseteq Int /\ MaxInitialDegree \in 1 .. 256
ASSUME OptAssumption

VARIABLES
  initial, final_degree,   \* the arguments
  on_host,                 \* what the host answers
  stage,                   \* the kernel that runs next
  rank_ptr, forward_ptr,   \* what the first two kernels leave
  arrival,                 \* the order the scatter reaches the sources in
  on_gpu                   \* what the device answers

optVars == <<initial, final_degree, on_host, stage, rank_ptr, forward_ptr, arrival, on_gpu>>

N == Cardinality(DOMAIN initial)
Nodes == 0 .. N - 1
I == Len(initial[0])

valid_call ==
  /\ N > 1 /\ I > 0 /\ final_degree > 0 /\ final_degree <= I
  /\ I < N /\ final_degree < N

\* A row that names a row that is not there, itself, or one row twice.
ranked_rows_valid ==
  \A row \in Nodes :
    /\ \A rank \in 1 .. I :
         initial[row][rank] \in Nodes /\ initial[row][rank] # row
    /\ IsInjective(initial[row])

\* The rank of id in the list of row, I where it is not in it.
rank_of(row, id) ==
  IF \E rank \in 1 .. I : initial[row][rank] = id
  THEN CHOOSE rank \in 0 .. I - 1 : initial[row][rank + 1] = id
  ELSE I

\* Ranks are 0-based here as in the code; lists are 1-based.
detours(row, y_rank) ==
  Cardinality({z_rank \in 0 .. y_rank - 1 :
                 rank_of(initial[row][z_rank + 1], initial[row][y_rank + 1]) < y_rank})

\* A candidate is ranked by its detours, then by where it stood.
Candidate(row, y_rank) ==
  [key |-> <<detours(row, y_rank), y_rank>>, id |-> initial[row][y_rank + 1]]

-----------------------------------------------------------------------------
(***************************************************************************)
(* On the host.                                                            *)
(***************************************************************************)
forward ==
  [row \in Nodes |->
     LET candidates == Ranked({Candidate(row, rank) : rank \in 0 .. I - 1}, Precedes)
     IN [rank \in 1 .. final_degree |-> candidates[rank].id]]

\* Reverse keys: the rank of the edge in its source's pruned row, then the
\* source.
reverse_keys(edges, row) ==
  {[key |-> <<e[2] - 1, e[1]>>] : e \in {e \in Nodes \X (1 .. final_degree) :
                                         edges[e[1]][e[2]] = row}}
Source(key) == key.key[2]

\* The sources that reach a row and that the row does not reach, best first.
accepted(edges, row) ==
  Ranked({key \in reverse_keys(edges, row) : Source(key) \notin ToSet(edges[row])}, Precedes)

\* Forward and reverse edges in turn, forward first, until both are used up.
InTurn(forwards, reverses) ==
  LET taken == Min({Len(forwards), Len(reverses)})
  IN [i \in 1 .. Len(forwards) + Len(reverses) |->
        IF i <= 2 * taken
        THEN IF i % 2 = 1 THEN forwards[(i + 1) \div 2] ELSE reverses[i \div 2]
        ELSE IF Len(forwards) > taken THEN forwards[i - taken]
             ELSE reverses[i - taken]]

merged_row(edges, row) ==
  LET reverses == accepted(edges, row)
      reverse_take == Min({final_degree \div 2, Len(reverses)})
  IN InTurn(SubSeq(edges[row], 1, final_degree - reverse_take),
                [i \in 1 .. reverse_take |-> Source(reverses[i])])

cagra_optimize_ranked ==
  CASE ~valid_call -> [status |-> "invalid_argument"]
    [] valid_call /\ ~ranked_rows_valid -> [status |-> "error"]
    [] valid_call /\ ranked_rows_valid ->
         [status |-> "success",
          graph |-> LET edges == forward
                    IN [row \in Nodes |-> merged_row(edges, row)]]

-----------------------------------------------------------------------------
(***************************************************************************)
(* On the device.                                                          *)
(***************************************************************************)
\* The lanes of a row: a power of two, the least that is not below its length.
Doublings == CHOOSE e \in 0 .. 8 : Power(e) >= I /\ \A d \in 0 .. e - 1 : Power(d) < I
RowLanes == 0 .. Power(Doublings) - 1

\* The largest key, that of the lanes past the row.
LastKey == [key |-> <<N, I>>]

\* The rank kernel leaves each row sorted by id, each with its rank.
SortedById(row) ==
  NetworkSort([lane \in RowLanes |->
                 IF lane < I THEN [key |-> <<initial[row][lane + 1], lane>>] ELSE LastKey],
              Doublings)

\* The first slot of a sorted row whose id is no smaller, by bisection: each
\* turn halves what lies between the bounds, so that I turns are enough.
Narrowed(keys, id, bounds) ==
  LET mid == bounds.lo + ((bounds.hi - bounds.lo) \div 2)
  IN IF bounds.lo >= bounds.hi THEN bounds
     ELSE IF keys[mid].key[1] < id THEN [lo |-> mid + 1, hi |-> bounds.hi]
     ELSE [lo |-> bounds.lo, hi |-> mid]

LowerBound(keys, id) ==
  LET bounds[turn \in 0 .. I] == IF turn = 0 THEN [lo |-> 0, hi |-> I]
                                 ELSE Narrowed(keys, id, bounds[turn - 1])
  IN bounds[I].lo

lookup(row, id) ==
  LET lo == LowerBound(rank_ptr[row], id)
  IN IF lo < I /\ rank_ptr[row][lo].key[1] = id THEN rank_ptr[row][lo].key[2] ELSE I

\* The forward kernel: lane by lane the detours, then the network.
ForwardKey(row, lane) ==
  LET y == initial[row][lane + 1]
  IN [key |-> <<Cardinality({z \in 0 .. lane - 1 : lookup(initial[row][z + 1], y) < lane}), lane>>,
      id |-> y]

ForwardRow(row) ==
  LET sorted == NetworkSort([lane \in RowLanes |-> IF lane < I THEN ForwardKey(row, lane)
                                                   ELSE LastKey], Doublings)
  IN [rank \in 1 .. final_degree |-> sorted[rank - 1].id]

\* The keys a row holds after the scatter, in the order they arrived.
reverse_ptr(edges, row) ==
  Ranked(reverse_keys(edges, row),
    LAMBDA a, b : \/ arrival[Source(a)] < arrival[Source(b)]
                  \/ Source(a) = Source(b) /\ a.key[1] < b.key[1])

\* Mutant: a key that finds the list full takes the last place.
BestPushed(held, key, limit) ==
  LET position == Cardinality({i \in 1 .. Len(held) : Precedes(held[i], key)})
      at == Min({position, limit - 1})
  IN IF limit = 0 THEN held
     ELSE [i \in 1 .. Min({limit, Len(held) + 1}) |->
             IF i <= at THEN held[i] ELSE IF i = at + 1 THEN key ELSE held[i - 1]]
\* One turn of the select kernel: `held` are the best keys so far, in order.
BestWith(held, key, limit) ==
  LET position == Cardinality({i \in 1 .. Len(held) : Precedes(held[i], key)})
  IN IF position >= limit THEN held
     ELSE [i \in 1 .. Min({limit, Len(held) + 1}) |->
             IF i <= position THEN held[i] ELSE IF i = position + 1 THEN key ELSE held[i - 1]]

\* The best keys of a row, after every key it received.
best(edges, row) ==
  LET keys == reverse_ptr(edges, row)
      held[cursor \in 0 .. Len(keys)] ==
        IF cursor = 0 THEN <<>>
        ELSE IF Source(keys[cursor]) \in ToSet(edges[row]) THEN held[cursor - 1]
        ELSE BestWith(held[cursor - 1], keys[cursor], final_degree \div 2)
  IN held[Len(keys)]

select_row(edges, row) ==
  LET reverses == best(edges, row)
  IN InTurn(SubSeq(edges[row], 1, final_degree - Len(reverses)),
            [i \in 1 .. Len(reverses) |-> Source(reverses[i])])

\* The last kernel raises the status for a row that is not a set of others.
selected_row_valid(out, row) ==
  /\ Len(out) = final_degree
  /\ \A rank \in 1 .. final_degree : out[rank] \in Nodes /\ out[rank] # row
  /\ IsInjective(out)

-----------------------------------------------------------------------------
None == [status |-> "none"]

OptInit ==
  /\ initial = [row \in {0} |-> <<>>] /\ final_degree = 0 /\ arrival = <<>>
  /\ rank_ptr = <<>> /\ forward_ptr = <<>>
  /\ stage = "idle" /\ on_host = None /\ on_gpu = None

OptCall ==
  /\ stage = "idle" /\ stage' = "host"
  /\ initial' \in Graphs /\ final_degree' \in FinalDegrees
  /\ UNCHANGED <<on_host, rank_ptr, forward_ptr, arrival, on_gpu>>

\* The same call on the host; its answer waits to be compared.
OnHost ==
  /\ stage = "host" /\ on_host' = cagra_optimize_ranked
  /\ stage' = "rank"
  /\ UNCHANGED <<initial, final_degree, rank_ptr, forward_ptr, arrival, on_gpu>>

Rank ==
  /\ stage = "rank"
  /\ IF valid_call /\ I <= MaxInitialDegree /\ ranked_rows_valid
     THEN rank_ptr' = [row \in Nodes |-> SortedById(row)] /\ stage' = "forward"
          /\ UNCHANGED on_gpu
     ELSE on_gpu' = [status |-> IF ~valid_call THEN "invalid_argument"
                                ELSE IF I > MaxInitialDegree THEN "unsupported" ELSE "error"]
          /\ stage' = "done" /\ UNCHANGED rank_ptr
  /\ UNCHANGED <<initial, final_degree, on_host, forward_ptr, arrival>>

Forward ==
  /\ stage = "forward" /\ stage' = "scatter"
  /\ forward_ptr' = [row \in Nodes |-> ForwardRow(row)]
  /\ UNCHANGED <<initial, final_degree, on_host, rank_ptr, arrival, on_gpu>>

\* Count, scan and scatter: each row gets the keys of its sources, in any
\* order.  The rows are merged one by one, so an order of all the sources
\* stands for every order a row may see.
Scatter ==
  /\ stage = "scatter" /\ stage' = "select"
  /\ arrival' \in {order \in [Nodes -> Nodes] : IsInjective(order)}
  /\ UNCHANGED <<initial, final_degree, on_host, rank_ptr, forward_ptr, on_gpu>>

SelectRows ==
  /\ stage = "select" /\ stage' = "done"
  /\ LET result == [row \in Nodes |-> select_row(forward_ptr, row)]
     IN on_gpu' = IF \A row \in Nodes : selected_row_valid(result[row], row)
                  THEN [status |-> "success", graph |-> result]
                  ELSE [status |-> "error"]
  /\ UNCHANGED <<initial, final_degree, on_host, rank_ptr, forward_ptr, arrival>>

OptNext == OptCall \/ OnHost \/ Rank \/ Forward \/ Scatter \/ SelectRows
OptSpec == OptInit /\ [][OptNext]_optVars

-----------------------------------------------------------------------------
\* The kernels answer what the reference answers, whatever order the atomic
\* cursors hand out the reverse edges in, and a graph that either accepts has
\* final_degree different rows in every row, none of them the row itself.  The
\* device refuses lists that are longer than it sorts
\* (graphs.cpp 911-1073, backend_gpu.cpp 2306-2623).
GpuPrunesAsTheHost ==
  stage = "done" =>
    /\ IF on_gpu.status = "unsupported" THEN I > MaxInitialDegree ELSE on_gpu = on_host
    /\ on_host.status = "success" =>
         \A row \in Nodes : selected_row_valid(on_host.graph[row], row)
=============================================================================
