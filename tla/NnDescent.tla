----------------------------- MODULE NnDescent -----------------------------
(***************************************************************************)
(* The ranked k-NN graph a CAGRA build starts from: nndescent_build        *)
(* (src/neighbors/graphs.cpp) and the kernels it prefers                   *)
(* (gpu_nndescent_build, src/prim/gpu/backend_gpu.cpp).  Rows are numbers  *)
(* 0 .. n - 1, a vector is a point of a line, a graph a function from rows *)
(* to sequences of edges [id, new]; the distance an edge carries is that   *)
(* of its ends.  The kernels hand edges over in linked inboxes built with  *)
(* atomic exchanges, so an inbox is read in any order.                     *)
(***************************************************************************)
EXTENDS Bitonic, FiniteSetsExt, Mixer

CONSTANTS
  Builds,                  \* calls: [xs, degree, iters, res, metric_supported,
                           \*         preflight, seeds]
  ExactRows,               \* rows up to which the graph is exact (4096)
  SampleCap,               \* kSampleCap (16)
  ReverseChunk,            \* kReverseSourceChunk (196608)
  ProposalChunk,           \* kProposalVertexChunk (16384)
  Priority(_, _, _, _)     \* mix32 of source, target, class and iteration

\* The callers refuse less than two rows and a degree of 0, and turn fewer turns
\* than 1 into 1 (graphs.cpp 1311, 1326); a row draws its start and its step,
\* which is not 0, whatever route its call takes.
ASSUME NnAssumption ==
  /\ {ExactRows, SampleCap, ReverseChunk, ProposalChunk} \subseteq Nat \ {0}
  /\ \A call \in Builds :
       /\ call.xs \in Seq(Int) /\ Len(call.xs) >= 2
       /\ {call.degree, call.iters} \subseteq Nat \ {0}
       /\ \A i \in 1 .. Len(call.xs) :
            call.seeds[i].start \in Nat /\ call.seeds[i].step \in Nat \ {0}
       /\ \A source, target \in 0 .. Len(call.xs) - 1, class \in {"new", "old"},
            turn \in 0 .. call.iters : Priority(source, target, class, turn) \in Int

VARIABLES
  build,                       \* the call
  phase,                       \* the kernel or loop that runs next
  current_ids, next_ids,       \* the two graphs of the device
  reverse_new, reverse_old,    \* rows -> sources, by priority
  row_at,                      \* first row of the chunk, or the row worked on
  inbox,                       \* rows -> candidates not merged yet
  offered,                     \* rows -> every candidate of this iteration
  iteration, converged

nnVars == <<build, phase, current_ids, next_ids, reverse_new, reverse_old, row_at, inbox,
          offered, iteration, converged>>

n == Len(build.xs)
Rows == 0 .. n - 1
degree == Min({build.degree, n - 1})
sample_count == Min({degree, SampleCap})

distance(a, b) == (build.xs[a + 1] - build.xs[b + 1]) * (build.xs[a + 1] - build.xs[b + 1])
nearer(row, a, b) == \/ distance(row, a) < distance(row, b)
                     \/ distance(row, a) = distance(row, b) /\ a < b

Ids(list) == {list[i].id : i \in DOMAIN list}
Nearest(row, ids) == Ranked(ids, LAMBDA a, b : nearer(row, a, b))
Top(row, ids) == LET ranked == Nearest(row, ids)
                 IN SubSeq(ranked, 1, Min({degree, Len(ranked)}))

-----------------------------------------------------------------------------
NnInit ==
  /\ build = [xs |-> <<>>, degree |-> 0, iters |-> 0] /\ phase = "idle"
  /\ current_ids = <<>> /\ next_ids = <<>> /\ reverse_new = <<>> /\ reverse_old = <<>>
  /\ row_at = 0 /\ inbox = <<>> /\ offered = <<>> /\ iteration = 0 /\ converged = FALSE

\* Few rows are ranked exactly.  Else the host loop runs only where the ladder
\* has no path to the device, and a device that refuses fails the call.
nndescent_build ==
  /\ phase = "idle" /\ build' \in Builds
  /\ LET ladder == prim_nndescent_build(build.res, build.metric_supported)
     IN phase' = CASE n' <= ExactRows -> "exact"
                   [] n' > ExactRows /\ ladder' = <<"gpu">> -> "preflight"
                   [] n' > ExactRows /\ ladder' = <<"cpu">> -> "host_draw"
                   [] OTHER -> "refused"
  /\ UNCHANGED <<current_ids, next_ids, reverse_new, reverse_old, row_at, inbox, offered,
                 iteration, converged>>

Finished(graph) ==
  /\ current_ids' = graph /\ phase' = "returned"

\* The exact graph: every pair is scored, the diagonal with +inf.
knn_graph_brute ==
  /\ phase = "exact"
  /\ Finished([row \in Rows |->
       [i \in 1 .. degree |-> [id |-> Top(row, Rows \ {row})[i], new |-> FALSE]]])
  /\ UNCHANGED <<build, next_ids, reverse_new, reverse_old, row_at, inbox, offered,
                 iteration, converged>>

-----------------------------------------------------------------------------
(***************************************************************************)
(* On the device.                                                          *)
(***************************************************************************)
\* The shape must fit the memory of the device (else OOM or SHAPE_MISMATCH) and
\* every element of the dataset must be finite (else INVALID_ARGUMENT).  So must every
\* distance of the draw (1524) and of the join (1986), where the same status ends the
\* call: a refusal here stands for one there, since no graph is returned by either.
Preflight ==
  /\ phase = "preflight"
  /\ phase' = IF build.preflight = "success" THEN "draw" ELSE "refused"
  /\ UNCHANGED <<build, current_ids, next_ids, reverse_new, reverse_old, row_at, inbox, offered,
                 iteration, converged>>

Coprime(step, modulus) == \A d \in 2 .. modulus : step % d # 0 \/ modulus % d # 0

\* Mutant: the step is taken as it was drawn.
DrawnStep(step, modulus) == step
\* The first step from the drawn one, 1 after modulus, that is coprime to it.
CoprimeStep(step, modulus) ==
  LET nth(j) == ((step - 1 + j) % modulus) + 1
  IN nth(Min({j \in 0 .. modulus : Coprime(nth(j), modulus)}))

\* The edges a row starts with, ranked by an insertion sort.
DrawnRow(row) ==
  LET modulus == n - 1
      seed == build.seeds[row + 1]
      step == CoprimeStep(seed.step, modulus)
      id(edge) == (row + 1 + ((seed.start + edge * step) % modulus)) % n
      ranks == Ranked(0 .. degree - 1,
                 LAMBDA e, f : \/ nearer(row, id(e), id(f))
                               \/ id(e) = id(f) /\ e < f)
  IN [i \in 1 .. degree |-> [id |-> id(ranks[i]), new |-> TRUE]]

Draw ==
  /\ phase = "draw" /\ phase' = "age"
  /\ current_ids' = [row \in Rows |-> DrawnRow(row)]
  /\ UNCHANGED <<build, next_ids, reverse_new, reverse_old, row_at, inbox, offered,
                 iteration, converged>>

\* Mutant: one edge less is sampled.
SampledShort(list, new) ==
  {i \in DOMAIN list :
     /\ list[i].new = new
     /\ Cardinality({j \in 1 .. i - 1 : list[j].new = new}) + 1 < sample_count}
\* The places of the first sample_count edges of a class.
Sampled(list, new) ==
  {i \in DOMAIN list :
     /\ list[i].new = new
     /\ Cardinality({j \in 1 .. i - 1 : list[j].new = new}) < sample_count}

\* The next graph starts as a copy in which the sampled edges are old.
Aged(list) ==
  [i \in DOMAIN list |->
     IF i \in Sampled(list, TRUE) THEN [list[i] EXCEPT !.new = FALSE] ELSE list[i]]

Age ==
  /\ phase = "age" /\ phase' = "reverse_new"
  /\ next_ids' = [row \in Rows |-> Aged(current_ids[row])]
  /\ reverse_new' = [row \in Rows |-> <<>>]
  /\ reverse_old' = [row \in Rows |-> <<>>]
  /\ offered' = [row \in Rows |-> {}]
  /\ row_at' = 0
  /\ UNCHANGED <<build, current_ids, inbox, iteration, converged>>

Chunk(size) == row_at .. Min({row_at + size, n}) - 1

\* A target keeps the sample_count sources of the best priority; ties go to
\* the smaller source.
Ahead(a, b, target, class) ==
  LET p(source) == Priority(source, target, class, iteration)
  IN \/ p(a) < p(b)
     \/ p(a) = p(b) /\ a < b

\* Mutant: a full list turns every later source away.
ConsiderFirst(held, source, target, class) ==
  IF source \in ToSet(held) \/ Len(held) >= sample_count THEN held
  ELSE LET before == Cardinality({i \in DOMAIN held : Ahead(held[i], source, target, class)})
       IN SubSeq(held, 1, before) \o <<source>> \o SubSeq(held, before + 1, Len(held))
Consider(held, source, target, class) ==
  LET before == Cardinality({i \in DOMAIN held : Ahead(held[i], source, target, class)})
      grown == SubSeq(held, 1, before) \o <<source>> \o SubSeq(held, before + 1, Len(held))
  IN IF source \in ToSet(held) \/ before >= sample_count THEN held
     ELSE SubSeq(grown, 1, Min({sample_count, Len(grown)}))

Reaches(source, target, class) ==
  target \in {current_ids[source][i].id : i \in Sampled(current_ids[source], class = "new")}

\* The list of a target after a chunk whose sources arrive in this order: it is
\* built anew from the list it held and from those that reach the target.
reverse_list(held, target, class, order) ==
  LET sources == held \o order
      upto[i \in 0 .. Len(sources)] ==
        IF i = 0 THEN <<>>
        ELSE IF i <= Len(held) \/ Reaches(sources[i], target, class)
             THEN Consider(upto[i - 1], sources[i], target, class)
             ELSE upto[i - 1]
  IN upto[Len(sources)]

Arrivals(S) == {order \in [1 .. Cardinality(S) -> S] : IsInjective(order)}

\* Both classes, a chunk of sources at a time.
build_reverse ==
  /\ phase \in {"reverse_new", "reverse_old"}
  /\ \E order \in Arrivals(Chunk(ReverseChunk)) :
       LET Lists(held, class) ==
             [row \in Rows |-> reverse_list(held[row], row, class, order)]
       IN IF phase = "reverse_new"
          THEN reverse_new' = Lists(reverse_new, "new") /\ UNCHANGED reverse_old
          ELSE reverse_old' = Lists(reverse_old, "old") /\ UNCHANGED reverse_new
  /\ LET last == row_at + ReverseChunk >= n IN
     /\ row_at' = IF last THEN 0 ELSE row_at + ReverseChunk
     /\ phase' = IF ~last THEN phase
                 ELSE IF phase = "reverse_new" THEN "reverse_old" ELSE "join"
  /\ UNCHANGED <<build, current_ids, next_ids, inbox, offered, iteration, converged>>

\* The rows a vertex joins: new ones, and old ones that are not also new.
NewIds(vertex) ==
  {current_ids[vertex][i].id : i \in Sampled(current_ids[vertex], TRUE)}
    \cup ToSet(reverse_new[vertex])
OldIds(vertex) ==
  ({current_ids[vertex][i].id : i \in Sampled(current_ids[vertex], FALSE)}
     \cup ToSet(reverse_old[vertex])) \ NewIds(vertex)

\* The pairs a vertex proposes: each new row with the nearest other new one
\* and the nearest old one, each old row with the nearest new one.
BestPairs(S, T) ==
  {<<a, Nearest(a, T \ {a})[1]>> : a \in {x \in S : T \ {x} # {}}}
Pairs(vertex) ==
  BestPairs(NewIds(vertex), NewIds(vertex))
    \cup BestPairs(NewIds(vertex), OldIds(vertex))
    \cup BestPairs(OldIds(vertex), NewIds(vertex))

\* The chunk of vertices emits its pairs, in both directions.
Propose ==
  /\ phase = "join" /\ phase' = "merge"
  /\ LET pairs == UNION {Pairs(vertex) : vertex \in Chunk(ProposalChunk)} IN
     /\ inbox' = [row \in Rows |-> {p[2] : p \in {q \in pairs : q[1] = row}}
                                     \cup {p[1] : p \in {q \in pairs : q[2] = row}}]
     /\ offered' = [row \in Rows |-> offered[row] \cup inbox'[row]]
  /\ UNCHANGED <<build, current_ids, next_ids, reverse_new, reverse_old, row_at, iteration, converged>>

\* A candidate that the row held before comes back as new only if it was new
\* and not sampled.
tagged_new(row, candidate) ==
  candidate \in Ids(current_ids[row]) =>
    \E i \in DOMAIN current_ids[row] :
      /\ current_ids[row][i].id = candidate /\ current_ids[row][i].new
      /\ i \notin Sampled(current_ids[row], TRUE)

Merged(row, list, candidate) ==
  LET insert == Cardinality({i \in DOMAIN list : ~nearer(row, candidate, list[i].id)})
      edge == [id |-> candidate, new |-> tagged_new(row, candidate)]
  IN IF candidate \in Ids(list) \/ ~nearer(row, candidate, list[degree].id) THEN list
     ELSE SubSeq(list, 1, insert) \o <<edge>> \o SubSeq(list, insert + 1, degree - 1)

\* The inbox of a row is read one candidate at a time.  The rows of a launch
\* touch nothing of each other, so they are taken in order.
MergeInbox ==
  /\ phase = "merge"
  /\ \E row \in Rows :
       /\ inbox[row] # {} /\ \A other \in 0 .. row - 1 : inbox[other] = {}
       /\ \E candidate \in inbox[row] :
            /\ next_ids' = [next_ids EXCEPT ![row] = Merged(row, @, candidate)]
            /\ inbox' = [inbox EXCEPT ![row] = @ \ {candidate}]
  /\ UNCHANGED <<build, phase, current_ids, reverse_new, reverse_old, row_at, offered,
                 iteration, converged>>

NextChunk ==
  /\ phase = "merge" /\ \A row \in Rows : inbox[row] = {}
  /\ IF row_at + ProposalChunk < n
     THEN row_at' = row_at + ProposalChunk /\ phase' = "join"
     ELSE row_at' = 0 /\ phase' = "measure"
  /\ UNCHANGED <<build, current_ids, next_ids, reverse_new, reverse_old, inbox, offered,
                 iteration, converged>>

changed_edges ==
  MapThenSumSet(LAMBDA row : Cardinality(Ids(next_ids[row]) \ Ids(current_ids[row])), Rows)
pending_new_edges ==
  MapThenSumSet(LAMBDA row : Cardinality({i \in DOMAIN next_ids[row] : next_ids[row][i].new}), Rows)

\* The graphs change places; the loop ends when nothing changed (less than one
\* edge in ten thousand), no edge waits to be sampled and two turns were made.
Measure ==
  /\ phase = "measure"
  /\ current_ids' = next_ids
  /\ iteration' = iteration + 1
  /\ converged' = /\ iteration + 1 >= 2 /\ 10000 * changed_edges < n * degree
                  /\ pending_new_edges = 0
  /\ phase' = IF converged' \/ iteration + 1 = build.iters THEN "returned" ELSE "age"
  /\ UNCHANGED <<build, next_ids, reverse_new, reverse_old, row_at, inbox, offered>>

-----------------------------------------------------------------------------
(***************************************************************************)
(* On the host: rows drawn at random, then sweeps that rank, row by row    *)
(* and in place, the neighbours of a row and their neighbours.             *)
(***************************************************************************)
HostDraw ==
  /\ phase = "host_draw" /\ phase' = "sweep" /\ row_at' = 0
  /\ \E drawn \in [Rows -> {f \in [1 .. degree -> 1 .. n - 1] : IsInjective(f)}] :
       current_ids' = [row \in Rows |->
                     [i \in 1 .. degree |-> [id |-> (row + drawn[row][i]) % n, new |-> FALSE]]]
  /\ UNCHANGED <<build, next_ids, reverse_new, reverse_old, inbox, offered, iteration, converged>>

HostCandidates(row) ==
  (Ids(current_ids[row]) \cup UNION {Ids(current_ids[u]) : u \in Ids(current_ids[row])}) \ {row}

HostSweep ==
  /\ phase = "sweep" /\ iteration < build.iters
  /\ LET best == Top(row_at, HostCandidates(row_at)) IN
     current_ids' = [current_ids EXCEPT ![row_at] =
       [i \in 1 .. degree |-> [id |-> IF i <= Len(best) THEN best[i] ELSE -1, new |-> FALSE]]]
  /\ row_at' = (row_at + 1) % n
  /\ iteration' = IF row_at + 1 = n THEN iteration + 1 ELSE iteration
  /\ UNCHANGED <<build, phase, next_ids, reverse_new, reverse_old, inbox, offered, converged>>

HostDone ==
  /\ phase = "sweep" /\ iteration = build.iters /\ phase' = "returned"
  /\ UNCHANGED <<build, current_ids, next_ids, reverse_new, reverse_old, row_at, inbox, offered,
                 iteration, converged>>

NnNext ==
  \/ nndescent_build \/ knn_graph_brute
  \/ Preflight \/ Draw \/ Age \/ build_reverse \/ Propose \/ MergeInbox \/ NextChunk \/ Measure
  \/ HostDraw \/ HostSweep \/ HostDone
NnSpec == NnInit /\ [][NnNext]_nnVars /\ WF_nnVars(NnNext)

-----------------------------------------------------------------------------
\* Whatever order the atomic exchanges leave the inboxes in, a target samples
\* the sources of the best priority of all chunks, and a row ends an iteration
\* with the degree nearest of what it held and what it was offered, new
\* exactly where it did not hold or did not sample the edge
\* (backend_gpu.cpp 1610-1710, 1995-2060).
SampleOf(target, class) ==
  LET ranked == Ranked({s \in Rows : Reaches(s, target, class)},
                       LAMBDA a, b : Ahead(a, b, target, class))
  IN SubSeq(ranked, 1, Min({sample_count, Len(ranked)}))

InboxOrderNeverMatters ==
  /\ phase \in {"join", "merge", "measure"} =>
       \A row \in Rows : /\ reverse_new[row] = SampleOf(row, "new")
                         /\ reverse_old[row] = SampleOf(row, "old")
  /\ phase = "measure" =>
       \A row \in Rows :
         next_ids[row] = LET best == Top(row, Ids(current_ids[row]) \cup offered[row])
                     IN [i \in 1 .. degree |->
                           [id |-> best[i], new |-> tagged_new(row, best[i])]]

\* Each of the three routes returns, for every row, degree different rows that
\* are there and are not the row itself, nearest first once they were ranked:
\* what cagra_optimize_ranked refuses a graph for (graphs.cpp 930-950).
BuildsRankOtherRows ==
  phase = "returned" =>
    \A row \in Rows :
      /\ Len(current_ids[row]) = degree /\ Cardinality(Ids(current_ids[row])) = degree
      /\ Ids(current_ids[row]) \subseteq Rows \ {row}
      /\ \A i \in 1 .. degree - 1 : nearer(row, current_ids[row][i].id, current_ids[row][i + 1].id)

\* The turns of a build that is given enough of them (EnoughTurns bounds what
\* a graph of these sizes can take) stop on their own: an edge that no turn
\* replaces is sampled, and each replacement is nearer (2187-2192).
EnoughTurns == 12
Converges ==
  (phase = "draw" /\ build.iters = EnoughTurns) ~> (phase = "returned" /\ converged)
=============================================================================
