----------------------------- MODULE MCKernels -----------------------------
\* One of the five computations runs in a behaviour.
EXTENDS AdcPlan, ScanSelect, CagraOptimize, NnDescent, BeamWalk

RowCounts == {1, 127, 128, 129, 300, 2048, 2300}
MCTasks ==
  {<<>>} \cup {<<[rows |-> r, output_offset |-> o]>> : r \in RowCounts \cup {0}, o \in {0, 1}}
  \cup {<<[rows |-> r, output_offset |-> 0], [rows |-> s, output_offset |-> o]>> :
          r \in {1, 128, 300}, s \in RowCounts, o \in {1, 128, 300}}
MCOutputs == {0, 128, 129, 300, 428, 600, 2301, 2428}

-----------------------------------------------------------------------------
\* Two lists of packed rows, two tables of two code words; a code word 2 is
\* corrupt.  Query 0 probes both lists, query 1 one of them.
Luts == {<<[w \in {0, 1} |-> w]>>, <<[w \in {0, 1} |-> 1 - w]>>, <<[w \in {0, 1} |-> 0]>>}
PackedRows ==
  {[i \in 1 .. 7 |-> [id |-> (3 * i) % 7, codes |-> <<c[i]>>]] :
     c \in {f \in [1 .. 7 -> {0, 1, 2}] :
              Cardinality({i \in 1 .. 7 : f[i] = 2}) <= 1 /\ f[1] = 0}}
MCTask(q, begin, count, lut, dense) ==
  [query_index |-> q, list_begin |-> begin, list_count |-> count, lut |-> lut,
   query_dense_offset |-> dense]
TaskLists ==
  {<<MCTask(0, 5, 2, l, 0), MCTask(0, 0, 5, m, 2), MCTask(1, 2, 3, m, 0)>> :
     l \in Luts, m \in {<<[w \in {0, 1} |-> w]>>}}
  \cup {<<MCTask(0, 0, 5, <<[w \in {0, 1} |-> w]>>, 0),
          MCTask(0, 4, 3, <<[w \in {0, 1} |-> w]>>, 5)>>}
\* Two words a row; the sum of two large entries is not finite.
Wide == [i \in 1 .. 3 |-> [id |-> i - 1, codes |-> <<i % 2, (i + 1) \div 2 - 1>>]]
high == [w \in {0, 1} |-> w * 600000]
MCScans ==
  {[call |-> "scan", rows |-> rows, tasks |-> tasks_, nq |-> 2, krefine |-> k,
    group |-> g, filtered |-> a # {}, allow |-> a] :
     rows \in PackedRows, tasks_ \in TaskLists, k \in {1, 2, 3}, g \in {2, 4},
     a \in {{}, {0, 2, 3, 6}}}
  \cup {[call |-> "scan", rows |-> Wide, tasks |-> <<MCTask(0, 0, 3, <<high, high>>, 0)>>,
         nq |-> 1, krefine |-> k, group |-> 2, filtered |-> a # {}, allow |-> a] :
          k \in {1, 2}, a \in {{}, {0, 2}}}

-----------------------------------------------------------------------------
\* Every graph of four rows up to the order of row 0, graphs of five and six
\* rows (a row may lack two and more of its sources only there), and rows that
\* name a row twice or a row that is not there; six is more than the device takes.
Lists(size, row, width) ==
  {o \in [1 .. width -> 0 .. size - 1] : IsInjective(o) /\ \A i \in 1 .. width : o[i] # row}
Ring(size, width) == [row \in 0 .. size - 1 |-> [i \in 1 .. width |-> (row + i) % size]]
Star(size, width) == [row \in 0 .. size - 1 |-> CHOOSE o \in Lists(size, row, width) :
                                                  \A i, j \in 1 .. width : i < j => o[i] < o[j]]
MCRanked ==
  {[row \in 0 .. 3 |-> <<<<1, 2, 3>>, a, b, c>>[row + 1]] :
     a \in Lists(4, 1, 3), b \in Lists(4, 2, 3), c \in Lists(4, 3, 3)}
  \cup {[g EXCEPT ![4] = a] : g \in {Ring(5, 3), Star(5, 3)}, a \in Lists(5, 4, 3)}
  \cup {Ring(6, 5), Star(6, 5), Star(6, 4), Ring(7, 6)}
  \cup {[Ring(4, 3) EXCEPT ![2] = a] : a \in {<<1, 1, 3>>, <<1, 4, 3>>}}

-----------------------------------------------------------------------------
\* Priorities that differ by source, target, class and turn, with ties.
MCPriority(source, target, class, t) ==
  (source * (target + 2) + (IF class = "new" THEN 1 ELSE 3) * (t % 3)) % 3

Seed(start, stride) == [start |-> start, step |-> stride]
MCSeeds == {[row \in 1 .. 5 |-> Seed(0, 1)], [row \in 1 .. 5 |-> Seed(row % 4, 1 + (row % 3))],
            [row \in 1 .. 5 |-> Seed(2, 2)], [row \in 1 .. 5 |-> Seed(row % 2, 4)]}
MCPoints == {<<0, 1, 3, 6>>, <<0, 1, 2, 3, 4>>, <<5, 0, 9, 4, 7>>, <<0, 8, 0, 4, 1>>}
Call(xs, d, i, policy, gpu, supported, preflight, seeds) ==
  [xs |-> xs, degree |-> d, iters |-> i, res |-> [policy |-> policy, gpu |-> gpu],
   metric_supported |-> supported, preflight |-> preflight, seeds |-> seeds]
Drawn == [row \in 1 .. 5 |-> Seed(0, 1)]
MCBuilds ==
  {Call(xs, d, i, "auto", TRUE, TRUE, "success", s) :
     xs \in MCPoints, d \in {1, 2, 3}, i \in {2, EnoughTurns}, s \in MCSeeds}
  \cup {Call(xs, 2, i, "hetero", FALSE, TRUE, "success", Drawn) :
          xs \in {<<0, 1, 3, 6>>, <<0, 8, 0, 4>>}, i \in {1, 2}}
  \cup {Call(<<0, 1, 3, 6>>, 2, 1, policy, gpu, supported, preflight, Drawn) :
          policy \in {"auto", "force_gpu", "force_npu"}, gpu \in {FALSE},
          supported \in BOOLEAN, preflight \in {"oom", "invalid_argument"}}
  \cup {Call(xs, d, 1, "force_gpu", TRUE, FALSE, "oom", Drawn) :
          xs \in {<<0, 4, 4>>, <<3, 0, 1>>, <<0, 1, 2, 3>>}, d \in {1, 4}}
  \cup {Call(<<0, 1, 2, 3>>, 2, 1, "force_gpu", TRUE, TRUE, "oom", Drawn)}

-----------------------------------------------------------------------------
\* A line, a graph with repeated, missing and impossible edges, and one that
\* leads on through seed 3 only, which an itopk of 1 evicts.  With two seeds
\* the beam may stand in for the table where itopk is 2; rows 8 and 9 share
\* their place in the hash of a sub-group with rows 0 and 1.
MCLine == [row \in 1 .. 10 |-> <<Most(row - 2, 0), Least(row, 9)>>]
MCTangle == <<<<3, 8>>, <<9, 2>>, <<0, 10>>, <<6, -1>>, <<5, 5>>, <<1, 7>>, <<8, 4>>,
              <<7, 2>>, <<1, 9>>, <<0, 5>>>>
MCDetour == [MCTangle EXCEPT ![1] = <<3, 10>>, ![7] = <<5, 4>>]
MCWalk(g, m, a, h, k, i, w, p, t, c) ==
  [n |-> 10, graph |-> g, dist |-> [row \in 1 .. 10 |-> (row * m) % 11], allow |-> a,
   hash |-> h, k |-> k, itopk |-> i, width |-> w, patience |-> p, tile |-> t, cache |-> c]
MCWalks ==
  {MCWalk(g, m, a, h, k, i, w, p, t, c) :
     g \in {MCLine, MCTangle}, m \in {1, 2, 3, 7, 10}, a \in {0 .. 9, {1, 2, 4, 5, 8, 9}, {}},
     h \in {0, 1}, k \in {1, 3}, i \in {1, 2}, w \in {1, 2}, p \in {0, 1}, t \in {2, 8},
     c \in {0, 2}}
  \cup {MCWalk(MCDetour, 2, 0 .. 9, 0, 1, i, 1, p, 8, c) :
          i \in {1, 2}, p \in {0, 1}, c \in {0, 2}}

-----------------------------------------------------------------------------
Init == PlanInit /\ ScanInit /\ OptInit /\ NnInit /\ BeamInit
Idle(p, s, o, d, b) ==
  /\ p => plan = "idle"
  /\ s => kernel = "idle"
  /\ o => stage = "idle"
  /\ d => phase = "idle"
  /\ b => engine = "none"
Planning ==
  /\ Idle(FALSE, TRUE, TRUE, TRUE, TRUE) /\ PlanNext
  /\ UNCHANGED <<scanVars, optVars, nnVars, beamVars>>
Scanning ==
  /\ Idle(TRUE, FALSE, TRUE, TRUE, TRUE) /\ ScanNext
  /\ UNCHANGED <<planVars, optVars, nnVars, beamVars>>
Pruning ==
  /\ Idle(TRUE, TRUE, FALSE, TRUE, TRUE) /\ OptNext
  /\ UNCHANGED <<planVars, scanVars, nnVars, beamVars>>
Building ==
  /\ Idle(TRUE, TRUE, TRUE, FALSE, TRUE) /\ NnNext
  /\ UNCHANGED <<planVars, scanVars, optVars, beamVars>>
Walking ==
  /\ Idle(TRUE, TRUE, TRUE, TRUE, FALSE) /\ BeamNext
  /\ UNCHANGED <<planVars, scanVars, optVars, nnVars>>
Next == Planning \/ Scanning \/ Pruning \/ Building \/ Walking
Spec == /\ Init /\ [][Next]_<<planVars, scanVars, optVars, nnVars, beamVars>>
        /\ WF_nnVars(Building)
=============================================================================
