-------------------------- MODULE KernelInvariants --------------------------
(***************************************************************************)
(* The notions and the invariants of KernelProofs: the inductive invariant *)
(* of the pool (IInv), of NN-Descent (NnInv), of the scan of the IVF-PQ    *)
(* lists (ScanInv) and of the pruning of a CAGRA graph (OptInv), and what  *)
(* their lemmas say of lists, folds, waves and sorted slots.               *)
(***************************************************************************)
EXTENDS CpuWorkPool, NnDescent, ScanSelect, CagraOptimize

-----------------------------------------------------------------------------
(* The pool. *)

\* The holder of run_mutex is the caller between Lock and Return.
MutexInv ==
  \A c \in Callers :
    runMutex = c <=> pc[c] \in {"publish", "notify", "grab", "item", "drain", "asleep"}

\* The published loop is its caller's, and the workers inside have its fn and end.
JobInv ==
  /\ \A c \in Publishers : body = c /\ end = hi[c]
  /\ \A w \in Workers :
       /\ pc[w] \in {"grab", "item", "retire"} => seen[w] = generation
       /\ pc[w] \in {"grab", "item"} => fn[w] \in Publishers /\ hi[w] = hi[fn[w]]

\* Between loops no worker is pending.
QuietInv == Publishers = {} => Pending = {}

\* The indices nobody has started are those from `next`, or from the caller's
\* own i, to the end of the range.
LeftInv ==
  /\ \A c \in Publishers :
       /\ left[c] = next .. hi[c] - 1
       /\ pc[c] \in {"drain", "asleep"} => next >= hi[c]
  /\ \A c \in Callers :
       /\ pc[c] \in {"lock", "publish"} => left[c] = lo[c] .. hi[c] - 1
       /\ pc[c] = "inline" => left[c] = item[c] .. hi[c] - 1
       /\ pc[c] = "inlineItem" => left[c] = item[c] + 1 .. hi[c] - 1

IInv == TypeOK /\ MutexInv /\ JobInv /\ QuietInv /\ LeftInv /\ NobodyForgotten

-----------------------------------------------------------------------------
(* The pool implements ParallelFor. *)

Open == {c \in Callers : pc[c] # "idle"}

Running == {<<t, fn[t], item[t]>> : t \in Executing}

\* A step stutters if it opens and closes no call and keeps what is executed.
Stutters ==
  /\ UNCHANGED left
  /\ \A c \in Callers : pc'[c] = "idle" <=> pc[c] = "idle"
  /\ \A t \in Threads :
       /\ pc'[t] \in {"item", "inlineItem"} <=> pc[t] \in {"item", "inlineItem"}
       /\ pc[t] \in {"item", "inlineItem"} => fn'[t] = fn[t] /\ item'[t] = item[t]

-----------------------------------------------------------------------------
(* Numbers and ranks. *)

\* How many members of S come before x.
Below(S, R, x) == {y \in S : <<y, x>> \in R}
RankIn(S, R, x) == Cardinality(Below(S, R, x))

StrictTotal(S, R) ==
  /\ \A x \in S : <<x, x>> \notin R
  /\ \A x, y \in S : x # y => <<x, y>> \in R \/ <<y, x>> \in R
  /\ \A x, y, z \in S : <<x, y>> \in R /\ <<y, z>> \in R => <<x, z>> \in R

\* On a .. b a function begins with v and takes step G[i] at each i of J.
Steps(a, b, V, v, J, G) ==
  \E f \in [a .. b -> V] : f[a] = v /\ \A i \in J : f[i] = G[i][f[i - 1]]

-----------------------------------------------------------------------------
(* Remainders. *)

Multiple(a, m) == \E q \in Int : a = q * m

-----------------------------------------------------------------------------
(* The first k of a set, in order. *)

\* z lists the first m of S: all of S, or k members that the others follow.
Firsts(z, m, S, R, k) ==
  /\ m \in 0 .. k /\ z \in [1 .. m -> S]
  /\ \A t, u \in 1 .. m : t < u => <<z[t], z[u]>> \in R
  /\ \A s \in S : \/ \E t \in 1 .. m : z[t] = s
                  \/ m = k /\ \A t \in 1 .. m : <<z[t], s>> \in R

\* The members a list names.
Image(z, o) == {z[t] : t \in 1 .. o}

\* x put into z behind its first p members, of which m are kept.
Inserted(z, p, x, m) ==
  [t \in 1 .. m |-> IF t <= p THEN z[t] ELSE IF t = p + 1 THEN x ELSE z[t - 1]]

\* The places of a list that stand before x.
PlacesBefore(z, m, R, x) == {t \in 1 .. m : <<z[t], x>> \in R}

-----------------------------------------------------------------------------
(* The rows of a build and their orders. *)

\* The pairs of rows of which a row is nearer to the first, and those of which
\* a target prefers the first as a source.
Near(row) == {e \in Rows \X Rows : nearer(row, e[1], e[2])}
Prio(target, class) == {e \in Rows \X Rows : Ahead(e[1], e[2], target, class)}

\* The first k of a list, and the prefix of a function.
CutTo(z, k) == SubSeq(z, 1, Min({k, Len(z)}))
Prefix(z, l) == [t \in 1 .. l |-> z[t]]

\* A function on 1 .. m, and the smaller of two numbers.
OnFirst(z, m, V) == z \in [1 .. m -> V]
LesserOf(k, m) == IF k <= m THEN k ELSE m

-----------------------------------------------------------------------------
(* An insertion into a list. *)

\* A list followed by another.
Joins(c, a, b) ==
  /\ Len(c) = Len(a) + Len(b)
  /\ \A i \in 1 .. Len(c) : c[i] = IF i <= Len(a) THEN a[i] ELSE b[i - Len(a)]

Reaching(S, target, class) == {s \in S : Reaches(s, target, class)}

\* The list is a fold over the sources it considers.
FoldsTo(list, sources, L, target, class) ==
  \E f : /\ f[0] = <<>>
         /\ \A i \in 1 .. L :
              f[i] = IF Reaches(sources[i], target, class)
                     THEN Consider(f[i - 1], sources[i], target, class) ELSE f[i - 1]
         /\ list = f[L]

-----------------------------------------------------------------------------
(* Rows of the graphs. *)

Edges(row) == [id : Rows \ {row}, new : BOOLEAN]
IdsOf(list) == [t \in 1 .. degree |-> list[t].id]

\* degree edges to different rows, not the row itself.
DrawnList(row, list) ==
  /\ list \in [1 .. degree -> Edges(row)]
  /\ \A t, u \in 1 .. degree : list[t].id = list[u].id => t = u
\* They are listed from the nearest on.
RankedList(row, list) ==
  /\ list \in [1 .. degree -> Edges(row)]
  /\ \A t, u \in 1 .. degree : t < u => <<list[t].id, list[u].id>> \in Near(row)

-----------------------------------------------------------------------------
(* The rows drawn on the device. *)

\* The rows the edges of a row are drawn to.
DrawnRows(row, start, step) ==
  [e \in 0 .. degree - 1 |-> (row + 1 + ((start + e * step) % (n - 1))) % n]

\* Edges in the order of the rows they lead to.
EdgeBefore(row, E, id) ==
  {g \in E \X E : nearer(row, id[g[1]], id[g[2]]) \/ (id[g[1]] = id[g[2]] /\ g[1] < g[2])}

\* The row an edge of a row is drawn to, the edges before it, and the edges in order.
DrawnTo(row, e) ==
  (row + 1 + ((build.seeds[row + 1].start
                 + e * CoprimeStep(build.seeds[row + 1].step, n - 1)) % (n - 1))) % n
PlacesAhead(row, x) ==
  {y \in 0 .. degree - 1 : \/ nearer(row, DrawnTo(row, y), DrawnTo(row, x))
                           \/ DrawnTo(row, y) = DrawnTo(row, x) /\ y < x}
EdgeRanks(row) ==
  [i \in 1 .. Cardinality(0 .. degree - 1) |->
     CHOOSE x \in 0 .. degree - 1 : Cardinality(PlacesAhead(row, x)) = i - 1]

-----------------------------------------------------------------------------
(* The list a row ends a turn with. *)

\* A row's list holds the nearest of what the row held and of a set, tagged.
TaggedList(row, list) ==
  \A t \in 1 .. degree : list[t].new = tagged_new(row, list[t].id)
MergedRow(row, list, S) ==
  /\ list \in [1 .. degree -> Edges(row)]
  /\ Firsts(IdsOf(list), degree, Ids(current_ids[row]) \cup S, Near(row), degree)
  /\ TaggedList(row, list)

\* Two parts of a list and a member between them.
Splice(z, p, x, q) == SubSeq(z, 1, p) \o <<x>> \o SubSeq(z, p + 1, q)

-----------------------------------------------------------------------------
(* What the vertices propose, and the lists of the sources. *)

\* A list of the first sources of a class for each target.
Listed(lists, class, upto) ==
  \A row \in Rows : \E m : Firsts(lists[row], m, Reaching(0 .. upto - 1, row, class),
                                  Prio(row, class), sample_count)

\* A pair of a best pair is made of two different rows.
OtherPair(p) == p[1] \in Rows /\ p[2] \in Rows /\ p[1] # p[2]

-----------------------------------------------------------------------------
(* The lists of the host, and of few rows. *)

\* The list a sweep leaves in a row.
HostList(row) ==
  LET closest == Top(row, HostCandidates(row)) IN
  [i \in 1 .. degree |-> [id |-> IF i <= Len(closest) THEN closest[i] ELSE -1, new |-> FALSE]]

-----------------------------------------------------------------------------
(* The invariant of NN-Descent. *)

\* Every row holds degree other rows, nearest first.
AllRanked == \A row \in Rows : RankedList(row, current_ids[row])

\* A turn of the device is on, the current graph is ranked and stays.
Turning ==
  /\ build \in Builds /\ iteration \in 0 .. build.iters - 1
  /\ AllRanked

\* The next graph holds what was merged of what was offered.
NextHolds(S) ==
  /\ DOMAIN next_ids = Rows
  /\ \A row \in Rows : S[row] \subseteq Rows \ {row} /\ MergedRow(row, next_ids[row], S[row])

Listing ==
  /\ row_at \in Rows
  /\ NextHolds([row \in Rows |-> {}])
  /\ \A row \in Rows : offered[row] = {}

MergedPart(row) ==
  /\ offered[row] \subseteq Rows \ {row}
  /\ inbox[row] \subseteq offered[row]
  /\ \E S : /\ offered[row] \ inbox[row] \subseteq S /\ S \subseteq offered[row]
            /\ MergedRow(row, next_ids[row], S)

Merging ==
  /\ DOMAIN next_ids = Rows /\ DOMAIN inbox = Rows
  /\ \A row \in Rows : MergedPart(row)

\* All sources are in the lists of the targets.
AllListed == Listed(reverse_new, "new", n) /\ Listed(reverse_old, "old", n)

\* Which rows the sweeps have ranked.
Sweeping ==
  /\ build \in Builds /\ row_at \in Rows /\ iteration \in 0 .. build.iters
  /\ DOMAIN current_ids = Rows
  /\ \A row \in Rows : /\ DrawnList(row, current_ids[row])
                       /\ row < row_at \/ iteration >= 1 => RankedList(row, current_ids[row])

\* The inductive invariant: what each phase may count on.
NnInv ==
  /\ phase = "idle" => iteration = 0
  /\ phase \in {"exact", "preflight", "draw", "host_draw"} => build \in Builds /\ iteration = 0
  /\ phase \in {"age", "reverse_new", "reverse_old", "join", "merge", "measure"} => Turning
  /\ phase \in {"reverse_new", "reverse_old"} => Listing
  /\ phase = "reverse_new" =>
       Listed(reverse_new, "new", row_at) /\ Listed(reverse_old, "old", 0)
  /\ phase = "reverse_old" =>
       Listed(reverse_new, "new", n) /\ Listed(reverse_old, "old", row_at)
  /\ phase \in {"join", "merge", "measure"} => AllListed
  /\ phase \in {"join", "merge"} => row_at \in Nat
  /\ phase \in {"join", "measure"} => NextHolds(offered)
  /\ phase = "merge" => Merging
  /\ phase = "sweep" => Sweeping
  /\ phase = "returned" => build \in Builds /\ AllRanked

-----------------------------------------------------------------------------
(* Widths, strides and blocks. *)

Powers == {1, 2, 4, 8, 16, 32, 64, 128, 256}
Strides == {1, 2, 4, 8, 16, 32, 64, 128}

\* Blocks of m slots begin at the multiples of m and are numbered; a block is
\* sorted upwards where its number is even.
Starts(b, m) == b % m = 0
Block(b, w) == b \div w
Up(b, w) == (b \div w) % 2 = 0

-----------------------------------------------------------------------------
(* What a stage does to a block. *)

\* The members of S between 0 and m - 1, or the others, are an interval.
Wave(S, m) ==
  \E p, q \in 0 .. m :
    /\ p <= q
    /\ \/ \A i \in 0 .. m - 1 : i \in S <=> (p <= i /\ i < q)
       \/ \A i \in 0 .. m - 1 : i \in S <=> ~(p <= i /\ i < q)

\* Of the two halves of a wave, what both have and what either has are waves,
\* and the one is empty or the other is full.
Halves(S, s, L, U) ==
  \A i \in 0 .. s - 1 : /\ i \in L <=> i \in S /\ s + i \in S
                        /\ i \in U <=> i \in S \/ s + i \in S

\* Slots that can be compared.
Keyed(V) == \A x \in V : x.key[1] \in Int /\ x.key[2] \in Int

\* What a stage leaves in a pair of slots.
StageAt(given, result, size, w, s, m, b) ==
  /\ w \in Powers /\ s \in Strides /\ m = 2 * s /\ m <= w
  /\ size \in Nat /\ DOMAIN given = 0 .. size - 1
  /\ b \in Nat /\ Starts(b, m) /\ b + m <= size
  /\ result = Exchange(given, w, s)

PairLeft(given, result, w, s, b, i) ==
  /\ Up(b, w) => /\ result[b + i] = IF Precedes(given[b + s + i], given[b + i])
                                    THEN given[b + s + i] ELSE given[b + i]
                 /\ result[b + s + i] = IF Precedes(given[b + s + i], given[b + i])
                                        THEN given[b + i] ELSE given[b + s + i]
  /\ ~Up(b, w) => /\ result[b + i] = IF Precedes(given[b + i], given[b + s + i])
                                     THEN given[b + s + i] ELSE given[b + i]
                  /\ result[b + s + i] = IF Precedes(given[b + i], given[b + s + i])
                                         THEN given[b + i] ELSE given[b + s + i]

\* The places of a block whose slots are not below v.
HighIn(given, v, b, m) == {i \in 0 .. m - 1 : ~Precedes(given[b + i], v)}

InOrder(up, x, y) == IF up THEN ~Precedes(y, x) ELSE ~Precedes(x, y)

\* Between the stages of width w: each block of m slots is a wave at every
\* level, and the blocks of one block of w slots are in its order.
Staged(given, V, size, w, m) ==
  /\ given \in [0 .. size - 1 -> V]
  /\ \A v \in V, b \in 0 .. size - 1 : Starts(b, m) => Wave(HighIn(given, v, b, m), m)
  /\ \A b, c \in 0 .. size - 1 :
       Starts(b, m) /\ Starts(c, m) /\ b < c /\ Block(b, w) = Block(c, w) =>
         \A i, j \in 0 .. m - 1 : InOrder(Up(b, w), given[b + i], given[c + j])

BlockBefore(given, V, size, w, s, m, b) ==
  /\ Keyed(V) /\ size \in Powers /\ w \in Powers /\ s \in Strides
  /\ m = 2 * s /\ m <= w /\ w <= size
  /\ given \in [0 .. size - 1 -> V] /\ b \in 0 .. size - 1 /\ Starts(b, m)
  /\ \A v \in V : Wave(HighIn(given, v, b, m), m)

BlockAfter(given, V, w, s, m, b, result) ==
  /\ \A v \in V : /\ Wave(HighIn(result, v, b, s), s)
                  /\ Wave(HighIn(result, v, b + s, s), s)
  /\ \A i, j \in 0 .. s - 1 : InOrder(Up(b, w), result[b + i], result[b + s + j])
  /\ \A i \in 0 .. s - 1 : /\ \E j \in 0 .. m - 1 : result[b + i] = given[b + j]
                           /\ \E j \in 0 .. m - 1 : result[b + s + i] = given[b + j]

-----------------------------------------------------------------------------
(* What a width does, and the network. *)

\* Each block of w slots is in its order.
SortedBlocks(given, V, size, w) ==
  /\ given \in [0 .. size - 1 -> V]
  /\ \A b \in 0 .. size - 1 : Starts(b, w) =>
       \A i, j \in 0 .. w - 1 : i < j => InOrder(Up(b, w), given[b + i], given[b + j])

\* A rising half and a falling half are a wave.
RisesThenFalls(given, V, b, h, m) ==
  /\ \A i \in 0 .. m - 1 : given[b + i] \in V
  /\ \A i, j \in 0 .. h - 1 : i < j => InOrder(TRUE, given[b + i], given[b + j])
  /\ \A i, j \in 0 .. h - 1 : i < j => InOrder(FALSE, given[(b + h) + i], given[(b + h) + j])

-----------------------------------------------------------------------------

\* Slots in another order.
Rearranged(result, given, size) ==
  /\ DOMAIN result = 0 .. size - 1 /\ result = [i \in 0 .. size - 1 |-> result[i]]
  /\ \E f \in [0 .. size - 1 -> 0 .. size - 1] :
       /\ \A i, j \in 0 .. size - 1 : f[i] = f[j] => i = j
       /\ \A j \in 0 .. size - 1 : \E i \in 0 .. size - 1 : f[i] = j
       /\ \A i \in 0 .. size - 1 : result[i] = given[f[i]]

\* How it reorders them.
Order(f, P) ==
  /\ \A i \in P : f[i] \in P
  /\ \A i, j \in P : f[i] = f[j] => i = j
  /\ \A j \in P : \E i \in P : f[i] = j

OneAfter(h, f, g, P) == \A i \in P : h[i] = f[g[i]]

\* The powers around stage d of the width numbered e.
StageIn(last, e, d, size, w, s, m) ==
  /\ last \in 0 .. 8 /\ e \in 1 .. last /\ d \in 1 .. e
  /\ size = Power(last) /\ w = Power(e) /\ s = Power(e - d) /\ m = Power(e - (d - 1))

\* The stages of one width, one after the other.
MergesTo(result, given, e, size, V) ==
  \E g : /\ g[0] = given /\ result = g[e]
         /\ \A d \in 0 .. e : g[d] \in [0 .. size - 1 -> V]
         /\ \A d \in 1 .. e : g[d] = Exchange(g[d - 1], Power(e), Power(e - d))

\* The widths, one after the other.
SortsTo(result, given, last, size, V) ==
  \E g : /\ g[0] = given /\ result = g[last]
         /\ \A e \in 0 .. last : g[e] \in [0 .. size - 1 -> V]
         /\ \A e \in 1 .. last : g[e] = OneWidth(g[e - 1], e)

-----------------------------------------------------------------------------

\* Slots as the pairs of a relation.
KeyOrder(V) == {p \in V \X V : Precedes(p[1], p[2])}

\* The first k slots hold the least k of S, or S and then blanks.
HoldsFirsts(given, S, R, k, blank) ==
  \E m \in 0 .. k : /\ Firsts([t \in 1 .. m |-> given[t - 1]], m, S, R, k)
                    /\ \A t \in m .. k - 1 : given[t] = blank

\* The slots before a sort: each member of S in one slot, blanks in the others.
Spread(given, size, S, blank) ==
  /\ \A i \in 0 .. size - 1 : given[i] \in S \/ given[i] = blank
  /\ \A x \in S : \E i \in 0 .. size - 1 : given[i] = x
  /\ \A i, j \in 0 .. size - 1 : given[i] = given[j] /\ given[i] \in S => i = j

-----------------------------------------------------------------------------
(* Sorting what a group holds together with what comes in. *)

\* What the first k slots hold.
Held(given, k, blank) == {given[t] : t \in 0 .. k - 1} \ {blank}

\* One turn of a group of g lanes: k slots it holds, one that comes in per lane,
\* and blanks, in twice as many slots as lanes.
TurnOf(held, incoming, g, k, blank, last) ==
  NetworkSort([slot \in 0 .. 2 * g - 1 |->
                 IF slot < k THEN held[slot]
                 ELSE IF slot < k + g THEN incoming[slot - k] ELSE blank], last)

-----------------------------------------------------------------------------
(* The rows of the tasks. *)

ScanSlots == [key : Int \X Int, position : Int]
ScanOrder == KeyOrder(ScanSlots)
ScanValid == scan \in Scans /\ scan.krefine <= scan.group /\ valid_tasks

\* The rows of a task, and those of the first tasks of a query.
TaskRows(i) == Seen(i, scan.tasks[i].list_count)
QueryRows(query, upto) ==
  UNION {TaskRows(i) : i \in {j \in 1 .. upto : scan.tasks[j].query_index = query}}

-----------------------------------------------------------------------------
(* What a turn of a group leaves. *)

\* The first krefine of S are held, the rest is blank.
Holding(held, S) == HoldsFirsts(held, S, ScanOrder, scan.krefine, Blank)

-----------------------------------------------------------------------------
(* The invariant of the scan. *)

IsAList(s) == \E S : s \in Seq(S)

\* t is s and then x.
Extends(t, s, x) ==
  /\ IsAList(t) /\ Len(s) \in Nat /\ Len(t) = Len(s) + 1 /\ t[Len(s) + 1] = x
  /\ \A i \in 1 .. Len(s) : t[i] = s[i]

\* The lists of the first tasks are stored.
Stored(upto) == \A i \in 1 .. upto : Holding(task_slots[i], TaskRows(i))

ScanPart(i, count) ==
  /\ i = group_id /\ count = base /\ Len(task_slots) = i - 1 /\ IsAList(task_slots)
  /\ i <= Len(scan.tasks) => Holding(kept, Seen(i, count))
  /\ i > Len(scan.tasks) => count = 0 /\ kept = NothingKept
  /\ Stored(i - 1)

\* What a query is given.
AnsweredIs(q) ==
  /\ positions[q + 1] = Best(q)
  /\ Cardinality({rank \in 1 .. scan.krefine : positions[q + 1][rank] >= 0})
       = Min({scan.krefine, Cardinality(Candidates(q))})

\* The tasks up to `upto` are those of the queries before this one, and some of
\* its own.
MergePart(query, upto) ==
  /\ query = group_id /\ upto = base /\ Stored(Len(scan.tasks))
  /\ Holding(kept, QueryRows(query, upto))
  /\ \A i \in 1 .. Len(scan.tasks) : /\ i <= upto => scan.tasks[i].query_index <= query
                                     /\ i > upto => scan.tasks[i].query_index >= query
  /\ Len(positions) = query /\ IsAList(positions)
  /\ \A q \in 0 .. query - 1 : AnsweredIs(q)

\* The inductive invariant.
ScanInv ==
  /\ kernel # "returned" => selected.status = "none"
  /\ kernel = "idle" => group_id = 1 /\ base = 0 /\ task_slots = <<>> /\ positions = <<>>
  /\ kernel \in {"scan", "merge", "copied"} => ScanValid
  /\ kernel = "scan" =>
       positions = <<>> /\ \E i \in 1 .. Len(scan.tasks) + 1, count \in Nat : ScanPart(i, count)
  /\ kernel = "merge" =>
       \E query \in 0 .. scan.nq - 1, upto \in 0 .. Len(scan.tasks) : MergePart(query, upto)
  /\ kernel = "copied" => \A query \in 0 .. scan.nq - 1 : AnsweredIs(query)
  /\ kernel = "returned" => ScanTakesTheNearest

-----------------------------------------------------------------------------
(* Sets of slots in order. *)

\* z lists all c members of S in order.
Lists(z, c, S, R) ==
  /\ c \in Nat /\ c = Cardinality(S) /\ z \in [1 .. c -> S]
  /\ \A t \in 1 .. c : RankIn(S, R, z[t]) = t - 1

-----------------------------------------------------------------------------
(* A call that the reference answers with a graph. *)

HostValid ==
  initial \in Graphs /\ final_degree \in FinalDegrees /\ valid_call /\ ranked_rows_valid

\* The slots of these kernels, of which only candidates have an id.
OptSlots == [key : Int \X Int, id : Int] \cup [key : Int \X Int]
OptOrder == KeyOrder(OptSlots)

RowCandidates(row) == {Candidate(row, r) : r \in 0 .. I - 1}

\* d different rows in every row, none of them the row itself.
EdgesOf(edges) ==
  /\ edges \in [Nodes -> [1 .. final_degree -> Nodes]]
  /\ \A row \in Nodes : \A t \in 1 .. final_degree : edges[row][t] # row
  /\ \A row \in Nodes : \A t, u \in 1 .. final_degree : edges[row][t] = edges[row][u] => t = u

-----------------------------------------------------------------------------
(* The sorted rows of the device. *)

\* A call the device takes.
OptValid == HostValid /\ I <= MaxInitialDegree

\* One slot for each member of S, and the blanks up to the lanes of the network.
OneEach(f, S) ==
  /\ S \subseteq OptSlots /\ StrictTotal(S, OptOrder) /\ \A x \in S : Precedes(x, LastKey)
  /\ \A t \in 0 .. I - 1 : f[t] \in S
  /\ \A x \in S : \E t \in 0 .. I - 1 : f[t] = x
  /\ \A t, u \in 0 .. I - 1 : f[t] = f[u] => t = u

Padded(given, f) == given = [lane \in RowLanes |-> IF lane < I THEN f[lane] ELSE LastKey]

\* The slot of an id of a row, and a row of them in the order of the ids.
IdKey(row, r) == [key |-> <<initial[row][r + 1], r>>]

ById(keys, row) ==
  /\ \A t \in 0 .. I - 1 : \E r \in 0 .. I - 1 : keys[t] = IdKey(row, r)
  /\ \A r \in 0 .. I - 1 : \E t \in 0 .. I - 1 : keys[t] = IdKey(row, r)
  /\ \A t, u \in 0 .. I - 1 : t < u => keys[t].key[1] < keys[u].key[1]

-----------------------------------------------------------------------------
(* The look-up of an id by bisection. *)

Bounds == [lo : 0 .. I, hi : 0 .. I]

\* What the bounds know of the slots outside them.
Encloses(keys, id, bounds) ==
  /\ bounds \in Bounds /\ bounds.lo <= bounds.hi
  /\ \A t \in 0 .. bounds.lo - 1 : keys[t].key[1] < id
  /\ \A t \in bounds.hi .. I - 1 : keys[t].key[1] >= id

-----------------------------------------------------------------------------
(* The forward kernel. *)

RowsById == \A row \in Nodes : ById(rank_ptr[row], row)

-----------------------------------------------------------------------------
(* The reverse keys of a row, ranked and as they arrive. *)

Accepted(edges, row) ==
  {key \in reverse_keys(edges, row) : Source(key) \notin ToSet(edges[row])}

\* The atomic cursors hand out the sources in some order of their own.
AnOrder == arrival \in [Nodes -> Nodes] /\ \A a, b \in Nodes : arrival[a] = arrival[b] => a = b

Arriving(K) == {p \in K \X K : arrival[Source(p[1])] < arrival[Source(p[2])]}

-----------------------------------------------------------------------------
(* The select kernel. *)

\* What is left of the keys a row received is a fold over them.
BestFolds(list, keys, c, edges, row) ==
  \E f : /\ f[0] = <<>>
         /\ \A i \in 1 .. c :
              f[i] = IF Source(keys[i]) \in ToSet(edges[row]) THEN f[i - 1]
                     ELSE BestWith(f[i - 1], keys[i], final_degree \div 2)
         /\ list = f[c]

-----------------------------------------------------------------------------
(* The call. *)

\* The state between the kernels: the sorted rows hold the ids of their rows, the
\* forward rows are those of the reference, the order of arrival is an order.
OptInv ==
  /\ stage \in {"idle", "host", "rank", "forward", "scatter", "select", "done"}
  /\ stage # "idle" => initial \in Graphs /\ final_degree \in FinalDegrees
  /\ stage \in {"rank", "forward", "scatter", "select"} => on_host = cagra_optimize_ranked
  /\ stage \in {"forward", "scatter", "select"} => OptValid /\ RowsById
  /\ stage \in {"scatter", "select"} => forward_ptr = forward
  /\ stage = "select" => AnOrder
  /\ GpuPrunesAsTheHost
=============================================================================
