----------------------------- MODULE IvfIndexes -----------------------------
(***************************************************************************)
(* The indexes that scan lists (src/neighbors/indexes.cpp: brute force,    *)
(* IVF-Flat, IVF-PQ; graphs.cpp: IVF-RaBitQ, ScaNN): build, extend, search *)
(* a batch, save and load, on devices that may refuse a primitive.         *)
(*                                                                         *)
(* Abstracted: a vector is an integer, so that an index has one dimension  *)
(* and one subspace, the bits of RaBitQ encode the residual exactly and    *)
(* ScaNN scales by one; the metric is squared L2.  What k-means finds is   *)
(* left open (Centroids, Codebooks).  A primitive that fails leaves its    *)
(* output as the caller allocated it: zeros.  Memory the GPU cannot share  *)
(* counts as a scan it cannot run: both are DEVICE_UNAVAILABLE.  A file is *)
(* the record that was written, or Cut when it ends early.  Rows and lists *)
(* count from 1; offsets from 0.                                           *)
(***************************************************************************)
EXTENDS Integers, Sequences, FiniteSets, Mixer

CONSTANTS
  Kinds,       \* kinds of index: "brute", "flat", "rabitq", "pq", "scann"
  Datasets, Extras,       \* rows an index is built from, and extended by
  Centroids, Codebooks,   \* what training may end with
  Batches, SearchKs, Probes, Refines, Filters, \* arguments of a search
  Settings,    \* resources a call may run with (Mixer)
  Values,      \* coordinates of rows, centroids and queries
  Inf,         \* the infinite distance
  MaxRows,     \* bound: rows of an index
  MaxBlock,    \* kMaxQueriesPerBlock
  MaxRefine,   \* kFusedGpuMaxRefine
  Habits       \* what callers do: "ignored" (kinds that drop a status run
               \* with primitives that fail), "k_over_n" (brute force asks
               \* for more rows than there are)

ASSUME IvfAssumption ==
  /\ Kinds \subseteq {"brute", "flat", "rabitq", "pq", "scann"}
  /\ Values \subseteq Int /\ Inf \in Int
  /\ \A a, b \in Values : (a - b) * (a - b) < Inf
  /\ Datasets \subseteq Seq(Values) /\ Extras \subseteq Seq(Values)
  /\ Centroids \subseteq Seq(Values) /\ Batches \subseteq Seq(Values)
  /\ Codebooks \subseteq Seq(Int) \ {<<>>}
  /\ SearchKs \subseteq Nat \ {0} /\ Probes \subseteq Int /\ Refines \subseteq Int
  /\ MaxRows \in Nat /\ MaxBlock \in Nat \ {0} /\ MaxRefine \in Nat
  /\ \A C \in Centroids, D \in Datasets : 0 < Len(C) /\ Len(C) <= Len(D)
  /\ {"ignored", "k_over_n"} \cap Habits = Habits

VARIABLES
  ix,    \* the index, NoIndex before it is built
  file,  \* what the last save left
  did    \* the last call: its arguments, whether it succeeded, its answer

ivfVars == <<ix, file, did>>

NoIndex == [kind |-> "none"]
NoFile == [kind |-> "none"]
Cut == [kind |-> "cut"]
Idle == [op |-> "idle"]

NoRow == 0
Missing == <<NoRow, Inf>>
Stray == <<-1, Inf>>   \* a row read before the first of a list
All == {}          \* the filter that is not given

Least(a, b) == IF a < b THEN a ELSE b
Most(a, b) == IF a < b THEN b ELSE a
Dist(a, b) == (a - b) * (a - b)
\* The members of a set of numbers, the least first.
Ascending(S) ==
  [t \in 1 .. Cardinality(S) |-> CHOOSE i \in S : Cardinality({j \in S : j < i}) = t - 1]
\* What a sequence holds at these places, in their order.
At(s, places) ==
  LET place == Ascending(places) IN [t \in DOMAIN place |-> s[place[t]]]
Cat(ss) ==         \* the sequences of ss one after another
  LET upto[i \in 0 .. Len(ss)] == IF i = 0 THEN <<>> ELSE upto[i - 1] \o ss[i]
  IN upto[Len(ss)]
Rows(i) == Len(i.x)
Lists(i) == Len(i.centroids)
Allowed(filter, id) == filter = All \/ id \in filter

\* What a call meets: its policy, and the device that runs each primitive.
Devices ==
  {[policy |-> res.policy,
    ran |-> [op \in {"pairwise", "topk", "gather", "adc", "scan"} |-> Ran(res, op, FALSE)]] :
     res \in Settings}
Ok(dev, op) == dev.ran[op] # "none"
DropsStatus(kind) == kind \in {"flat", "rabitq", "scann"}

\* The places of the k best scores, the lower place first among equals.
TopK(scores, k) ==
  LET before(i) == {j \in DOMAIN scores : \/ scores[j] < scores[i]
                                          \/ scores[j] = scores[i] /\ j < i}
  IN [t \in 1 .. Least(k, Len(scores)) |->
       CHOOSE i \in DOMAIN scores : Cardinality(before(i)) = t - 1]

\* What the primitives leave in buffers of zeros.
Pairwise(dev, p, ys) ==
  [j \in DOMAIN ys |-> IF Ok(dev, "pairwise") THEN Dist(p, ys[j]) ELSE 0]
\* The GPU names no place (0) where only infinite scores are left.
Best(dev, scores, k) ==
  LET best == TopK(scores, k) IN
  [t \in DOMAIN best |-> CASE ~Ok(dev, "topk") -> 1
                           [] dev.ran["topk"] = "gpu" /\ scores[best[t]] = Inf -> 0
                           [] OTHER -> best[t]]
Value(dev, v) == IF Ok(dev, "topk") THEN v ELSE 0
Gathered(dev, x, ids) ==
  [t \in DOMAIN ids |-> IF Ok(dev, "gather") THEN x[ids[t]] ELSE 0]

Label(dev, p, centroids) == Best(dev, Pairwise(dev, p, centroids), 1)[1]
Labels(dev, xs, centroids) ==
  [i \in DOMAIN xs |-> Label(dev, xs[i], centroids)]

\* build_ivf_lists: rows in ascending order.
ListsOf(labels, nlist) ==
  [c \in 1 .. nlist |-> Ascending({i \in DOMAIN labels : labels[i] = c})]

pq_encode(resid, codebook) ==
  CHOOSE c \in DOMAIN codebook :
    /\ \A d \in DOMAIN codebook :
         Dist(resid, codebook[c]) <= Dist(resid, codebook[d])
    /\ \A d \in 1 .. c - 1 :
         Dist(resid, codebook[d]) > Dist(resid, codebook[c])
\* Mutant: the codes of the vectors, not of their residuals.
CodesOfVectors(xs, labels, centroids, codebook) ==
  [i \in DOMAIN xs |-> pq_encode(xs[i], codebook)]
Codes(xs, labels, centroids, codebook) ==
  [i \in DOMAIN xs |-> pq_encode(xs[i] - centroids[labels[i]], codebook)]

\* make_ivf_pq_packed: rows and codes list after list; refused unless the
\* lists hold every row once, each in the list it is assigned to.
Packable(n, assign, lists) ==
  LET ids == Cat(lists) IN
  /\ Len(ids) = n
  /\ \A i, j \in DOMAIN ids : ids[i] = ids[j] => i = j
  /\ \A c \in DOMAIN lists : \A t \in DOMAIN lists[c] :
       lists[c][t] \in 1 .. n /\ assign[lists[c][t]] = c
Packed(lists, codes) ==
  [offsets |-> [c \in 1 .. Len(lists) + 1 |-> Len(Cat(SubSeq(lists, 1, c - 1)))],
   ids |-> Cat(lists),
   codes |-> [p \in DOMAIN Cat(lists) |-> codes[Cat(lists)[p]]]]
NoPack == [offsets |-> <<>>, ids |-> <<>>, codes |-> <<>>]

Usable(kind, dev) ==
  \/ ~DropsStatus(kind) \/ "ignored" \in Habits
  \/ \A op \in {"pairwise", "topk", "gather"} : Ok(dev, op)
\* kmeans_fit_impl and pq_train reach an end.
Trains(dev) == Ok(dev, "pairwise") /\ Ok(dev, "topk")

-----------------------------------------------------------------------------
Index(kind, x, centroids, codebook, assign, lists, codes) ==
  [kind |-> kind, x |-> x, centroids |-> centroids, codebook |-> codebook,
   assign |-> assign, lists |-> lists, codes |-> codes,
   packed |-> IF kind \in {"pq", "scann"} THEN Packed(lists, codes) ELSE NoPack]

IvfInit == ix = NoIndex /\ file = NoFile /\ did = Idle

Call(op, ok) == did' = [op |-> op, ok |-> ok]

BuildBrute(D) ==
  ix' = Index("brute", D, <<>>, <<>>, <<>>, <<>>, <<>>) /\ Call("build", TRUE)

\* ovvsIvfFlatBuild: no status is looked at.
BuildFlat(D, C, dev) ==
  /\ ix' = Index("flat", D, C, <<>>, <<>>, ListsOf(Labels(dev, D, C), Len(C)), <<>>)
  /\ Call("build", TRUE)

\* ovvsIvfRabitqBuild: nor here.  Signs and scale are the residual itself.
Residuals(xs, labels, centroids) ==
  [i \in DOMAIN xs |-> xs[i] - centroids[labels[i]]]
BuildRabitq(D, C, dev) ==
  LET labels == Labels(dev, D, C) IN
  /\ ix' = Index("rabitq", D, C, <<>>, labels, ListsOf(labels, Len(C)),
                 Residuals(D, labels, C))
  /\ Call("build", TRUE)

\* ovvsIvfPqBuild.
BuildPq(kind, D, C, B, dev) ==
  LET labels == Labels(dev, D, C)
      lists == ListsOf(labels, Len(C))
      ok == Trains(dev) /\ Packable(Len(D), labels, lists) IN
  /\ ix' = IF ok THEN Index(kind, D, C, B, labels, lists, Codes(D, labels, C, B))
           ELSE NoIndex
  /\ Call("build", ok)

\* ovvsScannBuild: an inner index over scaled rows, and the rows.
BuildScann(D, C, B, dev) == BuildPq("scann", D, C, B, dev)

Build ==
  /\ ix = NoIndex /\ did = Idle
  /\ \E kind \in Kinds, D \in Datasets, C \in Centroids, B \in Codebooks,
        dev \in Devices :
       /\ Usable(kind, dev)
       /\ CASE kind = "brute" -> BuildBrute(D)
            [] kind = "flat" -> BuildFlat(D, C, dev)
            [] kind = "rabitq" -> BuildRabitq(D, C, dev)
            [] kind = "pq" -> BuildPq("pq", D, C, B, dev)
            [] kind = "scann" -> BuildScann(D, C, B, dev)
  /\ UNCHANGED file

\* New rows go to the ends of their lists.
Appended(lists, old, labels) ==
  [c \in DOMAIN lists |->
    LET fresh == Ascending({i \in DOMAIN labels : labels[i] = c})
    IN lists[c] \o [t \in DOMAIN fresh |-> old + fresh[t]]]

\* ovvsIvfFlatExtend: no status is looked at.
ExtendFlat(E, dev) ==
  /\ ix' = [ix EXCEPT !.x = @ \o E,
              !.lists = Appended(@, Rows(ix), Labels(dev, E, ix.centroids))]
  /\ Call("extend", TRUE)

\* ovvsIvfRabitqExtend: nor here.
ExtendRabitq(E, dev) ==
  LET labels == Labels(dev, E, ix.centroids) IN
  /\ ix' = [ix EXCEPT !.x = @ \o E, !.assign = @ \o labels,
              !.lists = Appended(@, Rows(ix), labels),
              !.codes = @ \o Residuals(E, labels, ix.centroids)]
  /\ Call("extend", TRUE)

\* Mutant: the rows are appended before the devices answer.
ExtendPqInPlace(E, dev) ==
  IF Trains(dev) THEN ExtendRabitq(E, dev)
  ELSE ix' = [ix EXCEPT !.x = @ \o E] /\ Call("extend", FALSE)

\* ovvsIvfPqExtend: everything is made aside, then swapped in.
ExtendPq(E, dev) ==
  LET labels == Labels(dev, E, ix.centroids)
      assign == ix.assign \o labels
      lists == Appended(ix.lists, Rows(ix), labels)
      codes == ix.codes \o Codes(E, labels, ix.centroids, ix.codebook)
      ok == Trains(dev) /\ Packable(Len(assign), assign, lists)
  IN /\ ix' = IF ok THEN Index(ix.kind, ix.x \o E, ix.centroids, ix.codebook,
                               assign, lists, codes)
              ELSE ix
     /\ Call("extend", ok)

Extend ==
  /\ ix.kind \in {"flat", "rabitq", "pq"} /\ did = Idle
  /\ \E E \in Extras, dev \in Devices :
       /\ Usable(ix.kind, dev) /\ Rows(ix) + Len(E) <= MaxRows
       /\ CASE ix.kind = "pq" -> ExtendPq(E, dev)
            [] ix.kind = "flat" -> ExtendFlat(E, dev)
            [] ix.kind = "rabitq" -> ExtendRabitq(E, dev)
  /\ UNCHANGED file

\* What the three formats hold.
FlatFile(i) == [kind |-> "flat", centroids |-> i.centroids, x |-> i.x,
                lists |-> i.lists]
RabitqFile(i) == [kind |-> "rabitq", centroids |-> i.centroids, codes |-> i.codes,
                  assign |-> i.assign, x |-> i.x, lists |-> i.lists]
PqFile(i) == [kind |-> "pq", centroids |-> i.centroids, codebook |-> i.codebook,
              codes |-> i.codes, x |-> i.x, assign |-> i.assign, lists |-> i.lists]

\* Serialize writes over the old file; a write that fails leaves it cut.
Serialize ==
  /\ ix.kind \in {"flat", "rabitq", "pq"} /\ did = Idle
  /\ \E ok \in BOOLEAN :
       /\ file' = IF ~ok THEN Cut
                  ELSE CASE ix.kind = "flat" -> FlatFile(ix)
                         [] ix.kind = "rabitq" -> RabitqFile(ix)
                         [] ix.kind = "pq" -> PqFile(ix)
       /\ Call("save", ok)
  /\ UNCHANGED ix

\* What each Deserialize makes of a whole file; only PQ looks at the lists,
\* from which it packs anew.
LoadFlat(f) == Index("flat", f.x, f.centroids, <<>>, <<>>, f.lists, <<>>)
LoadRabitq(f) == Index("rabitq", f.x, f.centroids, <<>>, f.assign, f.lists, f.codes)
LoadPq(f) ==
  IF Packable(Len(f.x), f.assign, f.lists)
  THEN Index("pq", f.x, f.centroids, f.codebook, f.assign, f.lists, f.codes)
  ELSE NoIndex

\* The handle that is loaded takes the place of ix.
Deserialize ==
  /\ file # NoFile /\ did = Idle
  /\ LET loaded == CASE file = Cut -> NoIndex
                     [] file.kind = "flat" -> LoadFlat(file)
                     [] file.kind = "rabitq" -> LoadRabitq(file)
                     [] file.kind = "pq" -> LoadPq(file)
     IN /\ ix' = IF loaded = NoIndex THEN ix ELSE loaded
        /\ Call("load", loaded # NoIndex)
  /\ UNCHANGED file

-----------------------------------------------------------------------------
(***************************************************************************)
(* Searches.  A search s has q, the queries, k, nprobe, krefine, filter    *)
(* and dev.  An answer holds k pairs <<row, distance>>.                    *)
(***************************************************************************)
Nprobe(i, s) == Most(1, Least(s.nprobe, Lists(i)))
Krefine(s) == IF s.krefine < s.k THEN s.k ELSE s.krefine
Coarse(i, s, p) ==
  LET scores == Pairwise(s.dev, p, i.centroids) IN
  IF Ok(s.dev, "topk") THEN TopK(scores, Nprobe(i, s))
  ELSE [t \in 1 .. Nprobe(i, s) |-> 1]
Filled(found, k) ==
  [t \in 1 .. k |-> IF t <= Len(found) THEN found[t] ELSE Missing]

\* Gather, rescore and choose: the end of every search but brute force.
Rescored(i, s, p, ids) ==
  LET sc == Pairwise(s.dev, p, Gathered(s.dev, i.x, ids))
      best == Best(s.dev, sc, s.k)
  IN Filled([t \in DOMAIN best |-> <<ids[best[t]], Value(s.dev, sc[best[t]])>>], s.k)

\* brute_search_impl: the answers of all queries lie one after another at
\* the stride of prim_topk, which is k cut to the rows there are; a cell it
\* leaves alone keeps what the caller had there (Missing).
BruteAnswers(i, s) ==
  LET kk == Least(s.k, Rows(i))
      scores(q) == [r \in 1 .. Rows(i) |->
                     IF Allowed(s.filter, r) THEN Dist(s.q[q], i.x[r]) ELSE Inf]
      cell(at) == LET q == ((at - 1) \div kk) + 1
                      t == ((at - 1) % kk) + 1 IN
                  IF q > Len(s.q) THEN Missing
                  ELSE LET r == Best(s.dev, scores(q), kk)[t] IN
                       IF r = 0 THEN Missing ELSE <<r, scores(q)[r]>>
  IN [q \in DOMAIN s.q |-> [t \in 1 .. s.k |-> cell((q - 1) * s.k + t)]]

\* ovvsIvfFlatSearch: filtered rows stay, at an infinite distance.
FlatAnswer(i, s, p) ==
  LET cl == Coarse(i, s, p)
      ids == Cat([t \in DOMAIN cl |-> i.lists[cl[t]]])
      sc0 == Pairwise(s.dev, p, Gathered(s.dev, i.x, ids))
      sc == [t \in DOMAIN ids |-> IF Allowed(s.filter, ids[t]) THEN sc0[t] ELSE Inf]
      best == Best(s.dev, sc, s.k)
  IN Filled([t \in DOMAIN best |->
              IF best[t] = 0 THEN Stray
              ELSE <<ids[best[t]], Value(s.dev, sc[best[t]])>>], s.k)

\* ovvsIvfRabitqSearch: filtered rows are left out before the estimate.
RabitqAnswer(i, s, p) ==
  LET cl == Coarse(i, s, p)
      all == Cat([t \in DOMAIN cl |-> i.lists[cl[t]]])
      ids == At(all, {t \in DOMAIN all : Allowed(s.filter, all[t])})
      adc == [t \in DOMAIN ids |->
               Dist(p - i.centroids[i.assign[ids[t]]], i.codes[ids[t]])]
      best == Best(s.dev, adc, Krefine(s))
  IN Rescored(i, s, p, [t \in DOMAIN best |-> ids[best[t]]])

-----------------------------------------------------------------------------
(***************************************************************************)
(* ovvsIvfPqSearch.  Queries are taken in blocks; the lists a block probes *)
(* are laid out one after another (plans), scored in one call, and each    *)
(* query chooses among its own candidates.                                 *)
(***************************************************************************)
ListRows(i, c) == i.packed.offsets[c + 1] - i.packed.offsets[c]
\* cl: the lists each query probes.
RawRows(i, cl, q) ==
  LET upto[t \in 0 .. Len(cl[q])] ==
        IF t = 0 THEN 0 ELSE upto[t - 1] + ListRows(i, cl[q][t])
  IN upto[Len(cl[q])]

\* Where the block that starts at query b ends: after one query at least,
\* before the candidates would outnumber the rows.
BlockEnd(i, cl, b) ==
  LET total[e \in b - 1 .. Len(cl)] ==
        IF e < b THEN 0 ELSE total[e - 1] + RawRows(i, cl, e)
      fits(e) == /\ e - b < MaxBlock
                 /\ \A f \in b + 1 .. e : /\ total[f] <= Rows(i)
                                          /\ total[f - 1] < Rows(i)
  IN CHOOSE e \in b .. Len(cl) :
       fits(e) /\ \A f \in b .. Len(cl) : fits(f) => f <= e
\* The query a block starts with, for each query.
BlockStart(i, cl) ==
  LET start[q \in 1 .. Len(cl)] ==
        IF q = 1 THEN 1
        ELSE IF BlockEnd(i, cl, start[q - 1]) >= q THEN start[q - 1] ELSE q
  IN start

\* The fused scan filters by itself: its plans hold whole lists.
Fused(s) == s.dev.policy = "force_gpu"
\* One plan: the candidates of a query in one list it probes.
Accepted(i, s, c) ==
  LET raw == ListRows(i, c)
      from == i.packed.offsets[c] IN
  IF s.filter = All \/ Fused(s) THEN raw
  ELSE Cardinality({p \in from + 1 .. from + raw :
                      Allowed(s.filter, i.packed.ids[p])})
Plan(i, s, q, c) == [query |-> q, cluster |-> c, rows |-> Accepted(i, s, c)]
Placed(kept) ==
  LET offset[t \in 1 .. Len(kept) + 1] ==
        IF t = 1 THEN 0 ELSE offset[t - 1] + kept[t - 1].rows
  IN [t \in DOMAIN kept |-> [query |-> kept[t].query, cluster |-> kept[t].cluster,
                             rows |-> kept[t].rows, offset |-> offset[t]]]
Plans(i, s, cl, b) ==
  LET all == Cat([q \in 1 .. BlockEnd(i, cl, b) - b + 1 |->
                   [t \in DOMAIN cl[b + q - 1] |-> Plan(i, s, b + q - 1, cl[b + q - 1][t])]])
  IN Placed(At(all, {t \in DOMAIN all : all[t].rows > 0}))

\* The table of a plan at a code, and the positions a plan scans.
Score(i, s, plan, code) ==
  Dist(s.q[plan.query] - i.centroids[plan.cluster], i.codebook[code])
Positions(i, s, plan) ==
  LET from == i.packed.offsets[plan.cluster] IN
  Ascending({p \in from + 1 .. from + ListRows(i, plan.cluster) :
               Allowed(s.filter, i.packed.ids[p])})

\* The scores of a block, plan after plan.
Adc(i, s, plans) ==
  Cat([t \in DOMAIN plans |->
        LET ps == Positions(i, s, plans[t]) IN
        [p \in DOMAIN ps |-> Score(i, s, plans[t], i.packed.codes[ps[p]])]])
CandidateIds(i, s, plans) ==
  Cat([t \in DOMAIN plans |->
        LET ps == Positions(i, s, plans[t]) IN
        [p \in DOMAIN ps |-> i.packed.ids[ps[p]]]])
\* resolve_unfiltered_id: the last plan that begins at or before the offset.
ResolveId(i, plans, dense) ==
  LET t == CHOOSE t \in DOMAIN plans :
             /\ plans[t].offset <= dense
             /\ \A u \in t + 1 .. Len(plans) : plans[u].offset > dense
  IN i.packed.ids[i.packed.offsets[plans[t].cluster] + dense - plans[t].offset + 1]

QueryBegin(plans, q) ==
  LET before == {t \in DOMAIN plans : plans[t].query < q} IN
  IF before = {} THEN 0
  ELSE LET t == CHOOSE t \in before : \A u \in before : u <= t
       IN plans[t].offset + plans[t].rows

\* Mutant: the other queries of the block are forgotten.
DenseOfFirst(plans, q, selected) == selected - 1

\* Where the candidate that top-k chose among those of a query lies in the
\* block.
DenseOffset(plans, q, selected) == QueryBegin(plans, q) + selected - 1

\* The rows a query rescores: by the fused GPU scan (ScanSelect) of its own
\* plans, or by adc of the block and top-k.
FusedShortlist(i, s, plans) ==
  LET ids == CandidateIds(i, s, plans)
      best == TopK(Adc(i, s, plans), Krefine(s))
  IN [t \in DOMAIN best |-> ids[best[t]]]
Shortlist(i, s, plans, q) ==
  LET ids == CandidateIds(i, s, plans)
      best == TopK(SubSeq(Adc(i, s, plans), QueryBegin(plans, q) + 1,
                          QueryBegin(plans, q + 1)), Krefine(s))
  IN [t \in DOMAIN best |->
       LET dense == DenseOffset(plans, q, best[t]) IN
       IF s.filter # All THEN ids[dense + 1]
       ELSE ResolveId(i, plans, dense)]

Selected(i, s, plans, q) ==
  IF Fused(s)
  THEN FusedShortlist(i, s, At(plans, {t \in DOMAIN plans : plans[t].query = q}))
  ELSE Shortlist(i, s, plans, q)
Probed(i, s, cl) ==
  [q \in DOMAIN s.q |->
    Rescored(i, s, s.q[q], Selected(i, s, Plans(i, s, cl, BlockStart(i, cl)[q]), q))]
PqAnswers(i, s) == Probed(i, s, [q \in DOMAIN s.q |-> Coarse(i, s, s.q[q])])

\* Mutant: the status of the gather is dropped.
PqSucceedsUngathered(s) ==
  /\ \A op \in {"pairwise", "topk"} : Ok(s.dev, op)
  /\ IF Fused(s) THEN Krefine(s) <= MaxRefine /\ Ok(s.dev, "scan")
     ELSE Ok(s.dev, "adc")

\* Every status is looked at, and nothing is published unless all are good.
PqSucceeds(s) ==
  /\ \A op \in {"pairwise", "topk", "gather"} : Ok(s.dev, op)
  /\ IF Fused(s)
     THEN Krefine(s) <= MaxRefine /\ Ok(s.dev, "scan")
     ELSE Ok(s.dev, "adc")

\* ovvsScannSearch: krefine rows of the inner index, rescored; only the
\* status of the inner search is looked at.
ScannAnswers(i, s) ==
  LET inner == PqAnswers(i, [s EXCEPT !.k = Krefine(s), !.filter = All])
      ids(q) == LET found == At(inner[q], {t \in DOMAIN inner[q] : inner[q][t][1] # NoRow})
                IN [t \in DOMAIN found |-> found[t][1]]
  IN [q \in DOMAIN s.q |-> Rescored(i, s, s.q[q], ids(q))]

Answers(i, s) ==
  CASE i.kind = "brute" -> BruteAnswers(i, s)
    [] i.kind = "flat" -> [q \in DOMAIN s.q |-> FlatAnswer(i, s, s.q[q])]
    [] i.kind = "rabitq" -> [q \in DOMAIN s.q |-> RabitqAnswer(i, s, s.q[q])]
    [] i.kind = "pq" -> PqAnswers(i, s)
    [] i.kind = "scann" -> ScannAnswers(i, s)
Succeeds(i, s) ==
  CASE i.kind = "brute" -> Ok(s.dev, "pairwise") /\ Ok(s.dev, "topk")
    [] i.kind \in {"pq", "scann"} -> PqSucceeds(s)
    [] OTHER -> TRUE

IvfSearch ==
  /\ ix # NoIndex /\ did = Idle
  /\ \E q \in Batches, k \in SearchKs, nprobe \in Probes, krefine \in Refines,
        filter \in Filters, dev \in Devices :
       LET s == [q |-> q, k |-> k, nprobe |-> nprobe, krefine |-> krefine,
                 filter |-> filter, dev |-> dev] IN
       /\ Usable(ix.kind, dev)
       /\ ix.kind = "brute" => k <= Rows(ix) \/ "k_over_n" \in Habits
       /\ ix.kind = "scann" => filter = All
       /\ did' = IF Succeeds(ix, s)
                 THEN [op |-> "search", ok |-> TRUE, s |-> s, answers |-> Answers(ix, s)]
                 ELSE [op |-> "search", ok |-> FALSE]
  /\ UNCHANGED <<ix, file>>

Return == did # Idle /\ did' = Idle /\ UNCHANGED <<ix, file>>

IvfNext == Build \/ Extend \/ Serialize \/ Deserialize \/ IvfSearch \/ Return
IvfSpec == IvfInit /\ [][IvfNext]_ivfVars

-----------------------------------------------------------------------------
Searched == did.op = "search" /\ did.ok

\* A query gets the same answer alone and in any batch: its candidates, the
\* offsets of its plans and the stride of its cells depend on no other query.
BatchesAnswerAlone ==
  Searched => \A q \in DOMAIN did.s.q :
    did.answers[q] = Answers(ix, [did.s EXCEPT !.q = <<did.s.q[q]>>])[1]

\* A search that reads every list and rescores every candidate is exact: its
\* finite answers are the nearest allowed rows, in order, each once.
FullProbeIsExact ==
  Searched /\ (ix.kind = "brute" \/ did.s.nprobe >= Lists(ix)) /\ did.s.krefine >= Rows(ix)
  => \A q \in DOMAIN did.s.q :
       LET want == {r \in 1 .. Rows(ix) : Allowed(did.s.filter, r)}
           got == At(did.answers[q], {t \in DOMAIN did.answers[q] : did.answers[q][t][2] # Inf})
           far(r) == Dist(did.s.q[q], ix.x[r])
       IN /\ Len(got) = Least(did.s.k, Cardinality(want))
          /\ \A t \in DOMAIN got :
               /\ got[t][1] \in want /\ got[t][2] = far(got[t][1])
               /\ Cardinality({r \in want : far(r) < got[t][2]}) < t
          /\ \A t, u \in DOMAIN got : got[t][1] = got[u][1] => t = u

\* Every row lies in one list, that of its nearest centroid, and what a PQ
\* search reads is the lists and codes of the rows, after every extension,
\* failed or not, and every reload.
RowsLieInTheirLists ==
  ix.kind \in {"flat", "rabitq", "pq", "scann"} =>
    /\ \A r \in 1 .. Rows(ix) : \A c \in 1 .. Lists(ix) :
         Cardinality({t \in DOMAIN ix.lists[c] : ix.lists[c][t] = r}) =
           IF c = TopK([d \in DOMAIN ix.centroids |->
                          Dist(ix.x[r], ix.centroids[d])], 1)[1] THEN 1 ELSE 0
    /\ ix.kind \in {"pq", "scann"} =>
         \A c \in 1 .. Lists(ix) : \A t \in 1 .. ListRows(ix, c) :
           LET p == ix.packed.offsets[c] + t
               r == ix.lists[c][t] IN
           /\ ix.packed.ids[p] = r
           /\ ix.packed.codes[p] =
                pq_encode(ix.x[r] - ix.centroids[c], ix.codebook)
    /\ ix.kind = "rabitq" =>
         \A c \in 1 .. Lists(ix) : \A t \in DOMAIN ix.lists[c] :
           LET r == ix.lists[c][t] IN ix.codes[r] = ix.x[r] - ix.centroids[c]

\* An extension or a load that fails changes nothing of the index.
FailuresChangeNothing ==
  [][did'.op \in {"extend", "load"} /\ ~did'.ok => ix' = ix]_ivfVars

\* docs/devices.md says a call whose forced device does not run an operation
\* returns DEVICE_UNAVAILABLE; IVF-Flat, RaBitQ and ScaNN drop the status.
ForcedFailuresAreReported ==
  Searched => \A op \in {"pairwise", "topk"} : Ok(did.s.dev, op)

\* A filter keeps rows out of the answers; brute force and IVF-Flat report
\* them at an infinite distance when fewer than k are allowed.
FilteredNeverReported ==
  Searched => \A q \in DOMAIN did.answers : \A t \in DOMAIN did.answers[q] :
    LET r == did.answers[q][t][1] IN r = NoRow \/ Allowed(did.s.filter, r)
=============================================================================
