------------------------------ MODULE BeamWalk ------------------------------
(***************************************************************************)
(* The walk of one query over a CAGRA graph, by each of its engines: the   *)
(* host loop (walk_one of prim_graph_walk, src/prim/mixer.cpp), the same   *)
(* loop over PQ codes (graph_search_pq, src/neighbors/graphs.cpp) and the  *)
(* kernels of gpu_cagra_walk (src/prim/gpu/backend_gpu.cpp) with a work    *)
(* group or a sub-group per query, which know the rows they scored from a  *)
(* visited table or from the beam alone.  Rows are 0 .. n - 1 and differ   *)
(* in their distance to the query; what equal and infinite distances do to *)
(* the order of a sort is not modelled.  The engines answer the same query *)
(* one after another.                                                      *)
(***************************************************************************)
EXTENDS Integers, Sequences, FiniteSets, SequencesExt, TLC

CONSTANTS
  Walks,       \* [n, graph, dist, allow, hash, k, itopk, width, patience, tile, cache]
  SeedFloor,   \* seeds a walk scores where there are as many rows (32)
  TurnFloor,   \* turns the host may always take (24)
  TurnSlack    \* turns the kernels may take beyond a pick per beam slot (24)

Least(a, b) == IF a < b THEN a ELSE b
Most(a, b) == IF a < b THEN b ELSE a

\* Rows differ in their distance, and a hash has 2^16 entries at most: a
\* sub-group only walks where eight of them fit local memory, which is smaller.
ASSUME BeamWalkAssumption ==
  /\ SeedFloor \in Nat
  /\ \A w \in Walks :
       /\ w.n \in Nat \ {0} /\ w.k \in Nat \ {0} /\ w.itopk \in Nat /\ w.width \in Nat
       /\ w.cache \in Nat /\ w.tile \in Nat /\ w.hash \in Nat
       /\ w.graph \in [1 .. w.n -> Seq(Int)] /\ w.dist \in [1 .. w.n -> Int]
       /\ \A i, j \in 1 .. w.n : w.dist[i] = w.dist[j] => i = j
       /\ 4 * Most(w.itopk, w.k) <= 65536

VARIABLES
  walk,                 \* the query
  engine, step,         \* who walks it, the step that comes next
  frontier,             \* kernels: ids to commit, -1 where there is none
  tile, gate,           \* kernels: ids left to score, by their place in the
                        \* tile; the farthest id when the tile was taken, or -1
  beam,                 \* kernels: the slots of the beam and what goes with them
  seen,                 \* ids of the visited table, or scored by the host
  cand, expanded,       \* host: the candidates and the ids expanded
  turn, stall,          \* turns taken, turns in a row that admitted nothing
  evals,                \* distances the kernel computed
  answers               \* engine -> what it answered

beamVars == <<walk, engine, step, frontier, tile, gate, beam, seen, cand, expanded,
              turn, stall, evals, answers>>

itopk == Most(walk.itopk, walk.k)
search_width == Most(1, walk.width)
BEAM == 2 * itopk
turn_cap(e) == IF e \in {"host", "pq"} THEN Most(TurnFloor, itopk * 6)
               ELSE BEAM \div search_width + TurnSlack
max_iters == turn_cap(engine)
patience == walk.patience

cagra_seed_count == Least(Most(SeedFloor, search_width), walk.n)
\* The seeds, the same on every engine: the hash is that of the query, or for
\* the PQ walk its place in the batch.
Seeds == [s \in 1 .. cagra_seed_count |-> ((s - 1) * 9973 + walk.hash * 13) % walk.n]
allowed(id) == id \in 0 .. walk.n - 1 /\ id \in walk.allow
Closer(a, b) == walk.dist[a + 1] < walk.dist[b + 1]
NearestOf(S, m) == {a \in S : Cardinality({b \in S : Closer(b, a)}) < m}

-----------------------------------------------------------------------------
(***************************************************************************)
(* Which kernels may walk the query.                                       *)
(***************************************************************************)
\* Mutant: the beam stands in for the visited table whatever the seeds.
DedupAlways == TRUE
\* The beam stands in for the table where the seeds cannot overfill it.
DedupAllowed == cagra_seed_count <= itopk

beam_dedup == engine \in {"group_beam", "sub_beam"}
one_sub_group == engine \in {"sub_table", "sub_beam"}
EnginesOf ==
  SelectSeq(<<"host", "pq", "group_table", "sub_table", "group_beam", "sub_beam">>,
            LAMBDA e : e \in {"group_beam", "sub_beam"} => DedupAllowed)

-----------------------------------------------------------------------------
(***************************************************************************)
(* The hash of the ids of the beam: open addressing with tombstones.       *)
(***************************************************************************)
Empty == -1
Tombstone == -2
Powers == {1, 2, 4, 8, 16, 32, 64, 128, 256, 512, 1024, 2048, 4096, 8192, 16384, 32768, 65536}
next_power_of_two(x) ==
  CHOOSE p \in Powers : p >= x /\ \A q \in Powers : q >= x => p <= q
bh_capacity == next_power_of_two(2 * BEAM)

\* 31153 is 2654435761 modulo 2^16, all that a capacity up to 2^16 looks at.
Scatter16(id, size) == (id * 31153) % size
Probe(id, j) == (Scatter16(id, bh_capacity) + j) % bh_capacity
\* The first of the given slots a probe meets; without one the code loops.
FirstSlot(id, slots) ==
  Probe(id, CHOOSE j \in 0 .. bh_capacity - 1 :
              /\ Probe(id, j) \in slots
              /\ \A i \in 0 .. j - 1 : Probe(id, i) \notin slots)
\* The slots that hold one of these ids or marks.
SlotsWith(b, ids) == {s \in DOMAIN b.hash : b.hash[s] \in ids}

bh_contains(b, id) == b.hash[FirstSlot(id, SlotsWith(b, {id, Empty}))] = id
bh_insert(b, id) ==
  LET slot == FirstSlot(id, SlotsWith(b, {Empty, Tombstone})) IN
  [b EXCEPT !.hash[slot] = id,
            !.tombs = IF b.hash[slot] = Tombstone THEN @ - 1 ELSE @]

\* Mutant: the slot of an evicted id is emptied.
bh_clear(b, id) == [b EXCEPT !.hash[FirstSlot(id, SlotsWith(b, {id}))] = Empty]

\* The slot of an evicted id is marked.
bh_remove(b, id) ==
  [b EXCEPT !.hash[FirstSlot(id, SlotsWith(b, {id}))] = Tombstone, !.tombs = @ + 1]
EmptyHash == [slot \in 0 .. bh_capacity - 1 |-> Empty]
\* The ids of the beam, hashed anew one after another.
Rehashed(b) ==
  LET upto[m \in 0 .. Len(b.slots)] ==
        IF m = 0 THEN [b EXCEPT !.hash = EmptyHash, !.tombs = 0]
        ELSE bh_insert(upto[m - 1], b.slots[m].id)
  IN upto[Len(b.slots)]
bh_rebuild_if_crowded(b) ==
  IF (Len(b.slots) + b.tombs) * 4 < bh_capacity * 3 THEN b ELSE Rehashed(b)

\* The cache of ids seen, direct mapped; an id overwrites the one before it.
Cached(id) == /\ one_sub_group /\ walk.cache > 0
              /\ beam.cache[Scatter16(id, walk.cache)] = id
Remember(b, id) == IF one_sub_group /\ walk.cache > 0
                   THEN [b EXCEPT !.cache[Scatter16(id, walk.cache)] = id] ELSE b

-----------------------------------------------------------------------------
(***************************************************************************)
(* The kernels.                                                            *)
(***************************************************************************)
NoBeam == [slots |-> <<>>, worst |-> 1, admitted |-> FALSE, survivors |-> 0,
           hash |-> EmptyHash, tombs |-> 0,
           cache |-> [slot \in 0 .. walk.cache - 1 |-> Empty]]

InBeam(id) == \E i \in DOMAIN beam.slots : beam.slots[i].id = id

\* Whether a commit passes over an id: it was seen, as far as the engine knows.
Known(id) ==
  \/ IF ~beam_dedup THEN id \in seen
     ELSE IF one_sub_group THEN bh_contains(beam, id) ELSE InBeam(id)
  \/ Cached(id)

\* The places of a tile that are not masked, repeated or known.
Kept(ids) ==
  {i \in DOMAIN ids : /\ ids[i] >= 0 /\ ~Known(ids[i])
                      /\ \A j \in 1 .. i - 1 : ids[j] # ids[i]}

\* The farthest slot, the first of equals.
Farthest(list) ==
  CHOOSE i \in DOMAIN list :
    \A j \in DOMAIN list : \/ Closer(list[j].id, list[i].id)
                           \/ list[j].id = list[i].id /\ i <= j

NewSlot(id) == [id |-> id, expanded |-> FALSE]
HashesBeam == one_sub_group /\ beam_dedup

\* An id takes a free slot, or that of the farthest id.
TakeFreeSlot(b, id) ==
  LET joined ==
        [b EXCEPT
          !.slots = Append(@, NewSlot(id)), !.admitted = TRUE,
          !.worst = IF b.slots = <<>> \/ Closer(b.slots[@].id, id) THEN Len(b.slots) + 1 ELSE @]
  IN IF HashesBeam THEN bh_insert(joined, id) ELSE joined
TakeFarthest(b, id) ==
  LET evicted == b.slots[b.worst].id
      known == Remember(b, evicted)
      hashed == IF HashesBeam THEN bh_insert(bh_remove(known, evicted), id) ELSE known
      slots == [b.slots EXCEPT ![b.worst] = NewSlot(id)]
      ranked == [hashed EXCEPT !.slots = slots, !.admitted = TRUE, !.worst = Farthest(slots)]
  IN IF HashesBeam THEN bh_rebuild_if_crowded(ranked) ELSE ranked

capacity == IF step = "seeds" THEN itopk ELSE BEAM
\* An id that got under the gate of its tile.
Admit(b, id) ==
  IF Len(b.slots) < capacity THEN TakeFreeSlot(b, id)
  ELSE IF Closer(id, b.slots[b.worst].id) THEN TakeFarthest(b, id) ELSE b

TileSize == Least(walk.tile, Len(frontier))
CommitTile ==
  LET ids == SubSeq(frontier, 1, TileSize) IN
  /\ step \in {"seeds", "tiles"} /\ DOMAIN tile = {} /\ frontier # <<>>
  /\ tile' = [i \in Kept(ids) |-> ids[i]]
  /\ gate' = IF Len(beam.slots) >= capacity THEN beam.slots[beam.worst].id ELSE -1
  /\ seen' = IF beam_dedup THEN seen ELSE seen \cup {id \in ToSet(ids) : id >= 0}
  /\ frontier' = SubSeq(frontier, TileSize + 1, Len(frontier))
  /\ UNCHANGED <<walk, engine, step, beam, cand, expanded, turn, stall, evals, answers>>

\* The ids of a tile are scored and admitted in their order.
ScoreNext ==
  /\ step \in {"seeds", "tiles"}
  /\ \E i \in DOMAIN tile :
       /\ \A j \in DOMAIN tile : i <= j
       /\ tile' = [j \in DOMAIN tile \ {i} |-> tile[j]]
       /\ beam' = IF gate = -1 \/ Closer(tile[i], gate)
                  THEN Admit([beam EXCEPT !.survivors = @ + 1], tile[i])
                  ELSE Remember(beam, tile[i])
  /\ evals' = evals + 1
  /\ UNCHANGED <<walk, engine, step, frontier, gate, seen, cand, expanded, turn, stall, answers>>

Masked(ids) == [i \in DOMAIN ids |-> IF allowed(ids[i]) THEN ids[i] ELSE -1]

SeedsDone ==
  /\ step = "seeds" /\ frontier = <<>> /\ DOMAIN tile = {} /\ step' = "pick"
  /\ UNCHANGED <<walk, engine, frontier, tile, gate, beam, seen, cand, expanded, turn, stall,
                 evals, answers>>

\* The unexpanded slots nearest to the query, nearest first.
Unexpanded == {i \in DOMAIN beam.slots : ~beam.slots[i].expanded}
PickCount == Least(search_width, Cardinality(Unexpanded))
Picks ==
  LET before(i) == {j \in Unexpanded :
                      \/ Closer(beam.slots[j].id, beam.slots[i].id)
                      \/ beam.slots[j].id = beam.slots[i].id /\ j < i}
  IN [p \in 1 .. PickCount |-> CHOOSE i \in Unexpanded : Cardinality(before(i)) = p - 1]
WithPicksExpanded ==
  [i \in DOMAIN beam.slots |-> [beam.slots[i] EXCEPT !.expanded = @ \/ i \in ToSet(Picks)]]

DEG == Len(walk.graph[1])

Pick ==
  /\ step = "pick"
  /\ IF turn = max_iters \/ Picks = <<>>
     THEN step' = "answer" /\ UNCHANGED <<frontier, beam>>
     ELSE /\ step' = "tiles"
          /\ beam' = [beam EXCEPT !.admitted = FALSE, !.slots = WithPicksExpanded]
          /\ frontier' = Masked([e \in 1 .. PickCount * DEG |->
               walk.graph[beam.slots[Picks[((e - 1) \div DEG) + 1]].id + 1][((e - 1) % DEG) + 1]])
  /\ turn' = IF turn = max_iters THEN turn ELSE turn + 1
  /\ UNCHANGED <<walk, engine, tile, gate, seen, cand, expanded, stall, evals, answers>>

TurnDone ==
  /\ step = "tiles" /\ frontier = <<>> /\ DOMAIN tile = {}
  /\ stall' = IF patience = 0 \/ beam.admitted THEN 0 ELSE stall + 1
  /\ step' = IF patience > 0 /\ stall' >= patience THEN "answer" ELSE "pick"
  /\ UNCHANGED <<walk, engine, frontier, tile, gate, beam, seen, cand, expanded, turn, evals,
                 answers>>

-----------------------------------------------------------------------------
(***************************************************************************)
(* The host loops.                                                         *)
(***************************************************************************)
ScoreSeeds ==
  /\ step = "host_seeds"
  /\ LET ids == {id \in ToSet(Seeds) : allowed(id)} IN
     /\ seen' = ids
     /\ cand' = NearestOf(ids, itopk)
     /\ step' = IF ids = {} THEN "answer" ELSE "host_turn"
  /\ UNCHANGED <<walk, engine, frontier, tile, gate, beam, expanded, turn, stall, evals,
                 answers>>

\* The unexpanded candidates to expand, and the rows they lead to.
HostPicks == NearestOf(cand \ expanded, search_width)
Batch ==
  UNION {{id \in ToSet(walk.graph[pick + 1]) : allowed(id) /\ id \notin seen} :
           pick \in HostPicks}
\* Whether a row of the batch is nearer than the itopk-th candidate.
Enters == \E id \in Batch : Cardinality({c \in cand : Closer(c, id)}) < itopk

Expand ==
  /\ HostPicks # {} /\ turn < max_iters
  /\ expanded' = expanded \cup HostPicks
  /\ seen' = seen \cup Batch
  /\ turn' = turn + 1
  /\ UNCHANGED <<walk, engine, frontier, tile, gate, beam, evals, answers>>

HostSeeds == engine = "host" /\ ScoreSeeds
PqSeeds == engine = "pq" /\ ScoreSeeds

\* A walk that ran out of patience keeps its last batch whole.
HostTurn ==
  /\ engine = "host" /\ step = "host_turn" /\ Expand
  /\ stall' = IF patience = 0 \/ Enters THEN 0 ELSE stall + 1
  /\ IF patience > 0 /\ stall' >= patience
     THEN step' = "answer" /\ cand' = cand \cup Batch
     ELSE step' = "host_turn" /\ cand' = NearestOf(cand \cup Batch, BEAM)

PqTurn ==
  /\ engine = "pq" /\ step = "host_turn" /\ Expand
  /\ cand' = NearestOf(cand \cup Batch, BEAM)
  /\ UNCHANGED <<step, stall>>

HostStops ==
  /\ step = "host_turn" /\ (HostPicks = {} \/ turn = max_iters)
  /\ step' = "answer"
  /\ turn' = IF turn = max_iters THEN turn ELSE turn + 1
  /\ UNCHANGED <<walk, engine, frontier, tile, gate, beam, seen, cand, expanded, stall, evals,
                 answers>>

-----------------------------------------------------------------------------
\* The k nearest of the beam or of the candidates, then -1.
Answer ==
  LET slots == IF engine \in {"host", "pq"} THEN cand ELSE DOMAIN beam.slots
      id(s) == IF engine \in {"host", "pq"} THEN s ELSE beam.slots[s].id
      before(s) == {t \in slots : Closer(id(t), id(s)) \/ (id(t) = id(s) /\ t < s)}
  IN [t \in 1 .. walk.k |->
        IF t <= Cardinality(slots)
        THEN id(CHOOSE s \in slots : Cardinality(before(s)) = t - 1) ELSE -1]

\* The next engine begins with nothing of the one before it.
BeginWalk(e) ==
  /\ engine' = e
  /\ step' = IF e \in {"host", "pq"} THEN "host_seeds" ELSE "seeds"
  /\ frontier' = IF e \in {"host", "pq"} THEN <<>> ELSE Masked(Seeds)'
  /\ tile' = <<>> /\ gate' = -1
  /\ beam' = NoBeam'
  /\ seen' = {} /\ cand' = {} /\ expanded' = {} /\ turn' = 0 /\ stall' = 0 /\ evals' = 0

BeginQuery ==
  /\ engine = "none" /\ walk' \in Walks
  /\ BeginWalk("host") /\ UNCHANGED answers

Done ==
  /\ step = "answer" /\ UNCHANGED walk
  /\ answers' = (engine :> [ids |-> Answer, turns |-> turn, evals |-> evals,
                            survivors |-> beam.survivors]) @@ answers
  /\ LET at == CHOOSE i \in DOMAIN EnginesOf : EnginesOf[i] = engine IN
     IF at < Len(EnginesOf) THEN BeginWalk(EnginesOf[at + 1])
     ELSE /\ engine' = "all" /\ step' = "returned"
          /\ UNCHANGED <<frontier, tile, gate, beam, seen, cand, expanded, turn, stall, evals>>

BeamInit ==
  /\ walk = [k |-> 0] /\ engine = "none" /\ step = "idle" /\ frontier = <<>>
  /\ tile = <<>> /\ gate = -1
  /\ beam = [slots |-> <<>>] /\ seen = {} /\ cand = {} /\ expanded = {}
  /\ turn = 0 /\ stall = 0 /\ evals = 0 /\ answers = <<>>

BeamNext ==
  \/ BeginQuery \/ CommitTile \/ ScoreNext \/ SeedsDone \/ Pick \/ TurnDone
  \/ HostSeeds \/ PqSeeds \/ HostTurn \/ PqTurn \/ HostStops \/ Done

BeamSpec == BeamInit /\ [][BeamNext]_beamVars

-----------------------------------------------------------------------------
\* Neither the split of a batch between the host and the GPU nor the way a
\* kernel remembers what it scored shows in an answer: at patience 0 every
\* engine that stops on its own answers the same ids, and at any patience the
\* kernels do; without a cache a sub-group counts the same work as a work
\* group (mixer.cpp 521-525 and 645, backend_gpu.cpp 2908-2921 and 3238-3243).
Alike(e, f) ==
  /\ answers[e].ids = answers[f].ids
  /\ <<e, f>> \in {<<"group_table", "sub_table">>, <<"group_beam", "sub_beam">>}
       /\ walk.cache = 0 => answers[e] = answers[f]
OutOfTurns(e) == answers[e].turns = turn_cap(e)
EnginesAgree ==
  \A e, f \in DOMAIN answers :
    \/ OutOfTurns(e) \/ OutOfTurns(f)
    \/ walk.patience > 0 /\ {e, f} \cap {"host", "pq"} # {}
    \/ Alike(e, f)

\* What mixer.cpp 523 says of every split; the caps on the turns break it on a
\* line of a thousand rows (Walks with a row per node, 32 seeds).
AnyEngineAnswersTheSame ==
  walk.patience = 0 =>
    \A e, f \in DOMAIN answers : answers[e].ids = answers[f].ids

\* The hash of a sub-group holds the ids of its beam and no others, and a
\* probe for an id that is not there meets an empty slot: every commit of the
\* kernel relies on the one, that it ends at all on the other
\* (backend_gpu.cpp 3282-3289).
MembersAreTheBeam ==
  engine = "sub_beam" =>
    /\ \E slot \in DOMAIN beam.hash : beam.hash[slot] = Empty
    /\ \A id \in 0 .. walk.n - 1 : bh_contains(beam, id) <=> InBeam(id)
=============================================================================
