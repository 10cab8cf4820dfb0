----------------------------- MODULE GraphWalk -----------------------------
(***************************************************************************)
(* A graph walk over the engines (prim_graph_walk, src/prim/mixer.cpp) and *)
(* the memory the engines share through one Resources: the int8 mirror of  *)
(* an fp32 dataset, which both read, and the workspace of the GPU walk     *)
(* (src/prim/gpu/backend_gpu.cpp).  Threads search one index while one     *)
(* thread mutates it; the repair of a mutation is a walk like the others.  *)
(* tools/bench/concurrent_rw.py runs searches and mutations this way, over *)
(* one Resources.                                                          *)
(*                                                                         *)
(* Abstracted: a row is one value; Exact are the values a uint8 holds; the *)
(* fingerprint of a dataset samples the rows in Sampled.  The metric is    *)
(* squared L2, the only one for which the CPU reads the mirror, and the    *)
(* dataset is in shared memory.  A query is answered or it is not: what    *)
(* the walk finds is out of reach here.  The pool is taken at its promise  *)
(* (ParallelFor): queries of the CPU leg end in any order.                 *)
(***************************************************************************)
EXTENDS Integers, Sequences, FiniteSets

CONSTANTS
  Callers, Writer,  \* threads that search, and the one that mutates
  Storages,         \* how the vectors may be stored: "f32", "f16"
  Policies,         \* policies calls may run under
  HybridPercent,    \* OVVS_HYBRID_WALK, 0 when it is not set
  HeteroMin,        \* hetero_min_nq: smaller batches stay on the CPU
  MaxNq,            \* bound: queries of a call
  Values, Exact,    \* contents of a row, and those a uint8 holds exactly
  Sampled,          \* rows the fingerprint reads
  InitRows, InitValue, MaxRows,  \* the index as built, and its bound
  MaxCalls, MaxEvents,  \* bounds: searches; mutations and frees elsewhere
  MaxInside,        \* bound: threads walking at a time
  Faults            \* what may fail: "gpu" walks, the "prune" of a repair

ASSUME GraphWalkAssumption ==
  /\ Writer \notin Callers
  /\ Storages \subseteq {"f32", "f16"}
  /\ Policies \subseteq {"auto", "npu_if_faster", "gpu_if_faster", "hetero",
                         "force_npu", "force_gpu", "force_cpu"}
  /\ HybridPercent \in 0 .. 99 /\ HeteroMin \in Nat /\ MaxNq \in Nat \ {0}
  /\ Exact \subseteq Values /\ InitValue \in Values
  /\ InitRows \in Nat \ {0} /\ MaxRows \in Nat /\ InitRows <= MaxRows
  /\ Sampled \subseteq 1 .. MaxRows
  /\ MaxInside \in Nat \ {0} /\ MaxCalls \in Nat /\ MaxEvents \in Nat
  /\ Faults \subseteq {"gpu", "prune"}

VARIABLES
  storage,
  data, src,   \* the vectors and the address they are at
  gen,         \* g_usm_free_generation
  mirror,      \* gpu_int8_*: key, fingerprint, verdict, buffer and content
  walkMutex,   \* gpu_walk_mutex: the GPU leg that holds it
  ws,          \* gpu_walk_workspace_bytes, counted in queries
  \* A call: where its thread stands, its policy, cpu_begin when it is split,
  \* its two legs, who answered each query last, what it returned.
  pc, pol, split, leg, by, gpuOk, outcome,
  wpc, wprev,  \* the mutator: where it stands, the vectors as it found them
  calls, events,
  \* History: whether vectors were written since the last invalidation, how
  \* many mirrors were built, how often the generation was counted up but for
  \* the frees of mirrors.
  dirty, built, bumps

dataVars == <<storage, data, src, dirty>>
cacheVars == <<gen, mirror, built, bumps>>
gpuVars == <<walkMutex, ws>>
callVars == <<pc, pol, split, by, gpuOk, outcome>>
writerVars == <<wpc, wprev>>
bounds == <<calls, events>>
vars == <<dataVars, cacheVars, gpuVars, callVars, leg, writerVars, bounds>>

Threads == Callers \cup {Writer}
Legs == Threads \X {"cpu", "gpu"}
NoOne == <<"none", "none">>
NoPrint == <<>>

\* What a leg keeps: where it stands, its queries without an answer, the
\* fingerprint it took and whether all writes were invalidated then, the
\* mirror it reads, and who freed that mirror.
Leg(at, qs) ==
  [at |-> at, todo |-> qs, fp |-> NoPrint, sure |-> FALSE, buf |-> 0, img |-> <<>>,
   freedBy |-> "nobody"]

NoMirror == [src |-> 0, rows |-> 0, fp |-> NoPrint, usable |-> FALSE, buf |-> 0, img |-> <<>>,
             made |-> 0]

Init ==
  /\ storage \in Storages
  /\ data = [i \in 1 .. InitRows |-> InitValue]
  /\ src = 1 /\ gen = 0 /\ mirror = NoMirror /\ walkMutex = NoOne /\ ws = 0
  /\ pc = [t \in Threads |-> "idle"] /\ pol = [t \in Threads |-> "none"]
  /\ split = [t \in Threads |-> 0] /\ leg = [l \in Legs |-> Leg("off", {})]
  /\ by = [t \in Threads |-> <<>>] /\ gpuOk = [t \in Threads |-> FALSE]
  /\ outcome = [t \in Threads |-> "none"]
  /\ wpc = "idle" /\ wprev = data
  /\ calls = 0 /\ events = 0
  /\ dirty = FALSE /\ built = 0 /\ bumps = 0

-----------------------------------------------------------------------------
(* The route of a call (mixer.cpp:503-577).                                *)

GpuPolicy(p) == p \in {"auto", "gpu_if_faster", "hetero", "force_gpu"}
HeteroCpuOnly(p, nq) == p = "hetero" /\ nq < HeteroMin

HybridOk(p, nq) ==
  /\ p \in {"auto", "gpu_if_faster", "hetero"} /\ ~HeteroCpuOnly(p, nq)
  /\ HybridPercent > 0 /\ nq >= 2

\* cpu_begin: the rounded share of the GPU, at least one query for each leg.
CpuBegin(nq) ==
  LET share == (HybridPercent * nq + 50) \div 100
  IN  IF share < 1 THEN 1 ELSE IF share > nq - 1 THEN nq - 1 ELSE share

GpuLeg(qs) == Leg(IF storage = "f32" THEN "lock" ELSE "stage", qs)
CpuLeg(qs) == Leg(IF storage = "f32" THEN "print" ELSE "walk", qs)

Legs2(t, c, g) == [leg EXCEPT ![<<t, "cpu">>] = c, ![<<t, "gpu">>] = g]

\* prim_graph_walk up to the start of its legs.
Walk(t, p, nq) ==
  LET cut == CpuBegin(nq)
      off == Leg("off", {})
  IN  /\ pc[t] = "idle"
      /\ Cardinality({x \in Threads : pc[x] # "idle"}) < MaxInside
      /\ IF p = "force_npu"
           THEN /\ outcome' = [outcome EXCEPT ![t] = "unavailable"]
                /\ UNCHANGED <<pc, pol, split, by, gpuOk, leg>>
           ELSE /\ pol' = [pol EXCEPT ![t] = p]
                /\ by' = [by EXCEPT ![t] = [q \in 1 .. nq |-> "none"]]
                /\ IF HybridOk(p, nq)
                     THEN /\ split' = [split EXCEPT ![t] = cut]
                          /\ leg' = Legs2(t, CpuLeg(cut + 1 .. nq), GpuLeg(1 .. cut))
                          /\ pc' = [pc EXCEPT ![t] = "cpu"]
                   ELSE IF GpuPolicy(p) /\ ~HeteroCpuOnly(p, nq)
                     THEN /\ leg' = Legs2(t, off, GpuLeg(1 .. nq))
                          /\ pc' = [pc EXCEPT ![t] = "gpu"]
                          /\ UNCHANGED split
                     ELSE /\ leg' = Legs2(t, CpuLeg(1 .. nq), off)
                          /\ pc' = [pc EXCEPT ![t] = "cpu"]
                          /\ UNCHANGED split
                /\ outcome' = [outcome EXCEPT ![t] = "none"]
                /\ UNCHANGED gpuOk

\* ovvsCagraSearch, which holds rw shared until the call returns.
Search(t) ==
  /\ calls < MaxCalls /\ calls' = calls + 1
  /\ \E p \in Policies, nq \in 1 .. MaxNq : Walk(t, p, nq)
  /\ UNCHANGED <<dataVars, cacheVars, gpuVars, writerVars, events>>

\* The locals of the call end with it.
Return(t, status) ==
  /\ pc' = [pc EXCEPT ![t] = "idle"]
  /\ leg' = Legs2(t, Leg("off", {}), Leg("off", {}))
  /\ outcome' = [outcome EXCEPT ![t] = status]
  /\ pol' = [pol EXCEPT ![t] = "none"] /\ split' = [split EXCEPT ![t] = 0]
  /\ by' = [by EXCEPT ![t] = <<>>] /\ gpuOk' = [gpuOk EXCEPT ![t] = FALSE]

\* The GPU walk of an unsplit call has returned.
GpuReturned(t) ==
  LET g == leg[<<t, "gpu">>]
  IN  /\ pc[t] = "gpu" /\ g.at \in {"ok", "failed"}
      /\ \/ g.at = "ok" /\ Return(t, "success")
         \/ g.at = "failed" /\ pol[t] = "force_gpu" /\ Return(t, "unavailable")
         \/ /\ g.at = "failed" /\ pol[t] # "force_gpu"
            /\ leg' = [leg EXCEPT ![<<t, "cpu">>] = CpuLeg(DOMAIN by[t])]
            /\ pc' = [pc EXCEPT ![t] = "cpu"]
            /\ UNCHANGED <<pol, split, by, gpuOk, outcome>>
      /\ UNCHANGED <<dataVars, cacheVars, gpuVars, writerVars, bounds>>

\* The CPU range is done; a split call goes on to gpu_worker.join().
CpuReturned(t) ==
  /\ pc[t] = "cpu" /\ leg[<<t, "cpu">>].at = "ok"
  /\ IF split[t] > 0
       THEN /\ pc' = [pc EXCEPT ![t] = "join"]
            /\ UNCHANGED <<pol, split, leg, by, gpuOk, outcome>>
       ELSE Return(t, "success")
  /\ UNCHANGED <<dataVars, cacheVars, gpuVars, writerVars, bounds>>

\* Mutant: the fallback does not wait for the thread.
JoinEarly(t) ==
  LET g == <<t, "gpu">>
  IN  /\ pc[t] = "join"
      /\ IF gpuOk[t]
           THEN Return(t, "success")
           ELSE /\ leg' = [leg EXCEPT ![<<t, "cpu">>] = [@ EXCEPT !.at = "walk", !.todo = 1 .. split[t]]]
                /\ pc' = [pc EXCEPT ![t] = "cpu"]
                /\ split' = [split EXCEPT ![t] = 0]
                /\ UNCHANGED <<pol, by, gpuOk, outcome>>
      /\ UNCHANGED <<dataVars, cacheVars, gpuVars, writerVars, bounds>>

\* After the join: the share of a GPU leg that failed is walked on the CPU.
Join(t) ==
  /\ pc[t] = "join" /\ leg[<<t, "gpu">>].at \in {"ok", "failed"}
  /\ IF gpuOk[t]
       THEN Return(t, "success")
       ELSE /\ leg' = [leg EXCEPT ![<<t, "cpu">>] = [@ EXCEPT !.at = "walk", !.todo = 1 .. split[t]]]
            /\ pc' = [pc EXCEPT ![t] = "cpu"]
            /\ split' = [split EXCEPT ![t] = 0]
            /\ UNCHANGED <<pol, by, gpuOk, outcome>>
  /\ UNCHANGED <<dataVars, cacheVars, gpuVars, writerVars, bounds>>

-----------------------------------------------------------------------------
(* The CPU leg (mixer.cpp:593-813).                                        *)

\* walk_one of one query has written its answer.
CpuWalks(t, q) ==
  LET c == <<t, "cpu">>
  IN  /\ leg[c].at = "walk" /\ q \in leg[c].todo
      /\ by' = [by EXCEPT ![t][q] = "cpu"]
      /\ leg' = [leg EXCEPT ![c].todo = @ \ {q},
                            ![c].at = IF leg[c].todo = {q} THEN "ok" ELSE "walk"]
      /\ UNCHANGED <<dataVars, cacheVars, gpuVars, pc, pol, split, gpuOk, outcome,
                     writerVars, bounds>>

-----------------------------------------------------------------------------
(* The mirror (backend_gpu.cpp:2652-2773), for the host and the device.    *)

\* sample_fingerprint.
Fingerprint == <<gen, Len(data), [i \in Sampled \cap DOMAIN data |-> data[i]]>>

TakeFingerprint(l) ==
  /\ leg[l].at = "print"
  /\ leg' = [leg EXCEPT ![l].fp = Fingerprint, ![l].sure = ~dirty, ![l].at = "look"]
  /\ UNCHANGED <<dataVars, cacheVars, gpuVars, callVars, writerVars, bounds>>

SameKey == mirror.src = src /\ mirror.rows = Len(data)
Hit(l) == SameKey /\ mirror.fp = leg[l].fp
Rejected == SameKey /\ ~mirror.usable /\ mirror.buf = 0

\* The leg goes on with mirror m.  Freeing a mirror takes it from its readers.
Holding(l, m, freed) ==
  [x \in Legs |->
    IF x = l THEN [leg[x] EXCEPT !.at = IF x[2] = "gpu" THEN "stage" ELSE "walk",
                                 !.fp = NoPrint, !.buf = m.buf, !.img = m.img]
    ELSE IF freed # 0 /\ leg[x].buf = freed THEN [leg[x] EXCEPT !.freedBy = l[2]]
    ELSE leg[x]]

\* gpu_int8_mirror under gpu_int8_mutex: a hit, or a verdict that stands.
LookupHits(l) ==
  /\ leg[l].at = "look"
  /\ Hit(l) \/ Rejected
  /\ mirror' = [mirror EXCEPT !.fp = leg[l].fp]
  /\ leg' = Holding(l, mirror, 0)
  /\ UNCHANGED <<dataVars, gen, built, bumps, gpuVars, callVars, writerVars, bounds>>

\* The old mirror is freed and a new one built, usable if every value is exact;
\* otherwise it is freed again.  Each free counts in the generation.  (Memory
\* that cannot be had leaves the verdict of an inexact dataset.)
LookupBuilds(l) ==
  /\ leg[l].at = "look"
  /\ ~Hit(l) /\ ~Rejected
  /\ LET key == [NoMirror EXCEPT !.src = src, !.rows = Len(data), !.fp = leg[l].fp]
         drop == IF mirror.buf # 0 THEN 1 ELSE 0
         fits == \A i \in DOMAIN data : data[i] \in Exact
     IN  \/ /\ fits
            /\ built' = built + 1
            /\ mirror' = [key EXCEPT !.usable = TRUE, !.buf = built + 1, !.img = data,
                                   !.made = bumps]
            /\ gen' = gen + drop
         \/ ~fits /\ mirror' = key /\ gen' = gen + drop + 1 /\ UNCHANGED built
  /\ leg' = Holding(l, mirror', mirror.buf)
  /\ UNCHANGED <<dataVars, bumps, gpuVars, callVars, writerVars, bounds>>

\* Some other shared memory of the process is freed.
OtherFree ==
  /\ events < MaxEvents /\ events' = events + 1
  /\ gen' = gen + 1 /\ bumps' = bumps + 1
  /\ UNCHANGED <<dataVars, mirror, built, gpuVars, callVars, leg, writerVars, calls>>

-----------------------------------------------------------------------------
(* The GPU leg (gpu_cagra_walk, backend_gpu.cpp:2775-4630).                *)

\* Mutant: the lock is not taken.
NoLock(t) ==
  /\ leg[<<t, "gpu">>].at = "lock"
  /\ leg' = [leg EXCEPT ![<<t, "gpu">>].at = "print"]
  /\ UNCHANGED <<dataVars, cacheVars, gpuVars, callVars, writerVars, bounds>>

\* fp32 walks take gpu_walk_mutex for their whole length.
Lock(t) ==
  /\ leg[<<t, "gpu">>].at = "lock" /\ walkMutex = NoOne
  /\ walkMutex' = <<t, "gpu">>
  /\ leg' = [leg EXCEPT ![<<t, "gpu">>].at = "print"]
  /\ UNCHANGED <<dataVars, cacheVars, ws, callVars, writerVars, bounds>>

Unlock(t) == walkMutex' = IF walkMutex = <<t, "gpu">> THEN NoOne ELSE walkMutex

\* The workspace of the Resources grows when it is short.
Stage(t) ==
  LET g == <<t, "gpu">>
      need == Cardinality(leg[g].todo)
  IN  /\ leg[g].at = "stage"
      /\ ws' = IF ws < need THEN need ELSE ws
      /\ leg' = [leg EXCEPT ![g].at = "ready"]
      /\ UNCHANGED <<dataVars, cacheVars, walkMutex, callVars, writerVars, bounds>>

\* A launch, one step because a free waits for the kernels submitted so far,
\* answers the next queries; the last one ends the walk.
Launch(t) ==
  LET g == <<t, "gpu">>
  IN  /\ leg[g].at = "ready"
      /\ \E m \in leg[g].todo :
           LET answered == {q \in leg[g].todo : q <= m}
               rest == leg[g].todo \ answered
           IN  /\ by' = [by EXCEPT ![t] = [q \in DOMAIN @ |-> IF q \in answered THEN "gpu" ELSE @[q]]]
               /\ IF rest = {}
                    THEN /\ leg' = [leg EXCEPT ![g] = Leg("ok", {})]
                         /\ gpuOk' = [gpuOk EXCEPT ![t] = TRUE]
                         /\ Unlock(t)
                    ELSE /\ leg' = [leg EXCEPT ![g].todo = rest]
                         /\ UNCHANGED <<gpuOk, walkMutex>>
      /\ UNCHANGED <<dataVars, cacheVars, ws, pc, pol, split, outcome, writerVars, bounds>>

\* It returns false, or throws; a kernel may have written some answers.
GpuFails(t) ==
  LET g == <<t, "gpu">>
  IN  /\ "gpu" \in Faults
      /\ leg[g].at \in {"print", "look", "stage", "ready"}
      /\ \E part \in SUBSET leg[g].todo :
           /\ part # {} => leg[g].at = "ready"
           /\ by' = [by EXCEPT ![t] = [q \in DOMAIN @ |-> IF q \in part THEN "gpu" ELSE @[q]]]
      /\ leg' = [leg EXCEPT ![g] = Leg("failed", {})]
      /\ Unlock(t)
      /\ UNCHANGED <<dataVars, cacheVars, ws, pc, pol, split, gpuOk, outcome, writerVars, bounds>>

-----------------------------------------------------------------------------
(* A mutation (graphs.cpp:2084-2345, 1944-2072): a chunk of one row.       *)

\* rw held exclusively: no search is inside its call.
Exclusive == \A c \in Callers : pc[c] = "idle"

BeginWrite ==
  /\ wpc = "idle" /\ events < MaxEvents /\ events' = events + 1
  /\ wprev' = data

\* ovvsCagraUpdate overwrites a row in place.
UpdateRow ==
  /\ BeginWrite /\ Exclusive
  /\ \E i \in DOMAIN data, v \in Values : data' = [data EXCEPT ![i] = v]
  /\ dirty' = TRUE /\ wpc' = "written"
  /\ UNCHANGED <<storage, src, cacheVars, gpuVars, callVars, leg, calls>>

\* ovvsCagraExtendEx reserves room: the vectors may move to another address,
\* and the block they leave is freed.
Grow ==
  /\ BeginWrite /\ Exclusive
  /\ Len(data) < MaxRows
  /\ \/ src' = 3 - src /\ gen' = gen + 1 /\ bumps' = bumps + 1
     \/ UNCHANGED <<src, gen, bumps>>
  /\ wpc' = "grown"
  /\ UNCHANGED <<storage, data, dirty, mirror, built, gpuVars, callVars, leg, calls>>

AppendRow ==
  /\ wpc = "grown" /\ Exclusive
  /\ \E v \in Values : data' = Append(data, v)
  /\ dirty' = TRUE /\ wpc' = "written"
  /\ UNCHANGED <<storage, src, cacheVars, gpuVars, callVars, leg, wprev, bounds>>

\* Mutant: the repair starts without ovvs_gpu_mirror_invalidate, or with it
\* too late.
NoInvalidate ==
  /\ wpc = "written"
  /\ dirty' = FALSE /\ wpc' = "repair"
  /\ UNCHANGED <<storage, data, src, cacheVars, gpuVars, callVars, leg, wprev, bounds>>

\* ovvs_gpu_mirror_invalidate, at the entry of cagra_relink_batch.
Invalidate ==
  /\ wpc = "written"
  /\ gen' = gen + 1 /\ bumps' = bumps + 1 /\ dirty' = FALSE /\ wpc' = "repair"
  /\ UNCHANGED <<storage, data, src, mirror, built, gpuVars, callVars, leg, wprev, bounds>>

\* The repair search for the row, without rw, on the CPU for fp32 vectors.
Repair ==
  /\ wpc = "repair" /\ wpc' = "search"
  /\ Walk(Writer, IF storage = "f16" THEN "hetero" ELSE "force_cpu", 1)
  /\ UNCHANGED <<dataVars, cacheVars, gpuVars, wprev, bounds>>

\* The mutation ends, or unwinds with its vectors in place.
WriteEnds ==
  /\ wpc = "search" /\ pc[Writer] = "idle"
  /\ wpc' = "idle" /\ wprev' = data
  /\ UNCHANGED <<dataVars, cacheVars, gpuVars, callVars, leg, bounds>>

\* A prune failed: the vectors are put back, and no mirror is invalidated.
WriteBack ==
  /\ "prune" \in Faults
  /\ wpc = "search" /\ pc[Writer] = "idle" /\ Exclusive
  /\ data' = wprev /\ dirty' = TRUE /\ wpc' = "idle"
  /\ UNCHANGED <<storage, src, cacheVars, gpuVars, callVars, leg, wprev, bounds>>

-----------------------------------------------------------------------------

\* Every call has returned and nobody makes another one.
AllQuiet == wpc = "idle" /\ (\A t \in Threads : pc[t] = "idle") /\ UNCHANGED vars

CallerStep(t) == GpuReturned(t) \/ CpuReturned(t) \/ Join(t)
GpuStep(t) == Lock(t) \/ Stage(t) \/ Launch(t) \/ GpuFails(t)
LegStep(l) == TakeFingerprint(l) \/ LookupHits(l) \/ LookupBuilds(l)
WriterStep == UpdateRow \/ Grow \/ AppendRow \/ Invalidate \/ Repair \/ WriteEnds \/ WriteBack

Next ==
  \/ \E c \in Callers : Search(c)
  \/ \E t \in Threads : CallerStep(t) \/ GpuStep(t)
  \/ \E t \in Threads, q \in 1 .. MaxNq : CpuWalks(t, q)
  \/ \E l \in Legs : LegStep(l)
  \/ OtherFree \/ WriterStep \/ AllQuiet

Spec == Init /\ [][Next]_vars

-----------------------------------------------------------------------------
(* Properties.                                                             *)

LegOK(g) ==
  /\ g.at \in {"off", "lock", "print", "look", "stage", "ready", "walk", "ok", "failed"}
  /\ g.todo \subseteq 1 .. MaxNq
  /\ g.buf \in 0 .. built /\ g.freedBy \in {"nobody", "cpu", "gpu"}
  /\ g.at \in {"ready", "walk"} => g.todo # {}

\* Legs have queries while they walk, the walk mutex has the leg that is inside
\* it, and the mirror is a whole one or none.
TypeOK ==
  /\ \A l \in Legs : LegOK(leg[l])
  /\ \A t \in Threads :
       /\ pc[t] \in {"idle", "gpu", "cpu", "join"} /\ split[t] \in 0 .. MaxNq
       /\ DOMAIN by[t] \subseteq 1 .. MaxNq
  /\ walkMutex # NoOne =>
       walkMutex \in Legs /\ leg[walkMutex].at \notin {"off", "lock", "ok", "failed"}
  /\ mirror.buf \in 0 .. built /\ mirror.usable = (mirror.buf # 0)
  /\ Len(data) \in 1 .. MaxRows /\ src \in {1, 2} /\ gen \in Nat /\ ws \in 0 .. MaxNq

\* A mirror is only a guess at the dataset until every write is followed by
\* its invalidation: a walk that found it so reads an exact copy, although
\* the fingerprint samples a part of the rows.
WalksScoreTheDataset ==
  \A l \in Legs : leg[l].buf # 0 /\ leg[l].sure => leg[l].img = data

\* The same without a grace period: no walk reads a mirror of other vectors.
MirrorsAreNeverStale == \A l \in Legs : leg[l].buf # 0 => leg[l].img = data

\* gpu_walk_mutex: no GPU walk frees the mirror another GPU walk reads.
GpuWalksKeepTheirMirror ==
  \A t \in Threads : leg[<<t, "gpu">>].freedBy # "gpu"

\* A call that returns success has every query answered by a leg that ended
\* well, whichever leg failed and whatever it wrote before.
EveryQueryAnswered ==
  [][\A t \in Threads : pc[t] # "idle" /\ outcome'[t] = "success" =>
       \A q \in DOMAIN by[t] : by[t][q] = "cpu" \/ (by[t][q] = "gpu" /\ gpuOk[t])]_vars

\* "A forced device must either run the complete walk or fail; it must never
\* cross into the scalar host path."
ForcedDeviceNeverCrosses ==
  \A t \in Threads : pol[t] = "force_gpu" =>
    \A q \in DOMAIN by[t] : by[t][q] # "cpu"

\* "A rebuild frees the old device buffer, and another in-flight walk may
\* still be reading it": nobody's mirror is freed while he reads it.
WalksKeepTheirMirror == \A l \in Legs : leg[l].freedBy = "nobody"

\* "Built and cached once per dataset": a mirror of these very vectors is not
\* built again, unless the generation was counted up for something else than
\* the free of a mirror.
BuiltOncePerDataset ==
  [][built' # built /\ mirror.usable /\ mirror.img = data /\ mirror.src = src
       => bumps # mirror.made]_vars

\* "Staging is per-call scoped and may overlap freely": a GPU walk has the
\* workspace of its Resources to itself.
WorkspaceIsPrivate ==
  Cardinality({l \in Legs : leg[l].at = "ready"}) <= 1

=============================================================================
