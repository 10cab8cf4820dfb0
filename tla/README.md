# TLA+ models of ovVS

ovVS is a vector-search library with a C ABI (`include/ovvs/ovvs.h`) over a C++
core of about 15 000 lines in `src/`. Much of that core is numeric: distances,
training, quantizers. What makes it hard to get right is elsewhere: a CAGRA index that
is searched while it is mutated, a write-ahead log behind it, a pool of worker
threads, a batcher that answers one thread from another, caches of device memory,
a routing layer that runs one batch on two engines, searches cut into blocks and
tasks, and kernels that must answer what the host loops answer. This directory models
those parts in TLA+, checks them with TLC on small instances, and proves with
TLAPS, for every size of instance, what matters most about them.

Paths below are relative to the repository; `graphs.cpp` is
`src/neighbors/graphs.cpp`, `mixer.cpp` is `src/prim/mixer.cpp`. In
`PROJECT.json` they carry one more `src/` in front, the checkout's own directory.

## 1. The system

| component | state it keeps | operations | interacts with |
|---|---|---|---|
| CAGRA mutable rows (`graphs.cpp` 91-444, 1780-2393) | rows, tombstone bitset, `deleted_count`, generation table, `free_slots`, PQ codes; `writer` mutex and `rw` shared mutex | Delete, Update, Extend, ExtendEx, Quantize, Counts; ids packed and resolved | searches between its phases; the log; the graph repair |
| CAGRA graph repair (837-1072, 1853-2072) | edge rows, journal of overwritten rows | `insert_one`, `relink_one`, `relink_batch`, `robust_prune`, undo | walks read edges with no lock; prunes run on the pool |
| CAGRA durability (141-280, 1621-1778, 2474-2610) | log file, `CagraWal`, snapshot file | append, flush, truncate, Serialize, Deserialize, WalOpen, WalClose | logs each acknowledged mutation, replays it through the same entry points |
| CAGRA search and storage (306-444, 617-765, 1507-1619, 2622-2849) | fp32, fp16 or detached vectors, int8 mirror, PQ codes, calibration | Search, Calibrate, DetachDataset, AttachDataset, Quantize, save and load | searches hold `rw` shared; every mutation rewrites all storages |
| CPU work pool (`src/internal.hpp` 383-456) | `body`, `next`, `end`, `active`, `generation`, `shutdown`, two mutexes, two condition variables | `run`, the worker loop, destructor | graph walks, edge prunes, calibration |
| Dynamic batcher (`src/rt/batcher.cpp`) | queue of queries, waiters on callers' stacks, `last_batch_nq` | Create, Search, Destroy | brute-force search |
| Resources (`src/internal.hpp` 459-562, `src/rt/resources.cpp`) | policy, device flags, counters, the pool, the mirror cache | Create, Destroy, setters | handed to every call |
| Routing (`mixer.cpp` 11-490) | `last_device`, fallback counters | `choose_device`, one function per primitive | CPU, GPU and NPU back ends |
| Hybrid graph walk (`mixer.cpp` 497-841) | two query ranges, a thread, the status of each leg | split, join, fall back to the CPU | the pool, the GPU walk, the mirror |
| PQ-ADC chunk plan (`mixer.cpp` 223-402) | none (a pure plan), saturating counters | plan, dispatch | NPU back end |
| GPU int8 mirror cache (`src/prim/gpu/backend_gpu.cpp` 200-220, 2640-2794) | one mirror per Resources, its key and fingerprint, a process-wide count of frees | look up, rebuild, invalidate | both engines read the mirror; mutations invalidate it |
| NPU request cache (`src/prim/npu/backend_npu.cpp` 192-1102) | compiled requests per shape, fingerprints of the operands in them | look up, compile, fill, infer, retry in tiles, batches of ADC chunks | primitives |
| lists and scans (`src/neighbors/indexes.cpp`, `graphs.cpp` 2856-3375) | brute force, IVF-Flat, IVF-PQ, IVF-RaBitQ, ScaNN: rows, centroids, lists, codes packed by list | build, extend, search in blocks, save, load | primitives through the routing |
| GPU kernels (`backend_gpu.cpp` 760-1120, 1400-2160, 2320-2600, 2800-4560) | work-group memory between barriers, atomics | fused IVF-PQ scan and merge, graph optimizer, NN-descent, graph walk | each has a host loop it must agree with |
| graph construction on the host (`graphs.cpp` 617-1072) | none between calls | NN-descent sweeps, optimizer, PQ walk | the kernels above |
| HNSW, Vamana (`graphs.cpp` 541-615, 1075-1348) | immutable graphs | build, search, serialize | primitives |
| clustering, preprocessing, CPU primitives | none between calls | pure computation | |
| probe, status, energy, SHAVE ELF, bindings, tools, tests | none that changes later, or I/O only | | |

`PROJECT.json` lists every component with its status.

### What is hard here

* **Mutations run in phases.** An insert or update edits rows under `rw`
  exclusively, releases it for a long repair search, takes it again, chunk after
  chunk. Searches run in between; a repair can fail or throw at every one of these
  points; the undo has to find back to the state before.
* **Ids outlive rows.** A tombstoned row is reused by a later insert under a new
  generation, or revived by Update under its old one, while stale entries stay on
  `free_slots`.
* **The log is logical.** Its records are calls, replayed over a snapshot; replay
  must land each insert in the row, and give it the id, the caller was told.
* **Threads share state on stacks.** A pool worker calls a `std::function` of its
  caller's frame, and a batcher writes into waiters in other threads' frames.
* **Caches guess.** The mirror and the NPU operands are recognised by a sample of
  their bytes.
* **One vector, four representations.** fp32 or fp16 rows, an int8 mirror, PQ codes;
  writes, growth, undo, Detach, Quantize and reload touch each of them separately.
* **Everything is cut up.** Queries into blocks, blocks into tasks, tasks into chunks
  of sizes the NPU has graphs for, chunks into lanes: an offset is relative to all of them.
* **Kernels and host loops answer the same question** by different means: bitonic
  networks over padded slots, atomic scatters in any order, hashes that forget.

### What makes the components correct

* rows: an id a caller holds never comes to mean another vector; tombstones are
  counted exactly and never lost to reuse; a failed insert of one chunk leaves rows, vectors
  and tombstones as they were; a failed update leaves its chunk as it was; tables cover the rows they are indexed by.
* durability: what was acknowledged survives a crash, what was deleted stays gone,
  nothing is invented, and recovery ends in a state the index was in before.
* pool: each index of each loop is done exactly once, within the call, and `run`
  and the destructor return.
* batcher: every caller gets its own answers, as if it had searched alone, and
  the flushing thread only writes to frames whose owners are still asleep.
* graph repair: every edge names an existing row; an undone insert leaves the edges as before.
* mirror: a walk reads a mirror of the data it searches, and nobody frees it meanwhile.
* hybrid walk: every query is answered on success, whichever leg failed.
* storage: a search finds as many rows as it walks; all representations hold the
  same vectors; a chunk whose repair reports a failure leaves no trace in any of them, while
  the chunks before it stand.
* NPU requests: a call that succeeds answers from its own operands, a batch all or nothing.
* lists and scans: a query gets the same answer in any batch, full probes are exact,
  failures change nothing.
* kernels: what they answer does not depend on the order of lanes and atomics, and
  is what the host answers.

## 2. Plan

In order of importance. Done parts are described in section 3.

1. `CagraSlots` and `CagraSlotsProofs`; `IdMap`, what ids promise, which
   `CagraSlots` implements. *Done.*
2. `CagraWal` and `CagraWalProofs`: whole mutations, with crashes between any two steps. *Done.*
3. `CpuWorkPool`, `ParallelFor` (its promise, which it implements),
   `KernelInvariants` and `KernelProofs`. *Done.*
4. `Batcher`, proved in `SearchProofs`. *Done*, but for destruction.
5. `CagraGraph` and `CagraGraphProofs`: edges, journal and undo. *Done.* Left: the
   serial path behind `OVVS_CAGRA_SERIAL_MUTATE`.
6. `GraphWalk` and `GraphWalkProofs`: split, legs and join over the promise of
   `ParallelFor`, the mirror cache and a mutator over one Resources. *Done.*
7. `CagraStorage` and `CagraStorageProofs`: the storages of the rows beside searches and
   mutations. *Done.*
8. `NpuRequests`, proved in `NpuProofs`: cached requests, resident operands, batches of
   chunks. *Done.*
9. `Mixer`, the policy table, and `IvfIndexes`, the searches that run over it, proved in
   `SearchProofs`. *Done* for one dimension and one subspace.
10. The computations that are cut up: `AdcPlan` (proved in `NpuProofs`), `NnDescent`,
    `ScanSelect` and `CagraOptimize` (proved in `KernelProofs`), `BeamWalk` (its hash proved in
    `GraphWalkProofs`). *Done.*
11. Left: the serial mutation path; HNSW and Vamana; the union-find of single linkage;
    the command lists of the dense GPU kernels.

Theorem left to prove: `EnginesAgree`, which compares walks that take different numbers
of turns.

## 3. The modules

### CagraSlots, IdMap: rows and ids

`CagraSlots` has one variable per field of `CagraIndex` that decides what an id
means: `n` and `vec` (the dataset), `bits` and `dead` (the size and the set bits
of the tombstone bitset), `deletedCount`, `gens` and `gen` (the size and the values
of the generation table), `freeSlots`, `codeRows` (how many rows have PQ codes). The
call in progress keeps its locals (`slots`, `vecs`, `base`, `origN`, the journal
`prev`, the ids `out` it will report) and a phase `pc`. The `writer` mutex admits one
mutation at a time, so there is one `pc`. Each phase edits its rows one by one
(`DeleteRow`, `WriteRow`, `ReviveRow`, `ClaimRow`, `AppendRow`, `GiveBackRow`); the
repair is one step that succeeds, fails (`"status"`) or throws (`"oom"`). A search may
run wherever `rw` is not held exclusively; it keeps the last id it reported.

The history variables record which insert put a vector into a row, the ids
callers were told, and the rows as the call (or chunk) found them.

`IdMap` is the abstract specification: a store from ids to vectors, tombstones that
may be revived under their id, and ids that, once told to a caller, never come to
name another vector. `IdsKeepTheirPromise` says `CagraSlots` implements it.

### CagraGraph: edges

A row of the graph is the set of its edges. `PublishRow` is the loop that
overwrites the edges of the chunk's rows after the repair search; `GroupLinks` sorts
the back links by target and journals the targets; `Prune` is `robust_prune` on an
fp32 target; on fp16 rows it is two steps, `PruneLocally` and `MapBack`, because
`cagra_prune_rows` has the prune write numbers of its scratch copy into the graph row
and maps them in a second pass, with no lock that keeps searches out. `InsertFails`,
`GiveBack`, `Unwind` (one journal batch, newest first) and `Truncate` are the undo of
ExtendEx; an update undoes no edges. What the search finds and what the prune keeps is
left open: any rows, any nonempty part of the candidates.

### CagraWal: durability

Whole mutations here, applied in memory first (`Mutate`) and then logged
(`AppendRecord`), as in the code. The log is a sequence of records of which a prefix is
synced. `WriteSnapshot` and `Truncate` are the two halves of
`ovvsCagraSerialize`; `ProcessCrash` keeps the files, `PowerCut` keeps at least the
synced prefix and perhaps the old snapshot; `Close` is `ovvsCagraWalClose`. Recovery is one
record at a time: `OpenLog` loads the snapshot, `ReplayRecord` applies the record at `at`
through the same operators as the mutations, with the guard on the row and tombstone counts
that inserts carry (`Applies`), and `CutTail` cuts the log behind the last record that reads
back (`Good`) and lets appends go on. A crash may fall into a recovery. A behaviour begins with one of `Settings`: how many mutations, snapshots
and crashes there may be, whether inserts reuse rows, whether records are synced, and which faults may happen: power
cuts, a full disk, a log that does not reopen, replayed calls that fail.

### CpuWorkPool, ParallelFor: the pool

One action per lock, wait, atomic increment and notification of
`CpuWorkPool::run`, of the worker loop and of the destructor, with spurious wakeups.
`ParallelFor` is its promise: a call applies `fn` to each index once and returns when
all applications have ended. `ThrowingSpec` adds an `fn` that throws in the caller.

### Batcher

`BatcherSearch` runs under one mutex but for its timed wait, so it is two actions,
`Search` (join, perhaps flush) and `WakeUp` (answered, or timed out and flushing).
`Waits` is false for a batcher whose wait time is zero. Answers are symbolic: the
query and the `k` it was searched with; the search of the index may fail.

### GraphWalk: two engines over one Resources

Threads search one index while one thread mutates it, all with the same
Resources. The header asks for one Resources per thread (`ovvs.h` 168), but
`tools/bench/concurrent_rw.py` runs searches and mutations over a single one, and
`gpu_walk_mutex` exists for that.

A call of `prim_graph_walk` has a `pc` and two legs. `Search` routes it: to the CPU,
to the GPU with a fallback (`GpuReturned`), or split between them at `CpuBegin` and
joined (`Join`). A leg over fp32 vectors looks for the int8 mirror: `TakeFingerprint` reads the
generation and a sample of the rows with no lock, `LookupHits` and `LookupBuilds` are
`gpu_int8_mirror` under its mutex. The GPU leg then grows the workspace (`Stage`) and answers its
queries launch by launch (`Launch`); it may fail wherever it can (`GpuFails`), with answers
half written. A launch is one step, because freeing device memory waits for the
kernels that were submitted. `mirror` holds the key, the fingerprint, the verdict and
the buffer with the vectors it was made of; `gen` is `g_usm_free_generation`, which
every free counts up, those of mirrors included. The mutator goes through the phases
that matter to a mirror: write (`UpdateRow`, `Grow` and `AppendRow`), `Invalidate`, the repair search, which is a
walk like the others, and the end or the write-back after a failed prune.

Rows are single values of which `Exact` are those an int8 mirror represents; a
fingerprint samples the rows in `Sampled`. Device memory that cannot be had
leaves the same verdict as inexact data.

### CagraStorage: the vectors

`ds` is `Dataset` (fp32 `x`, fp16 `x16`, the int8 `mirror` and its verdict), `codes` the
PQ codes, `hasDataset` and `n` what their names say in `CagraIndex`. `EnterUpdate`, `EnterInsert`,
`EnterQuantize` and `EnterCalibrate` are the tests these calls make before they take a lock.

An update or an insert works chunk by chunk (`Chunks` holds the sizes `cagra_mutate_chunk` may
give). `WriteRow`, `ClaimRow` and `AppendRow` fill a chunk row by row, and `EndWrite` releases `rw`.
The repair search then succeeds (`Repaired`), reports a failure (`RepairFails`) or throws
(`Throws`, wherever an allocation may). A chunk that was repaired stands, and the call goes on to the
next one or makes the codes anew (`Acknowledged`). After a failure `UndoRow` puts the rows of
this chunk back one by one, in the order they were written; then an update returns at once
(`UpdateFailed`), while an insert truncates what all its chunks appended (`InsertFailed`) and keeps
what the chunks before had claimed. After an exception nothing is undone. Neither way out makes the codes anew.

Two history variables say what is to be found: `want`, for each row the vector of the last chunk that
stands, and `unencoded`, the rows that chunks of failed calls changed since the codes were last made.
`Habits` adds what callers do beyond what the tests do; section 6 says what goes wrong then.

### NpuRequests: what stays in a tensor

A call is made of pieces (`todo`): piece 0 is the whole of it, pieces 1, 2, ... are its tiles,
and those of a batch are its chunks. `Request` is the compiled request that runs the next
of them; `Find`, `Compile`, `Fill`, `Infer` and `Read` are its steps, under the map's mutex
(`gmu`) and that of the request (`smu`). `Fill` skips an operand whose address and samples are
those of the last one; a failed call is split into tiles, once, or fails. An ADC batch is
`Packed` into requests of as many lanes as `Lanes` and `IndexLimit` allow, and its results are
staged until the last of them was read. A buffer's content is what its samples see and the
rest; `Contents` is what callers may write: the comment at `backend_npu.cpp` 206 asks them not to
mutate a large buffer in place where no sample looks, so the samples of a large one tell its
contents apart, unless `Habits` holds "unsampled".

### Mixer, IvfIndexes: searches over lists

`Mixer` says, for each primitive, which devices it tries in which order under each policy.
`IvfIndexes` runs the five kinds of list indexes over it: a call picks the devices that
may run each primitive (`Devices`) and computes its answer from the index exactly as the
code does, in blocks of queries, with the plan of the tasks, the offsets and the strides of the
candidate table, and the cells that no task fills. Vectors are integers (`Values`) of which
`IvfAssumption` asks only that any two are less than `Inf` apart; the runs give the PQ
index a codebook of two code words, so that quantization loses something.

### The computations a call is cut into

Five modules share one configuration, because each is a computation without a neighbour:

* `AdcPlan` is `plan_pq_adc_chunks`, one step per turn of its loops.
* `ScanSelect` is the fused IVF-PQ scan: a work group takes a list a group of rows
  at a time, sorts the new scores with the `krefine` it kept in the network of
  `Bitonic`, and merges the tasks of a query. The width of a group is a field of the call, so that
  one run has several. `ScanAssumption` says that ids and table entries are numbers and that a
  group has a power of two of lanes, 128 at most.
* `CagraOptimize` has the host's pruning of a ranked graph as an operator and the
  kernels as a machine, with the reverse edges scattered in any order. `OptAssumption` says that
  the lists of a graph have one length; `MaxInitialDegree` is the longest the device takes.
* `NnDescent` is `nndescent_build` by its three routes: exact, on the device (`Draw`,
  `Age`, `build_reverse`, `Propose`, `MergeInbox`, `Measure`; inboxes in any order, rows and
  proposals in chunks) and on the host. `NnAssumption` says what a call may be: two rows or
  more, a degree and a number of turns of one or more (`graphs.cpp` 1311, 1326), caps and
  chunks of at least one, and for each row a start and a nonzero step to draw its seeds by.
* `BeamWalk` is the walk of one query by its engines: the host loop, the same loop over PQ
  codes, and the kernels with a work group or a sub-group per query, which remember
  the rows they scored in a table, a cache, a hash of the beam, or the beam alone. A kernel
  commits a tile of ids at once (`CommitTile`) and scores them one by one (`ScoreNext`). The
  engines answer one after another, so that an invariant can compare their answers.
  `BeamWalkAssumption` has rows differ in their distance to the query, and a hash of 2^16
  entries at most; eight hashes of that size would not fit the local memory of a group.

## 4. What the runs check

| run | module | what it shows |
|---|---|---|
| `slots_ids` | CagraSlots | deletes, updates (an id named twice included), inserts of several chunks, repairs that fail or throw: `AckedIdsNeverAlias`, `NoSlotLeaks` |
| `slots_undo` | CagraSlots | one-chunk inserts and updates, repairs that report failure: `AllOrNothing`, `ChunkRestored`, `CountIsExact`, and that the whole implements `IdMap` (`IdsKeepTheirPromise`) |
| `graph_repair` | CagraGraph | `KeptEdgesInRange` at every step a search may run at, `UndoRestoresEdges` after every failure |
| `wal` | CagraWal | two crashes or power cuts without snapshots, with records synced and not; two crashes around a snapshot; every fault at once (5.7 million states): `AckedSurvive`, `DeletedStayGone`, `RecoversAPastState` where log and snapshot can be trusted, `NothingInvented` also where they cannot, if no row is reused |
| `wal_reload_order` | CagraWal | violation of `AckedAlwaysSurvive`: the snapshot drops the order of `free_slots`, so a replayed insert takes another row than its caller was told |
| `pool` | CpuWorkPool | implements `ParallelFor` (`EveryIndexOnce`), no worker uses the `fn` of a call that returned, every call and the destructor end (`RunReturns`, `DestroyEnds`) |
| `batch_eager` | Batcher | each call gets its own answers (`MatchesEager`); a flush writes to blocked calls and forgets none (`WaitersAreBlocked`) |
| `walk` | GraphWalk | every query of a successful call is answered by a leg that ended well; a walk that found all writes invalidated reads a mirror of the very vectors; no GPU walk frees another's mirror |
| `storage` | CagraStorage | a search finds all the rows it walks, between any two phases; the mirror follows the rows; a chunk that failed leaves no trace, chunks before it and chunks whose repair threw stand; the codes are those of all rows but the ones that failed calls changed; loading rounds nothing |
| `npu` | NpuRequests | a call that succeeds has the answers of its own operands, whatever the shared requests held before; an ADC batch gives all its answers or none |
| `ivf` | IvfIndexes | a query gets the same answer alone and in any batch; full probes are exact; rows lie in the lists of their centroids after extensions and reloads; what fails changes nothing |
| `kernels` | MCKernels | `PlanTilesTheOutput` (AdcPlan), `ScanTakesTheNearest` (ScanSelect), `GpuPrunesAsTheHost` (CagraOptimize), `InboxOrderNeverMatters`, `BuildsRankOtherRows` and `Converges` (NnDescent), `EnginesAgree` and `MembersAreTheBeam` (BeamWalk) |

`TypeOK` of each module, `NobodyForgotten` of the pool, `TablesCoverRows` and `RowsAreAddressable`
of the rows and `ForcedDeviceNeverCrosses` of the walk are in no run: they were checked on the same
instances and are proved (section 5) where their module has proofs.

### Bounds, and why they are enough

* Rows, batches and chunks: the index starts with one or two rows and grows to
  three to five, calls take up to two or three vectors, chunks hold one or two. That is
  the least at which one call has a chunk with a claimed and an appended row, a chunk
  before it that succeeded and one after, and a row that two chunks prune.
  `Byte` is 2 so that the bitset of the tombstones is rounded up beyond the rows, as it is with 8.
* `GenHalf` is 4 where the wraparound of the generation must not happen within the
  bound of inserts; it stands for 2^31.
* `Degree` is 1: it makes pruning lossy as soon as a row is offered one back link.
* Crashes: two, so that recovery meets a log it wrote itself. Snapshots: one, since a
  snapshot erases what came before it.
* The pool has two callers and two workers: each of them may be late for
  the other's loop, and the callers queue on `run_mutex`. Loops of 0, 1 and 2 items
  include the inline path and more threads than items.
* The batcher's third thread arrives between two that share a batch; `MaxBatch` is
  twice the largest call so that a batch fills in more than one way.
* Walks: two callers and the mutator, two of the three inside a walk at a time, two searches
  of up to two queries, one mutation or free elsewhere: one split call has two legs that look the mirror up, and
  the other thread's leg, its free or its write falls between any two steps of theirs. One row
  is sampled and one is not, one value fits an int8 and one does not.
* Storage: two callers, three calls, one row at first and three at most, up to two rows a call in
  chunks of one or two; one vector that fits an int8, one that fits an fp16 and one that
  fp16 rounds. Two rows a call are the least at which a chunk stands before one that fails, and
  three calls are a Quantize or a Delete, and two mutations of any kind, or a mutation, a save and a load.
  With `InitRows = 2`, so that an update may change two rows in two chunks before any insert, the
  run passes too (2.4 million states).
* NPU: two threads, two rewrites (so that a buffer may hold again what it held before), a large buffer that may stay resident and a small one that may
  not, batches that fill a request of two lanes and leave one over.
* Lists: up to four rows, two lists, batches of two and three queries over blocks of two, so
  that a block is full and one is not; `Ks` on both sides of what a list holds.
* Kernels: work groups of two and four lanes over lists of two to five rows, so that the last
  group is short; ranked graphs of four, five and six rows (only the larger ones have rows
  that lack two of their sources); builds of three to five rows with two or twelve turns; walks over
  ten rows with beams of two to six slots and hashes of at most 32. `SampleCap`, `ReverseChunk` and
  `ProposalChunk` are scaled down below the number of rows, `SeedFloor` to 2, so that caps and
  chunk borders are met.

### Fairness

`CpuWorkPool` assumes that each caller and each
worker that can run does so eventually (weak fairness per thread), which an operating
system gives; nobody has to call, to destroy or to be woken spuriously. A
`std::mutex` promises no order among its waiters, and a caller could be
overtaken on `run_mutex` for ever: the calls are finitely many (`MaxCalls`) and the
property says that each of them returns then. `NnDescent` is a loop of one thread that waits for its
own kernels: weak fairness of its next step says that the loop goes on (`Converges`). The other modules are
checked for safety alone: the batcher's timed waits and the mutations of an index end by themselves.

`CHECK_DEADLOCK FALSE` stands in the runs whose bounded actions can run out.

## 5. What is proved

For every value of the constants, by TLAPS.

* `CagraSlotsProofs`, under `Bounded` (the repair reports its failures and throws no
  exception; fewer than 2^32 inserts over the life of the index): `TypeOK`,
  `CountIsExact`, `NoSlotLeaks`, `TablesCoverRows`, `AckedIdsNeverAlias`; and
  `RowsAreAddressable`, for fewer than 2^31 inserts. None is inductive by itself. The
  invariant `IInv` adds what the phases know: rows in the chunk's journal are
  distinct, committed, alive, and carry a generation beyond every id ever told
  (`JournalInv`); ids about to be reported are current (`OutInv`); the generation
  table covers exactly the committed rows (`GenInv`); and an id that was told is
  either current or its row has moved on for good (`AckInv`). Without the exception
  clause `CountIsExact` is false, see section 6. On top of `IInv`, under the same assumptions:
  * `IdsKeepTheirPromise`: `CagraSlots` implements `IdMap`, in calls of any number of chunks,
    with ids named twice or not. Each step of a call is mapped to a step of the store or to a
    stutter: claiming or appending a row inserts a fresh id, deleting, writing, reviving
    or restoring one deletes, writes or revives an id, the undo of a failed insert withdraws ids
    nobody was told, and no phase touches an id a caller holds in any other way.
    `RowInv` says that rows below `n` hold vectors, rows beyond hold none, and that the journal
    names rows and vectors there were; this is what makes every undo a legal step.
  * `ChunkRestored`, where a call names each id once (`~Repeats`). `UpdateInv`: the journal
    holds what its rows held when the chunk began, and every row that is in no entry still
    to be put back holds that as well.
  * `AllOrNothing`, where an insert is one chunk (`Batch <= Chunk`). `ExtendInv` says the same of
    rows, occupants and tombstones in an insert, with appended rows beyond what there was; `FreshInv`,
    that no id about to be reported was reported before, so that an insert which reports ids
    is one that succeeded.
  Both hypotheses are needed: section 6 has the counterexamples.
* `CagraGraphProofs`, without further assumption: `TypeOK`, `KeptEdgesInRange`,
  `UndoRestoresEdges`. The invariant says that a row about to be
  pruned is in the newest journal batch, that the oldest batch which holds a row holds
  the edges it had before the call (`UndoInv`), that no row is its own neighbour
  (`RowInv`) -- which is why a half-pruned fp16 row, whose `k` candidates are
  numbered `1 .. k`, still names rows of the index.
* `KernelProofs`, whose inductive invariants and notions stand in `KernelInvariants`. Of
  `CpuWorkPool`, for any callers and any finite set of workers: `TypeOK`, `NobodyForgotten`,
  `FnOutlivesItsUsers`, and that the pool implements `ParallelFor`. The invariant ties `active` to
  the workers that have not left the loop, and the indices handed out to `next`.

  The same module proves `BuildsRankOtherRows` and `InboxOrderNeverMatters` of `NnDescent`, for any
  rows, degrees, turns, seeds, priorities, caps and chunks (`NnAssumption`). The idea both rest on
  is `Firsts`: a list holds the first `k` of a set under a strict order. Only one list does
  (`FirstsUnique`), and inserting a member, whether it is kept or not, gives the firsts of the
  larger set (`FirstsInsert`, `FirstsKeep`), so that the order of insertion is forgotten. `NnInv`
  says phase by phase whose firsts a list holds: the samples of the rows swept so far (`Listed`); a
  row and the part of its inbox that was merged, whichever part that is (`MergedRow`, `Merging`); on
  the host, the rows already ranked (`Sweeping`). Exchanges reorder an inbox and nothing else. That
  drawn seeds are different rows takes a step that is coprime to the number of rows.

  Of `ScanSelect`, for any lists, tables, filters, tasks, `krefine` and width of a group, it proves
  `ScanTakesTheNearest`. The network sorts (`NetworkSorts`, for 1, 2, 4, ... 256 slots and any keys):
  with a threshold on the keys the slots are zeros and ones, a stage turns a block that rises and
  falls into halves of which one is constant and the other rises and falls (`Halver`), so at the
  end of a width every block is in order for every threshold, hence in order (`Threshold`); and a
  stage only exchanges slots (`ExchangeRearranges`). A group that holds the firsts of one set and sorts
  them with another holds the firsts of both (`HoldsMerge`). `ScanInv` says whose firsts they
  are: the rows of a list up to `base`, then the lists of a query up to `base`. Keys differ because
  the running offsets of a query's tasks keep their ordinals apart (`OffsetsRise`), and that is
  where the tests of `valid_tasks` are needed.

  Of `CagraOptimize`, for any ranked graphs, degrees and orders of arrival, it proves
  `GpuPrunesAsTheHost`. `OptInv` follows the kernels: after the first each row is sorted by id, so that
  bisection ends at the entry it looks for (`LowerBoundIs`: each turn makes what is left at least
  one shorter) and a look-up is the host's `rank_of` (`LookupIs`); so the keys
  of the second are the host's candidates, and the network leaves them in the host's order
  (`ForwardTable`). Reverse keys arrive in any order, but each turn of the last kernel keeps the firsts of
  what arrived (`BestFirsts`), which are the firsts of what the host accepts. A merged row
  is valid because forward edges differ from each other and accepted sources from all of them
  (`MergedIsValid`).
* `GraphWalkProofs`, for any number of threads, rows, queries and samples, any split and
  any policies: `TypeOK`, `WalksScoreTheDataset`, `GpuWalksKeepTheirMirror`,
  `ForcedDeviceNeverCrosses`, `EveryQueryAnswered`. The invariant says that fingerprints come
  from generations already counted, and that a mirror whose fingerprint has the current
  generation is a copy of the vectors unless a write still waits for its invalidation
  (`MirrorInv`, `LookOk`), which is why sampling a few rows does no harm; that vectors change only
  while no walk is inside (`QuietInv`); that an fp32 GPU leg holds `gpu_walk_mutex` from its
  lookup on (`MutexInv`); and that each query is one leg's to answer, until it is
  answered or that leg has failed (`AnswersOk`).

  The same module proves `MembersAreTheBeam` of `BeamWalk`, for any graph, query, filter, beam,
  width, tile and cache. `BeamInv` says that the probe of every hashed id gets to it without
  meeting an empty slot (`Reached`), which an eviction keeps because it marks its slot; that the
  hash holds the ids of the beam, each once (`Aligned`); that the slots in use are the beam and
  the tombstones, and that tombstones are bounded, since an eviction that leaves the
  hash crowded has it rebuilt (`Counted`), so that every probe ends (`RoomLeft`); and that the ids
  of a tile differ and are not in the beam (`GoodTile`). The rebuild is a recursive function over
  the beam; that it gives a hash of the whole beam is shown by a least counterexample (`Rebuilt`).
* `SearchProofs`, of `Batcher`, for any threads, batch size, `k` and numbers of queries, with searches that
  fail: `TypeOK`, `MatchesEager`, `WaitersAreBlocked`. The invariant (`Good`) says that the
  queries of each waiter stand in the queue from its offset on, that every waiter has the `k`
  of the queue, and that a call outside the queue has its own answers or an error. It is stated of
  the pair the flush works on, so that a search which joins and then flushes is two uses of two lemmas.

  The same module proves of `IvfIndexes`, for any vectors, centroids, codebooks, batches, filters and
  sizes of a block: `FailuresChangeNothing`; `RowsLieInTheirLists`, where no caller runs on after
  a primitive failed whose status the index drops (`"ignored" \notin Habits`);
  `BatchesAnswerAlone`, where brute force is not asked for more rows than it has (`"k_over_n"`);
  `FullProbeIsExact`, where both hold. Section 6 has the counterexample to each when its
  hypothesis is dropped. `RightInv` says that the lists of the index, in memory and in the
  file, hold each row once, in the list of its nearest centroid (`Sorted`), and that packed
  lists, codes and offsets follow them; `AskedInv`, that what a successful search answered is what
  `Answers` computes from the index as it is. What is left is arithmetic on a frozen index. A plan of
  tasks is laid out query after query, offsets running on (`Laid`), so the part of
  the candidate table a query reads is what that query alone would have filled (`ChosenOf`). With every
  list probed and nothing cut short that part lists every allowed row once (`Enumerates`), and
  the `k` best of it do not depend on the order it is in. Sequences are cut, joined
  and ranked all along; `Cat`, `TopK` and ranks in finite sets have their lemmas first.
* `CagraStorageProofs`, for any callers, vectors and bounds: `TypeOK`, `NoStrayAccess`,
  `SearchesFindTheirRows` and `MirrorIsTheRows`, where no call steps between another one's test
  for the dataset and its lock and only detached indexes are attached to (`Orderly`);
  `RowsKeepTheirVectors`, where moreover nothing is saved while a mutation is under way
  (`SavesAtRest`) and no update names an id twice (`NamesIdsOnce`); `CodesEncodeTheRows`, where
  besides the vectors attached are those the index had (`AttachesItsOwn`); `LoadKeepsVectors`. Calls
  may have any number of chunks of any sizes, and each repair may succeed, fail or throw. The hypotheses
  name what `Habits` may not hold, and each is
  needed: TLC violates the property when it is dropped (section 6). Three invariants, one on top
  of the other: `ShapeInv` says which arrays have how many rows, by the phase of the call;
  `KeepInv` that every row holds the vector of the last chunk that stands, but for the rows of
  the current chunk that are not put back yet, which hold the new ones, and that the chunk has kept
  what each of its rows held; `CodesInv` that the codes, in memory and in the file, are those of these
  vectors, but for the rows in `unencoded` and those that chunks of the running call have changed.
* `NpuProofs`, of `NpuRequests`, for any threads, menu of calls, buckets, lanes and limits: `TypeOK`;
  `BatchAllOrNothing`; `AnswersAreOwn` where callers keep the contract of the fingerprints
  (`FullySampled`). `RunInv` says who holds which mutex and that the pieces of a call which are still to
  run or already answered make up the call (`CallInv`). `AnswerInv` says that a tensor
  with a fingerprint holds the very bytes that were fingerprinted (`SlotsInv`), that the thread which
  runs a request finds its own operands in it (`Filling`), and that each answered piece
  has its answer (`Progress`). How chunks are packed into lanes is a set of lemmas about `LaneOf`, `Taken`
  and `ChunkIn`: every request takes at least one chunk, and no two of them share a lane. The same module proves
  `PlanTilesTheOutput` of `AdcPlan`, for any tasks: the chunks so far cover exactly the rows below
  the expected output and the consumed rows of the current task.
* `CagraWalProofs`, for any settings, vectors, batches and numbers of crashes: `NothingInvented`,
  and `AckedSurvive`, `DeletedStayGone` and `RecoversAPastState`. What the settings must be is part of
  these properties (`Trusted`, `Durable`), and each part is needed: section 6 has a run against each
  that is dropped. There are two arguments. Where no row is reused, every vector and record names
  what was given under that very row, in memory, in the log and in both snapshots (`GivenInv`);
  this holds under any fault. Where the log can be trusted there is a chain (`Chain`): indexes
  `was[1], was[2], ...`, each of which the next good record of the log takes to the following one
  (`Links`). The snapshot is one of them, `was[b]`; the index in memory is the last one, or the
  one before the record that is pending, or the one at which the replay stands (`Standing`); and
  whatever a power cut may leave of the log ends at one that holds what callers were told
  (`PromisesOk`). The records before `b`, which a crash between snapshot and truncation replays a second time, need the hardest
  step: each of them is refused, or names only rows that it, or a later record up to `b`, brings to
  where the snapshot has them (`Kept`, `Catching`), so that at `b` the index is the snapshot again.

Each proof has `Init => IInv`, one lemma per action for `IInv /\ [Next]_vars => IInv'`,
and `IInv => Inv`. The strengthened invariants were checked by TLC first, but for `RightInv`,
`NnInv`, `ScanInv` and `OptInv`, which quantify over numbers and lists without a bound: of these
TLC checks the consequences. Recursive functions and folds are met by a least counterexample: the
first turn after which the claim fails.

Model-checked only: `TypeOK` of `CagraWal` (an insert that reuses rows is a fold over its
vectors, and what a fold does to the free list takes induction over data); `EnginesAgree` of
`BeamWalk` (two loops that take a different number of turns); the liveness of the pool and of NN-descent
(`RunReturns`, `DestroyEnds`, `Converges`), which is out of the prover's reach.

## 6. Where code and documentation disagree

One violation is a run (`wal_reload_order`); `PROJECT.json` quotes the sentence it
contradicts. The same modules show the following, with the constants of the run named and
the changes given.

CagraSlots, with `Vec = {v1}`, `InitRows = 1`, `MaxRows = 3`, `MaxInserts = 3`, `MaxFree = 2`, `Batch = 2`,
`Chunk = 2`, `Byte = 2`, `GenHalf = 4`, `Repeats = FALSE`, `Faults = {}` where nothing else is said:

| what | how to see it |
|---|---|
| Between the phases of an insert a search on a quantized index sees more rows than codes. | `CodesCoverRows` |
| A search during an insert that then fails reports an id that is later handed to another vector. | `Faults = {"status"}`: `SeenIdsNeverAlias` |
| An exception out of the repair leaves appended rows that no table covers; deleting one counts it without marking it. | `Faults = {"oom"}`: `CountIsExact` |
| A row reused 2^31 times has a negative id, which no call accepts. | `GenHalf = 2`: `RowsAreAddressable` |
| A failed Update that names one id twice writes back the call's own first vector. | `slots_undo` with `Repeats = TRUE`: `ChunkRestored` |
| An insert of two chunks that fails in the second keeps the rows of deleted vectors the first had claimed; the comment at `graphs.cpp` 2219 keeps "all-or-nothing semantics". | `slots_ids` with `AllOrNothing` |

Edges, log, pool and batcher:

| what | how to see it |
|---|---|
| The edges of a row that a failed insert had claimed are neither journalled nor undone, and may name a truncated row. | `graph_repair` with `EdgesInRange` |
| Between the two writes of an fp16 prune a row holds numbers of the scratch copy; the comment above the publication says readers see old and new valid ids. | `CagraGraph`, action `PruneLocally`; they stay in range (`KeptEdgesInRange`) but are not neighbours |
| A crash between snapshot and truncation applies an insert twice when later deletes restored both counts it was made on. | `wal_reload_order` with `window` TRUE in its setting and `InitRows = 1`: `RecoversAlwaysAPastState` |
| The log is emptied although the snapshot may not be on stable storage. | `wal_reload_order` with `reuse` FALSE and `faults = {"power"}`: `AckedAlwaysSurvive` |
| A record that `fflush` failed to write is acknowledged. | the same with `faults = {"disk"}` |
| A log that does not reopen after truncation goes on acknowledging unlogged mutations. | the same with `faults = {"reopen"}` |
| A mutation whose replay fails is lost and `ovvsCagraWalOpen` succeeds. | the same with `faults = {"replay"}` |
| After a replay that failed, an insert replayed over the same counts may take another row than it did, and an id gets a vector it never had. | `wal_reload_order` with `Vec = {v1}`, `reuse` TRUE, five mutations, one crash and `faults = {"replay"}`: `NothingEverInvented` |
| An `fn` that throws in the calling thread leaves `run` while workers use it; `walk_one` allocates. | `pool` with `SPECIFICATION ThrowingSpec`: `FnOutlivesItsUsers` |
| A batch exceeds `max_batch` when a call joins a queue that is nearly full. | `batch_eager` with `MaxBatch = 3`: `BatchWithinMax` |

Walks and mirrors:

| what | how to see it |
|---|---|
| A lookup that rebuilds the mirror frees the one another walk still reads, or the other leg of the same split call; the mutex meant to prevent it is taken by GPU legs only. | `walk` with `WalksKeepTheirMirror`, also with one caller and `MaxInside = 1` |
| Freeing the old mirror counts up the generation its successor's fingerprint was taken at, so the next walk builds another one, and so on. | `walk` with `BuiltOncePerDataset` |
| Between a write and its invalidation, and after the write-back of a failed update, a walk may take a mirror of the old vectors. | `walk` with `MirrorsAreNeverStale` |
| fp16 walks take no mutex, and two of them stage their queries in the one workspace of the Resources. | `walk` with `Storages = {"f16"}`, `Policies = {"auto"}`, `HybridPercent = 0`, `HeteroMin = 1`, `Values = {0}`, `Sampled = {1}`, `MaxRows = 1`, `MaxEvents = 0`, `Faults = {}`: `WorkspaceIsPrivate` |
| Host and kernels cap the turns of a walk differently (`mixer.cpp` 707, `backend_gpu.cpp` 2838), while `mixer.cpp` 523 says that any split returns the same answer. | `BeamWalk` with `SeedFloor = 32` and one walk over a line of 1000 rows, row i being at distance i and leading to its two neighbours, `hash = 70`, `k = itopk = width = 1`, `patience = 0`, `tile = 64`, `cache = 0`: `AnyEngineAnswersTheSame` |
| The comment at `backend_gpu.cpp` 3243 has the sub-group walk require `beam_dedup` and keep no visited hash; it runs with one as well (2966-2970). | `BeamWalk`, engine `sub_table` |

Storage, NPU, lists:

| what | how to see it |
|---|---|
| Update, ExtendEx, Quantize and Calibrate test for the dataset before they take their lock; a Detach in between leaves them without one. | `storage` with `Habits = {"overlap"}`: `NoStrayAccess` |
| Attaching vectors to an fp16 index that has its own leaves it with two datasets; a later insert extends only one of them, and its mirror by a row that may not fit. | `storage` with `Habits = {"attach_live"}`: `NoStrayAccess`, `MirrorIsTheRows` |
| Attaching other vectors than the rows had leaves codes of the old ones. | `storage` with `Habits = {"attach_other"}`: `CodesEncodeTheRows` |
| An Update that fails in a later chunk returns before the codes are made (`graphs.cpp` 2148), though the vectors of its earlier chunks stand; so does an ExtendEx whose earlier chunks claimed rows (2365), and either of them after an exception (2176, 2383). The codes stay those of the vectors before. | `storage` with `CodesEncodeAllRows` |
| A failed Update that names one id twice writes back the call's own first vector. | `storage` with `Habits = {"repeat"}`: `RowsKeepTheirVectors` |
| Saving while a mutation is under way saves its uncommitted rows. | `storage` with `Habits = {"save_busy"}`: `RowsKeepTheirVectors` |
| A quantized search without fp32 rows reports deleted rows; `ovvs.h` 353 says they are never returned. | `storage` with `DeletedNeverReported` |
| A large buffer rewritten where the 34 samples do not look is taken to be resident. | `npu` with `Habits = {"unsampled"}`: `AnswersAreOwn` |
| IVF-Flat, RaBitQ and ScaNN drop the status of a primitive; `docs/devices.md` 11 says a forced device that cannot run returns DEVICE_UNAVAILABLE. | `ivf` with `Habits = {"ignored"}`: `ForcedFailuresAreReported` |
| Brute force and IVF-Flat report filtered rows, at an infinite distance, when fewer than `k` are allowed; `ovvs.h` 405 says a filter excludes them. | `ivf` with `FilteredNeverReported` |
| Brute force asked for more rows than it has strides its output by the smaller number. | `ivf` with `Habits = {"k_over_n"}`: `BatchesAnswerAlone` |

## 7. What is not modelled

Floating-point arithmetic: distances are integers or an order, and rows differ in them where
a module says so; what equal, infinite or NaN distances do to the order of a `BeamWalk` sort is left out. The dense kernels (gemm,
pairwise, top-k, gather) and the Level Zero command lists, SHAVE and OpenVINO compilation, energy
counters and device probes: numeric or pure I/O. Quantizer training, PCA, k-means, spectral
clustering: numeric; `IvfIndexes` takes what training ends with as given. The byte layout of snapshots
and log records: a record is a value, torn or whole. Destroying an index or a batcher with calls inside,
which no document allows. The serial mutation path behind an environment variable (`graphs.cpp` 2102-2123, 2254-2291). HNSW and Vamana: they are
immutable once built, and their search is the loop of `BeamWalk` or a greedy descent before it.
The counters of Resources. Single linkage and all-neighbours wait for their place in the plan.

Some ways to fail are left out of modules that have the others:

* `CagraStorage`: a first claim that throws while it makes the generation table (`graphs.cpp` 2310),
  after it wrote the row and before it revived it; an fp16 re-encoding that throws after the codes were
  resized (`cagra_pq_encode_all`); a record that cannot be appended to the log after the mutation was
  done (2172, 2379), where the call fails and everything stands, which `CagraWal` has.
  A file with fewer codes than rows, which an insert that threw may leave, is not loaded.
* `CagraGraph`: a claim that throws after an append of the same chunk, before the graph is
  resized to the new rows (2324).
* `CagraWal`: a log that was just read and does not open for update is created anew, empty (2579).
* `NnDescent`: a distance that is not finite ends a device build where it is met, after the
  draw (`backend_gpu.cpp` 1524) or in the join (1986); the model has these refusals in `Preflight`,
  with the others, since nothing of a refused build is used.
