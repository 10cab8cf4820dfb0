----------------------------- MODULE ScanSelect -----------------------------
(***************************************************************************)
(* gpu_ivfpq_scan_select (src/prim/gpu/backend_gpu.cpp): the GPU leg of an *)
(* IVF-PQ search.  One work group per task walks the rows of a list, a     *)
(* work group at a time, and keeps the krefine best in its first slots;    *)
(* one work group per query then merges the tasks of the query.  A row is  *)
(* an id and its code words, a table (lut) gives the score of a code word, *)
(* and a code word outside a table is what a corrupt code holds.           *)
(***************************************************************************)
EXTENDS Bitonic, FiniteSets, FiniteSetsExt

CONSTANT
  Scans   \* the calls that may be made, each with the lanes of a work group
          \* (kWorkGroupSize, 128 in the code)

VARIABLES
  scan,            \* the call
  kernel,          \* "idle", "scan", "merge", "copied" or "returned"
  group_id, base,  \* the task or the query a group works on, its next row or task
  kept,            \* the slots of that group below krefine
  task_slots,      \* what the scan groups stored, one entry per task
  positions,       \* what the merge groups stored, one entry per query
  invalid_input,   \* the flag of the device
  selected         \* what the call answered

scanVars == <<scan, kernel, group_id, base, kept, task_slots, positions, invalid_input, selected>>

Infinite == 1000000   \* +inf and the largest ordinal
Blank == [key |-> <<Infinite, Infinite>>, position |-> -1]
isfinite(score) == -Infinite < score /\ score < Infinite

\* What the callers pass: ids and table entries are numbers, and a work group
\* has a power of two of lanes.
ScanAssumption ==
  \A call \in Scans :
    /\ call.rows \in Seq(ToSet(call.rows)) /\ call.tasks \in Seq(ToSet(call.tasks))
    /\ \A row \in ToSet(call.rows) : row.codes \in Seq(Int)
    /\ \A task \in ToSet(call.tasks) :
         /\ task.query_index \in Int /\ task.query_dense_offset \in Int
         /\ task.list_begin \in Int /\ task.list_count \in Int
         /\ \A word \in DOMAIN task.lut :
              \A code \in DOMAIN task.lut[word] : task.lut[word][code] \in Int
         /\ \A row \in ToSet(call.rows) : DOMAIN row.codes = DOMAIN task.lut
    /\ call.nq \in Nat \ {0} /\ call.krefine \in Nat \ {0}
    /\ \E e \in 0 .. 7 : call.group = Power(e)
ASSUME ScanAssumption

\* Each query's tasks come together, in the order of the queries, lie in the
\* packed rows, carry the running count of rows before them and overlap none
\* of the tasks of the same query.
valid_tasks ==
  /\ \A i \in 1 .. Len(scan.tasks) - 1 :
       scan.tasks[i].query_index <= scan.tasks[i + 1].query_index
  /\ \A i \in 1 .. Len(scan.tasks) :
       LET t == scan.tasks[i]
           follows == i > 1 /\ scan.tasks[i - 1].query_index = t.query_index
       IN /\ t.query_index \in 0 .. scan.nq - 1
          /\ t.list_begin >= 0 /\ t.list_count > 0
          /\ t.list_begin + t.list_count <= Len(scan.rows)
          /\ t.list_count <= Infinite - t.query_dense_offset
          /\ \A word \in DOMAIN t.lut :
               \A code \in DOMAIN t.lut[word] : isfinite(t.lut[word][code])
          /\ t.query_dense_offset =
               IF follows THEN scan.tasks[i - 1].query_dense_offset + scan.tasks[i - 1].list_count
               ELSE 0
          /\ \A j \in 1 .. i - 1 :
               scan.tasks[j].query_index = t.query_index =>
                 \/ t.list_begin >= scan.tasks[j].list_begin + scan.tasks[j].list_count
                 \/ scan.tasks[j].list_begin >= t.list_begin + t.list_count

Row(position) == scan.rows[position + 1]
IdInRange(position) == Row(position).id \in 0 .. Len(scan.rows) - 1
candidate_allowed(position) ==
  scan.filtered => IdInRange(position) /\ Row(position).id \in scan.allow
code_valid(task, position) ==
  \A word \in DOMAIN Row(position).codes :
    Row(position).codes[word] \in DOMAIN task.lut[word]

\* The sum of the entries a row's code words pick, one word at a time.
candidate_score(task, position) ==
  LET codes == Row(position).codes
      sum[words \in 0 .. Len(codes)] ==
        IF words = 0 THEN 0 ELSE sum[words - 1] + task.lut[words][codes[words]]
  IN sum[Len(codes)]

\* The rows a lane raises invalid_input for.
Flagged(task, row) ==
  LET position == task.list_begin + row IN
  /\ row < task.list_count
  /\ \/ scan.filtered /\ ~IdInRange(position)
     \/ candidate_allowed(position) /\ ~code_valid(task, position)
     \/ /\ candidate_allowed(position) /\ code_valid(task, position)
        /\ ~isfinite(candidate_score(task, position))

\* What one lane puts into its incoming slot for row `row` of the list.
Incoming(task, row) ==
  LET position == task.list_begin + row IN
  IF /\ row < task.list_count /\ candidate_allowed(position)
     /\ code_valid(task, position) /\ isfinite(candidate_score(task, position))
  THEN [key |-> <<candidate_score(task, position), task.query_dense_offset + row>>,
        position |-> position]
  ELSE Blank

\* The sort has twice as many slots as the group has lanes.
Widest == CHOOSE e \in 1 .. 8 : Power(e) = 2 * scan.group

\* One turn of a group: the krefine slots it holds, one incoming slot per
\* lane, the rest blank, all sorted.
Turn(held, incoming) ==
  NetworkSort(
    [slot \in 0 .. 2 * scan.group - 1 |->
       IF slot < scan.krefine THEN held[slot]
       ELSE IF slot < scan.krefine + scan.group THEN incoming[slot - scan.krefine]
       ELSE Blank],
    Widest)

NothingKept == [slot \in 0 .. scan.krefine - 1 |-> Blank]
GroupLanes == 0 .. scan.group - 1

ScanInit ==
  /\ scan = [call |-> "none"] /\ kernel = "idle" /\ group_id = 1 /\ base = 0 /\ kept = <<>>
  /\ task_slots = <<>> /\ positions = <<>> /\ invalid_input = FALSE
  /\ selected = [status |-> "none"]

ScanCall ==
  /\ kernel = "idle" /\ scan' \in Scans
  /\ IF scan'.krefine > scan'.group
     THEN kernel' = "returned" /\ selected' = [status |-> "device_unavailable"]
     ELSE IF ~valid_tasks'
     THEN kernel' = "returned" /\ selected' = [status |-> "invalid_argument"]
     ELSE kernel' = "scan" /\ UNCHANGED selected
  /\ kept' = NothingKept'
  /\ UNCHANGED <<group_id, base, task_slots, positions, invalid_input>>

ScanTask == scan.tasks[group_id]

\* The first kernel, one turn of the group of a task: a row per lane.
ScanTurn ==
  /\ kernel = "scan" /\ group_id <= Len(scan.tasks) /\ base < ScanTask.list_count
  /\ kept' = Turn(kept, [lane \in GroupLanes |-> Incoming(ScanTask, base + lane)])
  /\ invalid_input' = (invalid_input \/ \E lane \in GroupLanes : Flagged(ScanTask, base + lane))
  /\ base' = base + scan.group
  /\ UNCHANGED <<scan, kernel, group_id, task_slots, positions, selected>>

\* Mutant: the group stores what it holds before its last, partly filled turn.
StoreListEarly ==
  /\ kernel = "scan" /\ group_id <= Len(scan.tasks)
  /\ base + scan.group > ScanTask.list_count
  /\ task_slots' = Append(task_slots, kept)
  /\ group_id' = group_id + 1 /\ base' = 0 /\ kept' = NothingKept
  /\ UNCHANGED <<scan, kernel, positions, invalid_input, selected>>
\* The group of a task stores its krefine best rows.
StoreList ==
  /\ kernel = "scan" /\ group_id <= Len(scan.tasks) /\ base >= ScanTask.list_count
  /\ task_slots' = Append(task_slots, kept)
  /\ group_id' = group_id + 1 /\ base' = 0 /\ kept' = NothingKept
  /\ UNCHANGED <<scan, kernel, positions, invalid_input, selected>>

\* The merge waits for every group of the scan.
Merge ==
  /\ kernel = "scan" /\ group_id > Len(scan.tasks)
  /\ kernel' = "merge" /\ group_id' = 0
  /\ UNCHANGED <<scan, base, kept, task_slots, positions, invalid_input, selected>>

\* The second kernel, one turn of the group of a query: the list of its next
\* task.  The tasks of a query follow those of the queries before it.
MoreTasks == base < Len(scan.tasks) /\ scan.tasks[base + 1].query_index = group_id

MergeTurn ==
  /\ kernel = "merge" /\ group_id < scan.nq /\ MoreTasks
  /\ kept' = Turn(kept, [lane \in GroupLanes |->
                           IF lane < scan.krefine THEN task_slots[base + 1][lane] ELSE Blank])
  /\ base' = base + 1
  /\ UNCHANGED <<scan, kernel, group_id, task_slots, positions, invalid_input, selected>>

StorePositions ==
  /\ kernel = "merge" /\ group_id < scan.nq /\ ~MoreTasks
  /\ positions' = Append(positions,
                         [rank \in 1 .. scan.krefine |-> kept[rank - 1].position])
  /\ kernel' = IF group_id + 1 = scan.nq THEN "copied" ELSE "merge"
  /\ group_id' = group_id + 1 /\ kept' = NothingKept
  /\ UNCHANGED <<scan, base, task_slots, invalid_input, selected>>

\* The host publishes what it copied only when no lane saw an invalid input.
PublishSelection ==
  /\ kernel = "copied" /\ kernel' = "returned"
  /\ selected' =
       IF invalid_input THEN [status |-> "invalid_argument"]
       ELSE [status |-> "success", positions |-> positions,
             counts |-> [query \in 1 .. scan.nq |->
                           Cardinality({rank \in 1 .. scan.krefine :
                                          positions[query][rank] >= 0})]]
  /\ UNCHANGED <<scan, group_id, base, kept, task_slots, positions, invalid_input>>

ScanNext ==
  \/ ScanCall \/ ScanTurn \/ StoreList \/ Merge \/ MergeTurn \/ StorePositions
  \/ PublishSelection
ScanSpec == ScanInit /\ [][ScanNext]_scanVars

-----------------------------------------------------------------------------
\* The rows of a task that may be taken, and those of all tasks of a query.
Seen(i, count) == {Incoming(scan.tasks[i], row) : row \in 0 .. count - 1} \ {Blank}
Candidates(query) ==
  UNION {Seen(i, scan.tasks[i].list_count) :
           i \in {j \in 1 .. Len(scan.tasks) : scan.tasks[j].query_index = query}}

Best(query) ==
  LET ranked == Ranked(Candidates(query), Precedes)
  IN [rank \in 1 .. scan.krefine |->
        IF rank <= Len(ranked) THEN ranked[rank].position ELSE -1]

\* A selection that succeeds is the krefine nearest allowed rows over all the
\* lists a query probes, ties to the row that comes first, the rest -1: what
\* the CPU leg takes from the dense scores (backend_gpu.cpp 782-1048).
ScanTakesTheNearest ==
  selected.status = "success" =>
    \A query \in 0 .. scan.nq - 1 :
      /\ selected.positions[query + 1] = Best(query)
      /\ selected.counts[query + 1] = Min({scan.krefine, Cardinality(Candidates(query))})
=============================================================================
