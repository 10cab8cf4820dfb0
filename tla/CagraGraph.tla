----------------------------- MODULE CagraGraph -----------------------------
(***************************************************************************)
(* The graph of a mutable CAGRA index (src/neighbors/graphs.cpp): how a    *)
(* mutation repairs the edges of the rows it wrote, and what it undoes     *)
(* when it fails.  cagra_relink_batch searches for the neighbours of each  *)
(* row of a chunk, publishes them as the row's own edges, and then offers  *)
(* the row to each neighbour as a back link, pruning the neighbour's row   *)
(* to the degree.  An insert journals the rows it prunes.                  *)
(*                                                                         *)
(* Abstracted: a row of the graph is the set of its edges (-1 is no edge); *)
(* the repair search finds any rows of the index; the prune keeps any      *)
(* nonempty part of its candidates.  Which tombstone an insert claims is   *)
(* CagraSlots' concern, here it is any.  The serial path behind            *)
(* OVVS_CAGRA_SERIAL_MUTATE is left out.                                   *)
(***************************************************************************)
EXTENDS Integers, Sequences, FiniteSets

CONSTANTS
  InitRows,  \* rows of the freshly built index
  MaxRows,   \* bound: rows the index may grow to
  Degree,    \* edges of a row
  Batch,     \* bound: ids or vectors in one call
  Chunk,     \* rows per mutation chunk (cagra_mutate_chunk)
  MaxCalls,  \* bound: calls that mutate
  Faults     \* how a repair may fail: "status", "oom"

ASSUME CagraGraphAssumption ==
  /\ InitRows \in Nat \ {0} /\ MaxRows \in Nat /\ InitRows <= MaxRows
  /\ Degree \in Nat \ {0} /\ Batch \in Nat \ {0} /\ Chunk \in Nat \ {0}
  /\ MaxCalls \in Nat
  /\ Faults \subseteq {"status", "oom"}

VARIABLES
  f16,       \* whether the vectors are stored as fp16
  n, graph,  \* rows 0 .. n-1 and their edges
  dead,      \* the tombstoned rows
  \* The mutation in progress: where it stands, vectors left to insert, rows
  \* left to update, whether the caller takes ids back, rows at entry.
  pc, op, todo, rowsLeft, wantIds, origN,
  slots,     \* the rows of the chunk
  reused,    \* those of them that were claimed (reused_prev)
  hidden,    \* those of them whose own edges are not yet published
  links,     \* back links to offer, by the row that is still to be pruned
  half,      \* edges of the rows whose prune holds local numbers (fp16)
  journal,   \* per chunk, the edges its prunes overwrote
  calls,
  \* History: the graph at entry, the rows the call has claimed so far, and
  \* the rows that calls which failed had claimed.
  before, claimed, suspect

callVars == <<f16, op, wantIds, origN, before>>
chunkVars == <<slots, reused>>
vars == <<n, graph, dead, pc, callVars, todo, rowsLeft, chunkVars, hidden,
          links, half, journal, calls, claimed, suspect>>

Row == 0 .. MaxRows - 1
Rows == 0 .. n - 1

Without(f, x) == [y \in DOMAIN f \ {x} |-> f[y]]
With(f, x, v) == [y \in DOMAIN f \cup {x} |-> IF y = x THEN v ELSE f[y]]
NoLinks == [u \in {} |-> {}]

\* What a search for the neighbours of a row may find.
Found == {f \in SUBSET Rows : Cardinality(f) <= Degree}

Init ==
  /\ f16 \in BOOLEAN
  /\ n = InitRows
  /\ \E g \in [0 .. InitRows - 1 -> SUBSET (0 .. InitRows - 1)] :
       /\ \A r \in 0 .. InitRows - 1 : r \notin g[r] /\ Cardinality(g[r]) <= Degree
       /\ graph = [r \in Row |-> IF r < InitRows THEN g[r] ELSE {}]
  /\ dead = {}
  /\ pc = "idle" /\ op = "none" /\ wantIds = FALSE /\ origN = n /\ before = graph
  /\ todo = 0 /\ rowsLeft = {} /\ slots = {} /\ reused = {}
  /\ hidden = {} /\ links = NoLinks /\ half = NoLinks /\ journal = <<>>
  /\ calls = 0 /\ claimed = {} /\ suspect = {}

-----------------------------------------------------------------------------
(* Entering a mutation, and taking the rows of its next chunk.             *)

Enter(kind) ==
  /\ pc = "idle" /\ calls < MaxCalls
  /\ calls' = calls + 1
  /\ op' = kind /\ origN' = n /\ before' = graph
  /\ f16' = f16
  /\ claimed' = {} /\ journal' = <<>>

\* Deleting a row twice is no error.
Delete ==
  /\ pc = "idle"
  /\ \E r \in Rows : dead' = dead \cup {r}
  /\ UNCHANGED <<n, graph, pc, callVars, todo, rowsLeft, chunkVars, hidden,
                 links, half, journal, calls, claimed, suspect>>

BeginExtend ==
  /\ Enter("extend")
  /\ todo' \in 1 .. Batch /\ n + todo' <= MaxRows
  /\ wantIds' \in BOOLEAN
  /\ pc' = "take"
  /\ UNCHANGED <<n, graph, dead, rowsLeft, chunkVars, hidden, links, half, suspect>>

BeginUpdate ==
  /\ Enter("update")
  /\ rowsLeft' \in SUBSET Rows \ {{}} /\ Cardinality(rowsLeft') <= Batch
  /\ pc' = "take"
  /\ UNCHANGED <<n, graph, dead, wantIds, todo, chunkVars, hidden, links, half, suspect>>

\* The locals of the call end with it.
Return ==
  /\ pc' = "idle" /\ op' = "none" /\ wantIds' = FALSE /\ f16' = f16
  /\ origN' = n' /\ before' = graph'
  /\ slots' = {} /\ reused' = {} /\ claimed' = {} /\ journal' = <<>>

AtMost(a, b) == IF a <= b THEN a ELSE b

\* An insert claims tombstones while there are any, and appends the rest.
TakeNewRows ==
  /\ pc = "take" /\ op = "extend" /\ todo > 0
  /\ LET cnt == AtMost(Chunk, todo)
     IN  \E R \in SUBSET dead :
           /\ Cardinality(R) = IF wantIds THEN AtMost(cnt, Cardinality(dead)) ELSE 0
           /\ n' = n + cnt - Cardinality(R)
           /\ slots' = R \cup (n .. n' - 1)
           /\ reused' = R
           /\ dead' = dead \ R
           /\ claimed' = claimed \cup R
           /\ todo' = todo - cnt
  /\ hidden' = slots'
  /\ pc' = "repair"
  /\ UNCHANGED <<graph, callVars, rowsLeft, links, half, journal, calls, suspect>>

TakeOldRows ==
  /\ pc = "take" /\ op = "update"
  /\ slots' \in SUBSET rowsLeft
  /\ Cardinality(slots') = AtMost(Chunk, Cardinality(rowsLeft))
  /\ reused' = {}
  /\ rowsLeft' = rowsLeft \ slots'
  /\ hidden' = slots'
  /\ pc' = "repair"
  /\ UNCHANGED <<n, graph, dead, callVars, todo, links, half, journal, calls, claimed, suspect>>

-----------------------------------------------------------------------------
(* cagra_relink_batch.  rw is not held: a walk may run at any step.        *)

\* Never a self-loop.
PublishRow ==
  /\ pc = "repair"
  /\ \E r \in hidden, f \in Found :
       /\ graph' = [graph EXCEPT ![r] = f \ {r}]
       /\ hidden' = hidden \ {r}
       /\ suspect' = suspect \ {r}
  /\ UNCHANGED <<n, dead, pc, callVars, todo, rowsLeft, chunkVars, links, half,
                 journal, calls, claimed>>

\* The pairs (target, new in-neighbour), by target; an insert journals the targets.
GroupLinks ==
  /\ pc = "repair" /\ hidden = {}
  /\ LET targets == UNION {graph[r] : r \in slots}
     IN  /\ links' = [u \in targets |-> {r \in slots : u \in graph[r]}]
         /\ journal' = IF op = "extend"
                         THEN Append(journal, [u \in targets |-> graph[u]])
                         ELSE journal
  /\ pc' = "prune"
  /\ UNCHANGED <<n, graph, dead, callVars, todo, rowsLeft, chunkVars, hidden,
                 half, calls, claimed, suspect>>

Candidates(u) == graph[u] \cup links[u]

\* What robust_prune may leave of the candidates of row u.
Kept(u) ==
  {K \in SUBSET (Candidates(u) \ {u}) :
     /\ Cardinality(K) <= Degree
     /\ Candidates(u) \ {u} # {} => K # {}}

\* The number of candidate v in the scratch copy of the candidates of u.
Local(u, v) == Cardinality({c \in Candidates(u) : c <= v})

Prune ==
  /\ pc = "prune" /\ ~f16
  /\ \E u \in DOMAIN links : \E K \in Kept(u) :
       /\ graph' = [graph EXCEPT ![u] = K]
       /\ links' = Without(links, u)
  /\ UNCHANGED <<n, dead, pc, callVars, todo, rowsLeft, chunkVars, hidden, half,
                 journal, calls, claimed, suspect>>

\* Over fp16 rows the prune runs on local numbers and writes these to the graph
\* row first ...
PruneLocally ==
  /\ pc = "prune" /\ f16
  /\ \E u \in DOMAIN links : \E K \in Kept(u) :
       /\ graph' = [graph EXCEPT ![u] = {Local(u, v) : v \in K}]
       /\ half' = With(half, u, K)
       /\ links' = Without(links, u)
  /\ UNCHANGED <<n, dead, pc, callVars, todo, rowsLeft, chunkVars, hidden,
                 journal, calls, claimed, suspect>>

\* ... and then maps them back.
MapBack ==
  /\ pc = "prune"
  /\ \E u \in DOMAIN half :
       /\ graph' = [graph EXCEPT ![u] = half[u]]
       /\ half' = Without(half, u)
  /\ UNCHANGED <<n, dead, pc, callVars, todo, rowsLeft, chunkVars, hidden, links,
                 journal, calls, claimed, suspect>>

\* Every target is pruned.  An update revives the tombstoned rows it wrote.
Pruned ==
  /\ pc = "prune" /\ DOMAIN links = {} /\ DOMAIN half = {}
  /\ dead' = IF op = "update" THEN dead \ slots ELSE dead
  /\ UNCHANGED <<n, graph, todo, rowsLeft, hidden, links, half, calls, suspect>>

NextChunk ==
  /\ Pruned
  /\ todo > 0 \/ rowsLeft # {}
  /\ pc' = "take"
  /\ UNCHANGED <<callVars, chunkVars, journal, claimed>>

EndCall ==
  /\ Pruned
  /\ todo = 0 /\ rowsLeft = {}
  /\ Return

-----------------------------------------------------------------------------
(* Failures.                                                               *)

Abandon ==
  /\ DOMAIN half = {}
  /\ todo' = 0 /\ rowsLeft' = {} /\ hidden' = {} /\ links' = NoLinks
  /\ UNCHANGED <<n, graph, dead, half, calls, suspect>>

\* The repair search fails before it publishes anything, or a prune throws on
\* the pool and the prunes it had not reached are skipped.
RepairFails ==
  /\ "status" \in Faults
  /\ \/ pc = "repair" /\ hidden = slots
     \/ pc = "prune" /\ DOMAIN links # {}
  /\ Abandon

InsertFails ==
  /\ op = "extend" /\ RepairFails
  /\ pc' = "giveback"
  /\ UNCHANGED <<callVars, chunkVars, journal, claimed>>

\* The vectors are written back (CagraSlots); the edges stay as they are.
UpdateFails == op = "update" /\ RepairFails /\ Return

\* The repair runs out of memory outside of the pool: the call ends in its catch
\* clause and undoes nothing.
RepairThrows ==
  /\ "oom" \in Faults
  /\ pc \in {"repair", "prune"} /\ hidden \in {{}, slots}
  /\ Abandon
  /\ Return

\* The rows this chunk claimed are tombstones again.
GiveBack ==
  /\ pc = "giveback"
  /\ dead' = dead \cup reused
  /\ pc' = "unwind"
  /\ UNCHANGED <<n, graph, callVars, todo, rowsLeft, chunkVars, hidden, links,
                 half, journal, calls, claimed, suspect>>

\* Mutants: the journal is unwound oldest first; it is dropped.
RestoreOldestFirst ==
  /\ graph' = [r \in Row |-> IF r < origN /\ r \in DOMAIN journal[1]
                               THEN journal[1][r] ELSE graph[r]]
  /\ journal' = Tail(journal)
RestoreNothing == UNCHANGED graph /\ journal' = SubSeq(journal, 1, Len(journal) - 1)

\* Newest first, so that a row lands on its oldest snapshot.
Restore ==
  /\ graph' = [r \in Row |-> IF r < origN /\ r \in DOMAIN journal[Len(journal)]
                               THEN journal[Len(journal)][r] ELSE graph[r]]
  /\ journal' = SubSeq(journal, 1, Len(journal) - 1)

Unwind ==
  /\ pc = "unwind" /\ journal # <<>>
  /\ Restore
  /\ UNCHANGED <<n, dead, pc, callVars, todo, rowsLeft, chunkVars, hidden, links,
                 half, calls, claimed, suspect>>

\* The appended rows go, and their edges with them.
Truncate ==
  /\ pc = "unwind" /\ journal = <<>>
  /\ n' = origN
  /\ graph' = [r \in Row |-> IF r < origN THEN graph[r] ELSE {}]
  /\ suspect' = suspect \cup claimed
  /\ Return
  /\ UNCHANGED <<dead, todo, rowsLeft, hidden, links, half, calls>>

Next ==
  \/ Delete \/ BeginExtend \/ BeginUpdate \/ TakeNewRows \/ TakeOldRows
  \/ PublishRow \/ GroupLinks \/ Prune \/ PruneLocally \/ MapBack
  \/ NextChunk \/ EndCall
  \/ InsertFails \/ UpdateFails \/ RepairThrows \/ GiveBack \/ Unwind \/ Truncate

Spec == Init /\ [][Next]_vars

-----------------------------------------------------------------------------
(* Properties.                                                             *)

\* Chunks, tombstones and rows to do are rows of the index in every phase, the
\* vectors still to come fit, and a row is pruned or half pruned but never both.
TypeOK ==
  /\ f16 \in BOOLEAN
  /\ n \in 1 .. MaxRows /\ origN \in 1 .. n
  /\ graph \in [Row -> SUBSET Nat]
  /\ dead \subseteq Rows /\ reused \subseteq slots
  /\ pc \in {"idle", "take", "repair", "prune", "giveback", "unwind"}
  /\ op \in {"none", "extend", "update"} /\ wantIds \in BOOLEAN
  /\ todo \in 0 .. Batch /\ n + todo <= MaxRows
  /\ rowsLeft \subseteq Rows /\ slots \subseteq Rows /\ hidden \subseteq slots
  /\ DOMAIN links \cap DOMAIN half = {}
  /\ calls \in 0 .. MaxCalls

\* Edges lead to rows of the index at every step a walk may run at (rw is held
\* exclusively while a failed insert unwinds): in the middle of a repair, after a
\* failure and after an undo.  It holds for all rows but those a failed insert
\* had claimed: see EdgesInRange.
KeptEdgesInRange ==
  pc # "unwind" => \A r \in Rows \ suspect : graph[r] \subseteq Rows

\* "the journal restore covers rewritten rows": also after a failed insert every
\* edge leads to a row of the index.  The prune reads the vector behind each edge
\* without a bound.
EdgesInRange == pc # "unwind" => \A r \in Rows : graph[r] \subseteq Rows

\* A failed insert leaves each row it had not claimed with the edges it had
\* before the call, however many chunks had pruned it.
UndoRestoresEdges ==
  [][pc = "unwind" /\ pc' = "idle" =>
       \A r \in 0 .. origN - 1 \ claimed : graph'[r] = before[r]]_vars

=============================================================================
