------------------------------ MODULE CagraSlots ------------------------------
(***************************************************************************)
(* The rows of a mutable CAGRA index (src/neighbors/graphs.cpp): which     *)
(* rows exist, which are tombstoned, which tombstones a later insert may   *)
(* reuse, and which public ids still mean the row they were handed out     *)
(* for.  Delete, Update, Extend and ExtendEx run one at a time (the        *)
(* `writer` mutex) in the phases the code runs them in: an exclusive `rw`  *)
(* phase that edits rows one by one, the repair search with `rw` released, *)
(* the next exclusive phase.  A search holds `rw` shared, so it falls      *)
(* between the exclusive phases of whatever mutation is in progress.       *)
(*                                                                         *)
(* Abstracted: vectors are values, graph edges are left out (they are      *)
(* hints; the repair search only succeeds or fails), a public id is the    *)
(* pair <<slot, generation>> that cagra_pack_id packs into an int64, and   *)
(* it is negative when the generation reaches 2^31.                        *)
(***************************************************************************)
EXTENDS Integers, Sequences, FiniteSets

CONSTANTS
  Vec,         \* the vectors callers store
  NoVec,       \* the content of a row that does not exist
  InitRows,    \* rows of the freshly built index
  MaxRows,     \* bound: rows the index may grow to
  MaxInserts,  \* bound: vectors inserted over the life of the index
  MaxFree,     \* bound: length of free_slots
  Batch,       \* bound: ids or vectors in one call
  Chunk,       \* rows per mutation chunk (cagra_mutate_chunk)
  Byte,        \* rows per byte of the tombstone bitset (8 in the code)
  GenHalf,     \* 2^31: a generation is a uint32, its top bit the id's sign
  Repeats,     \* whether a caller may name one id twice in a call
  Faults       \* how the repair search may fail: "status", "oom"

ASSUME CagraSlotsAssumption ==
  /\ NoVec \notin Vec
  /\ InitRows \in Nat \ {0}
  /\ MaxRows \in Nat
  /\ InitRows <= MaxRows
  /\ MaxInserts \in Nat /\ MaxFree \in Nat
  /\ Batch \in Nat \ {0} /\ Chunk \in Nat \ {0}
  /\ Byte \in Nat \ {0} /\ GenHalf \in Nat \ {0}
  /\ Repeats \in BOOLEAN
  /\ Faults \subseteq {"status", "oom"}

Slot == 0 .. MaxRows - 1
Gen == 0 .. 2 * GenHalf - 1
Id == Slot \X Gen
Occupant == 0 .. InitRows + MaxInserts

VARIABLES
  \* CagraIndex: Dataset::n and x, deleted (its size in rows, its set bits),
  \* deleted_count, generation (its size, its values), free_slots, and the
  \* number of rows the PQ codes cover (0 while not quantized).
  n, vec, bits, dead, deletedCount, gens, gen, freeSlots, codeRows,
  \* The mutation in progress: phase, resolved slots, vectors, whether the
  \* caller takes ids back, rows done in earlier chunks, next row, rows at
  \* entry, journal of overwritten rows of this chunk, ids reported so far.
  pc, slots, vecs, wantIds, base, i, origN, prev, out,
  \* History: which insert put the vector into a row, how many inserts there
  \* were, the ids callers were told with the occupant they stand for, the last
  \* id a search reported, and the rows as they were when the call (for
  \* Update: the chunk) began.
  occ, inserts, acked, seen, snap

index == <<n, vec, bits, dead, deletedCount, gens, gen, freeSlots, codeRows>>
call == <<slots, vecs, wantIds, base, origN, out>>
history == <<occ, inserts, acked, seen, snap>>
vars == <<index, pc, call, i, prev, history>>

Rows == [n |-> n, vec |-> vec, dead |-> dead, occ |-> occ]
NoRows == [n |-> 0, vec |-> [s \in Slot |-> NoVec], dead |-> {}, occ |-> [s \in Slot |-> 0]]
NoneSeen == <<<<0, 0>>, 0>>

-----------------------------------------------------------------------------
(* Ids.                                                                    *)

\* cagra_generation_of: beyond `gens` the table holds zeros, its default.
Pack(s) == <<s, gen[s]>>

Resolves(id) == id[2] < GenHalf /\ id[1] < n /\ id[2] = gen[id[1]]

\* Capacity, in rows, of the (n + 7) / 8 bytes of a tombstone bitset.
BitsFor(m) == ((m + Byte - 1) \div Byte) * Byte

\* Mutant: a claim that forgets the bump.
NextGenForgotten(g) == g

NextGen(g) == (g + 1) % (2 * GenHalf)

\* Mutant: trusts the list, so a row an Update revived is claimed under its owner.
UsableUnchecked == {k \in DOMAIN freeSlots : freeSlots[k] < n}

\* The entries of free_slots that are still tombstones.
Usable == {k \in DOMAIN freeSlots : freeSlots[k] < n /\ freeSlots[k] \in dead}

\* A row about to be overwritten: its number and what it held.
Saved(s) == [slot |-> s, vec |-> vec[s], occ |-> occ[s]]

\* Mutant: the undo forgets the vector.
PutBackNothing(p) == UNCHANGED vec

\* The vector of a journalled row is written back.
PutBack(p) == vec' = [vec EXCEPT ![p.slot] = p.vec]

\* Mutant: counts a row that was alive as revived.
ReviveAlways(s) == dead' = dead \ {s} /\ deletedCount' = deletedCount - 1

\* The row is alive afterwards.
Revive(s) ==
  \/ /\ s \in dead
     /\ dead' = dead \ {s}
     /\ deletedCount' = deletedCount - 1
  \/ s \notin dead /\ UNCHANGED <<dead, deletedCount>>

\* Mutants: a row given back without its tombstone; off the free list.
BuryNothing(s) == UNCHANGED <<dead, deletedCount, freeSlots>>
BuryUnlisted(s) ==
  dead' = dead \cup {s} /\ deletedCount' = deletedCount + 1 /\ UNCHANGED freeSlots

\* A claimed row is a tombstone again.
Bury(s) ==
  /\ dead' = dead \cup {s}
  /\ deletedCount' = deletedCount + 1
  /\ freeSlots' = Append(freeSlots, s)

\* Tables that exist are brought up to n rows.
GrowTables ==
  /\ bits' = IF bits = 0 THEN 0 ELSE BitsFor(n)
  /\ gens' = IF gens = 0 THEN 0 ELSE n

-----------------------------------------------------------------------------
(* Calls.                                                                  *)

\* What a caller may ask for: up to Batch members of S.
Requests(S) == UNION {[1 .. k -> S] : k \in 1 .. Batch}

Distinct(q) == \A j, k \in DOMAIN q : q[j] = q[k] => j = k

\* The last row of the current chunk of the call's `len` rows.
ChunkEnd(len) == IF base + Chunk < len THEN base + Chunk ELSE len

\* The public call begins: `writer` is taken, the arguments are fixed.
Enter(phase, ss, vs, w) ==
  /\ pc = "idle"
  /\ pc' = phase
  /\ slots' = ss /\ vecs' = vs /\ wantIds' = w
  /\ base' = 0 /\ origN' = n /\ out' = <<>>
  /\ i' = 1 /\ prev' = <<>>
  /\ snap' = Rows

\* The public call returns: `writer` is released.
Return ==
  /\ pc' = "idle"
  /\ slots' = <<>> /\ vecs' = <<>> /\ wantIds' = FALSE
  /\ base' = 0 /\ origN' = 0 /\ out' = <<>>
  /\ i' = 1 /\ prev' = <<>>
  /\ snap' = NoRows

\* The phases that hold `rw` exclusive.
Exclusive == pc \in {"delete", "write", "revive", "restore", "claim", "giveback"}

Init ==
  /\ n = InitRows
  /\ vec \in [Slot -> Vec \cup {NoVec}]
  /\ \A s \in Slot : (vec[s] = NoVec) <=> (s >= InitRows)
  /\ bits = 0 /\ dead = {} /\ deletedCount = 0
  /\ gens = 0 /\ gen = [s \in Slot |-> 0]
  /\ freeSlots = <<>> /\ codeRows = 0
  /\ pc = "idle" /\ slots = <<>> /\ vecs = <<>> /\ wantIds = FALSE
  /\ base = 0 /\ i = 1 /\ origN = 0 /\ prev = <<>> /\ out = <<>>
  /\ occ = [s \in Slot |-> IF s < InitRows THEN s ELSE 0]
  /\ inserts = 0
  /\ acked = {<<<<s, 0>>, s>> : s \in 0 .. InitRows - 1}
  /\ seen = NoneSeen
  /\ snap = NoRows

-----------------------------------------------------------------------------
(* ovvsCagraDelete: every id resolves or the call is rejected, then one    *)
(* exclusive phase sets the bits.                                          *)

Resolvable == {s \in 0 .. n - 1 : Resolves(Pack(s))}

BeginDelete(ss) ==
  /\ Len(freeSlots) + Len(ss) <= MaxFree
  /\ Enter("delete", ss, <<>>, FALSE)
  /\ bits' = IF bits = 0 THEN BitsFor(n) ELSE bits
  /\ UNCHANGED <<n, vec, dead, deletedCount, gens, gen, freeSlots, codeRows,
                 occ, inserts, acked, seen>>

\* A row beyond the bitset (left there by RelinkThrows) is marked outside the
\* vector: the read may find any bit, the write is not seen again.
DeleteRow ==
  /\ pc = "delete" /\ i <= Len(slots)
  /\ i' = i + 1
  /\ \/ /\ slots[i] \in dead \/ slots[i] >= bits
        /\ UNCHANGED <<dead, deletedCount, freeSlots>>
     \/ /\ slots[i] \notin dead
        /\ dead' = IF slots[i] < bits THEN dead \cup {slots[i]} ELSE dead
        /\ deletedCount' = deletedCount + 1
        /\ freeSlots' = Append(freeSlots, slots[i])
  /\ UNCHANGED <<n, vec, bits, gens, gen, codeRows, pc, call, prev, history>>

EndDelete ==
  /\ pc = "delete" /\ i > Len(slots)
  /\ Return
  /\ UNCHANGED <<index, occ, inserts, acked, seen>>

-----------------------------------------------------------------------------
(* ovvsCagraUpdate: chunk by chunk, overwrite the rows, repair, revive     *)
(* tombstones; a failed repair puts this chunk's vectors back.             *)

BeginUpdate(ss, vs) ==
  /\ Enter("write", ss, vs, FALSE)
  /\ UNCHANGED <<index, occ, inserts, acked, seen>>

WriteRow ==
  /\ pc = "write" /\ i <= ChunkEnd(Len(slots))
  /\ prev' = Append(prev, Saved(slots[i]))
  /\ vec' = [vec EXCEPT ![slots[i]] = vecs[i]]
  /\ i' = i + 1
  /\ UNCHANGED <<n, bits, dead, deletedCount, gens, gen, freeSlots, codeRows,
                 pc, call, history>>

EndWrite ==
  /\ pc = "write" /\ i > ChunkEnd(Len(slots))
  /\ pc' = "relinkUpdate"
  /\ UNCHANGED <<index, call, i, prev, history>>

UpdateRelinked ==
  /\ pc = "relinkUpdate"
  /\ pc' = "revive"
  /\ i' = base + 1
  /\ UNCHANGED <<index, call, prev, history>>

UpdateRelinkFailed ==
  /\ pc = "relinkUpdate" /\ "status" \in Faults
  /\ pc' = "restore"
  /\ i' = 1
  /\ UNCHANGED <<index, call, prev, history>>

RestoreRow ==
  /\ pc = "restore" /\ i <= Len(prev)
  /\ PutBack(prev[i])
  /\ i' = i + 1
  /\ UNCHANGED <<n, bits, dead, deletedCount, gens, gen, freeSlots, codeRows,
                 pc, call, prev, history>>

EndRestore ==
  /\ pc = "restore" /\ i > Len(prev)
  /\ Return
  /\ UNCHANGED <<index, occ, inserts, acked, seen>>

ReviveRow ==
  /\ pc = "revive" /\ i <= ChunkEnd(Len(slots))
  /\ i' = i + 1
  /\ Revive(slots[i])
  /\ UNCHANGED <<n, vec, bits, gens, gen, freeSlots, codeRows,
                 pc, call, prev, history>>

NextUpdateChunk ==
  /\ pc = "revive" /\ i > ChunkEnd(Len(slots)) /\ i <= Len(slots)
  /\ pc' = "write"
  /\ base' = ChunkEnd(Len(slots))
  /\ prev' = <<>>
  /\ snap' = Rows
  /\ UNCHANGED <<index, slots, vecs, wantIds, origN, out, i, occ, inserts, acked, seen>>

EndUpdate ==
  /\ pc = "revive" /\ i > Len(slots)
  /\ codeRows' = IF codeRows > 0 THEN n ELSE 0
  /\ Return
  /\ UNCHANGED <<n, vec, bits, dead, deletedCount, gens, gen, freeSlots,
                 occ, inserts, acked, seen>>

-----------------------------------------------------------------------------
(* ovvsCagraExtendEx (wantIds) and ovvsCagraExtend: chunk by chunk, claim  *)
(* a tombstoned row or append one, repair; a failed repair gives this      *)
(* chunk's claimed rows back and then truncates to the rows at entry.      *)

BeginExtend(vs, w) ==
  /\ n + Len(vs) <= MaxRows
  /\ inserts + Len(vs) <= MaxInserts
  /\ Enter("claim", <<>>, vs, w)
  /\ UNCHANGED <<index, occ, inserts, acked, seen>>

\* The row s gets the next vector of the call: overwritten, its generation
\* bumped, revived.  A bump beyond the table (see DeleteRow) is not seen again.
TakeRow(s) ==
  /\ prev' = Append(prev, Saved(s))
  /\ vec' = [vec EXCEPT ![s] = vecs[i]]
  /\ occ' = [occ EXCEPT ![s] = InitRows + inserts]
  /\ gen' = [gen EXCEPT ![s] = IF s < gens' THEN NextGen(@) ELSE @]
  /\ dead' = dead \ {s}
  /\ deletedCount' = deletedCount - 1
  /\ out' = Append(out, <<<<s, gen'[s]>>, InitRows + inserts>>)

\* cagra_claim_free_slot pops the last entry of free_slots that is still a
\* tombstone, and with it the entries behind it: an Update revived those.
\* The table of generations is made on the first reuse.
ClaimRow ==
  /\ pc = "claim" /\ i <= ChunkEnd(Len(vecs))
  /\ wantIds
  /\ gens' = IF gens = 0 THEN n ELSE gens
  /\ \E k \in Usable :
       /\ \A j \in Usable : j <= k
       /\ freeSlots' = SubSeq(freeSlots, 1, k - 1)
       /\ TakeRow(freeSlots[k])
  /\ inserts' = inserts + 1
  /\ i' = i + 1
  /\ UNCHANGED <<n, bits, codeRows, pc, slots, vecs, wantIds, base, origN,
                 acked, seen, snap>>

\* cagra_append_row; looking for a free slot in vain has emptied free_slots.
AppendRow ==
  /\ pc = "claim" /\ i <= ChunkEnd(Len(vecs))
  /\ ~wantIds \/ Usable = {}
  /\ freeSlots' = IF wantIds THEN <<>> ELSE freeSlots
  /\ vec' = [vec EXCEPT ![n] = vecs[i]]
  /\ occ' = [occ EXCEPT ![n] = InitRows + inserts]
  /\ n' = n + 1
  /\ out' = Append(out, <<<<n, 0>>, InitRows + inserts>>)
  /\ inserts' = inserts + 1
  /\ i' = i + 1
  /\ UNCHANGED <<bits, dead, deletedCount, gens, gen, codeRows, pc, slots, vecs,
                 wantIds, base, origN, prev, acked, seen, snap>>

EndClaim ==
  /\ pc = "claim" /\ i > ChunkEnd(Len(vecs))
  /\ pc' = "relinkExtend"
  /\ UNCHANGED <<index, call, i, prev, history>>

NextExtendChunk ==
  /\ pc = "relinkExtend" /\ i <= Len(vecs)
  /\ pc' = "claim"
  /\ base' = ChunkEnd(Len(vecs))
  /\ prev' = <<>>
  /\ UNCHANGED <<index, slots, vecs, wantIds, origN, out, i, history>>

\* The last exclusive phase of a call that succeeded: the bitset and the
\* generation table are brought up to n rows, the PQ codes are recomputed.
EndExtend ==
  /\ pc = "relinkExtend" /\ i > Len(vecs)
  /\ GrowTables
  /\ codeRows' = IF codeRows > 0 THEN n ELSE 0
  /\ acked' = acked \cup {out[k] : k \in DOMAIN out}
  /\ Return
  /\ UNCHANGED <<n, vec, dead, deletedCount, gen, freeSlots, occ, inserts, seen>>

ExtendRelinkFailed ==
  /\ pc = "relinkExtend" /\ "status" \in Faults
  /\ pc' = "giveback"
  /\ i' = 1
  /\ UNCHANGED <<index, call, prev, history>>

\* A claimed row gets its old vector and its tombstone back; its generation
\* keeps the bump.
GiveBackRow ==
  /\ pc = "giveback" /\ i <= Len(prev)
  /\ PutBack(prev[i])
  /\ occ' = [occ EXCEPT ![prev[i].slot] = prev[i].occ]
  /\ Bury(prev[i].slot)
  /\ i' = i + 1
  /\ UNCHANGED <<n, bits, gens, gen, codeRows, pc, call, prev,
                 inserts, acked, seen, snap>>

EndGiveBack ==
  /\ pc = "giveback" /\ i > Len(prev)
  /\ pc' = "unwind"
  /\ UNCHANGED <<index, call, i, prev, history>>

\* The last exclusive phase of a call that failed.
Unwind ==
  /\ pc = "unwind"
  /\ n' = origN
  /\ vec' = [s \in Slot |-> IF s < origN THEN vec[s] ELSE NoVec]
  /\ occ' = [s \in Slot |-> IF s < origN THEN occ[s] ELSE 0]
  /\ Return
  /\ UNCHANGED <<bits, dead, deletedCount, gens, gen, freeSlots, codeRows,
                 inserts, acked, seen>>

\* An exception out of the repair: the catch clauses only set the status.
RelinkThrows ==
  /\ pc \in {"relinkUpdate", "relinkExtend"} /\ "oom" \in Faults
  /\ Return
  /\ UNCHANGED <<index, occ, inserts, acked, seen>>

-----------------------------------------------------------------------------
(* ovvsCagraQuantize publishes the codes of all rows at once.              *)
Quantize ==
  /\ pc = "idle"
  /\ codeRows' = n
  /\ UNCHANGED <<n, vec, bits, dead, deletedCount, gens, gen, freeSlots,
                 pc, call, i, prev, history>>

\* A search (ovvsCagraSearch) reports the packed id of a row that is not
\* tombstoned.
Search(s) ==
  /\ ~Exclusive
  /\ s < n /\ s \notin dead
  /\ seen' = <<Pack(s), occ[s]>>
  /\ UNCHANGED <<index, pc, call, i, prev, occ, inserts, acked, snap>>

Delete == \E ss \in Requests(Resolvable) :
            (Repeats \/ Distinct(ss)) /\ BeginDelete(ss)

Update == \E ss \in Requests(Resolvable) : \E vs \in [DOMAIN ss -> Vec] :
            (Repeats \/ Distinct(ss)) /\ BeginUpdate(ss, vs)

Extend == \E vs \in Requests(Vec), w \in BOOLEAN : BeginExtend(vs, w)

Next ==
  \/ Delete \/ DeleteRow \/ EndDelete
  \/ Update \/ WriteRow \/ EndWrite \/ UpdateRelinked \/ UpdateRelinkFailed
  \/ RestoreRow \/ EndRestore \/ ReviveRow \/ NextUpdateChunk \/ EndUpdate
  \/ Extend \/ ClaimRow \/ AppendRow \/ EndClaim \/ NextExtendChunk \/ EndExtend
  \/ ExtendRelinkFailed \/ GiveBackRow \/ EndGiveBack \/ Unwind \/ RelinkThrows
  \/ Quantize
  \/ \E s \in Slot : Search(s)

Spec == Init /\ [][Next]_vars

-----------------------------------------------------------------------------
(* Properties.                                                             *)

InExtend == pc \in {"claim", "relinkExtend", "giveback", "unwind"}

\* The rows that exist whatever becomes of the call in progress.
Committed == IF InExtend THEN origN ELSE n

Entry == [slot : Slot, vec : Vec \cup {NoVec}, occ : Occupant]

IndexTypeOK ==
  /\ n \in 0 .. MaxRows
  /\ vec \in [Slot -> Vec \cup {NoVec}]
  /\ bits \in Nat /\ dead \in SUBSET Slot /\ deletedCount \in Nat
  /\ gens \in Nat /\ gen \in [Slot -> Gen]
  /\ freeSlots \in Seq(Slot)
  /\ codeRows \in Nat

CallTypeOK ==
  /\ pc \in {"idle", "delete", "write", "relinkUpdate", "revive", "restore",
             "claim", "relinkExtend", "giveback", "unwind"}
  /\ slots \in Seq(Slot) /\ vecs \in Seq(Vec) /\ wantIds \in BOOLEAN
  /\ base \in Nat /\ i \in Nat \ {0} /\ origN \in Nat
  /\ prev \in Seq(Entry)
  /\ out \in Seq(Id \X Occupant)

HistoryTypeOK ==
  /\ occ \in [Slot -> Occupant]
  /\ inserts \in 0 .. MaxInserts
  /\ acked \in SUBSET (Id \X Occupant)
  /\ seen \in Id \X Occupant
  /\ snap \in [n : 0 .. MaxRows, vec : [Slot -> Vec \cup {NoVec}],
               dead : SUBSET Slot, occ : [Slot -> Occupant]]

\* Every variable keeps its type in every phase of every mutation; in
\* particular the generation of a row stays inside its wrapped counter and the
\* row numbers a call holds are rows of the index.
TypeOK == IndexTypeOK /\ CallTypeOK /\ HistoryTypeOK

\* deleted_count is the number of tombstones at every step of every mutation,
\* undo phases included, and only committed rows are tombstoned: ovvsCagraCounts
\* never reports a wrong or negative number of live rows.
CountIsExact == dead \subseteq 0 .. Committed - 1 /\ deletedCount = Cardinality(dead)

\* Every tombstoned row is on free_slots, whatever deletes, revivals, claims
\* and undone claims did to the list, so an insert can claim it again.  Rows that
\* an insert whose repair threw has left behind are alive, and not told to anybody:
\* they are not tombstones, and this says nothing of them.
NoSlotLeaks == \A s \in dead : \E k \in DOMAIN freeSlots : freeSlots[k] = s

\* The tombstone bitset and the generation table, once they exist, cover every
\* row that a Delete may mark or an ExtendEx may claim: the unchecked
\* deleted[slot >> 3] and generation[reused] stay inside their vectors.
TablesCoverRows ==
  /\ bits = 0 => dead = {}
  /\ bits # 0 => Committed <= bits
  /\ gens # 0 => Committed <= gens
  /\ \A s \in Slot : s >= gens => gen[s] = 0

\* An id a caller was given (by the build or by a successful insert) never
\* resolves to a vector other than the one it was given for, however the row
\* is deleted, revived, reused, or claimed and given back.
AckedIdsNeverAlias ==
  \A p \in acked : Resolves(p[1]) => occ[p[1][1]] = p[2]

\* The same for the id a search reported while a mutation was in progress.
SeenIdsNeverAlias == Resolves(seen[1]) => occ[seen[1][1]] = seen[2]

\* No row is out of its owner's reach: the id of every row resolves.
RowsAreAddressable == \A s \in 0 .. n - 1 : Resolves(Pack(s))

\* Whenever a search may run on a quantized index, the codes it reads by row
\* number exist for all n rows.
CodesCoverRows == ~Exclusive /\ codeRows > 0 => n <= codeRows

\* An Extend or ExtendEx whose repair reports a failure leaves the rows, their
\* vectors, their occupants and the tombstones as it found them, where it fits
\* one chunk: rows that an earlier chunk claimed are not given back.
AllOrNothing ==
  [][(pc \in {"relinkExtend", "unwind"} /\ pc' = "idle" /\ acked' = acked)
       => Rows' = snap]_vars

\* A failed Update leaves the vectors of the chunk it failed in, and the
\* tombstones, as they were.
ChunkRestored ==
  [][(pc = "restore" /\ pc' = "idle") => Rows' = snap]_vars

-----------------------------------------------------------------------------
(* The rows implement the promise of the ids.                              *)

LiveIds == {Pack(s) : s \in (0 .. n - 1) \ dead}

IdPromise == INSTANCE IdMap WITH
  store <- [id \in LiveIds |-> vec[id[1]]],
  tombs <- {Pack(s) : s \in dead},
  owned <- {p[1] : p \in acked}

\* Through every phase and every undo, the packed ids of live rows, of
\* tombstones and of acknowledged rows change only as IdMap allows.
IdsKeepTheirPromise == IdPromise!Spec

=============================================================================
