--------------------------- MODULE CagraSlotsProofs ---------------------------
(***************************************************************************)
(* Proofs about CagraSlots, for every number of rows, inserts, chunks and  *)
(* generations, as long as the repair search reports its failures (no      *)
(* exception escapes it) and fewer than 2^32 vectors are inserted: its     *)
(* invariants, that it implements IdMap, and what the undo of a failed     *)
(* update or insert restores.                                              *)
(***************************************************************************)
EXTENDS CagraSlots, FiniteSetTheorems, SequenceTheorems, TLAPS

\* What the theorems assume of the constants beyond CagraSlotsAssumption.
Bounded == "oom" \notin Faults /\ MaxInserts < 2 * GenHalf

-----------------------------------------------------------------------------
(* The inductive invariant.                                                *)

Claiming == pc \in {"claim", "relinkExtend"}

\* The rows of the chunk's journal that have not been given back.
Pending == IF pc = "giveback" THEN i .. Len(prev)
           ELSE IF Claiming THEN 1 .. Len(prev) ELSE {}

\* Where the call stands.
PhaseInv ==
  /\ pc \in {"delete", "write", "relinkUpdate", "revive"} =>
       /\ \A k \in DOMAIN slots : slots[k] < n
  /\ pc = "delete" => bits # 0
  /\ pc \in {"write", "relinkUpdate", "revive"} => Len(vecs) = Len(slots)
  /\ InExtend => origN <= n
  /\ Claiming => /\ n + (Len(vecs) - (i - 1)) <= MaxRows
                 /\ inserts + (Len(vecs) - (i - 1)) <= MaxInserts

\* The rows this chunk claimed are distinct committed rows, alive, with a
\* generation beyond every acknowledged id.
JournalInv ==
  /\ \A j \in Pending : prev[j].slot < origN /\ prev[j].slot \notin dead
  /\ \A j, k \in Pending : prev[j].slot = prev[k].slot => j = k
  /\ \A j \in Pending : \A p \in acked :
       p[1][1] = prev[j].slot => p[1][2] < gen[prev[j].slot]
  /\ Pending # {} => bits # 0

\* The ids this call is going to report.
OutInv ==
  Claiming => \A k \in DOMAIN out :
                /\ out[k][1][1] < n
                /\ out[k][1][1] \notin dead
                /\ gen[out[k][1][1]] = out[k][1][2]
                /\ occ[out[k][1][1]] = out[k][2]

\* The generation table covers exactly the committed rows, and once rows were
\* appended no tombstone is left for the call to claim.
GenInv ==
  /\ gens \in {0, Committed}
  /\ \A s \in Slot : gen[s] <= inserts
  /\ Claiming /\ wantIds /\ n > origN => dead = {}

\* An acknowledged id is current, or its row has moved on for good.
AckInv ==
  \A p \in acked :
    /\ p[1][1] < Committed
    /\ \/ p[1][2] < gen[p[1][1]]
       \/ p[1][2] = gen[p[1][1]] /\ occ[p[1][1]] = p[2]

IInv ==
  /\ TypeOK
  /\ PhaseInv
  /\ CountIsExact
  /\ NoSlotLeaks
  /\ TablesCoverRows
  /\ JournalInv
  /\ OutInv
  /\ GenInv
  /\ AckInv

-----------------------------------------------------------------------------
(* Facts about the operators.                                              *)

\* The bytes of the bitset hold at least the rows they were sized for.
LEMMA BitsForCovers ==
  ASSUME NEW m \in Nat
  PROVE  BitsFor(m) \in Nat /\ m <= BitsFor(m)
<1>1. Byte \in Nat /\ Byte >= 1
  BY CagraSlotsAssumption
<1> DEFINE a == m + Byte - 1
           q == a \div Byte
<1>2. a \in Nat
  BY <1>1
<1>3. q \in Nat /\ a = Byte * q + (a % Byte) /\ a % Byte \in 0 .. Byte - 1
  BY <1>1, <1>2
<1> HIDE DEF q
<1>4. Byte * q = q * Byte /\ q * Byte \in Nat
  BY <1>1, <1>3
<1>5. m <= q * Byte
  BY <1>1, <1>3, <1>4
<1>6. QED
  BY <1>4, <1>5 DEF BitsFor, q

\* A call's arguments are sequences.
LEMMA RequestsAreSeqs ==
  ASSUME NEW S, NEW q \in Requests(S)
  PROVE  /\ q \in Seq(S) /\ DOMAIN q = 1 .. Len(q)
         /\ \A k \in DOMAIN q : q[k] \in S
BY CagraSlotsAssumption DEF Requests

\* The ids a caller may name stand for rows that exist.
LEMMA IdsNameRows ==
  ASSUME TypeOK, NEW ss \in Requests(Resolvable)
  PROVE  ss \in Seq(Slot) /\ \A k \in DOMAIN ss : ss[k] < n
<1>1. Resolvable \subseteq Slot
  BY CagraSlotsAssumption DEF Resolvable, Slot, TypeOK, IndexTypeOK
<1>2. ss \in Seq(Slot)
  BY <1>1, RequestsAreSeqs
<1>3. \A k \in DOMAIN ss : ss[k] \in 0 .. n - 1
  BY RequestsAreSeqs DEF Resolvable
<1>4. n \in Nat
  BY CagraSlotsAssumption DEF TypeOK, IndexTypeOK
<1>5. QED
  BY <1>2, <1>3, <1>4

\* An Update brings one vector for each id.
LEMMA VectorPerId ==
  ASSUME TypeOK, NEW ss \in Requests(Resolvable), NEW vs \in [DOMAIN ss -> Vec]
  PROVE  vs \in Seq(Vec) /\ Len(vs) = Len(ss)
<1>1. DOMAIN ss = 1 .. Len(ss) /\ Len(ss) \in Nat
  BY RequestsAreSeqs
<1>2. QED
  BY <1>1

\* The tombstones are finitely many, so they can be counted.
LEMMA DeadFinite ==
  ASSUME TypeOK, CountIsExact
  PROVE  IsFiniteSet(dead)
<1>1. Committed - 1 \in Int
  BY CagraSlotsAssumption DEF TypeOK, IndexTypeOK, CallTypeOK, Committed
<1>2. IsFiniteSet(0 .. Committed - 1)
  BY <1>1, FS_Interval
<1>3. QED
  BY <1>2, FS_Subset DEF CountIsExact

\* A chunk ends within the call.
LEMMA ChunkEndBounds ==
  ASSUME TypeOK, NEW m \in Nat
  PROVE  ChunkEnd(m) \in Nat /\ ChunkEnd(m) <= m
BY CagraSlotsAssumption DEF TypeOK, CallTypeOK, ChunkEnd

\* How the counters of an insertion relate.
LEMMA Numbers ==
  ASSUME TypeOK, PhaseInv
  PROVE  /\ n \in 0 .. MaxRows /\ origN \in Nat /\ inserts \in 0 .. MaxInserts
         /\ MaxRows \in Nat /\ MaxInserts \in Nat
         /\ InExtend => origN <= n
         /\ Claiming /\ i <= ChunkEnd(Len(vecs)) =>
              /\ i \in 1 .. Len(vecs) /\ n < MaxRows /\ inserts < MaxInserts
<1>1. /\ n \in 0 .. MaxRows /\ origN \in Nat /\ inserts \in 0 .. MaxInserts
      /\ MaxRows \in Nat /\ MaxInserts \in Nat
  BY CagraSlotsAssumption DEF TypeOK, IndexTypeOK, CallTypeOK, HistoryTypeOK
<1>2. i \in Nat \ {0} /\ vecs \in Seq(Vec)
  BY DEF TypeOK, CallTypeOK
<1>3. Len(vecs) \in Nat
  BY <1>2
<1>4. ChunkEnd(Len(vecs)) \in Nat /\ ChunkEnd(Len(vecs)) <= Len(vecs)
  BY <1>3, ChunkEndBounds
<1>5. QED
  BY <1>1, <1>2, <1>3, <1>4 DEF PhaseInv

\* While a row is tombstoned the count is positive.
LEMMA DeadCounted ==
  ASSUME TypeOK, CountIsExact, NEW s \in dead
  PROVE  deletedCount >= 1
<1>1. Cardinality(dead) \in Nat
  BY DeadFinite, FS_CardinalityType
<1>2. Cardinality(dead) # 0
  BY DeadFinite, FS_EmptySet
<1>3. QED
  BY <1>1, <1>2 DEF CountIsExact

\* A row put on the free list is listed, and so is what was listed before.
LEMMA AppendListed ==
  ASSUME TypeOK, NoSlotLeaks, NEW s \in Slot,
         freeSlots' = Append(freeSlots, s), dead' \subseteq dead \cup {s}
  PROVE  NoSlotLeaks' /\ freeSlots' \in Seq(Slot)
<1>1. freeSlots \in Seq(Slot) /\ Len(freeSlots) \in Nat
  BY DEF TypeOK, IndexTypeOK
<1>2. DOMAIN freeSlots = 1 .. Len(freeSlots) /\ DOMAIN freeSlots' = 1 .. Len(freeSlots) + 1
  BY <1>1, AppendProperties
<1>3. /\ freeSlots'[Len(freeSlots) + 1] = s
      /\ \A k \in 1 .. Len(freeSlots) : freeSlots'[k] = freeSlots[k]
  BY <1>1, AppendProperties
<1>4. QED
  BY <1>1, <1>2, <1>3 DEF NoSlotLeaks

\* The snapshot at the beginning of the call is typed.
SnapTypeOK == snap \in [n : 0 .. MaxRows, vec : [Slot -> Vec \cup {NoVec}],
                        dead : SUBSET Slot, occ : [Slot -> Occupant]]

\* The sequences of the state hold what their types say.
LEMMA Elements ==
  ASSUME TypeOK
  PROVE  /\ \A k \in 1 .. Len(slots) : slots[k] \in Slot
         /\ \A k \in 1 .. Len(vecs) : vecs[k] \in Vec
         /\ \A k \in 1 .. Len(prev) : prev[k] \in Entry
         /\ \A k \in 1 .. Len(freeSlots) : freeSlots[k] \in Slot
         /\ \A k \in 1 .. Len(out) : out[k] \in Id \X Occupant
BY ElementOfSeq DEF TypeOK, IndexTypeOK, CallTypeOK

\* A call names rows that exist.
LEMMA SlotsExist ==
  ASSUME TypeOK, PhaseInv, pc \in {"delete", "write", "relinkUpdate", "revive"},
         NEW k \in 1 .. Len(slots)
  PROVE  slots[k] \in 0 .. n - 1
<1>1. slots \in Seq(Slot) /\ n \in Nat
  BY CagraSlotsAssumption DEF TypeOK, IndexTypeOK, CallTypeOK
<1>2. k \in DOMAIN slots
  BY <1>1
<1>3. slots[k] \in Slot
  BY <1>1, <1>2
<1>4. QED
  BY <1>1, <1>2, <1>3 DEF PhaseInv, Slot

\* What an acknowledged id is made of.
LEMMA AckedTyped ==
  ASSUME TypeOK, NEW p \in acked
  PROVE  p[1][1] \in Slot /\ p[1][2] \in Nat /\ p[2] \in Occupant
BY CagraSlotsAssumption DEF TypeOK, HistoryTypeOK, Id, Gen

\* The empty sequence has every element type.
LEMMA EmptySeqs ==
  /\ <<>> \in Seq(Slot) /\ <<>> \in Seq(Vec)
  /\ <<>> \in Seq(Entry) /\ <<>> \in Seq(Id \X Occupant)
OBVIOUS

\* Entering a call keeps the call's variables typed.
LEMMA EnterTyped ==
  ASSUME TypeOK, NEW phase, NEW ss \in Seq(Slot), NEW vs \in Seq(Vec), NEW w \in BOOLEAN,
         phase \in {"delete", "write", "claim"}, Enter(phase, ss, vs, w)
  PROVE  CallTypeOK' /\ SnapTypeOK'
<1> USE CagraSlotsAssumption
    DEF TypeOK, IndexTypeOK, CallTypeOK, HistoryTypeOK, SnapTypeOK, Enter
<1>1. CallTypeOK'
  BY EmptySeqs
<1>2. SnapTypeOK'
  BY DEF Rows
<1>3. QED
  BY <1>1, <1>2

\* Leaving a call keeps the call's variables typed.
LEMMA ReturnTyped ==
  ASSUME Return
  PROVE  CallTypeOK' /\ SnapTypeOK'
<1>1. (slots \in Seq(Slot) /\ vecs \in Seq(Vec))'
  BY EmptySeqs DEF Return
<1>2. (prev \in Seq(Entry) /\ out \in Seq(Id \X Occupant))'
  BY EmptySeqs DEF Return
<1>3. wantIds' \in BOOLEAN
  BY DEF Return
<1>4. (pc = "idle" /\ base \in Nat /\ i \in Nat \ {0} /\ origN \in Nat)'
  BY DEF Return
<1>5. SnapTypeOK'
  BY CagraSlotsAssumption DEF SnapTypeOK, NoRows, Occupant, Return
<1>6. QED
  BY <1>1, <1>2, <1>3, <1>4, <1>5 DEF CallTypeOK

-----------------------------------------------------------------------------
(* What the steps that edit a row find and do.                             *)

\* A claim takes a committed tombstone, the generation table covers it, and
\* its generation goes up by one.
Claimed(s) ==
  /\ pc = "claim" /\ pc' = pc /\ i \in 1 .. Len(vecs) /\ i' = i + 1
  /\ vecs[i] \in Vec /\ InitRows + inserts \in Occupant
  /\ n \in 0 .. MaxRows /\ inserts \in 0 .. MaxInserts - 1
  /\ s \in Slot /\ s \in 0 .. origN - 1 /\ s \in dead
  /\ n = origN /\ origN \in Nat /\ bits # 0
  /\ gens' = origN /\ s < gens'
  /\ gen \in [Slot -> Gen] /\ gen[s] \in Nat /\ gen[s] + 1 \in Gen
  /\ gen' = [gen EXCEPT ![s] = gen[s] + 1] /\ gen'[s] = gen[s] + 1
  /\ \A t \in Slot : t # s => gen'[t] = gen[t]
  /\ UNCHANGED <<n, bits, slots, vecs, wantIds, base, origN, acked, snap>>
  /\ dead' = dead \ {s} /\ deletedCount' = deletedCount - 1
  /\ inserts' = inserts + 1
  /\ vec' = [vec EXCEPT ![s] = vecs[i]]
  /\ occ' = [occ EXCEPT ![s] = InitRows + inserts]
  /\ prev' = Append(prev, Saved(s))
  /\ out' = Append(out, <<<<s, gen'[s]>>, InitRows + inserts>>)

\* A step of ClaimRow claims the last usable entry of free_slots.
LEMMA ClaimRowClaims ==
  ASSUME IInv, Bounded, ClaimRow
  PROVE  \E k \in Usable :
           /\ \A j \in Usable : j <= k
           /\ freeSlots' = SubSeq(freeSlots, 1, k - 1)
           /\ Claimed(freeSlots[k])
<1>a. pc = "claim" /\ Claiming /\ InExtend /\ i <= ChunkEnd(Len(vecs))
  BY DEF ClaimRow, Claiming, InExtend
<1>b. /\ n \in 0 .. MaxRows /\ origN \in Nat /\ origN <= n
      /\ inserts \in 0 .. MaxInserts - 1 /\ i \in 1 .. Len(vecs)
  BY <1>a, Numbers DEF IInv
<1>c. vecs[i] \in Vec /\ InitRows + inserts \in Occupant
  BY <1>b, Elements, CagraSlotsAssumption DEF IInv, Occupant
<1>d. PICK k \in Usable :
        /\ \A j \in Usable : j <= k
        /\ freeSlots' = SubSeq(freeSlots, 1, k - 1)
        /\ TakeRow(freeSlots[k])
  BY DEF ClaimRow
<1> DEFINE s == freeSlots[k]
<1>e. s \in Slot /\ s \in dead
  BY <1>d DEF Usable, IInv, TypeOK, IndexTypeOK
<1>f. s \in 0 .. origN - 1 /\ n = origN /\ bits # 0
  <2>1. s \in 0 .. origN - 1
    BY <1>a, <1>e DEF IInv, CountIsExact, Committed
  <2>2. ~(n > origN)
    BY <1>a, <1>e DEF ClaimRow, IInv, GenInv
  <2>3. bits # 0
    BY <1>e DEF IInv, TablesCoverRows
  <2>4. QED
    BY <1>b, <2>1, <2>2, <2>3
<1>g. gens' = origN /\ s < gens'
  BY <1>a, <1>b, <1>f DEF ClaimRow, IInv, GenInv, Committed
<1>h. gen \in [Slot -> Gen] /\ gen[s] \in Nat /\ NextGen(gen[s]) = gen[s] + 1 /\ gen[s] + 1 \in Gen
  <2>1. gen \in [Slot -> Gen] /\ gen[s] \in Nat /\ gen[s] <= inserts
    BY <1>e, CagraSlotsAssumption DEF IInv, TypeOK, IndexTypeOK, Gen, GenInv
  <2>2. gen[s] + 1 < 2 * GenHalf /\ 2 * GenHalf \in Nat
    BY <1>b, <2>1, CagraSlotsAssumption DEF Bounded
  <2>3. (gen[s] + 1) % (2 * GenHalf) = gen[s] + 1
    BY <2>1, <2>2
  <2>4. QED
    BY <2>1, <2>2, <2>3 DEF NextGen, Gen
<1>j. /\ gen' = [gen EXCEPT ![s] = gen[s] + 1] /\ gen'[s] = gen[s] + 1
      /\ \A t \in Slot : t # s => gen'[t] = gen[t]
  BY <1>d, <1>e, <1>g, <1>h DEF TakeRow
<1>l. /\ UNCHANGED <<n, bits, pc, slots, vecs, wantIds, base, origN, acked, snap>>
      /\ dead' = dead \ {s} /\ deletedCount' = deletedCount - 1
      /\ inserts' = inserts + 1 /\ i' = i + 1
      /\ vec' = [vec EXCEPT ![s] = vecs[i]]
      /\ occ' = [occ EXCEPT ![s] = InitRows + inserts]
      /\ prev' = Append(prev, Saved(s))
      /\ out' = Append(out, <<<<s, gen'[s]>>, InitRows + inserts>>)
  BY <1>d DEF ClaimRow, TakeRow
<1> HIDE DEF s
<1>m. Claimed(s)
  BY <1>a, <1>b, <1>c, <1>e, <1>f, <1>g, <1>h, <1>j, <1>l DEF Claimed
<1> QED
  BY <1>d, <1>m DEF s

\* What an append finds and does.
Appended ==
  /\ pc = "claim" /\ pc' = pc /\ i \in 1 .. Len(vecs) /\ i' = i + 1
  /\ vecs[i] \in Vec /\ InitRows + inserts \in Occupant
  /\ n \in 0 .. MaxRows - 1 /\ n \in Slot /\ origN \in Nat /\ origN <= n
  /\ n \notin dead /\ gen[n] = 0
  /\ UNCHANGED <<dead, gen, slots, vecs, base, origN, prev, acked, snap>>
  /\ n' = n + 1
  /\ vec' = [vec EXCEPT ![n] = vecs[i]]
  /\ occ' = [occ EXCEPT ![n] = InitRows + inserts]
  /\ out' = Append(out, <<<<n, 0>>, InitRows + inserts>>)

\* A step of AppendRow appends a row with no tombstone and generation zero.
LEMMA AppendRowAppends ==
  ASSUME IInv, AppendRow
  PROVE  Appended
<1>a. pc = "claim" /\ Claiming /\ InExtend /\ i <= ChunkEnd(Len(vecs))
  BY DEF AppendRow, Claiming, InExtend
<1>b. /\ n \in 0 .. MaxRows - 1 /\ origN \in Nat /\ origN <= n
      /\ inserts \in 0 .. MaxInserts - 1 /\ i \in 1 .. Len(vecs)
  BY <1>a, Numbers DEF IInv
<1>c. n \in Slot /\ vecs[i] \in Vec /\ InitRows + inserts \in Occupant
  BY <1>b, Elements, CagraSlotsAssumption DEF IInv, Slot, Occupant
<1>h. n \notin dead /\ gen[n] = 0
  BY <1>a, <1>b, <1>c DEF IInv, CountIsExact, TablesCoverRows, GenInv, Committed
<1>l. /\ UNCHANGED <<pc, dead, gen, slots, vecs, base, origN, prev, acked, snap>>
      /\ n' = n + 1 /\ i' = i + 1
      /\ vec' = [vec EXCEPT ![n] = vecs[i]]
      /\ occ' = [occ EXCEPT ![n] = InitRows + inserts]
      /\ out' = Append(out, <<<<n, 0>>, InitRows + inserts>>)
  BY DEF AppendRow
<1> QED
  BY <1>a, <1>b, <1>c, <1>h, <1>l DEF Appended

\* What a give-back finds and does.
GivenBack(s) ==
  /\ pc = "giveback" /\ pc' = pc /\ i \in 1 .. Len(prev) /\ i' = i + 1
  /\ prev[i] \in Entry /\ prev[i].slot = s
  /\ s \in Slot /\ s \in 0 .. origN - 1 /\ origN <= n /\ s \notin dead
  /\ \A p \in acked : p[1][1] = s => p[1][2] < gen[s]
  /\ UNCHANGED <<n, gen, slots, vecs, base, origN, prev, acked, out, snap>>
  /\ dead' = dead \cup {s}
  /\ vec' = [vec EXCEPT ![s] = prev[i].vec]
  /\ occ' = [occ EXCEPT ![s] = prev[i].occ]

\* A step of GiveBackRow gives a row back that no acknowledged id names.
LEMMA GiveBackRowGives ==
  ASSUME IInv, GiveBackRow
  PROVE  GivenBack(prev[i].slot)
<1>a. pc = "giveback" /\ i \in 1 .. Len(prev) /\ i \in Pending /\ InExtend
  BY DEF IInv, TypeOK, CallTypeOK, GiveBackRow, Pending, InExtend
<1>b. n \in 0 .. MaxRows /\ origN \in Nat /\ origN <= n
  BY <1>a, Numbers DEF IInv
<1> DEFINE s == prev[i].slot
<1>c. prev[i] \in Entry
  BY <1>a, Elements DEF IInv
<1>d. s \in 0 .. origN - 1 /\ s \in Slot /\ s \notin dead
  BY <1>a, <1>b, <1>c DEF IInv, JournalInv, Entry, Slot
<1>e. /\ pc' = pc /\ i' = i + 1
      /\ UNCHANGED <<n, gen, slots, vecs, base, origN, prev, acked, out, snap>>
      /\ dead' = dead \cup {s}
      /\ vec' = [vec EXCEPT ![s] = prev[i].vec]
      /\ occ' = [occ EXCEPT ![s] = prev[i].occ]
  BY DEF GiveBackRow, Bury, PutBack, call
<1>f. \A p \in acked : p[1][1] = s => p[1][2] < gen[s]
  BY <1>a DEF IInv, JournalInv
<1> QED
  BY <1>a, <1>b, <1>c, <1>d, <1>e, <1>f DEF GivenBack

\* What a write of an Update finds and does.
Written(s) ==
  /\ pc = "write" /\ pc' = pc /\ i \in 1 .. Len(slots) /\ i' = i + 1
  /\ slots[i] = s /\ s \in Slot /\ s \in 0 .. n - 1 /\ vecs[i] \in Vec
  /\ UNCHANGED <<n, dead, gen, slots, occ, acked, snap>>
  /\ vec' = [vec EXCEPT ![s] = vecs[i]]
  /\ prev' = Append(prev, Saved(s)) /\ Saved(s) \in Entry

\* A step of WriteRow overwrites a row that exists.
LEMMA WriteRowWrites ==
  ASSUME IInv, WriteRow
  PROVE  Written(slots[i])
<1>1. pc = "write" /\ i \in Nat \ {0} /\ Len(slots) \in Nat /\ slots \in Seq(Slot)
  BY DEF WriteRow, IInv, TypeOK, CallTypeOK
<1>2. i \in 1 .. Len(slots) /\ i \in 1 .. Len(vecs)
  BY SMTT(30), <1>1, ChunkEndBounds DEF IInv, WriteRow, PhaseInv
<1>3. slots[i] \in Slot /\ vecs[i] \in Vec /\ slots[i] \in 0 .. n - 1
  BY <1>1, <1>2, Elements, SlotsExist DEF IInv
<1>4. Saved(slots[i]) \in Entry
  <2>1. vec \in [Slot -> Vec \cup {NoVec}] /\ occ \in [Slot -> Occupant]
    BY DEF IInv, TypeOK, IndexTypeOK, HistoryTypeOK
  <2> QED
    BY <1>3, <2>1 DEF Saved, Entry
<1>5. /\ pc' = pc /\ i' = i + 1 /\ UNCHANGED <<n, dead, gen, slots, occ, acked, snap>>
      /\ vec' = [vec EXCEPT ![slots[i]] = vecs[i]]
      /\ prev' = Append(prev, Saved(slots[i]))
  BY DEF WriteRow, call, history
<1> QED
  BY <1>1, <1>2, <1>3, <1>4, <1>5 DEF Written

\* What a restored row gets.
Restored(s) ==
  /\ pc = "restore" /\ pc' = pc /\ i \in 1 .. Len(prev) /\ i' = i + 1
  /\ prev[i] \in Entry /\ prev[i].slot = s /\ s \in Slot
  /\ UNCHANGED <<n, dead, gen, slots, prev, occ, acked, snap>>
  /\ vec' = [vec EXCEPT ![s] = prev[i].vec]

\* A step of RestoreRow writes one entry of the journal back.
LEMMA RestoreRowRestores ==
  ASSUME IInv, RestoreRow
  PROVE  Restored(prev[i].slot)
<1>1. pc = "restore" /\ i \in 1 .. Len(prev)
  BY DEF RestoreRow, IInv, TypeOK, CallTypeOK
<1>2. prev[i] \in Entry /\ prev[i].slot \in Slot
  BY <1>1, Elements DEF IInv, Entry
<1>3. /\ pc' = pc /\ i' = i + 1 /\ UNCHANGED <<n, dead, gen, slots, prev, occ, acked, snap>>
      /\ vec' = [vec EXCEPT ![prev[i].slot] = prev[i].vec]
  BY DEF RestoreRow, PutBack, call, history
<1> QED
  BY <1>1, <1>2, <1>3 DEF Restored

-----------------------------------------------------------------------------
(* Every action keeps the invariant.                                       *)

\* Delete returns: nothing but the call is gone.
LEMMA EndDeleteKeeps ==
  ASSUME IInv, Bounded, EndDelete
  PROVE  IInv'
<1> USE CagraSlotsAssumption
    DEF IInv, EndDelete, index, call, history, TypeOK, IndexTypeOK, CallTypeOK, HistoryTypeOK
<1>1. (/\ IndexTypeOK /\ PhaseInv /\ CountIsExact /\ NoSlotLeaks /\ TablesCoverRows
       /\ JournalInv /\ OutInv /\ GenInv /\ AckInv)'
  BY DEF Return, PhaseInv, InExtend, Claiming, CountIsExact, Committed, NoSlotLeaks,
         TablesCoverRows, JournalInv, Pending, OutInv, GenInv, AckInv
<1>2. (CallTypeOK /\ HistoryTypeOK)'
  BY ReturnTyped DEF SnapTypeOK
<1>3. QED
  BY <1>1, <1>2

\* A step to the call's next phase that edits no row.
LEMMA PhaseChange ==
  ASSUME IInv, UNCHANGED <<index, call, prev, history>>,
         pc' \in {"relinkUpdate", "revive", "restore", "relinkExtend", "giveback", "unwind"},
         InExtend' = InExtend, Claiming' => Claiming, Pending' \subseteq Pending,
         i' \in Nat \ {0}, PhaseInv'
  PROVE  IInv'
<1> USE DEF IInv, index, call, history
<1>1. TypeOK'
  BY DEF TypeOK, IndexTypeOK, CallTypeOK, HistoryTypeOK
<1>2. Committed' = Committed
  BY DEF Committed
<1>3. CountIsExact' /\ NoSlotLeaks' /\ TablesCoverRows' /\ GenInv' /\ AckInv' /\ OutInv'
  BY <1>2 DEF CountIsExact, NoSlotLeaks, TablesCoverRows, GenInv, AckInv, OutInv
<1>4. JournalInv'
  BY DEF JournalInv
<1>5. QED
  BY <1>1, <1>3, <1>4

\* All rows of the chunk are written.
LEMMA EndWriteKeeps ==
  ASSUME IInv, Bounded, EndWrite
  PROVE  IInv'
<1>1. i' \in Nat \ {0} /\ PhaseInv'
  BY DEF IInv, EndWrite, PhaseInv, InExtend, Claiming, TypeOK, CallTypeOK, call,
         index, history
<1>2. Pending' \subseteq Pending
  BY DEF EndWrite, Pending, Claiming
<1>3. QED
  BY <1>1, <1>2, PhaseChange DEF EndWrite, InExtend, Claiming

\* The repair of the chunk succeeded.
LEMMA UpdateRelinkedKeeps ==
  ASSUME IInv, Bounded, UpdateRelinked
  PROVE  IInv'
<1>1. i' \in Nat \ {0} /\ PhaseInv'
  BY DEF IInv, UpdateRelinked, PhaseInv, InExtend, Claiming, TypeOK, CallTypeOK, call,
         index, history
<1>2. Pending' \subseteq Pending
  BY DEF UpdateRelinked, Pending, Claiming
<1>3. QED
  BY <1>1, <1>2, PhaseChange DEF UpdateRelinked, InExtend, Claiming

\* The repair failed: the chunk will be put back.
LEMMA UpdateRelinkFailedKeeps ==
  ASSUME IInv, Bounded, UpdateRelinkFailed
  PROVE  IInv'
<1>1. i' \in Nat \ {0} /\ PhaseInv'
  BY DEF IInv, UpdateRelinkFailed, PhaseInv, InExtend, Claiming, TypeOK, CallTypeOK, call,
         index, history
<1>2. Pending' \subseteq Pending
  BY DEF UpdateRelinkFailed, Pending, Claiming
<1>3. QED
  BY <1>1, <1>2, PhaseChange DEF UpdateRelinkFailed, InExtend, Claiming

\* A failed Update returns with its chunk put back.
LEMMA EndRestoreKeeps ==
  ASSUME IInv, Bounded, EndRestore
  PROVE  IInv'
<1> USE CagraSlotsAssumption
    DEF IInv, EndRestore, index, call, history, TypeOK, IndexTypeOK, CallTypeOK, HistoryTypeOK
<1>1. (/\ IndexTypeOK /\ PhaseInv /\ CountIsExact /\ NoSlotLeaks /\ TablesCoverRows
       /\ JournalInv /\ OutInv /\ GenInv /\ AckInv)'
  BY DEF Return, PhaseInv, InExtend, Claiming, CountIsExact, Committed, NoSlotLeaks,
         TablesCoverRows, JournalInv, Pending, OutInv, GenInv, AckInv
<1>2. (CallTypeOK /\ HistoryTypeOK)'
  BY ReturnTyped DEF SnapTypeOK
<1>3. QED
  BY <1>1, <1>2

\* Update goes on to its next chunk.
LEMMA NextUpdateChunkKeeps ==
  ASSUME IInv, Bounded, NextUpdateChunk
  PROVE  IInv'
<1> USE CagraSlotsAssumption
    DEF IInv, NextUpdateChunk, index, call, history, TypeOK, IndexTypeOK, CallTypeOK, HistoryTypeOK
<1>1. IndexTypeOK'
  OBVIOUS
<1>2. CallTypeOK'
  BY EmptySeqs, ChunkEndBounds
<1>3. HistoryTypeOK'
  BY DEF Rows
<1>4. (PhaseInv /\ CountIsExact /\ NoSlotLeaks /\ TablesCoverRows)'
  BY DEF PhaseInv, InExtend, Claiming, CountIsExact, Committed, NoSlotLeaks,
         TablesCoverRows
<1>5. (JournalInv /\ OutInv /\ GenInv /\ AckInv)'
  BY DEF JournalInv, PhaseInv, Pending, Claiming, OutInv, GenInv, Committed, InExtend,
         AckInv
<1>6. QED
  BY <1>1, <1>2, <1>3, <1>4, <1>5

\* Update returns and recomputes the codes.
LEMMA EndUpdateKeeps ==
  ASSUME IInv, Bounded, EndUpdate
  PROVE  IInv'
<1> USE CagraSlotsAssumption
    DEF IInv, EndUpdate, index, call, history, TypeOK, IndexTypeOK, CallTypeOK, HistoryTypeOK
<1>1. (/\ IndexTypeOK /\ PhaseInv /\ CountIsExact /\ NoSlotLeaks /\ TablesCoverRows
       /\ JournalInv /\ OutInv /\ GenInv /\ AckInv)'
  BY DEF Return, PhaseInv, InExtend, Claiming, CountIsExact, Committed, NoSlotLeaks,
         TablesCoverRows, JournalInv, Pending, OutInv, GenInv, AckInv
<1>2. (CallTypeOK /\ HistoryTypeOK)'
  BY ReturnTyped DEF SnapTypeOK
<1>3. QED
  BY <1>1, <1>2

\* All rows of the chunk are claimed or appended.
LEMMA EndClaimKeeps ==
  ASSUME IInv, Bounded, EndClaim
  PROVE  IInv'
<1>1. i' \in Nat \ {0} /\ PhaseInv'
  BY DEF IInv, EndClaim, PhaseInv, InExtend, Claiming, TypeOK, CallTypeOK, call,
         index, history
<1>2. Pending' \subseteq Pending
  BY DEF EndClaim, Pending, Claiming
<1>3. QED
  BY <1>1, <1>2, PhaseChange DEF EndClaim, InExtend, Claiming

\* Extend goes on to its next chunk: the journal of the last one is closed, its
\* rows stay claimed.
LEMMA NextExtendChunkKeeps ==
  ASSUME IInv, Bounded, NextExtendChunk
  PROVE  IInv'
<1> USE CagraSlotsAssumption
    DEF IInv, NextExtendChunk, index, call, history, TypeOK, IndexTypeOK, CallTypeOK, HistoryTypeOK
<1>1. (IndexTypeOK /\ HistoryTypeOK)'
  OBVIOUS
<1>2. CallTypeOK'
  BY EmptySeqs, ChunkEndBounds
<1>3. (PhaseInv /\ CountIsExact /\ NoSlotLeaks /\ TablesCoverRows)'
  BY DEF PhaseInv, InExtend, Claiming, CountIsExact, Committed, NoSlotLeaks,
         TablesCoverRows
<1>4. (JournalInv /\ OutInv /\ GenInv /\ AckInv)'
  BY DEF JournalInv, PhaseInv, Pending, Claiming, OutInv, GenInv, Committed, InExtend,
         AckInv
<1>5. QED
  BY <1>1, <1>2, <1>3, <1>4

\* The repair failed: every claimed row becomes pending for its give-back.
LEMMA ExtendRelinkFailedKeeps ==
  ASSUME IInv, Bounded, ExtendRelinkFailed
  PROVE  IInv'
<1>1. i' \in Nat \ {0} /\ PhaseInv'
  BY DEF IInv, ExtendRelinkFailed, PhaseInv, InExtend, Claiming, TypeOK, CallTypeOK, call,
         index, history
<1>2. Pending' \subseteq Pending
  BY DEF ExtendRelinkFailed, Pending, Claiming
<1>3. QED
  BY <1>1, <1>2, PhaseChange DEF ExtendRelinkFailed, InExtend, Claiming

\* No row is left to give back.
LEMMA EndGiveBackKeeps ==
  ASSUME IInv, Bounded, EndGiveBack
  PROVE  IInv'
<1>1. i' \in Nat \ {0} /\ PhaseInv'
  BY DEF IInv, EndGiveBack, PhaseInv, InExtend, Claiming, TypeOK, CallTypeOK, call,
         index, history
<1>2. Pending' \subseteq Pending
  BY DEF EndGiveBack, Pending, Claiming
<1>3. QED
  BY <1>1, <1>2, PhaseChange DEF EndGiveBack, InExtend, Claiming

\* One row is tombstoned: it is counted, listed, and inside the bitset.
LEMMA DeleteRowKeeps ==
  ASSUME IInv, Bounded, DeleteRow
  PROVE  IInv'
<1> USE CagraSlotsAssumption
    DEF IInv, DeleteRow, index, call, history, TypeOK, IndexTypeOK, CallTypeOK, HistoryTypeOK
<1>1. IndexTypeOK'
  <2>1. slots[i] \in Slot
    BY Elements
  <2>2. dead' \in SUBSET Slot /\ deletedCount' \in Nat
    BY SMTT(30), <2>1
  <2>3. freeSlots' \in Seq(Slot)
    BY <2>1, AppendListed
  <2>4. QED
    BY <2>2, <2>3
<1>2. (CallTypeOK /\ HistoryTypeOK)'
  OBVIOUS
<1>3. (PhaseInv /\ TablesCoverRows)'
  BY DEF PhaseInv, InExtend, Claiming, TablesCoverRows, Committed
<1>4. CountIsExact'
  <2>1. slots[i] \in 0 .. n - 1
    BY SlotsExist
  <2>2. slots[i] < bits
    BY <2>1 DEF PhaseInv, TablesCoverRows, Committed, InExtend
  <2>3. CASE UNCHANGED <<dead, deletedCount>>
    BY <2>3 DEF CountIsExact, Committed, InExtend
  <2>4. CASE /\ slots[i] \notin dead
             /\ dead' = dead \cup {slots[i]}
             /\ deletedCount' = deletedCount + 1
    <3>1. Cardinality(dead') = Cardinality(dead) + 1
      BY <2>4, DeadFinite, FS_AddElement
    <3>2. QED
      BY <2>1, <2>4, <3>1 DEF CountIsExact, Committed, InExtend
  <2>5. QED
    BY <2>2, <2>3, <2>4
<1>5. NoSlotLeaks'
  <2>1. i \in 1 .. Len(slots)
    OBVIOUS
  <2>2. slots[i] \in Slot
    BY <2>1, Elements
  <2>3. CASE UNCHANGED <<dead, freeSlots>>
    BY <2>3 DEF NoSlotLeaks
  <2>4. CASE freeSlots' = Append(freeSlots, slots[i]) /\ dead' \subseteq dead \cup {slots[i]}
    BY <2>2, <2>4, AppendListed
  <2>5. QED
    BY <2>3, <2>4
<1>6. (JournalInv /\ OutInv /\ GenInv /\ AckInv)'
  BY DEF JournalInv, PhaseInv, Pending, Claiming, OutInv, GenInv, Committed, InExtend,
         AckInv
<1>7. QED
  BY <1>1, <1>2, <1>3, <1>4, <1>5, <1>6

\* One row is overwritten by an Update: no id and no tombstone changes.
LEMMA WriteRowKeeps ==
  ASSUME IInv, Bounded, WriteRow
  PROVE  IInv'
<1> USE CagraSlotsAssumption
    DEF IInv, WriteRow, index, call, history, TypeOK, IndexTypeOK, CallTypeOK, HistoryTypeOK
<1>1. IndexTypeOK'
  <2>1. Len(slots) \in Nat /\ ChunkEnd(Len(slots)) \in Nat /\ ChunkEnd(Len(slots)) <= Len(slots)
    BY ChunkEndBounds
  <2>2. i \in 1 .. Len(slots) /\ i \in 1 .. Len(vecs)
    BY <2>1 DEF PhaseInv
  <2>3. slots[i] \in Slot /\ vecs[i] \in Vec
    BY <2>2, Elements
  <2>4. QED
    BY <2>3
<1>2. CallTypeOK'
  <2>1. Len(slots) \in Nat /\ ChunkEnd(Len(slots)) \in Nat /\ ChunkEnd(Len(slots)) <= Len(slots)
    BY ChunkEndBounds
  <2>2. slots[i] \in Slot
    BY <2>1, Elements
  <2>3. Saved(slots[i]) \in Entry
    BY <2>2 DEF Saved, Entry
  <2>4. QED
    BY SMTT(30), <2>3
<1>3. HistoryTypeOK'
  OBVIOUS
<1>4. (PhaseInv /\ CountIsExact /\ NoSlotLeaks /\ TablesCoverRows)'
  BY DEF PhaseInv, InExtend, Claiming, CountIsExact, Committed, NoSlotLeaks,
         TablesCoverRows
<1>5. (JournalInv /\ OutInv /\ GenInv /\ AckInv)'
  BY DEF JournalInv, PhaseInv, Pending, Claiming, OutInv, GenInv, Committed, InExtend,
         AckInv
<1>6. QED
  BY <1>1, <1>2, <1>3, <1>4, <1>5

\* One row gets its old vector back.
LEMMA RestoreRowKeeps ==
  ASSUME IInv, Bounded, RestoreRow
  PROVE  IInv'
<1> USE CagraSlotsAssumption
    DEF IInv, RestoreRow, PutBack, index, call, history, TypeOK, IndexTypeOK, CallTypeOK, HistoryTypeOK
<1>1. IndexTypeOK'
  <2>1. prev[i] \in Entry
    BY Elements
  <2>2. vec' \in [Slot -> Vec \cup {NoVec}]
    BY <2>1 DEF Entry
  <2>3. QED
    BY <2>2
<1>2. (CallTypeOK /\ HistoryTypeOK)'
  OBVIOUS
<1>3. (PhaseInv /\ CountIsExact /\ NoSlotLeaks /\ TablesCoverRows)'
  BY DEF PhaseInv, InExtend, Claiming, CountIsExact, Committed, NoSlotLeaks,
         TablesCoverRows
<1>4. (JournalInv /\ OutInv /\ GenInv /\ AckInv)'
  BY DEF JournalInv, PhaseInv, Pending, Claiming, OutInv, GenInv, Committed, InExtend,
         AckInv
<1>5. QED
  BY <1>1, <1>2, <1>3, <1>4

\* One tombstone is revived: its entry on free_slots goes stale.
LEMMA ReviveRowKeeps ==
  ASSUME IInv, Bounded, ReviveRow
  PROVE  IInv'
<1> USE CagraSlotsAssumption
    DEF IInv, ReviveRow, Revive, index, call, history, TypeOK, IndexTypeOK, CallTypeOK, HistoryTypeOK
<1>1. IndexTypeOK'
  <2>1. slots[i] \in dead => deletedCount >= 1
    BY DeadCounted
  <2>2. QED
    BY <2>1
<1>2. CallTypeOK'
  OBVIOUS
<1>3. HistoryTypeOK'
  OBVIOUS
<1>4. (PhaseInv /\ NoSlotLeaks /\ TablesCoverRows)'
  BY DEF PhaseInv, InExtend, Claiming, NoSlotLeaks, TablesCoverRows, Committed
<1>5. CountIsExact'
  <2>1. CASE UNCHANGED <<dead, deletedCount>>
    BY <2>1 DEF CountIsExact, Committed, InExtend
  <2>2. CASE /\ slots[i] \in dead
             /\ dead' = dead \ {slots[i]}
             /\ deletedCount' = deletedCount - 1
    <3> HIDE DEF TypeOK
    <3>1. Cardinality(dead') = Cardinality(dead) - 1
      BY <2>2, DeadFinite, FS_RemoveElement
    <3>2. QED
      BY <2>2, <3>1 DEF CountIsExact, Committed, InExtend
  <2>3. QED
    BY <2>1, <2>2
<1>6. (JournalInv /\ OutInv /\ GenInv /\ AckInv)'
  BY DEF JournalInv, PhaseInv, Pending, Claiming, OutInv, GenInv, Committed, InExtend,
         AckInv
<1>7. QED
  BY <1>1, <1>2, <1>3, <1>4, <1>5, <1>6

\* Delete begins: every named id resolves to a row, and the bitset is there
\* before a bit is set.
LEMMA BeginDeleteKeeps ==
  ASSUME IInv, Bounded, NEW ss \in Requests(Resolvable), BeginDelete(ss)
  PROVE  IInv'
<1>0. ss \in Seq(Slot) /\ \A k \in DOMAIN ss : ss[k] < n
  BY IdsNameRows DEF IInv
<1>a. n \in Nat
  BY CagraSlotsAssumption DEF IInv, TypeOK, IndexTypeOK
<1>b. BitsFor(n) \in Nat /\ n <= BitsFor(n)
  BY <1>a, BitsForCovers
<1>c. CallTypeOK' /\ SnapTypeOK'
  BY <1>0, EmptySeqs, EnterTyped DEF IInv, BeginDelete
<1> USE CagraSlotsAssumption
    DEF IInv, BeginDelete, index, call, history, TypeOK, IndexTypeOK, CallTypeOK, HistoryTypeOK
<1>1. IndexTypeOK'
  BY <1>b DEF Enter
<1>2. CallTypeOK'
  BY <1>c
<1>3. HistoryTypeOK'
  BY <1>c DEF SnapTypeOK, Enter
<1>4. PhaseInv'
  <2>1. ss # <<>> /\ 1 \in DOMAIN ss /\ ss[1] \in Nat
    BY SMTT(30), CagraSlotsAssumption DEF Requests, Resolvable
  <2>2. bits' # 0
    BY <1>0, <2>1, <1>b
  <2>3. QED
    BY <1>0, <2>2 DEF Enter, PhaseInv, InExtend, Claiming
<1>5. CountIsExact'
  BY DEF Enter, PhaseInv, CountIsExact, Committed, InExtend
<1>6. NoSlotLeaks'
  BY DEF NoSlotLeaks, PhaseInv
<1>7. TablesCoverRows'
  BY <1>b DEF Enter, TablesCoverRows, Committed, InExtend
<1>8. JournalInv'
  BY DEF Enter, PhaseInv, JournalInv, Pending, Claiming
<1>9. OutInv'
  BY DEF Enter, PhaseInv, OutInv, Claiming
<1>10. GenInv'
  BY DEF Enter, PhaseInv, GenInv, Committed, InExtend, Claiming
<1>11. AckInv'
  BY DEF Enter, PhaseInv, AckInv, Committed, InExtend
<1>12. QED
  BY <1>1, <1>2, <1>3, <1>4, <1>5, <1>6, <1>7, <1>8, <1>9, <1>10, <1>11

\* Update begins: its ids name rows that exist.
LEMMA BeginUpdateKeeps ==
  ASSUME IInv, Bounded, NEW ss \in Requests(Resolvable), NEW vs \in [DOMAIN ss -> Vec],
         BeginUpdate(ss, vs)
  PROVE  IInv'
<1>0. /\ ss \in Seq(Slot) /\ \A k \in DOMAIN ss : ss[k] < n
      /\ vs \in Seq(Vec) /\ Len(vs) = Len(ss)
  BY IdsNameRows, VectorPerId DEF IInv
<1>c. CallTypeOK' /\ SnapTypeOK'
  BY <1>0, EnterTyped DEF IInv, BeginUpdate
<1> USE CagraSlotsAssumption
    DEF IInv, BeginUpdate, index, call, history, TypeOK, IndexTypeOK, CallTypeOK, HistoryTypeOK
<1>1. (IndexTypeOK /\ NoSlotLeaks)'
  BY DEF NoSlotLeaks, PhaseInv
<1>2. CallTypeOK'
  BY <1>c
<1>3. HistoryTypeOK'
  BY <1>c DEF SnapTypeOK, Enter
<1>4. PhaseInv'
  BY <1>0 DEF Enter, PhaseInv, InExtend, Claiming
<1>5. CountIsExact'
  BY DEF Enter, PhaseInv, CountIsExact, Committed, InExtend
<1>6. TablesCoverRows'
  BY DEF Enter, PhaseInv, TablesCoverRows, Committed, InExtend
<1>7. JournalInv'
  BY DEF Enter, PhaseInv, JournalInv, Pending, Claiming
<1>8. OutInv'
  BY DEF Enter, PhaseInv, OutInv, Claiming
<1>9. GenInv'
  BY DEF Enter, PhaseInv, GenInv, Committed, InExtend, Claiming
<1>10. AckInv'
  BY DEF Enter, PhaseInv, AckInv, Committed, InExtend
<1>11. QED
  BY <1>1, <1>2, <1>3, <1>4, <1>5, <1>6, <1>7, <1>8, <1>9, <1>10

\* Extend or ExtendEx begins: there is room for what it brings.
LEMMA BeginExtendKeeps ==
  ASSUME IInv, Bounded, NEW vs \in Requests(Vec), NEW w \in BOOLEAN, BeginExtend(vs, w)
  PROVE  IInv'
<1>0. vs \in Seq(Vec)
  BY RequestsAreSeqs
<1>c. CallTypeOK' /\ SnapTypeOK'
  BY <1>0, EmptySeqs, EnterTyped DEF IInv, BeginExtend
<1> USE CagraSlotsAssumption
    DEF IInv, BeginExtend, index, call, history, TypeOK, IndexTypeOK, CallTypeOK, HistoryTypeOK
<1>1. (IndexTypeOK /\ NoSlotLeaks)'
  BY DEF NoSlotLeaks, PhaseInv
<1>2. CallTypeOK'
  BY <1>c
<1>3. HistoryTypeOK'
  BY <1>c DEF SnapTypeOK, Enter
<1>4. PhaseInv'
  BY <1>0 DEF Enter, PhaseInv, InExtend, Claiming
<1>5. CountIsExact'
  BY DEF Enter, PhaseInv, CountIsExact, Committed, InExtend
<1>6. TablesCoverRows'
  BY DEF Enter, PhaseInv, TablesCoverRows, Committed, InExtend
<1>7. JournalInv'
  BY DEF Enter, PhaseInv, JournalInv, Pending, Claiming
<1>8. OutInv'
  BY DEF Enter, PhaseInv, OutInv, Claiming
<1>9. GenInv'
  BY DEF Enter, PhaseInv, GenInv, Committed, InExtend, Claiming
<1>10. AckInv'
  BY DEF Enter, PhaseInv, AckInv, Committed, InExtend
<1>11. QED
  BY <1>1, <1>2, <1>3, <1>4, <1>5, <1>6, <1>7, <1>8, <1>9, <1>10

\* A successful insert reports its ids: each is current, and from here on the
\* tables cover the appended rows.
LEMMA EndExtendKeeps ==
  ASSUME IInv, Bounded, EndExtend
  PROVE  IInv'
<1>a. n \in Nat /\ origN \in Nat
  BY CagraSlotsAssumption DEF IInv, TypeOK, IndexTypeOK, CallTypeOK
<1>b. BitsFor(n) \in Nat /\ n <= BitsFor(n)
  BY <1>a, BitsForCovers
<1>c. CallTypeOK' /\ SnapTypeOK'
  BY ReturnTyped DEF EndExtend
<1>d. \A k \in DOMAIN out : out[k] \in Id \X Occupant
  BY DEF IInv, TypeOK, CallTypeOK
<1>e. pc = "relinkExtend" /\ pc' = "idle" /\ UNCHANGED <<n, gen, occ, dead>>
  BY DEF EndExtend, Return
<1>f. \A p \in acked : p[1][1] \in Nat
  BY AckedTyped DEF IInv, Slot
<1> USE CagraSlotsAssumption
    DEF IInv, EndExtend, GrowTables, index, call, history, TypeOK, IndexTypeOK, CallTypeOK, HistoryTypeOK
<1>1. IndexTypeOK'
  BY <1>a, <1>b
<1>2. CallTypeOK'
  BY <1>c
<1>3. HistoryTypeOK'
  BY SMTT(30), <1>c, <1>d DEF SnapTypeOK
<1>4. (PhaseInv /\ CountIsExact /\ NoSlotLeaks /\ JournalInv /\ OutInv /\ GenInv)'
  BY DEF Return, PhaseInv, InExtend, Claiming, CountIsExact, Committed, NoSlotLeaks,
         JournalInv, Pending, OutInv, GenInv
<1>5. TablesCoverRows'
  <2>1. gens \in {0, origN} /\ origN <= n
    BY <1>e DEF GenInv, PhaseInv, Committed, InExtend
  <2>2. bits' = 0 => dead = {}
    <3>1. dead \subseteq 0 .. origN - 1
      BY <1>e DEF CountIsExact, Committed, InExtend
    <3>2. QED
      BY <1>a, <1>b, <2>1, <3>1 DEF TablesCoverRows
  <2>3. bits' # 0 => n <= bits'
    BY <1>b
  <2>4. \A s \in Slot : s >= gens' => gen[s] = 0
    <3>1. \A s \in Slot : s \in Nat
      BY DEF Slot
    <3>2. QED
      BY <1>a, <2>1, <3>1 DEF TablesCoverRows
  <2>5. QED
    BY SMTT(30), <1>a, <1>e, <2>2, <2>3, <2>4 DEF TablesCoverRows, Committed, InExtend
<1>6. AckInv'
  <2> SUFFICES ASSUME NEW p \in acked'
               PROVE  /\ p[1][1] < n
                      /\ \/ p[1][2] < gen[p[1][1]]
                         \/ p[1][2] = gen[p[1][1]] /\ occ[p[1][1]] = p[2]
    BY <1>e DEF AckInv, Committed, InExtend
  <2>1. CASE p \in acked
    BY <1>a, <1>e, <1>f, <2>1 DEF AckInv, PhaseInv, Committed, InExtend
  <2>2. CASE \E k \in DOMAIN out : p = out[k]
    BY <1>e, <2>2 DEF OutInv, Claiming
  <2>3. QED
    BY <2>1, <2>2
<1>7. QED
  BY <1>1, <1>2, <1>3, <1>4, <1>5, <1>6

\* A failed insert drops the appended rows: no acknowledged id named one.
LEMMA UnwindKeeps ==
  ASSUME IInv, Bounded, Unwind
  PROVE  IInv'
<1>a. n \in 0 .. MaxRows /\ origN \in Nat /\ origN <= n
  BY CagraSlotsAssumption DEF IInv, TypeOK, IndexTypeOK, CallTypeOK, PhaseInv, Unwind, InExtend
<1>c. CallTypeOK' /\ SnapTypeOK'
  BY ReturnTyped DEF Unwind
<1>d. /\ vec' \in [Slot -> Vec \cup {NoVec}]
      /\ occ' \in [Slot -> Occupant]
  BY CagraSlotsAssumption DEF IInv, TypeOK, IndexTypeOK, HistoryTypeOK, Unwind, Occupant
<1>e. pc = "unwind" /\ pc' = "idle" /\ n' = origN /\ UNCHANGED <<gen, acked>>
  BY DEF Unwind, Return
<1> USE CagraSlotsAssumption
    DEF IInv, Unwind, index, call, history, TypeOK, IndexTypeOK, CallTypeOK, HistoryTypeOK
<1>1. IndexTypeOK'
  BY <1>a, <1>d
<1>2. CallTypeOK'
  BY <1>c
<1>3. HistoryTypeOK'
  BY <1>c, <1>d DEF SnapTypeOK
<1>4. (PhaseInv /\ CountIsExact /\ NoSlotLeaks /\ TablesCoverRows /\ JournalInv /\ OutInv /\ GenInv)'
  BY DEF Return, PhaseInv, InExtend, Claiming, CountIsExact, Committed, NoSlotLeaks,
         TablesCoverRows, JournalInv, Pending, OutInv, GenInv
<1>5. AckInv'
  <2>1. \A p \in acked : p[1][1] \in Slot
    BY AckedTyped
  <2>2. \A s \in Slot : s < origN => occ'[s] = occ[s]
    OBVIOUS
  <2> HIDE DEF Unwind, TypeOK, IndexTypeOK, CallTypeOK, HistoryTypeOK
  <2>3. QED
    BY <1>e, <2>1, <2>2 DEF AckInv, Committed, InExtend
<1>6. QED
  BY <1>1, <1>2, <1>3, <1>4, <1>5

\* A claimed row is given back: it was alive, so its tombstone counts again, and
\* its old occupant returns only behind a bumped generation.
LEMMA GiveBackRowKeeps ==
  ASSUME IInv, Bounded, GiveBackRow
  PROVE  IInv'
<1>a. pc = "giveback" /\ i \in 1 .. Len(prev) /\ i \in Pending /\ InExtend
  BY DEF IInv, TypeOK, CallTypeOK, GiveBackRow, Pending, InExtend
<1>b. n \in 0 .. MaxRows /\ origN \in Nat /\ origN <= n
  BY <1>a, Numbers DEF IInv
<1> DEFINE s == prev[i].slot
<1>c. prev[i] \in Entry
  BY <1>a, Elements DEF IInv
<1>d. s \in 0 .. origN - 1 /\ s \in Slot /\ s \notin dead /\ bits # 0
  BY <1>a, <1>b, <1>c DEF IInv, JournalInv, Entry, Slot
<1>e. /\ pc' = pc /\ i' = i + 1 /\ UNCHANGED <<n, bits, gens, gen, codeRows, origN, prev, acked>>
      /\ dead' = dead \cup {s} /\ deletedCount' = deletedCount + 1
      /\ freeSlots' = Append(freeSlots, s)
      /\ occ' = [occ EXCEPT ![s] = prev[i].occ]
  BY DEF GiveBackRow, Bury, call
<1>f. freeSlots' \in Seq(Slot) /\ NoSlotLeaks'
  BY <1>d, <1>e, AppendListed DEF IInv
<1>g. Cardinality(dead') = Cardinality(dead) + 1
  BY <1>d, <1>e, DeadFinite, FS_AddElement DEF IInv
<1>h. \A p \in acked : p[1][1] \in Slot /\ (p[1][1] = s => p[1][2] < gen[s])
  BY <1>a, AckedTyped DEF IInv, JournalInv
<1>j. \A j \in i + 1 .. Len(prev) : j \in Pending /\ prev[j].slot # s
  <2>1. Pending = i .. Len(prev) /\ i \in Nat /\ Len(prev) \in Nat
    BY <1>a DEF IInv, Pending, TypeOK, CallTypeOK
  <2>2. \A j \in i + 1 .. Len(prev) : j \in Pending /\ j # i
    BY <2>1
  <2>3. QED
    BY <1>a, <2>2 DEF IInv, JournalInv
<1> USE CagraSlotsAssumption
    DEF IInv, GiveBackRow, PutBack, Bury, index, call, history, TypeOK, IndexTypeOK, CallTypeOK, HistoryTypeOK
<1>1. IndexTypeOK'
  <2>1. vec' \in [Slot -> Vec \cup {NoVec}]
    BY <1>c, <1>d DEF Entry
  <2> HIDE DEF GiveBackRow
  <2>2. dead' \in SUBSET Slot /\ deletedCount' \in Nat
    BY <1>d, <1>e
  <2>3. QED
    BY <1>e, <1>f, <2>1, <2>2
<1>2. (CallTypeOK /\ PhaseInv /\ OutInv /\ GenInv)'
  BY DEF PhaseInv, InExtend, Claiming, OutInv, GenInv, Committed
<1>3. HistoryTypeOK'
  BY <1>c DEF Entry
<1>4. CountIsExact'
  BY <1>a, <1>d, <1>e, <1>g DEF CountIsExact, Committed, InExtend
<1>5. NoSlotLeaks'
  BY <1>f
<1>6. TablesCoverRows'
  BY <1>d, <1>e DEF TablesCoverRows, Committed, InExtend
<1>7. JournalInv'
  <2> HIDE DEF GiveBackRow, TypeOK, IndexTypeOK, CallTypeOK, HistoryTypeOK, s
  <2>1. Pending' = i + 1 .. Len(prev)
    BY <1>a, <1>e DEF Pending
  <2>2. QED
    BY <1>d, <1>e, <1>j, <2>1 DEF JournalInv
<1>8. AckInv'
  <2>1. occ \in [Slot -> Occupant]
    OBVIOUS
  <2> HIDE DEF GiveBackRow, TypeOK, IndexTypeOK, CallTypeOK, HistoryTypeOK, s
  <2>2. \A p \in acked : p[1][1] # s => occ'[p[1][1]] = occ[p[1][1]]
    BY <1>e, <1>h, <2>1
  <2>3. Committed' = Committed
    BY <1>e DEF Committed, InExtend
  <2>4. QED
    BY <1>e, <1>h, <2>2, <2>3 DEF AckInv
<1>9. QED
  BY <1>1, <1>2, <1>3, <1>4, <1>5, <1>6, <1>7, <1>8

\* A row is appended: only when no tombstone is left to claim does a call that
\* reports ids come here, so gens need not grow before the call ends.
LEMMA AppendRowKeeps ==
  ASSUME IInv, Bounded, AppendRow
  PROVE  IInv'
<1>a. pc = "claim" /\ Claiming /\ InExtend /\ i <= ChunkEnd(Len(vecs))
  BY DEF AppendRow, Claiming, InExtend
<1>b. /\ n \in 0 .. MaxRows - 1 /\ origN \in Nat /\ origN <= n
      /\ inserts \in 0 .. MaxInserts - 1 /\ i \in 1 .. Len(vecs)
  BY <1>a, Numbers DEF IInv
<1>c. n \in Slot /\ vecs[i] \in Vec /\ InitRows + inserts \in Occupant
  BY <1>b, Elements, CagraSlotsAssumption DEF IInv, Slot, Occupant
<1>d. wantIds => dead = {}
  <2> SUFFICES ASSUME wantIds, NEW s \in dead PROVE FALSE
    OBVIOUS
  <2>1. s < n
    BY <1>a, <1>b DEF IInv, CountIsExact, Committed
  <2>2. PICK k \in DOMAIN freeSlots : freeSlots[k] = s
    BY DEF IInv, NoSlotLeaks
  <2>3. QED
    BY <2>1, <2>2 DEF AppendRow, Usable
<1>e. /\ UNCHANGED <<pc, bits, dead, deletedCount, gens, gen, codeRows, wantIds,
                  origN, prev, acked>>
      /\ n' = n + 1 /\ inserts' = inserts + 1 /\ i' = i + 1
      /\ occ' = [occ EXCEPT ![n] = InitRows + inserts]
      /\ out' = Append(out, <<<<n, 0>>, InitRows + inserts>>)
  BY DEF AppendRow
<1>f. <<<<n, 0>>, InitRows + inserts>> \in Id \X Occupant
  BY <1>c, CagraSlotsAssumption DEF Id, Gen
<1>g. out \in Seq(Id \X Occupant) /\ occ \in [Slot -> Occupant]
  BY DEF IInv, TypeOK, CallTypeOK, HistoryTypeOK
<1>h. n \notin dead /\ gen[n] = 0
  BY <1>a, <1>b, <1>c DEF IInv, CountIsExact, TablesCoverRows, GenInv, Committed
<1>j. \A p \in acked : p[1][1] \in Slot /\ p[1][1] < origN
  BY <1>a, AckedTyped DEF IInv, AckInv, Committed
<1> USE CagraSlotsAssumption
    DEF IInv, AppendRow, index, call, history, TypeOK, IndexTypeOK, CallTypeOK, HistoryTypeOK
<1>1. IndexTypeOK'
  <2>1. vec' \in [Slot -> Vec \cup {NoVec}]
    BY <1>c
  <2>2. freeSlots' \in Seq(Slot)
    BY EmptySeqs
  <2>3. n' \in 0 .. MaxRows
    BY <1>b
  <2> HIDE DEF AppendRow
  <2>4. QED
    BY <1>e, <2>1, <2>2, <2>3
<1>2. CallTypeOK'
  <2>1. out' \in Seq(Id \X Occupant)
    BY <1>e, <1>f, <1>g, AppendProperties
  <2>2. i' \in Nat \ {0}
    BY <1>b
  <2>3. QED
    BY <2>1, <2>2
<1>3. HistoryTypeOK'
  BY SMTT(30), <1>b, <1>c
<1>4. PhaseInv'
  BY DEF PhaseInv, InExtend, Claiming
<1>5. (CountIsExact /\ TablesCoverRows)'
  BY DEF CountIsExact, PhaseInv, Committed, InExtend, TablesCoverRows
<1>6. NoSlotLeaks'
  BY <1>d DEF NoSlotLeaks
<1>7. JournalInv'
  BY DEF JournalInv, PhaseInv, Pending, Claiming
<1>8. OutInv'
  <2> HIDE DEF AppendRow, TypeOK, IndexTypeOK, CallTypeOK, HistoryTypeOK
  <2> SUFFICES ASSUME NEW k \in DOMAIN out'
               PROVE  /\ out'[k][1][1] < n + 1
                      /\ out'[k][1][1] \notin dead
                      /\ gen[out'[k][1][1]] = out'[k][1][2]
                      /\ occ'[out'[k][1][1]] = out'[k][2]
    BY <1>e DEF OutInv
  <2>1. CASE k \in DOMAIN out
    <3>1. out'[k] = out[k] /\ out[k][1][1] \in Slot /\ out[k][1][1] < n
      BY <1>a, <1>e, <1>g, <2>1, AppendProperties DEF IInv, OutInv, Id
    <3>2. out[k][1][1] < n + 1 /\ occ'[out[k][1][1]] = occ[out[k][1][1]]
      BY <1>b, <1>c, <1>e, <1>g, <3>1 DEF Slot
    <3>3. QED
      BY <1>a, <2>1, <3>1, <3>2 DEF OutInv
  <2>2. CASE k = Len(out) + 1
    <3>1. out'[k] = <<<<n, 0>>, InitRows + inserts>>
      BY <1>e, <1>g, <2>2, AppendProperties
    <3>2. QED
      BY <1>b, <1>c, <1>e, <1>g, <1>h, <3>1
  <2>3. QED
    BY <1>e, <1>g, <2>1, <2>2, AppendProperties
<1>9. GenInv'
  <2> HIDE DEF AppendRow, TypeOK, IndexTypeOK, CallTypeOK, HistoryTypeOK
  <2>1. \A s \in Slot : gen[s] \in Nat
    BY CagraSlotsAssumption DEF IInv, TypeOK, IndexTypeOK, Gen
  <2>2. QED
    BY <1>a, <1>b, <1>d, <1>e, <2>1 DEF GenInv, Committed, InExtend, Claiming
<1>10. AckInv'
  <2> HIDE DEF AppendRow, TypeOK, IndexTypeOK, CallTypeOK, HistoryTypeOK
  <2>1. \A p \in acked : occ'[p[1][1]] = occ[p[1][1]]
    BY SMTT(30), <1>b, <1>c, <1>e, <1>g, <1>j
  <2>2. QED
    BY <1>a, <1>e, <2>1 DEF AckInv, Committed, InExtend
<1>11. QED
  BY <1>1, <1>2, <1>3, <1>4, <1>5, <1>6, <1>7, <1>8, <1>9, <1>10

\* A tombstone is claimed: the last usable entry of free_slots, so none of the
\* entries dropped with it was a tombstone; its bumped generation leaves every
\* acknowledged id of the row behind.
LEMMA ClaimRowKeeps ==
  ASSUME IInv, Bounded, ClaimRow
  PROVE  IInv'
<1>a. pc = "claim" /\ Claiming /\ InExtend
  BY DEF ClaimRow, Claiming, InExtend
<1>d. PICK k \in Usable :
        /\ \A j \in Usable : j <= k
        /\ freeSlots' = SubSeq(freeSlots, 1, k - 1)
        /\ Claimed(freeSlots[k])
  BY ClaimRowClaims
<1> DEFINE s == freeSlots[k]
<1>b. /\ n \in 0 .. MaxRows /\ origN \in Nat /\ origN <= n
      /\ inserts \in 0 .. MaxInserts - 1 /\ i \in 1 .. Len(vecs)
  BY <1>d DEF Claimed
<1>c. vecs[i] \in Vec /\ InitRows + inserts \in Occupant
  BY <1>d DEF Claimed
<1>e. freeSlots \in Seq(Slot) /\ k \in 1 .. Len(freeSlots) /\ s \in Slot /\ s \in dead
  BY SMTT(30), <1>d DEF Claimed, Usable, IInv, TypeOK, IndexTypeOK
<1>f. s \in 0 .. origN - 1 /\ n = origN /\ bits # 0
  BY <1>d DEF Claimed
<1>g. gens' = origN /\ s < gens'
  BY <1>d DEF Claimed
<1>h. gen \in [Slot -> Gen] /\ gen[s] \in Nat /\ gen[s] + 1 \in Gen
  BY <1>d DEF Claimed
<1>j. /\ gen' = [gen EXCEPT ![s] = gen[s] + 1] /\ gen'[s] = gen[s] + 1
      /\ \A t \in Slot : t # s => gen'[t] = gen[t]
  BY <1>d DEF Claimed
<1>l. /\ UNCHANGED <<n, bits, pc, slots, vecs, wantIds, origN, acked>>
      /\ dead' = dead \ {s} /\ deletedCount' = deletedCount - 1
      /\ inserts' = inserts + 1 /\ i' = i + 1
      /\ vec' = [vec EXCEPT ![s] = vecs[i]]
      /\ occ' = [occ EXCEPT ![s] = InitRows + inserts]
      /\ prev' = Append(prev, Saved(s))
      /\ out' = Append(out, <<<<s, gen'[s]>>, InitRows + inserts>>)
  BY <1>d DEF Claimed
<1>m. Saved(s) \in Entry /\ <<<<s, gen'[s]>>, InitRows + inserts>> \in Id \X Occupant
  BY <1>c, <1>e, <1>h, <1>j DEF Saved, Entry, Id, IInv, TypeOK, IndexTypeOK, HistoryTypeOK
<1>n. /\ prev \in Seq(Entry) /\ out \in Seq(Id \X Occupant) /\ occ \in [Slot -> Occupant]
      /\ Len(prev) \in Nat /\ Len(out) \in Nat
  BY DEF IInv, TypeOK, CallTypeOK, HistoryTypeOK
<1>o. Cardinality(dead') = Cardinality(dead) - 1 /\ deletedCount >= 1
  BY <1>e, <1>l, DeadFinite, DeadCounted, FS_RemoveElement DEF IInv
<1>p. \A p \in acked : p[1][1] \in Slot /\ p[1][2] \in Nat
  BY AckedTyped DEF IInv
<1>q. /\ DOMAIN freeSlots' = 1 .. k - 1
      /\ \A j \in 1 .. k - 1 : freeSlots'[j] = freeSlots[j]
      /\ freeSlots' \in Seq(Slot)
  BY <1>d, <1>e, SubSeqProperties
<1> USE CagraSlotsAssumption
    DEF IInv, ClaimRow, index, call, history, TypeOK, IndexTypeOK, CallTypeOK, HistoryTypeOK
<1>1. IndexTypeOK'
  <2> HIDE DEF ClaimRow, s, TypeOK, CallTypeOK, HistoryTypeOK
  <2>1. vec' \in [Slot -> Vec \cup {NoVec}] /\ gen' \in [Slot -> Gen]
    BY <1>c, <1>e, <1>h, <1>j, <1>l DEF TypeOK
  <2>2. deletedCount' \in Nat /\ dead' \in SUBSET Slot
    BY <1>l, <1>o DEF TypeOK
  <2>3. n \in 0 .. MaxRows /\ bits \in Nat /\ codeRows \in Nat /\ codeRows' = codeRows
    BY DEF TypeOK, ClaimRow
  <2>4. QED
    BY <1>b, <1>g, <1>l, <1>q, <2>1, <2>2, <2>3
<1>2. CallTypeOK'
  <2>1. prev' \in Seq(Entry)
    BY <1>l, <1>m, <1>n, AppendProperties
  <2>2. out' \in Seq(Id \X Occupant)
    BY <1>l, <1>m, <1>n, AppendProperties
  <2>3. QED
    BY <1>b, <2>1, <2>2
<1>3. HistoryTypeOK'
  <2>1. occ' \in [Slot -> Occupant]
    BY <1>c, <1>l
  <2>2. QED
    BY <1>b, <2>1
<1>4. PhaseInv'
  <2> HIDE DEF ClaimRow, s, TypeOK, IndexTypeOK, CallTypeOK, HistoryTypeOK
  <2>1. i \in Nat /\ Len(vecs) \in Nat
    BY <1>b DEF TypeOK, CallTypeOK
  <2>2. QED
    BY <1>a, <1>b, <1>l, <2>1 DEF PhaseInv, InExtend, Claiming
<1>5. CountIsExact'
  <2> HIDE DEF ClaimRow, s, TypeOK, IndexTypeOK, CallTypeOK, HistoryTypeOK
  <2>1. QED
    BY <1>l, <1>o DEF IInv, CountIsExact, Committed, InExtend
<1>6. NoSlotLeaks'
  <2> HIDE DEF ClaimRow, s, TypeOK, IndexTypeOK, CallTypeOK, HistoryTypeOK
  <2> SUFFICES ASSUME NEW t \in dead' PROVE \E j \in DOMAIN freeSlots' : freeSlots'[j] = t
    BY DEF NoSlotLeaks
  <2>1. t \in dead /\ t # s /\ t < n
    BY <1>a, <1>b, <1>f, <1>l DEF CountIsExact, Committed
  <2>2. PICK j \in DOMAIN freeSlots : freeSlots[j] = t
    BY <2>1 DEF NoSlotLeaks
  <2>3. j \in Usable /\ j # k
    BY <2>1, <2>2 DEF Usable, s
  <2>4. j \in 1 .. k - 1
    BY <1>d, <1>e, <2>2, <2>3
  <2>5. QED
    BY <1>q, <2>2, <2>4
<1>7. TablesCoverRows'
  <2> HIDE DEF ClaimRow, s, TypeOK, IndexTypeOK, CallTypeOK, HistoryTypeOK
  <2>1. \A t \in Slot : t \in Nat
    BY DEF Slot
  <2>2. gens \in {0, origN}
    BY <1>a DEF GenInv, Committed
  <2>3. \A t \in Slot : t >= gens' => gen'[t] = 0
    BY <1>b, <1>f, <1>g, <1>j, <2>1, <2>2 DEF TablesCoverRows
  <2>4. QED
    BY <1>a, <1>b, <1>f, <1>g, <1>l, <2>3 DEF TablesCoverRows, Committed, InExtend
<1>8. JournalInv'
  <2> HIDE DEF ClaimRow, s, TypeOK, IndexTypeOK, CallTypeOK, HistoryTypeOK
  <2>1. Pending = 1 .. Len(prev) /\ Pending' = 1 .. Len(prev')
    BY <1>a, <1>l DEF Pending, Claiming
  <2>2. /\ Len(prev') = Len(prev) + 1 /\ prev'[Len(prev) + 1] = Saved(s)
        /\ \A j \in 1 .. Len(prev) : prev'[j] = prev[j]
    BY <1>l, <1>m, <1>n, AppendProperties
  <2>3. Saved(s).slot = s
    BY DEF Saved
  <2>4. \A j \in Pending : prev[j].slot # s /\ prev[j].slot \in Slot
    <3>1. \A j \in Pending : prev[j] \in Entry
      BY <2>1, Elements
    <3>2. QED
      BY <1>e, <3>1 DEF JournalInv, Entry
  <2>5. \A p \in acked : p[1][1] = s => p[1][2] < gen'[s]
    BY <1>h, <1>j, <1>p DEF AckInv
  <2>6. \A j \in Pending' : 
             \/ j \in Pending /\ prev'[j] = prev[j]
             \/ j = Len(prev) + 1 /\ prev'[j].slot = s
    BY <1>n, <2>1, <2>2, <2>3
  <2>7. \A j \in Pending' : prev'[j].slot < origN /\ prev'[j].slot \notin dead'
    <3>1. s < origN /\ s \notin dead'
      BY <1>b, <1>f, <1>l
    <3>2. \A j \in Pending : prev[j].slot < origN /\ prev[j].slot \notin dead'
      BY <1>l DEF JournalInv
    <3>3. QED
      BY <2>6, <3>1, <3>2
  <2>8. \A j, m \in Pending' : prev'[j].slot = prev'[m].slot => j = m
    BY <2>4, <2>6 DEF JournalInv
  <2>9. \A j \in Pending' : \A p \in acked :
          p[1][1] = prev'[j].slot => p[1][2] < gen'[prev'[j].slot]
    BY <1>j, <2>4, <2>5, <2>6 DEF JournalInv
  <2>10. QED
    BY <1>f, <1>l, <2>7, <2>8, <2>9 DEF JournalInv
<1>9. OutInv'
  <2> HIDE DEF ClaimRow, s, TypeOK, IndexTypeOK, CallTypeOK, HistoryTypeOK
  <2> SUFFICES ASSUME NEW j \in DOMAIN out'
               PROVE  /\ out'[j][1][1] < n
                      /\ out'[j][1][1] \notin dead'
                      /\ gen'[out'[j][1][1]] = out'[j][1][2]
                      /\ occ'[out'[j][1][1]] = out'[j][2]
    BY <1>l DEF OutInv
  <2>1. CASE j \in DOMAIN out
    <3>1. out'[j] = out[j] /\ out[j][1][1] \in Slot /\ out[j][1][1] # s
      BY <1>a, <1>e, <1>l, <1>n, <2>1, AppendProperties DEF OutInv, Id
    <3>2. occ'[out[j][1][1]] = occ[out[j][1][1]] /\ gen'[out[j][1][1]] = gen[out[j][1][1]]
      BY <1>j, <1>l, <1>n, <3>1
    <3>3. QED
      BY <1>a, <1>l, <2>1, <3>1, <3>2 DEF OutInv
  <2>2. CASE j = Len(out) + 1
    <3>1. out'[j] = <<<<s, gen'[s]>>, InitRows + inserts>>
      BY <1>l, <1>m, <1>n, <2>2, AppendProperties
    <3>2. occ'[s] = InitRows + inserts
      BY <1>e, <1>l, <1>n
    <3>3. s < n /\ s \notin dead'
      BY <1>b, <1>f, <1>l
    <3>4. QED
      BY <3>1, <3>2, <3>3
  <2>3. QED
    BY <1>l, <1>m, <1>n, <2>1, <2>2, AppendProperties
<1>10. GenInv'
  <2> HIDE DEF ClaimRow, s, TypeOK, IndexTypeOK, CallTypeOK, HistoryTypeOK
  <2>1. \A t \in Slot : gen[t] \in Nat
    BY <1>h DEF Gen
  <2>2. \A t \in Slot : gen'[t] <= inserts'
    BY SMTT(30), <1>b, <1>e, <1>j, <1>l, <2>1 DEF GenInv
  <2>3. QED
    BY <1>a, <1>b, <1>f, <1>g, <1>l, <2>2 DEF GenInv, Committed, InExtend
<1>11. AckInv'
  <2> HIDE DEF ClaimRow, s, TypeOK, IndexTypeOK, CallTypeOK, HistoryTypeOK
  <2>1. Committed' = Committed
    BY <1>a, <1>l DEF Committed, InExtend
  <2>2. SUFFICES ASSUME NEW p \in acked
                 PROVE  \/ p[1][2] < gen'[p[1][1]]
                        \/ p[1][2] = gen'[p[1][1]] /\ occ'[p[1][1]] = p[2]
    BY <1>l, <2>1 DEF AckInv
  <2>3. CASE p[1][1] = s
    BY <1>h, <1>j, <1>p, <2>3 DEF AckInv
  <2>4. CASE p[1][1] # s
    BY <1>j, <1>l, <1>n, <1>p, <2>4 DEF AckInv
  <2>5. QED
    BY <2>3, <2>4
<1>12. QED
  BY <1>1, <1>2, <1>3, <1>4, <1>5, <1>6, <1>7, <1>8, <1>9, <1>10, <1>11

\* The codes are published; no row changes.
LEMMA QuantizeKeeps ==
  ASSUME IInv, Bounded, Quantize
  PROVE  IInv'
<1> USE CagraSlotsAssumption
    DEF IInv, Quantize, index, call, history, TypeOK, IndexTypeOK, CallTypeOK, HistoryTypeOK
<1>1. IndexTypeOK'
  OBVIOUS
<1>2. (CallTypeOK /\ HistoryTypeOK)'
  OBVIOUS
<1>3. (PhaseInv /\ CountIsExact /\ NoSlotLeaks /\ TablesCoverRows)'
  BY DEF PhaseInv, InExtend, Claiming, CountIsExact, Committed, NoSlotLeaks,
         TablesCoverRows
<1>4. (JournalInv /\ OutInv /\ GenInv /\ AckInv)'
  BY DEF JournalInv, PhaseInv, Pending, Claiming, OutInv, GenInv, Committed, InExtend,
         AckInv
<1>5. QED
  BY <1>1, <1>2, <1>3, <1>4

\* A search reports an id; no row changes.
LEMMA SearchKeeps ==
  ASSUME IInv, Bounded, NEW s \in Slot, Search(s)
  PROVE  IInv'
<1> USE CagraSlotsAssumption
    DEF IInv, Search, index, call, history, TypeOK, IndexTypeOK, CallTypeOK, HistoryTypeOK
<1>1. (IndexTypeOK /\ CallTypeOK)'
  OBVIOUS
<1>2. HistoryTypeOK'
  BY DEF Pack, Id
<1>3. (PhaseInv /\ CountIsExact /\ NoSlotLeaks /\ TablesCoverRows)'
  BY DEF PhaseInv, InExtend, Claiming, CountIsExact, Committed, NoSlotLeaks,
         TablesCoverRows
<1>4. (JournalInv /\ OutInv /\ GenInv /\ AckInv)'
  BY DEF JournalInv, PhaseInv, Pending, Claiming, OutInv, GenInv, Committed, InExtend,
         AckInv
<1>5. QED
  BY <1>1, <1>2, <1>3, <1>4

\* No exception escapes the repair.
LEMMA RelinkThrowsKeeps ==
  ASSUME IInv, Bounded, RelinkThrows
  PROVE  IInv'
BY DEF Bounded, RelinkThrows

\* A step that changes nothing.
LEMMA StutterKeeps ==
  ASSUME IInv, UNCHANGED vars
  PROVE  IInv'
<1> USE DEF vars, index, call, history
<1>1. TypeOK'
  BY DEF IInv, TypeOK, IndexTypeOK, CallTypeOK, HistoryTypeOK
<1>2. PhaseInv' /\ CountIsExact' /\ NoSlotLeaks' /\ TablesCoverRows'
  BY DEF IInv, PhaseInv, ChunkEnd, CountIsExact, NoSlotLeaks, TablesCoverRows,
         Committed, InExtend, Claiming
<1>3. JournalInv' /\ OutInv' /\ GenInv' /\ AckInv'
  BY DEF IInv, JournalInv, OutInv, GenInv, AckInv, Pending, Committed, InExtend, Claiming
<1>4. QED
  BY <1>1, <1>2, <1>3 DEF IInv

\* A build leaves no tombstone, no call in progress, and tells the caller the
\* row numbers.
LEMMA InitKeeps ==
  ASSUME Init
  PROVE  IInv
<1> USE CagraSlotsAssumption
<1>1. \A s \in 0 .. InitRows - 1 : s \in Slot /\ s \in Occupant /\ s \in Nat
  BY DEF Slot, Occupant
<1>2. 0 \in Gen /\ 0 \in Occupant /\ 0 \in Nat
  BY DEF Gen, Occupant
<1>3. \A p \in acked : \E s \in 0 .. InitRows - 1 : p = <<<<s, 0>>, s>>
  BY DEF Init
<1>4. IndexTypeOK
  BY <1>2, EmptySeqs DEF Init, IndexTypeOK
<1>5. wantIds \in BOOLEAN
  BY DEF Init
<1>6. CallTypeOK
  <2>1. (slots \in Seq(Slot) /\ vecs \in Seq(Vec))
    BY EmptySeqs DEF Init
  <2>2. (prev \in Seq(Entry) /\ out \in Seq(Id \X Occupant))
    BY EmptySeqs DEF Init
  <2>3. (pc = "idle" /\ base \in Nat /\ i \in Nat \ {0} /\ origN \in Nat)
    BY DEF Init
  <2>4. QED
    BY <1>5, <2>1, <2>2, <2>3 DEF CallTypeOK
<1>7. occ \in [Slot -> Occupant]
  BY <1>1, <1>2 DEF Init, Slot
<1>8. HistoryTypeOK
  <2>1. acked \in SUBSET (Id \X Occupant)
    BY <1>1, <1>2, <1>3 DEF Id
  <2>2. inserts \in 0 .. MaxInserts
    BY DEF Init
  <2>3. seen \in Id \X Occupant
    BY <1>1, <1>2 DEF Init, NoneSeen, Id
  <2>4. SnapTypeOK
    BY <1>2 DEF Init, NoRows, SnapTypeOK
  <2>5. QED
    BY <1>7, <2>1, <2>2, <2>3, <2>4 DEF HistoryTypeOK, SnapTypeOK
<1>9. CountIsExact
  BY FS_EmptySet DEF Init, CountIsExact
<1>10. \A p \in acked : p[1][1] < n /\ p[1][2] = gen[p[1][1]] /\ occ[p[1][1]] = p[2]
  BY <1>1, <1>3 DEF Init
<1>11. AckInv
  BY <1>10 DEF Init, AckInv, Committed, InExtend
<1>12. PhaseInv /\ NoSlotLeaks /\ TablesCoverRows
  BY DEF Init, PhaseInv, InExtend, Claiming, NoSlotLeaks, TablesCoverRows
<1>13. JournalInv /\ OutInv /\ GenInv
  BY DEF Init, JournalInv, OutInv, GenInv, Pending, Claiming, Committed, InExtend
<1>14. QED
  BY <1>4, <1>6, <1>8, <1>9, <1>11, <1>12, <1>13 DEF IInv, TypeOK

\* Every step keeps the invariant.
LEMMA NextKeeps ==
  ASSUME IInv, Bounded, [Next]_vars
  PROVE  IInv'
<1>1. CASE Delete
  BY <1>1, BeginDeleteKeeps DEF Delete
<1>2. CASE Update
  BY <1>2, BeginUpdateKeeps DEF Update
<1>3. CASE Extend
  BY <1>3, BeginExtendKeeps DEF Extend
<1>4. CASE DeleteRow \/ EndDelete
  BY <1>4, DeleteRowKeeps, EndDeleteKeeps
<1>5. CASE WriteRow \/ EndWrite \/ UpdateRelinked \/ UpdateRelinkFailed
  BY <1>5, WriteRowKeeps, EndWriteKeeps, UpdateRelinkedKeeps, UpdateRelinkFailedKeeps
<1>6. CASE RestoreRow \/ EndRestore \/ ReviveRow \/ NextUpdateChunk \/ EndUpdate
  BY <1>6, RestoreRowKeeps, EndRestoreKeeps, ReviveRowKeeps, NextUpdateChunkKeeps,
     EndUpdateKeeps
<1>7. CASE ClaimRow \/ AppendRow \/ EndClaim \/ NextExtendChunk \/ EndExtend
  BY <1>7, ClaimRowKeeps, AppendRowKeeps, EndClaimKeeps, NextExtendChunkKeeps,
     EndExtendKeeps
<1>8. CASE ExtendRelinkFailed \/ GiveBackRow \/ EndGiveBack \/ Unwind \/ RelinkThrows
  BY <1>8, ExtendRelinkFailedKeeps, GiveBackRowKeeps, EndGiveBackKeeps, UnwindKeeps,
     RelinkThrowsKeeps
<1>9. CASE Quantize
  BY <1>9, QuantizeKeeps
<1>10. CASE \E s \in Slot : Search(s)
  BY <1>10, SearchKeeps
<1>11. CASE UNCHANGED vars
  BY <1>11, StutterKeeps
<1>12. QED
  BY <1>1, <1>2, <1>3, <1>4, <1>5, <1>6, <1>7, <1>8, <1>9, <1>10, <1>11 DEF Next

-----------------------------------------------------------------------------
(* What the undo of a failed call rests on.                                *)

\* Rows that exist hold a vector, the others nothing; the journal names rows
\* that exist and the vectors they held.
RowInv ==
  /\ \A s \in Slot : s < n => vec[s] \in Vec
  /\ \A s \in Slot : s >= n => vec[s] = NoVec /\ occ[s] = 0
  /\ \A k \in 1 .. Len(prev) : prev[k].slot < n /\ prev[k].vec \in Vec

\* The first entry of the journal that is not put back yet.
First == IF pc \in {"restore", "giveback", "unwind"} THEN i ELSE 1

\* The rows the journal still has to put back.
Touched == {prev[k].slot : k \in First .. Len(prev)}

\* The journal holds what the rows held when the call (or chunk) began.
JournalIsPast ==
  \A k \in 1 .. Len(prev) :
    /\ prev[k].vec = snap.vec[prev[k].slot]
    /\ prev[k].occ = snap.occ[prev[k].slot]

\* In an Update that names each row once.
UpdateInv ==
  /\ pc \in {"write", "relinkUpdate", "revive"} => Distinct(slots)
  /\ pc = "write" => \A k \in 1 .. Len(prev) :
       \E j \in 1 .. Len(slots) : j < i /\ prev[k].slot = slots[j]
  /\ pc \in {"write", "relinkUpdate", "restore"} =>
       /\ n = snap.n /\ dead = snap.dead /\ occ = snap.occ
       /\ JournalIsPast
       /\ \A s \in Slot \ Touched : vec[s] = snap.vec[s]

\* In an insert of one chunk.
ExtendInv ==
  /\ InExtend =>
       /\ base = 0 /\ Len(vecs) \in 1 .. Chunk
       /\ snap.n = origN
       /\ \A s \in snap.dead : s < origN
       /\ \A s \in Slot : s >= origN => snap.vec[s] = NoVec /\ snap.occ[s] = 0
       /\ JournalIsPast
       /\ \A k \in 1 .. Len(prev) : prev[k].slot < origN /\ prev[k].slot \in snap.dead
       /\ \A s \in Slot \ Touched :
            s < origN => /\ vec[s] = snap.vec[s] /\ occ[s] = snap.occ[s]
                         /\ s \in dead <=> s \in snap.dead
  /\ pc = "relinkExtend" => i > Len(vecs)
  /\ pc = "unwind" => i > Len(prev)
  /\ Claiming => Len(out) = i - 1

\* No id this call is going to report was ever reported.
FreshInv == Claiming => \A k \in 1 .. Len(out) : \A p \in acked : p[1] # out[k][1]

\* The numbers and functions the lemmas below compute with.
LEMMA RowTypes ==
  ASSUME TypeOK
  PROVE  /\ n \in Nat /\ origN \in Nat /\ n <= MaxRows /\ i \in Nat \ {0}
         /\ vec \in [Slot -> Vec \cup {NoVec}] /\ occ \in [Slot -> Occupant]
         /\ gen \in [Slot -> Gen] /\ dead \in SUBSET Slot
         /\ prev \in Seq(Entry) /\ Len(prev) \in Nat
         /\ snap \in [n : 0 .. MaxRows, vec : [Slot -> Vec \cup {NoVec}],
                      dead : SUBSET Slot, occ : [Slot -> Occupant]]
         /\ Slot \subseteq Nat
BY CagraSlotsAssumption DEF TypeOK, IndexTypeOK, CallTypeOK, HistoryTypeOK, Slot

\* A row journalled is the last entry; the others stay.
LEMMA JournalGrows ==
  ASSUME prev \in Seq(Entry), NEW e \in Entry, prev' = Append(prev, e)
  PROVE  /\ Len(prev) \in Nat /\ Len(prev') = Len(prev) + 1 /\ prev'[Len(prev) + 1] = e
         /\ \A k \in 1 .. Len(prev) : prev'[k] = prev[k]
         /\ \A k \in 1 .. Len(prev') : k \in 1 .. Len(prev) \/ k = Len(prev) + 1
<1>1. Len(prev) \in Nat
  OBVIOUS
<1>2. /\ Len(prev') = Len(prev) + 1 /\ prev'[Len(prev) + 1] = e
      /\ \A k \in 1 .. Len(prev) : prev'[k] = prev[k]
  BY AppendProperties
<1> QED
  BY <1>1, <1>2

\* A step that touches no row keeps the rows whole.
LEMMA RowsUntouched ==
  ASSUME RowInv, UNCHANGED <<n, vec, occ>>, prev' = prev \/ prev' = <<>>
  PROVE  RowInv'
<1>1. CASE prev' = prev
  BY <1>1 DEF RowInv
<1>2. CASE prev' = <<>>
  <2>1. Len(prev') = 0
    BY <1>2
  <2>2. 1 .. Len(prev') = {}
    BY <2>1
  <2> QED
    BY <2>2 DEF RowInv
<1> QED
  BY <1>1, <1>2

\* Rows are whole after every build.
LEMMA RowsAtFirst == Init => RowInv
<1> SUFFICES ASSUME Init PROVE RowInv
  OBVIOUS
<1>1. \A s \in Slot : vec[s] \in Vec \cup {NoVec} /\ s \in Nat
  BY CagraSlotsAssumption DEF Init, Slot
<1>2. Len(prev) = 0 /\ InitRows \in Nat
  BY CagraSlotsAssumption DEF Init
<1>3. 1 .. Len(prev) = {}
  BY <1>2
<1> QED
  BY <1>1, <1>2, <1>3 DEF Init, RowInv

\* Every step keeps the rows whole.
LEMMA RowsStayWhole ==
  ASSUME IInv, RowInv, Bounded, [Next]_vars
  PROVE  RowInv'
<1>a. /\ n \in Nat /\ vec \in [Slot -> Vec \cup {NoVec}] /\ occ \in [Slot -> Occupant]
      /\ prev \in Seq(Entry) /\ Slot \subseteq Nat
  BY RowTypes DEF IInv
<1>1. CASE Delete \/ Update \/ Extend
  <2>1. UNCHANGED <<n, vec, occ>> /\ prev' = <<>>
    BY <1>1 DEF Delete, Update, Extend, BeginDelete, BeginUpdate, BeginExtend, Enter, index
  <2> QED
    BY <2>1, RowsUntouched
<1>2. CASE DeleteRow \/ EndDelete \/ EndWrite \/ UpdateRelinked \/ UpdateRelinkFailed
           \/ EndRestore \/ ReviveRow \/ NextUpdateChunk \/ EndUpdate
  <2>1. UNCHANGED <<n, vec, occ>> /\ (prev' = prev \/ prev' = <<>>)
    BY <1>2 DEF DeleteRow, EndDelete, EndWrite, UpdateRelinked, UpdateRelinkFailed,
       EndRestore, ReviveRow, NextUpdateChunk, EndUpdate, Return, index, history
  <2> QED
    BY <2>1, RowsUntouched
<1>3. CASE EndClaim \/ NextExtendChunk \/ EndExtend \/ ExtendRelinkFailed \/ EndGiveBack
           \/ RelinkThrows \/ Quantize \/ \E s \in Slot : Search(s)
  <2>1. UNCHANGED <<n, vec, occ>> /\ (prev' = prev \/ prev' = <<>>)
    BY <1>3 DEF EndClaim, NextExtendChunk, EndExtend, ExtendRelinkFailed, EndGiveBack,
       RelinkThrows, Quantize, Search, Return, index, history
  <2> QED
    BY <2>1, RowsUntouched
<1>4. CASE UNCHANGED vars
  BY <1>4, RowsUntouched DEF vars, index, history
<1>5. CASE WriteRow
  <2>1. Written(slots[i])
    BY <1>5, WriteRowWrites
  <2>2. PICK s \in Slot : Written(s)
    BY <2>1 DEF Written
  <2>3. vec[s] \in Vec /\ Saved(s).slot = s /\ Saved(s).vec = vec[s] /\ s < n
    BY <1>a, <2>2 DEF Written, RowInv, Saved
  <2>4. \A k \in 1 .. Len(prev') : prev'[k].slot < n /\ prev'[k].vec \in Vec
    BY <1>a, <2>2, <2>3, JournalGrows DEF Written, RowInv
  <2>5. \A t \in Slot : /\ t < n => vec'[t] \in Vec
                        /\ t >= n => vec'[t] = NoVec /\ occ[t] = 0
    BY <1>a, <2>2, <2>3 DEF Written, RowInv
  <2> QED
    BY <2>2, <2>4, <2>5 DEF Written, RowInv
<1>6. CASE RestoreRow
  <2>1. Restored(prev[i].slot)
    BY <1>6, RestoreRowRestores
  <2>2. PICK s \in Slot : Restored(s)
    BY <2>1 DEF Restored
  <2>3. s < n /\ prev[i].vec \in Vec
    BY <2>2 DEF Restored, RowInv
  <2>4. \A t \in Slot : /\ t < n => vec'[t] \in Vec
                        /\ t >= n => vec'[t] = NoVec /\ occ[t] = 0
    BY <1>a, <2>2, <2>3 DEF Restored, RowInv
  <2> QED
    BY <2>2, <2>4 DEF Restored, RowInv
<1>7. CASE ClaimRow
  <2>1. PICK s \in Slot : Claimed(s)
    BY <1>7, ClaimRowClaims DEF Claimed
  <2>2. s < n
    BY <1>a, <2>1 DEF Claimed
  <2>3. Saved(s) \in Entry /\ Saved(s).slot = s /\ Saved(s).vec = vec[s] /\ vec[s] \in Vec
    BY <1>a, <2>1, <2>2 DEF RowInv, Saved, Entry
  <2>4. \A k \in 1 .. Len(prev') : prev'[k].slot < n /\ prev'[k].vec \in Vec
    BY SMTT(30), <1>a, <2>1, <2>2, <2>3, JournalGrows DEF Claimed, RowInv
  <2>5. \A t \in Slot : /\ t < n => vec'[t] \in Vec
                        /\ t >= n => vec'[t] = NoVec /\ occ'[t] = 0
    BY <1>a, <2>1, <2>2 DEF Claimed, RowInv
  <2> QED
    BY <2>1, <2>4, <2>5 DEF Claimed, RowInv
<1>8. CASE AppendRow
  <2>1. Appended
    BY <1>8, AppendRowAppends
  <2>2. \A t \in Slot : /\ t < n + 1 => vec'[t] \in Vec
                        /\ t >= n + 1 => vec'[t] = NoVec /\ occ'[t] = 0
    BY <1>a, <2>1 DEF Appended, RowInv
  <2>3. \A k \in 1 .. Len(prev) : prev[k].slot < n + 1
    <3>1. \A k \in 1 .. Len(prev) : prev[k].slot \in Nat
      BY <1>a, Elements DEF IInv, Entry
    <3> QED
      BY <1>a, <3>1 DEF RowInv
  <2> QED
    BY <2>1, <2>2, <2>3 DEF Appended, RowInv
<1>9. CASE GiveBackRow
  <2>1. GivenBack(prev[i].slot)
    BY <1>9, GiveBackRowGives
  <2>2. PICK s \in Slot : GivenBack(s)
    BY <2>1 DEF GivenBack
  <2>3. s < n /\ prev[i].vec \in Vec
    BY <2>2 DEF GivenBack, RowInv
  <2>4. \A t \in Slot : /\ t < n => vec'[t] \in Vec
                        /\ t >= n => vec'[t] = NoVec /\ occ'[t] = 0
    BY <1>a, <2>2, <2>3 DEF GivenBack, RowInv
  <2> QED
    BY <2>2, <2>4 DEF GivenBack, RowInv
<1>10. CASE Unwind
  <2>1. origN \in Nat /\ origN <= n
    BY <1>10, Numbers DEF IInv, Unwind, InExtend
  <2>2. /\ n' = origN /\ prev' = <<>>
        /\ vec' = [s \in Slot |-> IF s < origN THEN vec[s] ELSE NoVec]
        /\ occ' = [s \in Slot |-> IF s < origN THEN occ[s] ELSE 0]
    BY <1>10 DEF Unwind, Return
  <2>3. \A t \in Slot : /\ t < origN => vec'[t] \in Vec
                        /\ t >= origN => vec'[t] = NoVec /\ occ'[t] = 0
    BY <1>a, <2>1, <2>2 DEF RowInv
  <2>4. Len(prev') = 0
    BY <2>2
  <2>5. 1 .. Len(prev') = {}
    BY <2>4
  <2> QED
    BY <2>2, <2>3, <2>5 DEF RowInv
<1> QED
  BY <1>1, <1>2, <1>3, <1>4, <1>5, <1>6, <1>7, <1>8, <1>9, <1>10 DEF Next

-----------------------------------------------------------------------------
(* Every step keeps the promise of the ids.                                *)

\* The live ids, row by row.
LEMMA LiveIdsAre ==
  /\ \A s : s \in 0 .. n - 1 /\ s \notin dead => <<s, gen[s]>> \in LiveIds
  /\ \A x \in LiveIds :
       x[1] \in 0 .. n - 1 /\ x[1] \notin dead /\ x = <<x[1], gen[x[1]]>>
BY DEF LiveIds, Pack

\* The same one step later.
LEMMA LiveIdsWillBe ==
  /\ \A s : s \in 0 .. n' - 1 /\ s \notin dead' => <<s, gen'[s]>> \in LiveIds'
  /\ \A x \in LiveIds' :
       x[1] \in 0 .. n' - 1 /\ x[1] \notin dead' /\ x = <<x[1], gen'[x[1]]>>
BY DEF LiveIds, Pack

\* Those are the ids that name something.
LEMMA LiveIsLiveIds == IdPromise!Live = LiveIds
BY DEF IdPromise!Live

\* A step that leaves rows, generations and acknowledgements alone.
LEMMA PromiseUntouched ==
  ASSUME UNCHANGED <<n, vec, gen, dead, acked>>
  PROVE  UNCHANGED IdPromise!idVars
<1>1. LiveIds' = LiveIds
  BY DEF LiveIds, Pack
<1>2. {Pack(s) : s \in dead}' = {Pack(s) : s \in dead}
  BY DEF Pack
<1> QED
  BY <1>1, <1>2 DEF IdPromise!idVars

\* The ids of rows are ids.
LEMMA PackTyped ==
  ASSUME TypeOK, NEW s \in Slot
  PROVE  Pack(s) \in Id /\ Pack(s)[1] = s /\ Pack(s) = <<s, gen[s]>>
BY RowTypes DEF Pack, Id

\* One row gets another vector: Write, if it is alive.
LEMMA WriteKeepsPromise ==
  ASSUME TypeOK, NEW s \in Slot, NEW v \in Vec, vec' = [vec EXCEPT ![s] = v],
         UNCHANGED <<n, gen, dead, acked>>
  PROVE  [IdPromise!Next]_(IdPromise!idVars)
<1>a. vec \in [Slot -> Vec \cup {NoVec}] /\ n \in Nat /\ n <= MaxRows /\ MaxRows \in Nat
  BY CagraSlotsAssumption, RowTypes
<1>1. LiveIds' = LiveIds
  BY DEF LiveIds, Pack
<1>2. {Pack(t) : t \in dead}' = {Pack(t) : t \in dead} /\ {p[1] : p \in acked}' = {p[1] : p \in acked}
  BY DEF Pack
<1>3. \A x \in LiveIds : x[1] \in Slot
  BY <1>a, LiveIdsAre DEF Slot
<1>4. Pack(s) \in Id /\ Pack(s) = <<s, gen[s]>>
  BY PackTyped
<1>5. CASE Pack(s) \in LiveIds
  <2>1. \A x \in LiveIds : vec'[x[1]] = IF x = Pack(s) THEN v ELSE vec[x[1]]
    BY <1>a, <1>3, <1>4, LiveIdsAre
  <2>2. [id \in LiveIds |-> vec[id[1]]]' = [[id \in LiveIds |-> vec[id[1]]] EXCEPT ![Pack(s)] = v]
    BY <1>1, <1>5, <2>1
  <2>3. IdPromise!Write(Pack(s), v)
    BY <1>1, <1>2, <1>5, <2>2, LiveIsLiveIds DEF IdPromise!Write
  <2> QED
    BY <1>4, <2>3 DEF IdPromise!Next
<1>6. CASE Pack(s) \notin LiveIds
  <2>1. \A x \in LiveIds : x[1] # s
    BY <1>4, <1>6, LiveIdsAre
  <2>2. \A x \in LiveIds : vec'[x[1]] = vec[x[1]]
    BY <1>a, <1>3, <2>1
  <2>3. [id \in LiveIds |-> vec[id[1]]]' = [id \in LiveIds |-> vec[id[1]]]
    BY <1>1, <2>2
  <2> QED
    BY <1>2, <2>3 DEF IdPromise!idVars
<1> QED
  BY <1>5, <1>6

\* A live row becomes a tombstone.
LEMMA DeleteKeepsPromise ==
  ASSUME TypeOK, NEW s \in Slot, s < n, s \notin dead, dead' = dead \cup {s},
         UNCHANGED <<n, vec, gen, acked>>
  PROVE  IdPromise!Next
<1>a. s \in 0 .. n - 1 /\ n \in Nat
  BY RowTypes DEF Slot
<1>1. Pack(s) \in Id /\ Pack(s) = <<s, gen[s]>>
  BY PackTyped
<1>2. Pack(s) \in LiveIds
  BY <1>a DEF LiveIds
<1>3. LiveIds' = LiveIds \ {Pack(s)}
  BY DEF LiveIds, Pack
<1>4. {Pack(t) : t \in dead}' = {Pack(t) : t \in dead} \cup {Pack(s)}
  BY DEF Pack
<1>5. [id \in LiveIds |-> vec[id[1]]]'
        = [x \in LiveIds \ {Pack(s)} |-> [id \in LiveIds |-> vec[id[1]]][x]]
  BY <1>3
<1>6. PICK id \in Id : id = Pack(s)
  BY <1>1
<1>7. IdPromise!Delete(id)
  BY <1>2, <1>4, <1>5, <1>6, LiveIsLiveIds DEF IdPromise!Delete
<1> QED
  BY <1>7 DEF IdPromise!Next

\* A tombstone becomes a live row.
LEMMA ReviveKeepsPromise ==
  ASSUME TypeOK, NEW s \in dead, s < n, vec[s] \in Vec, dead' = dead \ {s},
         UNCHANGED <<n, vec, gen, acked>>
  PROVE  IdPromise!Next
<1>a. s \in Slot /\ s \in 0 .. n - 1 /\ n \in Nat
  BY RowTypes DEF Slot
<1>1. Pack(s) \in Id /\ Pack(s) = <<s, gen[s]>>
  BY <1>a, PackTyped
<1>2. Pack(s) \in {Pack(t) : t \in dead}
  OBVIOUS
<1>3. LiveIds' = LiveIds \cup {Pack(s)}
  BY <1>a DEF LiveIds, Pack
<1>4. {Pack(t) : t \in dead}' = {Pack(t) : t \in dead} \ {Pack(s)}
  BY DEF Pack
<1>5. Pack(s) \notin LiveIds
  BY <1>1, LiveIdsAre
<1>6. [id \in LiveIds |-> vec[id[1]]]'
        = [x \in LiveIds \cup {Pack(s)} |->
             IF x = Pack(s) THEN vec[s] ELSE [id \in LiveIds |-> vec[id[1]]][x]]
  BY <1>1, <1>3
<1>7. PICK id \in Id, v \in Vec : id = Pack(s) /\ v = vec[s]
  BY <1>1
<1>8. IdPromise!Revive(id, v)
  BY <1>2, <1>4, <1>6, <1>7, LiveIsLiveIds DEF IdPromise!Revive
<1> QED
  BY <1>8 DEF IdPromise!Next

\* A tombstone makes room for a new vector under a new generation.
LEMMA ClaimKeepsPromise ==
  ASSUME IInv, NEW s \in Slot, Claimed(s)
  PROVE  IdPromise!Next
<1>a. /\ gen \in [Slot -> Gen] /\ n \in Nat /\ vec \in [Slot -> Vec \cup {NoVec}]
      /\ dead \in SUBSET Slot /\ Slot \subseteq Nat /\ n <= MaxRows /\ MaxRows \in Nat
  BY RowTypes, CagraSlotsAssumption DEF IInv
<1>b. /\ s \in dead /\ s \in 0 .. n - 1 /\ vecs[i] \in Vec
      /\ gen[s] \in Nat /\ gen[s] + 1 \in Gen /\ gen'[s] = gen[s] + 1
      /\ \A t \in Slot : t # s => gen'[t] = gen[t] /\ vec'[t] = vec[t]
      /\ vec'[s] = vecs[i] /\ dead' = dead \ {s} /\ UNCHANGED <<n, acked>>
  BY <1>a DEF Claimed
<1>1. PICK id \in Id, v \in Vec : id = <<s, gen[s] + 1>> /\ v = vecs[i]
  BY <1>b DEF Id
<1>2. id \notin {p[1] : p \in acked}
  <2> SUFFICES ASSUME NEW p \in acked, p[1] = id PROVE FALSE
    OBVIOUS
  <2>1. p[1][1] = s /\ p[1][2] = gen[s] + 1
    BY <1>1
  <2> QED
    BY <1>b, <2>1 DEF IInv, AckInv
<1>3. id \notin LiveIds
  BY <1>1, <1>b, LiveIdsAre
<1>4. id \notin {Pack(t) : t \in dead}
  <2> SUFFICES ASSUME NEW t \in dead, id = <<t, gen[t]>> PROVE FALSE
    BY DEF Pack
  <2> QED
    BY <1>1, <1>b
<1>5. LiveIds' = LiveIds \cup {id}
  <2>1. ASSUME NEW x \in LiveIds' PROVE x \in LiveIds \cup {id}
    <3>1. x[1] \in 0 .. n - 1 /\ x[1] \notin dead' /\ x = <<x[1], gen'[x[1]]>> /\ x[1] \in Slot
      BY <1>a, <1>b, LiveIdsWillBe DEF Slot
    <3>2. CASE x[1] = s
      BY <1>1, <1>b, <3>1, <3>2
    <3>3. CASE x[1] # s
      BY <1>b, <3>1, <3>3, LiveIdsAre
    <3> QED
      BY <3>2, <3>3
  <2>2. ASSUME NEW x \in LiveIds PROVE x \in LiveIds'
    <3>1. x[1] \in 0 .. n - 1 /\ x[1] \notin dead /\ x = <<x[1], gen[x[1]]>> /\ x[1] \in Slot
      BY <1>a, LiveIdsAre DEF Slot
    <3>2. x[1] # s
      BY <1>b, <3>1
    <3> QED
      BY <1>b, <3>1, <3>2, LiveIdsWillBe
  <2>3. id \in LiveIds'
    BY <1>1, <1>b, LiveIdsWillBe
  <2> QED
    BY <2>1, <2>2, <2>3
<1>6. [x \in LiveIds |-> vec[x[1]]]'
        = [x \in LiveIds \cup {id} |-> IF x = id THEN v ELSE [y \in LiveIds |-> vec[y[1]]][x]]
  <2>1. \A x \in LiveIds : vec'[x[1]] = vec[x[1]] /\ x # id
    <3> SUFFICES ASSUME NEW x \in LiveIds PROVE vec'[x[1]] = vec[x[1]] /\ x # id
      OBVIOUS
    <3>1. x[1] \in Slot /\ x[1] \notin dead
      BY <1>a, LiveIdsAre DEF Slot
    <3> QED
      BY <1>b, <1>3, <3>1
  <2>2. vec'[id[1]] = v
    BY <1>1, <1>b
  <2> QED
    BY <1>5, <2>1, <2>2
<1>7. PICK old : old = Pack(s)
  OBVIOUS
<1>8. old \in {Pack(t) : t \in dead} /\ {Pack(t) : t \in dead}' = {Pack(t) : t \in dead} \ {old}
  <2>1. \A t \in dead' : <<t, gen'[t]>> = <<t, gen[t]>> /\ t \in dead /\ t # s
    BY <1>a, <1>b
  <2>2. \A t \in dead : t = s \/ (t \in dead' /\ gen'[t] = gen[t])
    BY <1>a, <1>b
  <2>3. ASSUME NEW x \in {Pack(t) : t \in dead}'
        PROVE  x \in {Pack(t) : t \in dead} \ {old}
    BY <1>7, <2>1 DEF Pack
  <2>4. ASSUME NEW x \in {Pack(t) : t \in dead}, x # old
        PROVE  x \in {Pack(t) : t \in dead}'
    <3>1. PICK t \in dead : x = <<t, gen[t]>>
      BY <2>4 DEF Pack
    <3>2. t \in dead' /\ gen'[t] = gen[t]
      BY <1>7, <2>2, <2>4, <3>1 DEF Pack
    <3>3. x = <<t, gen'[t]>>
      BY <3>1, <3>2
    <3> QED
      BY <3>2, <3>3 DEF Pack
  <2>5. old \notin {Pack(t) : t \in dead}'
    BY <1>7, <2>1 DEF Pack
  <2>6. old \in {Pack(t) : t \in dead}
    BY <1>7, <1>b
  <2> QED
    BY <2>3, <2>4, <2>5, <2>6
<1>9. IdPromise!Insert(id, v)
  BY <1>b, <1>2, <1>3, <1>4, <1>6, <1>8, LiveIsLiveIds DEF IdPromise!Insert
<1> QED
  BY <1>9 DEF IdPromise!Next

\* A row is appended under generation zero.
LEMMA AppendKeepsPromise ==
  ASSUME IInv, Appended
  PROVE  IdPromise!Next
<1>a. /\ gen \in [Slot -> Gen] /\ n \in Nat /\ vec \in [Slot -> Vec \cup {NoVec}]
      /\ dead \in SUBSET Slot /\ Slot \subseteq Nat /\ n <= MaxRows /\ MaxRows \in Nat
  BY RowTypes, CagraSlotsAssumption DEF IInv
<1>b. /\ n \in Slot /\ n \notin dead /\ vecs[i] \in Vec /\ gen[n] = 0
      /\ vec' = [vec EXCEPT ![n] = vecs[i]] /\ n' = n + 1
      /\ UNCHANGED <<gen, dead, acked>> /\ pc = "claim" /\ origN \in Nat /\ origN <= n
  BY DEF Appended
<1>c. 0 \in Gen
  BY CagraSlotsAssumption DEF Gen
<1>1. PICK id \in Id, v \in Vec : id = <<n, 0>> /\ v = vecs[i]
  BY <1>b, <1>c DEF Id
<1>2. id \notin {p[1] : p \in acked}
  <2> SUFFICES ASSUME NEW p \in acked, p[1] = id PROVE FALSE
    OBVIOUS
  <2>1. p[1][1] = n /\ p[1][1] < origN
    BY <1>1, <1>b DEF IInv, AckInv, Committed, InExtend
  <2> QED
    BY <1>a, <1>b, <2>1
<1>3. id \notin LiveIds
  <2> SUFFICES ASSUME id \in LiveIds PROVE FALSE
    OBVIOUS
  <2>1. n \in 0 .. n - 1
    BY <1>1, LiveIdsAre
  <2> QED
    BY <1>a, <2>1
<1>4. id \notin {Pack(t) : t \in dead}
  <2> SUFFICES ASSUME NEW t \in dead, id = <<t, gen[t]>> PROVE FALSE
    BY DEF Pack
  <2> QED
    BY <1>1, <1>b
<1>5. LiveIds' = LiveIds \cup {id}
  <2>1. \A t \in 0 .. n' - 1 : t \in 0 .. n - 1 \/ t = n
    BY <1>a, <1>b
  <2>2. n \in 0 .. n' - 1 /\ \A t \in 0 .. n - 1 : t \in 0 .. n' - 1
    BY <1>a, <1>b
  <2> QED
    BY <1>1, <1>b, <2>1, <2>2 DEF LiveIds, Pack
<1>6. [x \in LiveIds |-> vec[x[1]]]'
        = [x \in LiveIds \cup {id} |-> IF x = id THEN v ELSE [y \in LiveIds |-> vec[y[1]]][x]]
  <2>1. \A x \in LiveIds : vec'[x[1]] = vec[x[1]] /\ x # id
    <3> SUFFICES ASSUME NEW x \in LiveIds PROVE vec'[x[1]] = vec[x[1]] /\ x # id
      OBVIOUS
    <3>1. x[1] \in Slot /\ x[1] # n
      BY <1>a, LiveIdsAre DEF Slot
    <3> QED
      BY <1>a, <1>b, <1>3, <3>1
  <2>2. vec'[id[1]] = v
    BY <1>1, <1>a, <1>b
  <2> QED
    BY <1>5, <2>1, <2>2
<1>7. {Pack(t) : t \in dead}' = {Pack(t) : t \in dead}
  BY <1>b DEF Pack
<1>8. IdPromise!Insert(id, v)
  BY <1>b, <1>2, <1>3, <1>4, <1>6, <1>7, LiveIsLiveIds DEF IdPromise!Insert
<1> QED
  BY <1>8 DEF IdPromise!Next

\* The ids of a successful insert are reported.
LEMMA ReportKeepsPromise ==
  ASSUME IInv, EndExtend
  PROVE  IdPromise!Next
<1>a. pc = "relinkExtend" /\ acked' = acked \cup {out[k] : k \in DOMAIN out}
      /\ UNCHANGED <<n, vec, gen, dead>>
  BY DEF EndExtend
<1>b. n \in Nat /\ out \in Seq(Id \X Occupant) /\ DOMAIN out = 1 .. Len(out)
  BY RowTypes DEF IInv, TypeOK, CallTypeOK
<1>1. LiveIds' = LiveIds /\ {Pack(s) : s \in dead}' = {Pack(s) : s \in dead}
  BY <1>a DEF LiveIds, Pack
<1>2. [id \in LiveIds |-> vec[id[1]]]' = [id \in LiveIds |-> vec[id[1]]]
  BY <1>a, <1>1
<1>3. \A k \in DOMAIN out : out[k][1] \in LiveIds
  <2> SUFFICES ASSUME NEW k \in DOMAIN out PROVE out[k][1] \in LiveIds
    OBVIOUS
  <2>1. out[k] \in Id \X Occupant
    BY <1>b
  <2>2. out[k][1] = <<out[k][1][1], out[k][1][2]>> /\ out[k][1][1] \in Nat
    BY <2>1 DEF Id, Slot
  <2>3. out[k][1][1] < n /\ out[k][1][1] \notin dead /\ gen[out[k][1][1]] = out[k][1][2]
    BY <1>a DEF IInv, OutInv, Claiming
  <2> QED
    BY <1>b, <2>2, <2>3, LiveIdsAre
<1>4. IdPromise!Report
  BY <1>a, <1>1, <1>2, <1>3, LiveIsLiveIds DEF IdPromise!Report
<1> QED
  BY <1>4 DEF IdPromise!Next

\* A claim that is given back withdraws an id nobody was told.
LEMMA GiveBackKeepsPromise ==
  ASSUME IInv, NEW s \in Slot, GivenBack(s)
  PROVE  IdPromise!Next
<1>a. /\ n \in Nat /\ vec \in [Slot -> Vec \cup {NoVec}] /\ Slot \subseteq Nat
      /\ n <= MaxRows /\ MaxRows \in Nat /\ origN \in Nat
  BY RowTypes, CagraSlotsAssumption DEF IInv
<1>b. /\ s \in 0 .. n - 1 /\ s \notin dead /\ dead' = dead \cup {s}
      /\ \A p \in acked : p[1][1] = s => p[1][2] < gen[s]
      /\ \A t \in Slot : t # s => vec'[t] = vec[t]
      /\ UNCHANGED <<n, gen, acked>>
  BY <1>a DEF GivenBack
<1>1. PICK S : S = {Pack(s)}
  OBVIOUS
<1>2. S \subseteq LiveIds
  BY <1>1, <1>b DEF LiveIds
<1>3. \A p \in acked : p[1] \notin S
  <2> SUFFICES ASSUME NEW p \in acked, p[1] \in S PROVE FALSE
    OBVIOUS
  <2>1. p[1][1] = s /\ p[1][2] = gen[s]
    BY <1>1 DEF Pack
  <2>2. p[1][2] \in Nat
    BY AckedTyped DEF IInv
  <2> QED
    BY <1>b, <2>1, <2>2
<1>4. LiveIds' = LiveIds \ S
  BY <1>1, <1>b DEF LiveIds, Pack
<1>5. {Pack(t) : t \in dead}' = {Pack(t) : t \in dead} \cup S
  BY <1>1, <1>b DEF Pack
<1>6. \A x \in LiveIds \ S : vec'[x[1]] = vec[x[1]]
  <2> SUFFICES ASSUME NEW x \in LiveIds \ S PROVE vec'[x[1]] = vec[x[1]]
    OBVIOUS
  <2>1. x[1] \in Slot /\ x = Pack(x[1])
    BY <1>a, LiveIdsAre DEF Slot, Pack
  <2>2. x[1] # s
    BY <1>1, <2>1
  <2> QED
    BY <1>b, <2>1, <2>2
<1>7. [x \in LiveIds |-> vec[x[1]]]' = [x \in LiveIds \ S |-> [y \in LiveIds |-> vec[y[1]]][x]]
  BY <1>4, <1>6
<1>8. S \in SUBSET (LiveIds \ {p[1] : p \in acked})
  BY <1>2, <1>3
<1>9. IdPromise!Withdraw
  BY <1>b, <1>5, <1>7, <1>8, LiveIsLiveIds DEF IdPromise!Withdraw
<1> QED
  BY <1>9 DEF IdPromise!Next

\* Appended rows that are dropped withdraw ids nobody was told.
LEMMA UnwindKeepsPromise ==
  ASSUME IInv, Unwind
  PROVE  IdPromise!Next
<1>a. /\ n \in Nat /\ origN \in Nat /\ origN <= n /\ Slot \subseteq Nat
      /\ n <= MaxRows /\ MaxRows \in Nat
  BY RowTypes, Numbers, CagraSlotsAssumption DEF IInv, Unwind, InExtend
<1>b. /\ pc = "unwind" /\ n' = origN /\ UNCHANGED <<gen, dead, acked>>
      /\ vec' = [s \in Slot |-> IF s < origN THEN vec[s] ELSE NoVec]
  BY DEF Unwind
<1>1. PICK S : S = {x \in LiveIds : x[1] >= origN}
  OBVIOUS
<1>2. \A p \in acked : p[1] \notin S
  <2> SUFFICES ASSUME NEW p \in acked, p[1][1] >= origN PROVE FALSE
    BY <1>1
  <2>1. p[1][1] < origN /\ p[1][1] \in Nat
    BY <1>a, <1>b, AckedTyped DEF IInv, AckInv, Committed, InExtend
  <2> QED
    BY <1>a, <2>1
<1>3. LiveIds' = LiveIds \ S
  <2>1. ASSUME NEW x \in LiveIds' PROVE x \in LiveIds \ S
    <3>1. x[1] \in 0 .. origN - 1 /\ x[1] \notin dead /\ x = <<x[1], gen[x[1]]>>
      BY <1>b, LiveIdsWillBe
    <3>2. x[1] \in 0 .. n - 1 /\ ~(x[1] >= origN)
      BY <1>a, <3>1
    <3> QED
      BY <1>1, <3>1, <3>2, LiveIdsAre
  <2>2. ASSUME NEW x \in LiveIds, x \notin S PROVE x \in LiveIds'
    <3>1. x[1] \in 0 .. n - 1 /\ x[1] \notin dead /\ x = <<x[1], gen[x[1]]>> /\ ~(x[1] >= origN)
      BY <1>1, <2>2, LiveIdsAre
    <3>2. x[1] \in 0 .. origN - 1
      BY <1>a, <3>1
    <3> QED
      BY <1>b, <3>1, <3>2, LiveIdsWillBe
  <2> QED
    BY <2>1, <2>2
<1>4. {Pack(t) : t \in dead}' = {Pack(t) : t \in dead}
  BY <1>b DEF Pack
<1>5. \A x \in LiveIds \ S : vec'[x[1]] = vec[x[1]]
  <2> SUFFICES ASSUME NEW x \in LiveIds \ S PROVE vec'[x[1]] = vec[x[1]]
    OBVIOUS
  <2>1. x[1] \in 0 .. n - 1 /\ ~(x[1] >= origN)
    BY <1>1, LiveIdsAre
  <2>2. x[1] \in Slot /\ x[1] < origN
    BY <1>a, <2>1 DEF Slot
  <2> QED
    BY <1>b, <2>2
<1>6. [x \in LiveIds |-> vec[x[1]]]' = [x \in LiveIds \ S |-> [y \in LiveIds |-> vec[y[1]]][x]]
  BY <1>3, <1>5
<1>7. S \in SUBSET (LiveIds \ {p[1] : p \in acked})
  BY <1>1, <1>2
<1>8. IdPromise!Withdraw
  BY <1>b, <1>4, <1>6, <1>7, LiveIsLiveIds DEF IdPromise!Withdraw
<1> QED
  BY <1>8 DEF IdPromise!Next

\* Every step is a step of IdMap or leaves the ids alone.
LEMMA NextKeepsPromise ==
  ASSUME IInv, RowInv, Bounded, [Next]_vars
  PROVE  [IdPromise!Next]_(IdPromise!idVars)
<1>a. n \in Nat /\ Slot \subseteq Nat /\ dead \in SUBSET Slot
  BY RowTypes DEF IInv
<1>1. CASE Delete \/ Update \/ Extend \/ EndDelete \/ EndWrite \/ UpdateRelinked
           \/ UpdateRelinkFailed \/ EndRestore \/ NextUpdateChunk \/ EndUpdate
  <2>1. UNCHANGED <<n, vec, gen, dead, acked>>
    BY <1>1 DEF Delete, Update, Extend, BeginDelete, BeginUpdate, BeginExtend, Enter, EndDelete,
       EndWrite, UpdateRelinked, UpdateRelinkFailed, EndRestore, NextUpdateChunk, EndUpdate,
       index, history
  <2> QED
    BY <2>1, PromiseUntouched
<1>2. CASE EndClaim \/ NextExtendChunk \/ ExtendRelinkFailed \/ EndGiveBack \/ RelinkThrows
           \/ Quantize \/ (\E s \in Slot : Search(s)) \/ UNCHANGED vars
  <2>1. UNCHANGED <<n, vec, gen, dead, acked>>
    BY <1>2 DEF EndClaim, NextExtendChunk, ExtendRelinkFailed, EndGiveBack, RelinkThrows,
       Quantize, Search, vars, index, history
  <2> QED
    BY <2>1, PromiseUntouched
<1>3. CASE DeleteRow
  <2>1. pc = "delete" /\ i \in 1 .. Len(slots) /\ UNCHANGED <<n, vec, gen, acked>>
    BY <1>3 DEF DeleteRow, IInv, TypeOK, CallTypeOK, history
  <2>2. PICK s : s = slots[i]
    OBVIOUS
  <2>3. s \in 0 .. n - 1 /\ s \in Slot
    BY <2>1, <2>2, SlotsExist, Elements DEF IInv
  <2>4. s < bits
    BY <1>a, <2>1, <2>3 DEF IInv, PhaseInv, TablesCoverRows, Committed, InExtend, TypeOK,
       IndexTypeOK
  <2>5. CASE UNCHANGED dead
    BY <2>1, <2>5, PromiseUntouched
  <2>6. CASE s \notin dead /\ dead' = dead \cup {s}
    <3>1. s < n
      BY <1>a, <2>3
    <3> QED
      BY <2>1, <2>3, <2>6, <3>1, DeleteKeepsPromise DEF IInv
  <2> QED
    BY <1>3, <2>2, <2>4, <2>5, <2>6 DEF DeleteRow
<1>4. CASE WriteRow
  <2>1. PICK s \in Slot : Written(s)
    BY <1>4, WriteRowWrites DEF Written
  <2>2. PICK v \in Vec : v = vecs[i]
    BY <2>1 DEF Written
  <2> QED
    BY <2>1, <2>2, WriteKeepsPromise DEF Written, IInv
<1>5. CASE RestoreRow
  <2>1. PICK s \in Slot : Restored(s)
    BY <1>5, RestoreRowRestores DEF Restored
  <2>2. PICK v \in Vec : v = prev[i].vec
    BY <2>1 DEF Restored, RowInv
  <2> QED
    BY <2>1, <2>2, WriteKeepsPromise DEF Restored, IInv
<1>6. CASE ReviveRow
  <2>1. Revive(slots[i]) /\ pc = "revive" /\ UNCHANGED <<n, vec, gen, acked>>
    BY <1>6 DEF ReviveRow, history
  <2>2. CASE UNCHANGED dead
    BY <2>1, <2>2, PromiseUntouched
  <2>3. CASE slots[i] \in dead /\ dead' = dead \ {slots[i]}
    <3>1. PICK s \in dead : s = slots[i]
      BY <2>3
    <3>2. s < n
      BY <1>a, <2>1 DEF IInv, CountIsExact, Committed, InExtend
    <3>3. vec[s] \in Vec
      BY <1>a, <3>2 DEF RowInv
    <3> QED
      BY <2>1, <2>3, <3>1, <3>2, <3>3, ReviveKeepsPromise DEF IInv
  <2> QED
    BY <2>1, <2>2, <2>3 DEF Revive
<1>7. CASE ClaimRow
  <2>1. PICK s \in Slot : Claimed(s)
    BY <1>7, ClaimRowClaims DEF Claimed
  <2> QED
    BY <2>1, ClaimKeepsPromise
<1>8. CASE AppendRow
  BY <1>8, AppendRowAppends, AppendKeepsPromise
<1>9. CASE EndExtend
  BY <1>9, ReportKeepsPromise
<1>10. CASE GiveBackRow
  <2>1. PICK s \in Slot : GivenBack(s)
    BY <1>10, GiveBackRowGives DEF GivenBack
  <2> QED
    BY <2>1, GiveBackKeepsPromise
<1>11. CASE Unwind
  BY <1>11, UnwindKeepsPromise
<1> QED
  BY <1>1, <1>2, <1>3, <1>4, <1>5, <1>6, <1>7, <1>8, <1>9, <1>10, <1>11 DEF Next

\* A fresh index promises the ids of its rows.
LEMMA InitKeepsPromise ==
  ASSUME Init
  PROVE  IdPromise!Init
<1>a. n \in Nat /\ n <= MaxRows /\ MaxRows \in Nat /\ n = InitRows /\ dead = {}
  BY CagraSlotsAssumption DEF Init
<1>1. \A s \in 0 .. n - 1 : gen[s] = 0 /\ vec[s] \in Vec
  BY <1>a DEF Init, Slot
<1>2. LiveIds = {<<s, 0>> : s \in 0 .. n - 1}
  BY <1>a, <1>1 DEF LiveIds, Pack
<1>3. {p[1] : p \in acked} = LiveIds
  <2>1. acked = {<<<<s, 0>>, s>> : s \in 0 .. n - 1}
    BY <1>a DEF Init
  <2>2. ASSUME NEW p \in acked PROVE p[1] \in LiveIds
    BY <1>2, <2>1
  <2>3. ASSUME NEW x \in LiveIds PROVE \E p \in acked : p[1] = x
    <3>1. PICK s \in 0 .. n - 1 : x = <<s, 0>>
      BY <1>2
    <3>2. <<<<s, 0>>, s>> \in acked /\ <<<<s, 0>>, s>>[1] = x
      BY <2>1, <3>1
    <3> QED
      BY <3>2
  <2> QED
    BY <2>2, <2>3
<1>4. \A id \in LiveIds : vec[id[1]] \in Vec
  BY <1>1, <1>2
<1> QED
  <2>1. {Pack(s) : s \in dead} = {}
    BY <1>a
  <2>2. \A id \in LiveIds : [x \in LiveIds |-> vec[x[1]]][id] \in Vec
    BY <1>4
  <2> QED
    BY <1>3, <2>1, <2>2, LiveIsLiveIds DEF IdPromise!Init

-----------------------------------------------------------------------------
(* A failed Update puts its chunk back.                                    *)

\* What UpdateInv says while a chunk may still be undone.
ChunkUndoable ==
  /\ n = snap.n /\ dead = snap.dead /\ occ = snap.occ
  /\ JournalIsPast
  /\ \A s \in Slot \ Touched : vec[s] = snap.vec[s]

\* A step that leaves the rows and the journal alone.
LEMMA ChunkUntouched ==
  ASSUME ChunkUndoable, UNCHANGED <<n, dead, occ, vec, prev, snap>>, First' = First
  PROVE  ChunkUndoable'
<1>1. Touched' = Touched
  BY DEF Touched
<1> QED
  BY <1>1 DEF ChunkUndoable, JournalIsPast

\* A chunk begins with an empty journal.
LEMMA ChunkBegins ==
  ASSUME snap' = Rows, prev' = <<>>, UNCHANGED <<n, dead, occ, vec>>
  PROVE  /\ ChunkUndoable'
         /\ \A k \in 1 .. Len(prev') : FALSE
<1>1. Len(prev') = 0
  OBVIOUS
<1>2. 1 .. Len(prev') = {}
  BY <1>1
<1> QED
  BY <1>2 DEF ChunkUndoable, JournalIsPast, Rows

\* Every step keeps UpdateInv.
LEMMA UpdatesStayUndoable ==
  ASSUME IInv, UpdateInv, Bounded, ~Repeats, [Next]_vars
  PROVE  UpdateInv'
<1>a. /\ n \in Nat /\ vec \in [Slot -> Vec \cup {NoVec}] /\ prev \in Seq(Entry)
      /\ i \in Nat \ {0} /\ Len(prev) \in Nat
  BY RowTypes DEF IInv
<1>b. UpdateInv <=>
        /\ pc \in {"write", "relinkUpdate", "revive"} => Distinct(slots)
        /\ pc = "write" => \A k \in 1 .. Len(prev) :
             \E j \in 1 .. Len(slots) : j < i /\ prev[k].slot = slots[j]
        /\ pc \in {"write", "relinkUpdate", "restore"} => ChunkUndoable
  BY DEF UpdateInv, ChunkUndoable
<1>c. UpdateInv' <=>
        /\ pc' \in {"write", "relinkUpdate", "revive"} => Distinct(slots')
        /\ pc' = "write" => \A k \in 1 .. Len(prev') :
             \E j \in 1 .. Len(slots') : j < i' /\ prev'[k].slot = slots'[j]
        /\ pc' \in {"write", "relinkUpdate", "restore"} => ChunkUndoable'
  BY DEF UpdateInv, ChunkUndoable
<1>1. CASE pc' \notin {"write", "relinkUpdate", "revive", "restore"}
  BY <1>1, <1>c
<1>2. CASE /\ UNCHANGED <<n, dead, occ, vec, prev, snap, pc, slots>>
           /\ (i' = i \/ pc \notin {"write", "relinkUpdate", "restore"})
  <2>1. CASE pc \in {"write", "relinkUpdate", "restore"}
    <3>1. First' = First
      BY <1>2, <2>1 DEF First
    <3>2. ChunkUndoable'
      BY <1>2, <1>b, <2>1, <3>1, ChunkUntouched
    <3> QED
      BY <1>2, <1>b, <1>c, <2>1, <3>2 DEF Distinct
  <2>2. CASE pc \notin {"write", "relinkUpdate", "restore"}
    BY <1>2, <1>b, <1>c, <2>2 DEF Distinct
  <2> QED
    BY <2>1, <2>2
<1>3. CASE Update
  <2>1. PICK ss : Distinct(ss) /\ slots' = ss
    BY <1>3 DEF Update, BeginUpdate, Enter
  <2>2. pc' = "write" /\ snap' = Rows /\ prev' = <<>> /\ UNCHANGED <<n, dead, occ, vec>>
    BY <1>3 DEF Update, BeginUpdate, Enter, index
  <2> QED
    BY <1>c, <2>1, <2>2, ChunkBegins
<1>4. CASE WriteRow
  <2>1. PICK s \in Slot : Written(s)
    BY <1>4, WriteRowWrites DEF Written
  <2> DEFINE e == Saved(s)
  <2>2. /\ pc = "write" /\ pc' = "write" /\ e \in Entry /\ prev' = Append(prev, e)
        /\ e.slot = s /\ e.vec = vec[s] /\ e.occ = occ[s] /\ slots[i] = s
        /\ i \in 1 .. Len(slots) /\ i' = i + 1 /\ vec' = [vec EXCEPT ![s] = vecs[i]]
        /\ UNCHANGED <<n, dead, occ, slots, snap>>
    BY <2>1 DEF Written, Saved
  <2>3. First = 1 /\ First' = 1
    BY <2>2 DEF First
  <2> HIDE DEF e
  <2>4. \A k \in 1 .. Len(prev) : prev[k].slot # s
    <3> SUFFICES ASSUME NEW k \in 1 .. Len(prev), prev[k].slot = s PROVE FALSE
      OBVIOUS
    <3>1. PICK j \in 1 .. Len(slots) : j < i /\ slots[j] = s
      BY <1>b, <2>2
    <3>2. DOMAIN slots = 1 .. Len(slots)
      BY DEF IInv, TypeOK, CallTypeOK
    <3> QED
      BY SMTT(30), <1>b, <2>2, <3>1, <3>2 DEF Distinct
  <2>5. s \notin Touched
    BY <2>3, <2>4 DEF Touched
  <2>6. ChunkUndoable
    BY <1>b, <2>2
  <2>7. e.vec = snap.vec[s] /\ e.occ = snap.occ[s]
    BY <2>2, <2>5, <2>6 DEF ChunkUndoable
  <2>8. JournalIsPast'
    BY <1>a, <2>2, <2>6, <2>7, JournalGrows DEF ChunkUndoable, JournalIsPast
  <2>9. Touched \cup {s} \subseteq Touched'
    <3>1. \A k \in 1 .. Len(prev) : k \in 1 .. Len(prev') /\ prev'[k] = prev[k]
      BY <1>a, <2>2, JournalGrows
    <3>2. Len(prev) + 1 \in 1 .. Len(prev') /\ prev'[Len(prev) + 1].slot = s
      BY <1>a, <2>2, JournalGrows
    <3> QED
      BY <2>3, <3>1, <3>2 DEF Touched
  <2>10. \A t \in Slot \ Touched' : vec'[t] = snap.vec[t]
    BY <1>a, <2>2, <2>6, <2>9 DEF ChunkUndoable
  <2>11. ChunkUndoable'
    BY <2>2, <2>6, <2>8, <2>10 DEF ChunkUndoable
  <2>12. \A k \in 1 .. Len(prev') :
           \E j \in 1 .. Len(slots) : j < i + 1 /\ prev'[k].slot = slots[j]
    <3> SUFFICES ASSUME NEW k \in 1 .. Len(prev')
                 PROVE  \E j \in 1 .. Len(slots) : j < i + 1 /\ prev'[k].slot = slots[j]
      OBVIOUS
    <3>1. CASE k \in 1 .. Len(prev)
      <4>1. PICK j \in 1 .. Len(slots) : j < i /\ prev[k].slot = slots[j]
        BY <1>b, <2>2, <3>1
      <4>2. prev'[k] = prev[k] /\ j < i + 1
        BY <1>a, <2>2, <3>1, <4>1, JournalGrows
      <4> QED
        BY <4>1, <4>2
    <3>2. CASE k = Len(prev) + 1
      <4>1. prev'[k].slot = slots[i] /\ i < i + 1
        BY <1>a, <2>2, <3>2, JournalGrows
      <4> QED
        BY <2>2, <4>1
    <3> QED
      BY <1>a, <2>2, <3>1, <3>2, JournalGrows
  <2>13. Distinct(slots)
    BY <1>b, <2>2
  <2> QED
    BY <1>c, <2>2, <2>11, <2>12, <2>13
<1>5. CASE EndWrite \/ UpdateRelinked \/ UpdateRelinkFailed
  <2>1. /\ pc \in {"write", "relinkUpdate"} /\ pc' \in {"relinkUpdate", "revive", "restore"}
        /\ (pc' = "restore" => i' = 1)
        /\ UNCHANGED <<n, dead, occ, vec, prev, snap, slots>>
    BY <1>5 DEF EndWrite, UpdateRelinked, UpdateRelinkFailed, index, call, history
  <2>2. First = 1 /\ First' = 1
    BY <2>1 DEF First
  <2>3. ChunkUndoable'
    BY <1>b, <2>1, <2>2, ChunkUntouched
  <2> QED
    BY <1>b, <1>c, <2>1, <2>3 DEF Distinct
<1>6. CASE RestoreRow
  <2>1. PICK s \in Slot : Restored(s)
    BY <1>6, RestoreRowRestores DEF Restored
  <2>2. /\ pc = "restore" /\ pc' = "restore" /\ i \in 1 .. Len(prev) /\ i' = i + 1
        /\ prev[i].slot = s /\ vec' = [vec EXCEPT ![s] = prev[i].vec]
        /\ UNCHANGED <<n, dead, occ, prev, snap, slots>>
    BY <2>1 DEF Restored
  <2>3. First = i /\ First' = i + 1
    BY <2>2 DEF First
  <2>4. ChunkUndoable
    BY <1>b, <2>2
  <2>5. prev[i].vec = snap.vec[s]
    BY <2>2, <2>4 DEF ChunkUndoable, JournalIsPast
  <2>6. ASSUME NEW t \in Slot, t \notin Touched' PROVE vec'[t] = snap.vec[t]
    <3>1. CASE t = s
      BY <1>a, <2>2, <2>5, <3>1
    <3>2. CASE t # s
      <4>1. \A k \in i .. Len(prev) : k = i \/ k \in i + 1 .. Len(prev)
        BY <1>a, <2>2
      <4>2. t \notin Touched
        BY <2>2, <2>3, <2>6, <3>2, <4>1 DEF Touched
      <4> QED
        BY <1>a, <2>2, <2>4, <3>2, <4>2 DEF ChunkUndoable
    <3> QED
      BY <3>1, <3>2
  <2>7. ChunkUndoable'
    BY <2>2, <2>4, <2>6 DEF ChunkUndoable, JournalIsPast
  <2> QED
    BY <1>c, <2>2, <2>7
<1>7. CASE NextUpdateChunk
  <2>1. /\ pc = "revive" /\ pc' = "write" /\ snap' = Rows /\ prev' = <<>>
        /\ UNCHANGED <<n, dead, occ, vec, slots>>
    BY <1>7 DEF NextUpdateChunk, index
  <2> QED
    BY <1>b, <1>c, <2>1, ChunkBegins DEF Distinct
<1>8. CASE ReviveRow
  <2>1. pc = "revive" /\ pc' = pc /\ slots' = slots
    BY <1>8 DEF ReviveRow, call
  <2> QED
    BY <1>b, <1>c, <2>1
<1>9. CASE Delete \/ DeleteRow \/ EndDelete \/ EndRestore \/ EndUpdate \/ Extend \/ ClaimRow
           \/ AppendRow \/ EndClaim \/ NextExtendChunk \/ EndExtend \/ ExtendRelinkFailed
           \/ GiveBackRow \/ EndGiveBack \/ Unwind \/ RelinkThrows \/ Quantize
  BY <1>1, <1>9 DEF Delete, BeginDelete, Enter, DeleteRow, EndDelete, EndRestore, EndUpdate, Extend,
     BeginExtend, ClaimRow, AppendRow, EndClaim, NextExtendChunk, EndExtend, ExtendRelinkFailed,
     GiveBackRow, EndGiveBack, Unwind, RelinkThrows, Quantize, Return
<1>10. CASE (\E s \in Slot : Search(s)) \/ UNCHANGED vars
  BY <1>2, <1>10 DEF Search, vars, index, call, history
<1> QED
  BY <1>3, <1>4, <1>5, <1>6, <1>7, <1>8, <1>9, <1>10 DEF Next

\* Nothing is left to undo when an Update fails.
LEMMA RestoredChunkIsPast ==
  ASSUME IInv, UpdateInv, [Next]_vars, pc = "restore", pc' = "idle"
  PROVE  Rows' = snap
<1>a. /\ i \in Nat \ {0} /\ Len(prev) \in Nat /\ vec \in [Slot -> Vec \cup {NoVec}]
      /\ snap \in [n : 0 .. MaxRows, vec : [Slot -> Vec \cup {NoVec}],
                   dead : SUBSET Slot, occ : [Slot -> Occupant]]
  BY RowTypes DEF IInv
<1>1. i > Len(prev) /\ UNCHANGED <<n, vec, dead, occ>>
  <2>1. EndRestore
    BY DEF Next, Delete, BeginDelete, Update, BeginUpdate, Enter, DeleteRow, EndDelete, WriteRow,
       EndWrite, UpdateRelinked, UpdateRelinkFailed, RestoreRow, ReviveRow, NextUpdateChunk,
       EndUpdate, Extend, BeginExtend, ClaimRow, AppendRow, EndClaim, NextExtendChunk, EndExtend,
       ExtendRelinkFailed, GiveBackRow, EndGiveBack, Unwind, RelinkThrows, Quantize, Search, vars
  <2> QED
    BY <2>1 DEF EndRestore, index
<1>2. Touched = {}
  <2>1. i .. Len(prev) = {}
    BY <1>a, <1>1
  <2> QED
    BY <2>1 DEF Touched, First
<1>3. n = snap.n /\ dead = snap.dead /\ occ = snap.occ /\ \A s \in Slot : vec[s] = snap.vec[s]
  BY <1>2 DEF UpdateInv
<1>4. vec = snap.vec
  BY <1>a, <1>3
<1>5. Rows = snap
  BY <1>a, <1>3, <1>4 DEF Rows
<1> QED
  BY <1>1, <1>5 DEF Rows

-----------------------------------------------------------------------------
(* A failed insert of one chunk leaves no trace.                           *)

\* What ExtendInv says while an insert may still be undone.
InsertUndoable ==
  /\ base = 0 /\ Len(vecs) \in 1 .. Chunk
  /\ snap.n = origN
  /\ \A s \in snap.dead : s < origN
  /\ \A s \in Slot : s >= origN => snap.vec[s] = NoVec /\ snap.occ[s] = 0
  /\ JournalIsPast
  /\ \A k \in 1 .. Len(prev) : prev[k].slot < origN /\ prev[k].slot \in snap.dead
  /\ \A s \in Slot \ Touched :
       s < origN => /\ vec[s] = snap.vec[s] /\ occ[s] = snap.occ[s]
                    /\ (s \in dead <=> s \in snap.dead)

\* A step that leaves the rows and the journal alone.
LEMMA InsertUntouched ==
  ASSUME InsertUndoable, UNCHANGED <<base, vecs, origN, dead, occ, vec, prev, snap>>,
         First' = First
  PROVE  InsertUndoable'
<1>1. Touched' = Touched
  BY DEF Touched
<1> QED
  BY <1>1 DEF InsertUndoable, JournalIsPast

\* An insert begins with the rows as they are.
LEMMA InsertBegins ==
  ASSUME IInv, RowInv, Batch <= Chunk, NEW vs \in Requests(Vec), NEW w \in BOOLEAN,
         BeginExtend(vs, w)
  PROVE  InsertUndoable'
<1>a. n \in Nat /\ Slot \subseteq Nat /\ dead \in SUBSET Slot
  BY RowTypes DEF IInv
<1>1. /\ pc = "idle" /\ base' = 0 /\ vecs' = vs /\ origN' = n /\ prev' = <<>> /\ snap' = Rows
      /\ UNCHANGED <<n, vec, dead, occ>>
  BY DEF BeginExtend, Enter, index
<1>2. Len(vs) \in 1 .. Chunk
  BY CagraSlotsAssumption DEF Requests
<1>3. Len(prev') = 0
  BY <1>1
<1>4. 1 .. Len(prev') = {}
  BY <1>3
<1>5. \A s \in dead : s < n
  BY <1>a, <1>1 DEF IInv, CountIsExact, Committed, InExtend
<1>6. \A s \in Slot : s >= n => vec[s] = NoVec /\ occ[s] = 0
  BY DEF RowInv
<1> QED
  BY <1>1, <1>2, <1>4, <1>5, <1>6 DEF InsertUndoable, JournalIsPast, Rows

\* A claim is journalled before the row changes.
LEMMA ClaimUndoable ==
  ASSUME IInv, InsertUndoable, NEW s \in Slot, Claimed(s)
  PROVE  InsertUndoable'
<1>a. /\ vec \in [Slot -> Vec \cup {NoVec}] /\ occ \in [Slot -> Occupant] /\ prev \in Seq(Entry)
      /\ Len(prev) \in Nat /\ Slot \subseteq Nat
  BY RowTypes DEF IInv
<1> DEFINE e == Saved(s)
<1>1. /\ pc = "claim" /\ pc' = "claim" /\ prev' = Append(prev, e) /\ e.slot = s /\ e.vec = vec[s]
      /\ e.occ = occ[s] /\ e \in Entry /\ s \in dead /\ s < origN /\ dead' = dead \ {s}
      /\ UNCHANGED <<base, vecs, origN, snap>>
      /\ \A t \in Slot : t # s => vec'[t] = vec[t] /\ occ'[t] = occ[t]
  BY <1>a DEF Claimed, Saved, Entry
<1> HIDE DEF e
<1>2. First = 1 /\ First' = 1
  BY <1>1 DEF First
<1>3. s \notin Touched
  BY <1>1, <1>2 DEF Touched, IInv, JournalInv, Pending, Claiming
<1>4. e.vec = snap.vec[s] /\ e.occ = snap.occ[s] /\ s \in snap.dead
  BY <1>1, <1>3 DEF InsertUndoable
<1>5. JournalIsPast'
  BY <1>a, <1>1, <1>4, JournalGrows DEF InsertUndoable, JournalIsPast
<1>6. \A k \in 1 .. Len(prev') : prev'[k].slot < origN /\ prev'[k].slot \in snap.dead
  BY <1>a, <1>1, <1>4, JournalGrows DEF InsertUndoable
<1>7. Touched \cup {s} \subseteq Touched'
  <2>1. \A k \in 1 .. Len(prev) : k \in 1 .. Len(prev') /\ prev'[k] = prev[k]
    BY <1>a, <1>1, JournalGrows
  <2>2. Len(prev) + 1 \in 1 .. Len(prev') /\ prev'[Len(prev) + 1].slot = s
    BY <1>a, <1>1, JournalGrows
  <2> QED
    BY <1>2, <2>1, <2>2 DEF Touched
<1>8. \A t \in Slot \ Touched' :
        t < origN => /\ vec'[t] = snap.vec[t] /\ occ'[t] = snap.occ[t]
                     /\ (t \in dead' <=> t \in snap.dead)
  BY <1>1, <1>7 DEF InsertUndoable
<1> QED
  BY <1>1, <1>5, <1>6, <1>8 DEF InsertUndoable

\* An appended row is beyond the rows at entry.
LEMMA AppendUndoable ==
  ASSUME IInv, InsertUndoable, Appended
  PROVE  InsertUndoable'
<1>a. /\ vec \in [Slot -> Vec \cup {NoVec}] /\ occ \in [Slot -> Occupant] /\ Slot \subseteq Nat
  BY RowTypes DEF IInv
<1>1. /\ pc = "claim" /\ pc' = "claim" /\ UNCHANGED <<base, vecs, origN, snap, prev, dead>>
      /\ n \in Nat /\ origN \in Nat /\ origN <= n
      /\ \A t \in Slot : t # n => vec'[t] = vec[t] /\ occ'[t] = occ[t]
  BY <1>a DEF Appended
<1>2. Touched' = Touched
  BY <1>1 DEF Touched, First
<1>3. \A t \in Slot : t < origN => t # n
  BY <1>a, <1>1
<1> QED
  BY <1>1, <1>2, <1>3 DEF InsertUndoable, JournalIsPast

\* A row given back is as it was.
LEMMA GiveBackUndoes ==
  ASSUME IInv, InsertUndoable, NEW s \in Slot, GivenBack(s)
  PROVE  InsertUndoable'
<1>a. /\ vec \in [Slot -> Vec \cup {NoVec}] /\ occ \in [Slot -> Occupant] /\ Len(prev) \in Nat
      /\ i \in Nat \ {0}
  BY RowTypes DEF IInv
<1>1. /\ pc = "giveback" /\ pc' = pc /\ i' = i + 1 /\ i \in 1 .. Len(prev) /\ prev[i].slot = s
      /\ UNCHANGED <<base, vecs, origN, snap, prev>> /\ dead' = dead \cup {s}
      /\ vec'[s] = prev[i].vec /\ occ'[s] = prev[i].occ
      /\ \A t \in Slot : t # s => vec'[t] = vec[t] /\ occ'[t] = occ[t]
  BY <1>a DEF GivenBack
<1>2. First = i /\ First' = i + 1
  BY <1>1 DEF First
<1>3. vec'[s] = snap.vec[s] /\ occ'[s] = snap.occ[s] /\ s \in snap.dead /\ s \in dead'
  BY <1>1 DEF InsertUndoable, JournalIsPast
<1>4. \A t \in Slot \ Touched' : t = s \/ t \notin Touched
  <2>1. \A k \in i .. Len(prev) : k = i \/ k \in i + 1 .. Len(prev)
    BY <1>a
  <2> QED
    BY <1>1, <1>2, <2>1 DEF Touched
<1>5. \A t \in Slot \ Touched' :
        t < origN => /\ vec'[t] = snap.vec[t] /\ occ'[t] = snap.occ[t]
                     /\ (t \in dead' <=> t \in snap.dead)
  BY <1>1, <1>3, <1>4 DEF InsertUndoable
<1> QED
  BY <1>1, <1>5 DEF InsertUndoable, JournalIsPast

\* Every step keeps ExtendInv: with one chunk there is always all to undo.
LEMMA InsertsStayUndoable ==
  ASSUME IInv, RowInv, ExtendInv, Bounded, Batch <= Chunk, [Next]_vars
  PROVE  ExtendInv'
<1>a. /\ i \in Nat \ {0} /\ Len(prev) \in Nat /\ Len(vecs) \in Nat
      /\ out \in Seq(Id \X Occupant) /\ Chunk \in Nat /\ base \in Nat
  BY CagraSlotsAssumption, RowTypes DEF IInv, TypeOK, CallTypeOK
<1>b. ExtendInv <=>
        /\ InExtend => InsertUndoable
        /\ pc = "relinkExtend" => i > Len(vecs)
        /\ pc = "unwind" => i > Len(prev)
        /\ Claiming => Len(out) = i - 1
  BY DEF ExtendInv, InsertUndoable
<1>c. ExtendInv' <=>
        /\ InExtend' => InsertUndoable'
        /\ pc' = "relinkExtend" => i' > Len(vecs')
        /\ pc' = "unwind" => i' > Len(prev')
        /\ Claiming' => Len(out') = i' - 1
  BY DEF ExtendInv, InsertUndoable
<1>1. CASE ~InExtend'
  BY <1>1, <1>c DEF InExtend, Claiming
<1>2. CASE UNCHANGED <<pc, base, vecs, origN, dead, occ, vec, prev, snap, i, out>>
  <2>1. First' = First /\ InExtend' = InExtend /\ Claiming' = Claiming
    BY <1>2 DEF First, InExtend, Claiming
  <2>2. InExtend => InsertUndoable'
    BY <1>2, <1>b, <2>1, InsertUntouched
  <2> QED
    BY <1>2, <1>b, <1>c, <2>1, <2>2
<1>3. CASE Extend
  <2>1. PICK vs \in Requests(Vec), w \in BOOLEAN : BeginExtend(vs, w)
    BY <1>3 DEF Extend
  <2>2. InsertUndoable'
    BY <2>1, InsertBegins
  <2>3. pc' = "claim" /\ Len(out') = 0 /\ i' = 1
    BY <2>1 DEF BeginExtend, Enter
  <2> QED
    BY <1>c, <2>2, <2>3
<1>4. CASE ClaimRow
  <2>1. PICK s \in Slot : Claimed(s)
    BY <1>4, ClaimRowClaims DEF Claimed
  <2>2. pc = "claim" /\ pc' = "claim" /\ i' = i + 1 /\ InExtend /\ Claiming
    BY <2>1 DEF Claimed, InExtend, Claiming
  <2>3. InsertUndoable'
    BY <1>b, <2>1, <2>2, ClaimUndoable
  <2>4. Len(out') = Len(out) + 1
    BY <1>a, <2>1, LenProperties DEF Claimed
  <2> QED
    BY <1>a, <1>b, <1>c, <2>2, <2>3, <2>4
<1>5. CASE AppendRow
  <2>1. Appended
    BY <1>5, AppendRowAppends
  <2>2. pc = "claim" /\ pc' = "claim" /\ i' = i + 1 /\ InExtend /\ Claiming
    BY <2>1 DEF Appended, InExtend, Claiming
  <2>3. InsertUndoable'
    BY <1>b, <2>1, <2>2, AppendUndoable
  <2>4. Len(out') = Len(out) + 1
    BY <1>a, <2>1, LenProperties DEF Appended
  <2> QED
    BY <1>a, <1>b, <1>c, <2>2, <2>3, <2>4
<1>6. CASE EndClaim
  <2>1. /\ pc = "claim" /\ pc' = "relinkExtend" /\ InExtend /\ Claiming
        /\ UNCHANGED <<base, vecs, origN, dead, occ, vec, prev, snap, i, out>>
    BY <1>6 DEF EndClaim, InExtend, Claiming, index, call, history
  <2>2. First' = First
    BY <2>1 DEF First
  <2>3. InsertUndoable'
    BY <1>b, <2>1, <2>2, InsertUntouched
  <2>4. ChunkEnd(Len(vecs)) = Len(vecs)
    BY <1>a, <1>b, <2>1 DEF InsertUndoable, ChunkEnd
  <2>5. i > Len(vecs)
    BY <1>6, <2>4 DEF EndClaim
  <2> QED
    BY <1>b, <1>c, <2>1, <2>3, <2>5
<1>7. CASE NextExtendChunk
  BY <1>7, <1>a, <1>b DEF NextExtendChunk
<1>8. CASE ExtendRelinkFailed
  <2>1. /\ pc = "relinkExtend" /\ pc' = "giveback" /\ InExtend /\ i' = 1
        /\ UNCHANGED <<base, vecs, origN, dead, occ, vec, prev, snap>>
    BY <1>8 DEF ExtendRelinkFailed, InExtend, index, call, history
  <2>2. First' = First
    BY <2>1 DEF First
  <2>3. InsertUndoable'
    BY <1>b, <2>1, <2>2, InsertUntouched
  <2> QED
    BY <1>c, <2>1, <2>3 DEF Claiming
<1>9. CASE GiveBackRow
  <2>1. PICK s \in Slot : GivenBack(s)
    BY <1>9, GiveBackRowGives DEF GivenBack
  <2>2. pc = "giveback" /\ pc' = pc /\ InExtend
    BY <2>1 DEF GivenBack, InExtend
  <2>3. InsertUndoable'
    BY <1>b, <2>1, <2>2, GiveBackUndoes
  <2> QED
    BY <1>c, <2>2, <2>3 DEF Claiming
<1>10. CASE EndGiveBack
  <2>1. /\ pc = "giveback" /\ pc' = "unwind" /\ InExtend /\ i > Len(prev)
        /\ UNCHANGED <<base, vecs, origN, dead, occ, vec, prev, snap, i>>
    BY <1>10 DEF EndGiveBack, InExtend, index, call, history
  <2>2. First' = First
    BY <2>1 DEF First
  <2>3. InsertUndoable'
    BY <1>b, <2>1, <2>2, InsertUntouched
  <2> QED
    BY <1>c, <2>1, <2>3 DEF Claiming
<1>11. CASE Delete \/ DeleteRow \/ EndDelete \/ Update \/ WriteRow \/ EndWrite \/ UpdateRelinked
            \/ UpdateRelinkFailed \/ RestoreRow \/ EndRestore \/ ReviveRow \/ NextUpdateChunk
            \/ EndUpdate \/ EndExtend \/ Unwind \/ RelinkThrows \/ Quantize
  <2>1. pc' \in {"delete", "write", "relinkUpdate", "revive", "restore", "idle"}
    BY <1>11 DEF Delete, BeginDelete, Update, BeginUpdate, Enter, DeleteRow, EndDelete, WriteRow,
       EndWrite, UpdateRelinked, UpdateRelinkFailed, RestoreRow, EndRestore, ReviveRow,
       NextUpdateChunk, EndUpdate, EndExtend, Unwind, RelinkThrows, Quantize, Return
  <2> QED
    BY <1>1, <2>1 DEF InExtend
<1>12. CASE (\E s \in Slot : Search(s)) \/ UNCHANGED vars
  BY <1>2, <1>12 DEF Search, vars, index, call, history
<1> QED
  BY <1>3, <1>4, <1>5, <1>6, <1>7, <1>8, <1>9, <1>10, <1>11, <1>12 DEF Next

\* A reported id is new: every acknowledged id of a claimed row is older, and
\* no acknowledged id names an appended one.
LEMMA NewIdsStayFresh ==
  ASSUME IInv, FreshInv, Bounded, [Next]_vars
  PROVE  FreshInv'
<1>a. out \in Seq(Id \X Occupant) /\ Len(out) \in Nat /\ origN \in Nat /\ n \in Nat
  BY RowTypes DEF IInv, TypeOK, CallTypeOK
<1>b. \A p \in acked : p[1][1] \in Slot /\ p[1][2] \in Nat
  BY AckedTyped DEF IInv
<1>1. CASE ~Claiming'
  BY <1>1 DEF FreshInv
<1>2. CASE Claiming /\ UNCHANGED <<out, acked>>
  BY <1>2 DEF FreshInv
<1>3. ASSUME NEW r \in Id \X Occupant, Claiming, out' = Append(out, r), UNCHANGED acked,
             \A p \in acked : p[1] # r[1]
      PROVE  FreshInv'
  <2>1. /\ Len(out') = Len(out) + 1 /\ out'[Len(out) + 1] = r
        /\ \A k \in 1 .. Len(out) : out'[k] = out[k]
    BY <1>a, <1>3, AppendProperties
  <2>2. \A k \in 1 .. Len(out') : k \in 1 .. Len(out) \/ k = Len(out) + 1
    BY <1>a, <2>1
  <2> QED
    BY <1>3, <2>1, <2>2 DEF FreshInv
<1>4. CASE Extend
  <2>1. out' = <<>>
    BY <1>4 DEF Extend, BeginExtend, Enter
  <2>2. Len(out') = 0
    BY <2>1
  <2>3. 1 .. Len(out') = {}
    BY <2>2
  <2> QED
    BY <2>3 DEF FreshInv
<1>5. CASE ClaimRow
  <2>1. PICK s \in Slot : Claimed(s)
    BY <1>5, ClaimRowClaims DEF Claimed
  <2>2. PICK r : r = <<<<s, gen'[s]>>, InitRows + inserts>>
    OBVIOUS
  <2>3. r \in Id \X Occupant /\ out' = Append(out, r) /\ UNCHANGED acked /\ Claiming
    BY <2>1, <2>2 DEF Claimed, Claiming, Id
  <2>4. ASSUME NEW p \in acked, p[1] = r[1] PROVE FALSE
    <3>1. p[1][1] = s /\ p[1][2] = gen[s] + 1 /\ gen[s] \in Nat
      BY <2>1, <2>2, <2>4 DEF Claimed
    <3>2. p[1][2] < gen[s] \/ p[1][2] = gen[s]
      BY <3>1 DEF IInv, AckInv
    <3> QED
      BY <3>1, <3>2
  <2> QED
    BY <1>3, <2>3, <2>4
<1>6. CASE AppendRow
  <2>1. Appended
    BY <1>6, AppendRowAppends
  <2>2. PICK r : r = <<<<n, 0>>, InitRows + inserts>>
    OBVIOUS
  <2>3. r \in Id \X Occupant /\ out' = Append(out, r) /\ UNCHANGED acked /\ Claiming
    BY <2>1, <2>2, CagraSlotsAssumption DEF Appended, Claiming, Id, Gen
  <2>4. ASSUME NEW p \in acked, p[1] = r[1] PROVE FALSE
    <3>1. p[1][1] = n /\ origN <= n
      BY <2>1, <2>2, <2>4 DEF Appended
    <3>2. p[1][1] < origN
      BY <2>1 DEF IInv, AckInv, Committed, InExtend, Appended
    <3> QED
      BY <1>a, <3>1, <3>2
  <2> QED
    BY <1>3, <2>3, <2>4
<1>7. CASE EndClaim \/ NextExtendChunk
  BY <1>2, <1>7 DEF EndClaim, NextExtendChunk, Claiming, call, history
<1>8. CASE Delete \/ DeleteRow \/ EndDelete \/ Update \/ WriteRow \/ EndWrite \/ UpdateRelinked
           \/ UpdateRelinkFailed \/ RestoreRow \/ EndRestore \/ ReviveRow \/ NextUpdateChunk
           \/ EndUpdate \/ EndExtend \/ Unwind \/ RelinkThrows \/ Quantize
           \/ ExtendRelinkFailed \/ GiveBackRow \/ EndGiveBack
  <2>1. pc' \in {"delete", "write", "relinkUpdate", "revive", "restore", "idle", "giveback",
                 "unwind"}
    BY <1>8 DEF Delete, BeginDelete, Update, BeginUpdate, Enter, DeleteRow, EndDelete, WriteRow,
       EndWrite, UpdateRelinked, UpdateRelinkFailed, RestoreRow, EndRestore, ReviveRow,
       NextUpdateChunk, EndUpdate, EndExtend, Unwind, RelinkThrows, Quantize, Return,
       ExtendRelinkFailed, GiveBackRow, EndGiveBack
  <2> QED
    BY <1>1, <2>1 DEF Claiming
<1>9. CASE (\E s \in Slot : Search(s)) \/ UNCHANGED vars
  <2>1. UNCHANGED <<pc, out, acked>>
    BY <1>9 DEF Search, vars, call, history
  <2> QED
    BY <2>1 DEF FreshInv, Claiming
<1> QED
  BY <1>4, <1>5, <1>6, <1>7, <1>8, <1>9 DEF Next

\* A call that returns reports a new id or leaves the rows as it found them.
LEMMA FailedInsertIsPast ==
  ASSUME IInv, ExtendInv, FreshInv, Bounded, [Next]_vars,
         pc \in {"relinkExtend", "unwind"}, pc' = "idle", acked' = acked
  PROVE  Rows' = snap
<1>a. /\ i \in Nat \ {0} /\ Len(prev) \in Nat /\ vec \in [Slot -> Vec \cup {NoVec}]
      /\ occ \in [Slot -> Occupant] /\ Slot \subseteq Nat /\ origN \in Nat /\ dead \in SUBSET Slot
      /\ snap \in [n : 0 .. MaxRows, vec : [Slot -> Vec \cup {NoVec}],
                   dead : SUBSET Slot, occ : [Slot -> Occupant]]
  BY RowTypes DEF IInv
<1>1. EndExtend \/ Unwind
  BY DEF Next, Delete, BeginDelete, Update, BeginUpdate, Enter, DeleteRow, EndDelete, WriteRow,
     EndWrite, UpdateRelinked, UpdateRelinkFailed, RestoreRow, EndRestore, ReviveRow,
     NextUpdateChunk, EndUpdate, Extend, BeginExtend, ClaimRow, AppendRow, EndClaim,
     NextExtendChunk, ExtendRelinkFailed, GiveBackRow, EndGiveBack, RelinkThrows, Quantize, Search,
     vars, Bounded
<1>2. CASE EndExtend
  <2>1. pc = "relinkExtend" /\ acked' = acked \cup {out[k] : k \in DOMAIN out}
    BY <1>2 DEF EndExtend
  <2>2. out \in Seq(Id \X Occupant) /\ DOMAIN out = 1 .. Len(out) /\ Len(out) \in Nat
    BY DEF IInv, TypeOK, CallTypeOK
  <2>3. Len(out) = i - 1 /\ i > Len(vecs) /\ Len(vecs) \in 1 .. Chunk
    BY <2>1 DEF ExtendInv, Claiming, InExtend
  <2>4. 1 \in 1 .. Len(out)
    BY <1>a, <2>2, <2>3, CagraSlotsAssumption
  <2>5. out[1] \in acked
    BY <2>1, <2>2, <2>4
  <2> QED
    BY <2>1, <2>4, <2>5 DEF FreshInv, Claiming
<1>3. CASE Unwind
  <2>1. /\ pc = "unwind" /\ n' = origN /\ dead' = dead
        /\ vec' = [s \in Slot |-> IF s < origN THEN vec[s] ELSE NoVec]
        /\ occ' = [s \in Slot |-> IF s < origN THEN occ[s] ELSE 0]
    BY <1>3 DEF Unwind
  <2>2. /\ snap.n = origN /\ \A s \in snap.dead : s < origN
        /\ \A s \in Slot : s >= origN => snap.vec[s] = NoVec /\ snap.occ[s] = 0
        /\ \A s \in Slot \ Touched :
             s < origN => /\ vec[s] = snap.vec[s] /\ occ[s] = snap.occ[s]
                          /\ (s \in dead <=> s \in snap.dead)
        /\ i > Len(prev)
    BY <2>1 DEF ExtendInv, InExtend
  <2>3. Touched = {}
    <3>1. i .. Len(prev) = {}
      BY <1>a, <2>2
    <3> QED
      BY <2>1, <3>1 DEF Touched, First
  <2>4. \A s \in Slot : s < origN \/ s >= origN
    BY <1>a
  <2>5. vec' = snap.vec
    <3>1. \A s \in Slot : vec'[s] = snap.vec[s]
      BY <1>a, <2>1, <2>2, <2>3, <2>4
    <3> QED
      BY <1>a, <2>1, <3>1
  <2>6. occ' = snap.occ
    <3>1. \A s \in Slot : occ'[s] = snap.occ[s]
      BY <1>a, <2>1, <2>2, <2>3, <2>4
    <3> QED
      BY <1>a, <2>1, <3>1
  <2>7. \A s \in dead : s < origN
    BY <1>a, <2>1 DEF IInv, CountIsExact, Committed, InExtend
  <2>8. dead' = snap.dead
    BY <1>a, <2>1, <2>2, <2>3, <2>7
  <2> QED
    BY <1>a, <2>1, <2>2, <2>5, <2>6, <2>8 DEF Rows
<1> QED
  BY <1>1, <1>2, <1>3

-----------------------------------------------------------------------------
(* The theorems.                                                           *)

\* Every reachable state satisfies the inductive invariant.
THEOREM Invariance ==
  ASSUME Bounded
  PROVE  Spec => []IInv
<1>1. Init => IInv
  BY InitKeeps
<1>2. IInv /\ [Next]_vars => IInv'
  BY NextKeeps
<1>3. QED
  BY <1>1, <1>2, PTL DEF Spec

\* The state keeps its type: no row number, generation, count or table leaves
\* its range in any phase of any mutation.
THEOREM TypeCorrect ==
  ASSUME Bounded
  PROVE  Spec => []TypeOK
<1>1. IInv => TypeOK
  BY DEF IInv
<1>2. QED
  BY <1>1, Invariance, PTL

\* deleted_count is the number of tombstones, and only committed rows are
\* tombstoned, in every phase of every mutation.
THEOREM CountCorrect ==
  ASSUME Bounded
  PROVE  Spec => []CountIsExact
<1>1. IInv => CountIsExact
  BY DEF IInv
<1>2. QED
  BY <1>1, Invariance, PTL

\* Every tombstone stays on free_slots: no history of deletes, revivals,
\* claims and undone claims loses a row.
THEOREM SlotsNeverLeak ==
  ASSUME Bounded
  PROVE  Spec => []NoSlotLeaks
<1>1. IInv => NoSlotLeaks
  BY DEF IInv
<1>2. QED
  BY <1>1, Invariance, PTL

\* The bitset and the generation table cover every row a Delete may mark and
\* an ExtendEx may claim.
THEOREM TablesAreLongEnough ==
  ASSUME Bounded
  PROVE  Spec => []TablesCoverRows
<1>1. IInv => TablesCoverRows
  BY DEF IInv
<1>2. QED
  BY <1>1, Invariance, PTL

\* An id that was handed out never resolves to another vector.
THEOREM IdsNeverAlias ==
  ASSUME Bounded
  PROVE  Spec => []AckedIdsNeverAlias
<1>1. IInv => AckedIdsNeverAlias
  <2> SUFFICES ASSUME IInv, NEW p \in acked, Resolves(p[1])
               PROVE  occ[p[1][1]] = p[2]
    BY DEF AckedIdsNeverAlias
  <2>1. p[1][2] \in Nat /\ p[1][2] = gen[p[1][1]]
    BY AckedTyped DEF IInv, Resolves
  <2>2. QED
    BY <2>1 DEF IInv, AckInv
<1>2. QED
  BY <1>1, Invariance, PTL

\* While fewer than 2^31 vectors were inserted no generation reaches the sign
\* bit of an id: the id of every row resolves.
THEOREM RowsStayAddressable ==
  ASSUME Bounded, MaxInserts < GenHalf
  PROVE  Spec => []RowsAreAddressable
<1>1. IInv => RowsAreAddressable
  <2> SUFFICES ASSUME IInv, NEW s \in 0 .. n - 1
               PROVE  Resolves(Pack(s))
    BY DEF RowsAreAddressable
  <2>1. s \in Slot /\ s < n
    BY CagraSlotsAssumption DEF IInv, TypeOK, IndexTypeOK, Slot
  <2>2. gen[s] \in Nat /\ gen[s] <= inserts /\ inserts <= MaxInserts
    BY <2>1, CagraSlotsAssumption DEF IInv, TypeOK, IndexTypeOK, HistoryTypeOK, GenInv, Gen
  <2>3. gen[s] < GenHalf
    BY <2>2, CagraSlotsAssumption DEF IInv, TypeOK, HistoryTypeOK
  <2>4. QED
    BY <2>1, <2>3 DEF Resolves, Pack
<1>2. QED
  BY <1>1, Invariance, PTL

\* The rows implement the promise of the ids: through every chunk, undo and
\* reuse, ids of live rows, tombstones and acknowledged rows change only as
\* IdMap allows.
THEOREM RowsKeepThePromise ==
  ASSUME Bounded
  PROVE  Spec => IdsKeepTheirPromise
<1>1. Init => RowInv /\ IdPromise!Init
  BY RowsAtFirst, InitKeepsPromise
<1>2. IInv /\ RowInv /\ [Next]_vars => RowInv'
  BY RowsStayWhole
<1>3. IInv /\ RowInv /\ [Next]_vars => [IdPromise!Next]_(IdPromise!idVars)
  BY NextKeepsPromise
<1> QED
  BY <1>1, <1>2, <1>3, Invariance, PTL DEF Spec, IdsKeepTheirPromise, IdPromise!Spec

\* A failed Update whose call names each id once leaves the vectors of the
\* chunk it failed in, and the tombstones, as they were.
THEOREM FailedUpdatesRestoreTheirChunk ==
  ASSUME Bounded, ~Repeats
  PROVE  Spec => ChunkRestored
<1>1. Init => UpdateInv
  BY DEF Init, UpdateInv
<1>2. IInv /\ UpdateInv /\ [Next]_vars => UpdateInv'
  BY UpdatesStayUndoable
<1>3. IInv /\ UpdateInv /\ [Next]_vars => [(pc = "restore" /\ pc' = "idle") => Rows' = snap]_vars
  BY RestoredChunkIsPast
<1> QED
  BY <1>1, <1>2, <1>3, Invariance, PTL DEF Spec, ChunkRestored

\* An Extend or ExtendEx of one chunk that reports a failure leaves the rows,
\* their vectors, their occupants and the tombstones as it found them.
THEOREM FailedInsertsLeaveNoTrace ==
  ASSUME Bounded, Batch <= Chunk
  PROVE  Spec => AllOrNothing
<1>1. Init => RowInv /\ ExtendInv /\ FreshInv
  BY RowsAtFirst DEF Init, ExtendInv, FreshInv, InExtend, Claiming
<1>2. IInv /\ RowInv /\ ExtendInv /\ FreshInv /\ [Next]_vars
        => RowInv' /\ ExtendInv' /\ FreshInv'
  BY RowsStayWhole, InsertsStayUndoable, NewIdsStayFresh
<1>3. IInv /\ ExtendInv /\ FreshInv /\ [Next]_vars
        => [(pc \in {"relinkExtend", "unwind"} /\ pc' = "idle" /\ acked' = acked)
             => Rows' = snap]_vars
  BY FailedInsertIsPast
<1> QED
  BY <1>1, <1>2, <1>3, Invariance, PTL DEF Spec, AllOrNothing

=============================================================================
