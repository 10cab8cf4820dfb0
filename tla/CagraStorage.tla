---------------------------- MODULE CagraStorage ----------------------------
(***************************************************************************)
(* Where a CAGRA index keeps its vectors (src/neighbors/graphs.cpp): in    *)
(* fp32, in fp16 with an int8 mirror of them when they allow one, or       *)
(* nowhere, after DetachDataset; and the PQ codes made of them.  Updates,  *)
(* inserts, quantization, Detach and Attach, saving and loading and        *)
(* calibration share them.  An update and an insert work chunk by chunk:   *)
(* one exclusive phase of `rw` writes the rows of the chunk one by one,    *)
(* the repair searches with `rw` released, and succeeds, reports a failure *)
(* or throws; the codes are made anew only after the last chunk.  A        *)
(* search, which holds `rw` shared for its whole call, falls between any   *)
(* two exclusive phases and needs no step of its own.                      *)
(*                                                                         *)
(* Abstracted: a vector is a value, Half[v] is what fp16 makes of it, and  *)
(* Bytes are the values whose components are whole numbers of 0 .. 255; a  *)
(* code is the vector it was made of; edges, generations, the free list    *)
(* and the size of the bitset are those of CagraGraph and CagraSlots.      *)
(***************************************************************************)
EXTENDS Integers, Sequences, FiniteSets, SequencesExt

CONSTANTS
  Threads,     \* the callers
  NoOne,       \* nobody holds `writer`
  Vec,         \* the vectors
  Half,        \* the fp16 rounding of each vector
  Bytes,       \* the vectors an int8 mirror can hold
  Storages,    \* the storages an index may be built with (ovvsCagraStorage)
  F16Mode,     \* OVVS_CAGRA_F16: "off", "on" or "force"
  InitRows,    \* rows of the freshly built index
  MaxRows,     \* the most rows an index may have (2^31 - 1 in the code)
  Batch,       \* bound: rows in one call
  Chunks,      \* the rows a mutation chunk may have (cagra_mutate_chunk)
  MaxCalls,    \* bound: calls over the life of the index
  Habits       \* what callers do beyond what the tests do, see below

ASSUME CagraStorageAssumption ==
  /\ NoOne \notin Threads
  /\ Half \in [Vec -> Vec]
  /\ \A v \in Vec : Half[Half[v]] = Half[v]
  /\ Bytes \subseteq {v \in Vec : Half[v] = v}
  /\ Storages \subseteq {"auto", "fp32", "fp16", "fp16_if_lossless"}
  /\ F16Mode \in {"off", "on", "force"}
  /\ InitRows \in Nat \ {0} /\ MaxRows \in Nat /\ MaxCalls \in Nat
  /\ InitRows <= MaxRows
  /\ Batch \in Nat \ {0} /\ Chunks \subseteq Nat \ {0}
     \* "overlap": others act between a call's test for a dataset and its lock;
     \* "attach_live": attach to an index that has its vectors;
     \* "attach_other": attach vectors other than those of the rows;
     \* "save_busy": save while a mutation is under way;
     \* "repeat": name one id twice in an update.
  /\ Habits \subseteq {"overlap", "attach_live", "attach_other", "save_busy", "repeat"}

VARIABLES
  \* CagraIndex: Dataset::x and x16, mirror8 and mirror8_ok, Dataset::n,
  \* has_dataset, codes (empty while not quantized), the set bits of deleted.
  ds, n, hasDataset, codes, dead,
  \* CagraSync::writer, the call that holds it and what the call is about to do;
  \* the rows at entry and the size of its chunks; how many rows its earlier chunks
  \* wrote and which ones; the rows of this chunk written so far with what they held,
  \* and how many of them the undo has been through.
  writer, call, phase, originalN, size, base, done, chunk, undone,
  \* Calls that have tested for a dataset and not yet taken their lock.
  pending,
  \* The file of the last save.
  file,
  \* History: the vector of each row that the last chunk to stand gave it, the rows
  \* that calls which failed have changed since the codes were made, calls so far,
  \* and whether some call read or wrote vectors that are not there.
  want, unencoded, calls, stray

index == <<ds, n, hasDataset, codes, dead>>
mutation == <<writer, call, phase, originalN, size, base, done, chunk, undone>>
vars == <<index, mutation, pending, file, want, unencoded, calls, stray>>

Idle == [op |-> "none"]
NoFile == [saved |-> FALSE]
NoRows == [x |-> <<>>, x16 |-> <<>>, mirror |-> <<>>, mirrorOk |-> FALSE]
Rounded(rows) == [i \in DOMAIN rows |-> Half[rows[i]]]

-----------------------------------------------------------------------------
(* The vectors.                                                            *)

\* cagra_build_mirror8.
Mirrored(d) ==
  LET fits == d.x16 # <<>> /\ \A i \in DOMAIN d.x16 : d.x16[i] \in Bytes
  IN [d EXCEPT !.mirror = IF fits THEN d.x16 ELSE <<>>, !.mirrorOk = fits]

\* cagra_convert_to_f16.
Converted(d) == Mirrored([d EXCEPT !.x16 = Rounded(d.x), !.x = <<>>])

Lossless(d) == \A i \in DOMAIN d.x : Half[d.x[i]] = d.x[i]

\* Mutant: rounds stored vectors on load.
FinalizedLossy(d, lossy) == IF F16Mode = "off" \/ d.x = <<>> THEN d ELSE Converted(d)

\* cagra_finalize_storage.
Finalized(d, lossy) ==
  IF \/ F16Mode = "off" \/ d.x = <<>>
     \/ ~lossy /\ F16Mode # "force" /\ ~Lossless(d)
  THEN d ELSE Converted(d)

\* cagra_finalize_storage_build.
Built(rows, storage) ==
  LET d == [NoRows EXCEPT !.x = rows]
  IN CASE storage = "auto" -> Finalized(d, TRUE)
       [] storage = "fp32" -> d
       [] storage = "fp16" -> Converted(d)
       [] storage = "fp16_if_lossless" -> IF Lossless(d) THEN Converted(d) ELSE d

Present == hasDataset /\ (ds.x # <<>> \/ ds.x16 # <<>>)

\* cagra_storage: the rows an fp32 or fp16 walk reads.
Stored == IF ds.x # <<>> THEN ds.x ELSE ds.x16

\* Mutant: the mirror is left behind.
WrittenNoMirror(d, s, v) ==
  IF d.x # <<>> THEN [d EXCEPT !.x[s] = v] ELSE [d EXCEPT !.x16[s] = Half[v]]

\* cagra_write_row.
Written(d, s, v) ==
  IF d.x # <<>> THEN [d EXCEPT !.x[s] = v]
  ELSE LET h == [d EXCEPT !.x16[s] = Half[v]]
       IN IF ~d.mirrorOk THEN h
          ELSE IF Half[v] \in Bytes THEN [h EXCEPT !.mirror[s] = Half[v]]
          ELSE [h EXCEPT !.mirror = <<>>, !.mirrorOk = FALSE]

\* The row that cagra_write_row would touch exists.
InBounds(d, s) == s <= Len(IF d.x # <<>> THEN d.x ELSE d.x16)

\* cagra_append_row: the rows as they are grown before the new one is written.
\* The fp32 branch writes as it grows.
Grown(d, v) ==
  IF d.x16 # <<>>
  THEN [d EXCEPT !.x16 = Append(@, Half[v]),
                 !.mirror = IF d.mirrorOk THEN Append(@, Half[v]) ELSE @]
  ELSE [d EXCEPT !.x = Append(@, v)]

\* Mutant: an fp16 row of an insert that failed stays.
TruncatedFp32(d, m) == IF d.x = <<>> THEN d ELSE [d EXCEPT !.x = SubSeq(@, 1, m)]

\* The tail of a failed insert.
Truncated(d, m) ==
  IF d.x16 # <<>>
  THEN [d EXCEPT !.x16 = SubSeq(@, 1, m), !.mirror = IF d.mirrorOk THEN SubSeq(@, 1, m) ELSE @]
  ELSE [d EXCEPT !.x = SubSeq(@, 1, m)]

\* Mutant: an update leaves the codes of its rows.
EncodedNever(rows) == codes

\* cagra_pq_encode_all, once the index is quantized.
Encoded(rows) == IF codes = <<>> THEN <<>> ELSE rows

Init ==
  \E rows \in [1 .. InitRows -> Vec], storage \in Storages :
    /\ ds = Built(rows, storage)
    /\ n = InitRows /\ hasDataset = TRUE /\ codes = <<>> /\ dead = {}
    /\ writer = NoOne /\ call = Idle /\ phase = "idle" /\ originalN = 0
    /\ size = 0 /\ base = 0 /\ done = {} /\ chunk = <<>> /\ undone = 0
    /\ pending = [t \in Threads |-> Idle] /\ file = NoFile
    /\ want = rows /\ unencoded = {} /\ calls = 0 /\ stray = FALSE

-----------------------------------------------------------------------------
(* Entering a call.                                                        *)

\* Nobody stands between its test and its lock, unless callers overlap.
Calm == "overlap" \in Habits \/ \A t \in Threads : pending[t] = Idle

\* A step of somebody other than those who wait for their lock.
Quiet == ~stray /\ Calm

\* Nobody holds `rw` exclusive.
Shared == phase \notin {"write", "undo"}

\* Update, ExtendEx, Quantize and Calibrate test for the dataset with no lock.
MayEnter(t) ==
  /\ Quiet /\ calls < MaxCalls /\ pending[t] = Idle /\ writer # t
  /\ "overlap" \in Habits \/ writer = NoOne
  /\ Present

Enter(t, c) ==
  /\ MayEnter(t)
  /\ pending' = [pending EXCEPT ![t] = c]
  /\ calls' = calls + 1
  /\ UNCHANGED <<index, mutation, file, want, unencoded, stray>>

\* What a caller may ask for: up to Batch members of S.
Requests(S) == UNION {[1 .. k -> S] : k \in 1 .. Batch}

Distinct(q) == \A j, k \in DOMAIN q : q[j] = q[k] => j = k

EnterUpdate(t, slots, vecs) ==
  /\ "repeat" \in Habits \/ Distinct(slots)
  /\ Enter(t, [op |-> "update", slots |-> slots, vecs |-> vecs])
EnterInsert(t, vecs, ids) == Enter(t, [op |-> "insert", vecs |-> vecs, wantIds |-> ids])
EnterQuantize(t) == Enter(t, [op |-> "quantize"])
EnterCalibrate(t) ==
  n > Cardinality(dead) + 1 /\ Enter(t, [op |-> "calibrate", rows |-> n])

\* `writer` is taken by a call that passed its test.
Lock(t, op) ==
  /\ ~stray /\ writer = NoOne /\ pending[t].op = op
  /\ pending' = [pending EXCEPT ![t] = Idle]

\* cagra_resolve_id, without generations.
Resolves(s) == s \in 1 .. n

\* The arguments of an update or an insert, examined under `writer`.
Accepted(c) ==
  \/ c.op = "update" /\ \A i \in DOMAIN c.slots : Resolves(c.slots[i])
  \/ c.op = "insert" /\ n + Len(c.vecs) <= MaxRows

-----------------------------------------------------------------------------
(* Mutations.                                                              *)

\* The call returns, with whatever status.
Return ==
  /\ writer' = NoOne /\ call' = Idle /\ phase' = "idle" /\ originalN' = 0
  /\ size' = 0 /\ base' = 0 /\ done' = {} /\ chunk' = <<>> /\ undone' = 0

Begin(t) ==
  /\ \E op \in {"update", "insert"} : Lock(t, op)
  /\ Accepted(pending[t])
  /\ writer' = t /\ call' = pending[t] /\ phase' = "write" /\ originalN' = n
  /\ size' \in Chunks
  /\ UNCHANGED <<index, base, done, chunk, undone, file, want, unencoded, calls, stray>>

Reject(t) ==
  /\ \E op \in {"update", "insert"} : Lock(t, op)
  /\ ~Accepted(pending[t])
  /\ UNCHANGED <<index, mutation, file, want, unencoded, calls, stray>>

\* A row is overwritten.  Beyond the vectors there are, that is memory of others.
Write(d, s, v) ==
  \/ InBounds(d, s) /\ ds' = Written(d, s, v) /\ UNCHANGED stray
  \/ ~InBounds(d, s) /\ ds' = d /\ stray' = TRUE

\* Mutant: the row is saved after it was overwritten.
BeforeTooLate(s, v) == IF ds.x # <<>> THEN v ELSE Half[v]

\* What a row holds before v is written into it.
Before(s, v) == IF InBounds(ds, s) THEN Stored[s] ELSE v

\* The next row of the call, and whether the chunk has its rows.
NextRow == base + Len(chunk) + 1
ChunkFull == Len(chunk) = size \/ NextRow > Len(call.vecs)

\* An insert claims tombstones while there are some, for a caller that takes ids back.
Claims == call.op = "insert" /\ call.wantIds /\ dead # {}

\* A step of the holder of `writer`.
Doing(t, p) == Quiet /\ writer = t /\ phase = p

\* One more row of the chunk.
Noted(kind, s, v, before) ==
  chunk' = Append(chunk, [kind |-> kind, slot |-> s, vec |-> v, prev |-> before])

\* Update overwrites a row it has saved.
WriteRow(t) ==
  /\ Doing(t, "write") /\ call.op = "update" /\ ~ChunkFull
  /\ LET s == call.slots[NextRow]
         v == call.vecs[NextRow]
     IN Write(ds, s, v) /\ Noted("update", s, v, Before(s, v))
  /\ UNCHANGED <<n, hasDataset, codes, dead, writer, call, phase, originalN, size, base, done,
                 undone, pending, file, want, unencoded, calls>>

\* ExtendEx claims a tombstone.
ClaimRow(t) ==
  /\ Doing(t, "write") /\ Claims /\ ~ChunkFull
  /\ LET v == call.vecs[NextRow]
     IN \E s \in dead :
          /\ Write(ds, s, v) /\ Noted("claim", s, v, Before(s, v))
          /\ dead' = dead \ {s}
  /\ UNCHANGED <<n, hasDataset, codes, writer, call, phase, originalN, size, base, done,
                 undone, pending, file, want, unencoded, calls>>

\* Otherwise it appends a row.
AppendRow(t) ==
  /\ Doing(t, "write") /\ call.op = "insert" /\ ~Claims /\ ~ChunkFull
  /\ LET v == call.vecs[NextRow]
     IN /\ \/ ds.x16 # <<>> /\ Write(Grown(ds, v), n + 1, v)
           \/ ds.x16 = <<>> /\ ds' = Grown(ds, v) /\ UNCHANGED stray
        /\ Noted("append", n + 1, v, v)
  /\ n' = n + 1
  /\ UNCHANGED <<hasDataset, codes, dead, writer, call, phase, originalN, size, base, done,
                 undone, pending, file, want, unencoded, calls>>

EndWrite(t) ==
  /\ Doing(t, "write") /\ ChunkFull
  /\ phase' = "repair"
  /\ UNCHANGED <<index, writer, call, originalN, size, base, done, chunk, undone,
                 pending, file, want, unencoded, calls, stray>>

\* The rows of the chunk that hold their new vectors, and those vectors: of an id
\* named twice, the later one.
Standing == {k \in DOMAIN chunk : k > undone \/ chunk[k].kind = "append"}
Touched == {chunk[k].slot : k \in Standing}
LastOf(i) ==
  CHOOSE k \in Standing : chunk[k].slot = i /\ \A j \in Standing : chunk[j].slot = i => j <= k
Stood == [i \in 1 .. n |-> IF i \in Touched THEN chunk[LastOf(i)].vec ELSE want[i]]

\* The repair of the chunk succeeded: its rows are alive, and the chunk stands
\* whatever becomes of the next one.
Repaired(t) ==
  /\ Doing(t, "repair")
  /\ dead' = dead \ Touched
  /\ want' = Stood
  /\ base' = base + Len(chunk) /\ done' = done \cup Touched /\ chunk' = <<>>
  /\ phase' = IF base' = Len(call.vecs) THEN "encode" ELSE "write"
  /\ UNCHANGED <<ds, n, hasDataset, codes, writer, call, originalN, size, undone,
                 pending, file, unencoded, calls, stray>>

\* After the last chunk the codes are made anew, and the call succeeds.
Acknowledged(t) ==
  /\ Doing(t, "encode")
  /\ codes' = Encoded(Stored)
  /\ unencoded' = {}
  /\ Return
  /\ UNCHANGED <<ds, n, hasDataset, dead, pending, file, want, calls, stray>>

RepairFails(t) ==
  /\ Doing(t, "repair")
  /\ phase' = "undo"
  /\ UNCHANGED <<index, writer, call, originalN, size, base, done, chunk, undone,
                 pending, file, want, unencoded, calls, stray>>

\* A row of the chunk is written back, in the order of the writes, and a claimed
\* row is a tombstone again.  An appended row waits for the tail.
UndoRow(t) ==
  /\ Doing(t, "undo") /\ undone < Len(chunk)
  /\ LET e == chunk[undone + 1]
     IN \/ e.kind = "append" /\ UNCHANGED <<ds, dead, stray>>
        \/ /\ e.kind # "append"
           /\ Write(ds, e.slot, e.prev)
           /\ dead' = IF e.kind = "claim" THEN dead \cup {e.slot} ELSE dead
  /\ undone' = undone + 1
  /\ UNCHANGED <<n, hasDataset, codes, writer, call, phase, originalN, size, base, done, chunk,
                 pending, file, want, unencoded, calls>>

\* Update returns at once: earlier chunks stand, and no code is made for them.
UpdateFailed(t) ==
  /\ Doing(t, "undo") /\ undone = Len(chunk) /\ call.op = "update"
  /\ unencoded' = unencoded \cup done
  /\ Return
  /\ UNCHANGED <<index, pending, file, want, calls, stray>>

\* ExtendEx releases `rw` before its tail.
EndUndo(t) ==
  /\ Doing(t, "undo") /\ undone = Len(chunk) /\ call.op = "insert"
  /\ phase' = "tail"
  /\ UNCHANGED <<index, writer, call, originalN, size, base, done, chunk, undone,
                 pending, file, want, unencoded, calls, stray>>

\* It truncates what it appended.  Rows that earlier chunks claimed stand.
InsertFailed(t) ==
  /\ Doing(t, "tail")
  /\ ds' = Truncated(ds, originalN)
  /\ n' = originalN
  /\ want' = SubSeq(want, 1, originalN)
  /\ unencoded' = (unencoded \cup done) \cap 1 .. originalN
  /\ Return
  /\ UNCHANGED <<hasDataset, codes, dead, pending, file, calls, stray>>

\* Where an allocation may throw: before a chunk and before a claim, in the repair,
\* after a row was given back (free_slots), and where the codes grow.
MayThrow ==
  \/ phase \in {"repair", "encode"}
  \/ phase = "write" /\ chunk = <<>>
  \/ phase = "write" /\ ~ChunkFull /\ Claims
  \/ phase = "undo" /\ undone > 0 /\ chunk[undone].kind = "claim"

\* The catch clauses only make the status: what was written stands.
Throws(t) ==
  /\ Quiet /\ writer = t /\ MayThrow
  /\ want' = Stood
  /\ unencoded' = unencoded \cup done \cup Touched
  /\ Return
  /\ UNCHANGED <<index, pending, file, calls, stray>>

\* Quantize: codebooks and codes are made on a copy under `writer`, then published.
Quantize(t) ==
  /\ Lock(t, "quantize")
  /\ \/ Stored # <<>> /\ codes' = Stored /\ unencoded' = {} /\ UNCHANGED stray
     \/ Stored = <<>> /\ stray' = TRUE /\ UNCHANGED <<codes, unencoded>>
     \/ UNCHANGED <<codes, unencoded, stray>>
  /\ UNCHANGED <<ds, n, hasDataset, dead, mutation, file, want, calls>>

Delete(t, s) ==
  /\ Quiet /\ calls < MaxCalls /\ writer = NoOne /\ Resolves(s)
  /\ dead' = dead \cup {s}
  /\ calls' = calls + 1
  /\ UNCHANGED <<ds, n, hasDataset, codes, mutation, pending, file, want, unencoded, stray>>

-----------------------------------------------------------------------------
(* The dataset comes and goes.                                             *)

Detach(t) ==
  /\ Quiet /\ calls < MaxCalls /\ writer = NoOne
  /\ ds' = NoRows
  /\ hasDataset' = FALSE
  /\ calls' = calls + 1
  /\ UNCHANGED <<n, codes, dead, mutation, pending, file, want, unencoded, stray>>

\* Attach leaves x16, the mirror and the codes as they are.
Attach(t, rows) ==
  /\ Quiet /\ calls < MaxCalls /\ writer = NoOne
  /\ "attach_live" \in Habits \/ ~Present
  /\ "attach_other" \in Habits \/ rows = want
  /\ ds' = [ds EXCEPT !.x = rows]
  /\ hasDataset' = TRUE
  /\ want' = rows
  /\ calls' = calls + 1
  /\ UNCHANGED <<n, codes, dead, mutation, pending, file, unencoded, stray>>

\* ovvsCagraSerializeEx holds `rw` shared, and not `writer`.
Save(t, includeDataset) ==
  /\ Quiet /\ calls < MaxCalls /\ writer # t
  /\ "save_busy" \in Habits \/ writer = NoOne
  /\ Shared
  /\ file' = [saved |-> TRUE, n |-> n, codes |-> codes, dead |-> dead,
              want |-> want, unencoded |-> unencoded, f16 |-> ds.x = <<>>,
              rows |-> IF includeDataset /\ hasDataset THEN Stored ELSE <<>>]
  /\ calls' = calls + 1
  /\ UNCHANGED <<index, mutation, pending, want, unencoded, stray>>

\* The index is destroyed, with no call in it, and loaded from its file.  A file with
\* fewer codes than rows, left by an insert that threw, is read past its codes.
Load ==
  /\ ~stray /\ file.saved /\ calls < MaxCalls
  /\ file.codes = <<>> \/ Len(file.codes) = file.n
  /\ writer = NoOne /\ \A t \in Threads : pending[t] = Idle
  /\ ds' = IF file.rows # <<>> /\ file.f16
           THEN Mirrored([NoRows EXCEPT !.x16 = file.rows])
           ELSE Finalized([NoRows EXCEPT !.x = file.rows], FALSE)
  /\ hasDataset' = (file.rows # <<>>)
  /\ n' = file.n /\ codes' = file.codes /\ dead' = file.dead
  /\ want' = file.want /\ unencoded' = file.unencoded
  /\ calls' = calls + 1
  /\ UNCHANGED <<mutation, pending, file, stray>>

\* Calibrate takes `rw` shared and reads as many rows as it counted before.
Calibrate(t) ==
  /\ ~stray /\ Shared /\ pending[t].op = "calibrate"
  /\ stray' = (pending[t].rows > Len(Stored))
  /\ pending' = [pending EXCEPT ![t] = Idle]
  /\ UNCHANGED <<index, mutation, file, want, unencoded, calls>>

Next ==
  \/ \E t \in Threads :
       \/ MayEnter(t) /\ \E vecs \in Requests(Vec) :
            \/ \E slots \in [DOMAIN vecs -> 1 .. MaxRows] : EnterUpdate(t, slots, vecs)
            \/ \E ids \in BOOLEAN : EnterInsert(t, vecs, ids)
       \/ EnterQuantize(t) \/ EnterCalibrate(t)
       \/ Begin(t) \/ Reject(t)
       \/ WriteRow(t) \/ ClaimRow(t) \/ AppendRow(t) \/ EndWrite(t)
       \/ Repaired(t) \/ Acknowledged(t) \/ RepairFails(t)
       \/ UndoRow(t) \/ UpdateFailed(t) \/ EndUndo(t) \/ InsertFailed(t) \/ Throws(t)
       \/ Quantize(t) \/ Calibrate(t)
       \/ \E s \in 1 .. MaxRows : Delete(t, s)
       \/ Detach(t)
       \/ \E rows \in [1 .. n -> Vec] : Attach(t, rows)
       \/ \E include \in BOOLEAN : Save(t, include)
  \/ Load

Spec == Init /\ [][Next]_vars

-----------------------------------------------------------------------------
(* Properties.                                                             *)

Rows == UNION {[1 .. m -> Vec] : m \in 0 .. MaxRows}

\* A row of the chunk: what was done to it, what was written and what it held.
Entry == [kind : {"update", "claim", "append"}, slot : 1 .. n, vec : Vec, prev : Vec]

IndexOK ==
  /\ ds \in [x : Rows, x16 : Rows, mirror : Rows, mirrorOk : BOOLEAN]
  /\ n \in 1 .. MaxRows /\ hasDataset \in BOOLEAN
  /\ codes \in Rows /\ dead \subseteq 1 .. n

MutationOK ==
  /\ writer \in Threads \cup {NoOne}
  /\ phase \in {"idle", "write", "repair", "undo", "tail", "encode"}
  /\ call.op \in {"none", "update", "insert"}
  /\ originalN \in 0 .. n /\ size \in Nat /\ base \in Nat /\ done \subseteq 1 .. n
  /\ chunk \in Seq(Entry) /\ undone \in 0 .. Len(chunk)

\* Every variable of the code keeps its type.
TypeOK ==
  /\ IndexOK
  /\ MutationOK
  /\ \A t \in Threads : pending[t].op \in {"none", "update", "insert", "quantize", "calibrate"}
  /\ calls \in 0 .. MaxCalls /\ stray \in BOOLEAN

\* A search that finds a dataset (Search tests under the shared lock, and then
\* walks Dataset::n rows) finds all the rows it walks, whatever phase a mutation
\* is in and however the vectors are stored.
SearchesFindTheirRows == ~stray /\ Present => Len(Stored) = n

\* The int8 mirror of an fp16 index, which the walks read in its place, holds
\* the rows of the index, through writes, growth, truncation, Detach and reload.
MirrorIsTheRows ==
  ds.mirrorOk => ds.mirror = ds.x16 /\ \A i \in DOMAIN ds.mirror : ds.mirror[i] \in Bytes

\* Between mutations each row holds, exactly in fp32, rounded once in fp16, the vector
\* of the last chunk that stands (graphs.cpp 2125): a chunk whose repair reported a
\* failure has left no trace, of an update or of an insert, whatever it overwrote;
\* chunks before it stand, but for the rows an insert appended; a chunk whose repair
\* threw stands although the call failed.  Files saved between mutations bring the
\* same rows back.
RowsKeepTheirVectors ==
  ~stray /\ writer = NoOne /\ Present =>
    /\ Len(want) = n
    /\ \A i \in 1 .. n : Stored[i] = IF ds.x # <<>> THEN want[i] ELSE Half[want[i]]

\* Between mutations the PQ codes were made of the vectors of their rows, detached
\* or not, so a search of codes alone ranks the rows it reports: all but the rows
\* that chunks of failed calls have changed (graphs.cpp 2148, 2365 and the catch
\* clauses return before the codes are made), until a mutation or Quantize succeeds.
CodesEncodeTheRows ==
  ~stray /\ writer = NoOne /\ codes # <<>> =>
    \A i \in (1 .. n) \ unencoded : i <= Len(codes) /\ Half[codes[i]] = Half[want[i]]

\* The codes are those of all the rows: a call that failed in a later chunk, or threw,
\* breaks this, since it returns before the codes are made.
CodesEncodeAllRows ==
  ~stray /\ writer = NoOne /\ codes # <<>> =>
    Len(codes) = n /\ \A i \in 1 .. n : Half[codes[i]] = Half[want[i]]

\* Loading never rounds a vector that was saved in fp32, unless OVVS_CAGRA_F16 is
\* "force": the process that loads may have set the mode for other indexes.
LoadKeepsVectors ==
  [][Load => F16Mode = "force" \/ \A i \in DOMAIN file.rows : Stored'[i] = file.rows[i]]_vars

\* The rows a search may report.  On a quantized index tombstones are taken out with
\* the fp32 rescoring, and stay in without it.
Reported ==
  IF codes # <<>> THEN IF hasDataset /\ ds.x # <<>> THEN (1 .. n) \ dead ELSE 1 .. n
  ELSE IF Present THEN (1 .. n) \ dead ELSE {}

\* Deleted rows "are never returned as results" (ovvs.h 353), between mutations.
DeletedNeverReported == writer = NoOne => Reported \cap dead = {}

\* No call reads or writes vectors that are not there.  The comment on CagraSync
\* (graphs.cpp 129) has `writer` enforce one mutation at a time; Update, ExtendEx,
\* Quantize and Calibrate test for the dataset before they take their lock.
NoStrayAccess == ~stray

=============================================================================
